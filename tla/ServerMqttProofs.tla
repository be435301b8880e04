--------------------------- MODULE ServerMqttProofs ---------------------------
(***************************************************************************)
(* The safety properties of ServerMqtt, for every length of the command    *)
(* queue and of the event queue and every bound.                           *)
(*                                                                         *)
(* One inductive invariant per property, each on top of the ones before    *)
(* it: types, then one command per thread and where it is (ThreadsInv),    *)
(* then what is on the wire (WireInv), then what the broker has received   *)
(* (ReceivedInv), and, apart from these, what the tasks believe of an open *)
(* connection (OnlineInv).  On all of them rests what becomes of the       *)
(* subscription when a connection is lost once (OneLossInv).               *)
(***************************************************************************)
EXTENDS ServerMqtt, TLAPS

USE ConstantsAssumption

Has(s, e)       == \E i \in DOMAIN s : s[i] = e
AtMostOne(s, e) == \A i, j \in DOMAIN s : s[i] = e /\ s[j] = e => i = j

\* Types, and that a publication is counted before it is under way.
TypeInv ==
    /\ TypeOK
    /\ client["publish"].pc # "idle" => published >= 1

Outstanding(c) == c \in pending \/ Has(queue, c)
InLoop(c)      == client[c].pc \in {"waiting", "enqueueing", "completing"}

\* A thread's command is in one place at most, and from the moment it is queued until it
\* is concluded the thread waits for it.  A thread that goes around has seen a failure.
OneCommand(c) ==
    /\ c \in pending => ~Has(queue, c)
    /\ AtMostOne(queue, c)
    /\ Outstanding(c) => client[c].pc = "completing" /\ ~client[c].completed
    /\ client[c].completed => client[c].pc = "completing"
    /\ InLoop(c) /\ client[c].received /\ client[c].status = "success" => client[c].completed

ThreadsInv == \A c \in Clients : OneCommand(c)

\* What is under way belongs to the open connection and to a pending command, which is on
\* its way to the broker or back, not both.
WireInv ==
    /\ sock # "open" => wire = {} /\ acks = {}
    /\ conn = "connecting" => sock = "none"
    /\ wire \cap Clients \subseteq pending
    /\ \A a \in acks : a.command \in Clients => a.command \in pending /\ a.command \notin wire
    /\ \A a, b \in acks : a.command = b.command /\ a.command \in Clients => a = b

Succeeded(c)  == client[c].completed /\ client[c].status = "success"
PublishAcked  == \E a \in acks : a.command = "publish"

\* The broker has what is acknowledged, and has got a publication on the open connection
\* only if its acknowledgement is on its way or seen: the thread has nothing to send again.
ReceivedInv ==
    /\ \A a \in acks : a.command = "publish" => a.status = "success"
    /\ PublishAcked \/ Succeeded("publish") => received[published] >= 1
    /\ FinishedMeansReceived
    /\ \A m \in Publications : m > published => taken[m] = 0
    /\ AtMostOncePerConnection
    /\ (sock = "open" /\ InLoop("publish") /\ taken[published] >= 1)
           => PublishAcked \/ Succeeded("publish")

\* As long as the connection is open nobody flags a disconnection, and the connected event
\* is on its way or handled once the connection task has gone back to serving.
OnlineInv == sock = "open" =>
    /\ agent \in {"waiting", "looping"}
    /\ ~Has(events, "disconnected")
    /\ conn \in {"clearing", "setting", "posting", "serving", "processing"}
    /\ conn # "clearing" => DISCONNECTED \notin bits
    /\ conn \in {"posting", "serving", "processing"} => CONNECTED \in bits
    /\ conn \in {"serving", "processing"} =>
           appConnected \/ Has(events, "connected")

---------------------------------------------------------------------------
\* What an element added at the end of a queue changes of its contents.
LEMMA Appended ==
    ASSUME NEW S, NEW s \in Seq(S), NEW e \in S
    PROVE  /\ Append(s, e) \in Seq(S) /\ Len(Append(s, e)) = Len(s) + 1
           /\ \A c : Has(Append(s, e), c) <=> Has(s, c) \/ c = e
           /\ \A c : AtMostOne(s, c) /\ (c = e => ~Has(s, c)) => AtMostOne(Append(s, e), c)
<1>1. /\ Append(s, e) \in Seq(S) /\ Len(Append(s, e)) = Len(s) + 1
      /\ \A i \in 1..Len(s) : Append(s, e)[i] = s[i]
      /\ Append(s, e)[Len(s) + 1] = e
  OBVIOUS
<1>2. DOMAIN s = 1..Len(s) /\ DOMAIN Append(s, e) = 1..(Len(s) + 1) /\ Len(s) \in Nat
  BY <1>1
<1>3. ASSUME NEW c PROVE Has(Append(s, e), c) <=> Has(s, c) \/ c = e
  <2>1. 1..(Len(s) + 1) = (1..Len(s)) \cup {Len(s) + 1}
    BY <1>2
  <2>. QED
    BY <1>1, <1>2, <2>1 DEF Has
<1>4. ASSUME NEW c, AtMostOne(s, c), c = e => ~Has(s, c) PROVE AtMostOne(Append(s, e), c)
  BY <1>1, <1>2, <1>4 DEF Has, AtMostOne
<1>. QED
  BY <1>1, <1>3, <1>4

\* What the removal of the first element of a queue changes of its contents.
LEMMA Removed ==
    ASSUME NEW S, NEW s \in Seq(S), s # <<>>
    PROVE  /\ Tail(s) \in Seq(S) /\ Len(Tail(s)) = Len(s) - 1 /\ Head(s) \in S
           /\ Has(s, Head(s))
           /\ \A c : Has(Tail(s), c) => Has(s, c)
           /\ \A c : Has(s, c) => c = Head(s) \/ Has(Tail(s), c)
           /\ \A c : AtMostOne(s, c) => AtMostOne(Tail(s), c) /\ (c = Head(s) => ~Has(Tail(s), c))
<1>1. /\ Tail(s) \in Seq(S) /\ Len(Tail(s)) = Len(s) - 1 /\ Head(s) = s[1] /\ Len(s) \in Nat \ {0}
      /\ \A i \in 1..(Len(s) - 1) : Tail(s)[i] = s[i + 1]
  OBVIOUS
<1>2. DOMAIN s = 1..Len(s) /\ DOMAIN Tail(s) = 1..(Len(s) - 1)
  BY <1>1
<1>3. Head(s) \in S /\ Has(s, Head(s))
  BY <1>1, <1>2 DEF Has
<1>4. ASSUME NEW c, Has(Tail(s), c) PROVE Has(s, c)
  BY <1>1, <1>2, <1>4 DEF Has
<1>5. ASSUME NEW c, Has(s, c) PROVE c = Head(s) \/ Has(Tail(s), c)
  <2>1. PICK i \in 1..Len(s) : s[i] = c
    BY <1>2, <1>5 DEF Has
  <2>2. CASE i = 1
    BY <2>1, <2>2, <1>1
  <2>3. CASE i # 1
    <3>1. i - 1 \in 1..(Len(s) - 1) /\ Tail(s)[i - 1] = s[i]
      BY <2>3, <1>1
    <3>. QED
      BY <3>1, <2>1, <1>2 DEF Has
  <2>. QED
    BY <2>2, <2>3
<1>6. ASSUME NEW c, AtMostOne(s, c) PROVE AtMostOne(Tail(s), c) /\ (c = Head(s) => ~Has(Tail(s), c))
  <2>1. \A i \in 1..(Len(s) - 1) : i + 1 \in 1..Len(s) /\ i + 1 # 1 /\ 1 \in 1..Len(s)
    BY <1>1
  <2>. QED
    BY <1>1, <1>2, <1>6, <2>1 DEF Has, AtMostOne
<1>. QED
  BY <1>1, <1>3, <1>4, <1>5, <1>6

---------------------------------------------------------------------------
(***************************************************************************)
(* What the steps of the threads and the callbacks do to client.           *)
(***************************************************************************)
Results == {"success", "failed"}

LEMMA Concluded ==
    ASSUME TypeOK, NEW C, NEW status \in Results, Conclude(C, status)
    PROVE  /\ client' \in [Clients -> Client]
           /\ \A c \in Clients :
                /\ client'[c].pc = client[c].pc /\ client'[c].received = client[c].received
                /\ c \notin C => client'[c] = client[c]
                /\ c \in C => client'[c].completed /\ client'[c].status = status
<1>1. client' = [c \in Clients |-> IF c \in C
                                   THEN [client[c] EXCEPT !.status = status, !.completed = TRUE]
                                   ELSE client[c]]
  BY DEF Conclude
<1>2. ASSUME NEW m \in Client
      PROVE  /\ [m EXCEPT !.status = status, !.completed = TRUE] \in Client
             /\ [m EXCEPT !.status = status, !.completed = TRUE].pc = m.pc
             /\ [m EXCEPT !.status = status, !.completed = TRUE].received = m.received
             /\ [m EXCEPT !.status = status, !.completed = TRUE].status = status
             /\ [m EXCEPT !.status = status, !.completed = TRUE].completed = TRUE
  BY DEF Client, Results
<1>3. \A c \in Clients : client[c] \in Client
  BY DEF TypeOK
<1>. QED
  BY <1>1, <1>2, <1>3

LEMMA Stepped ==
    ASSUME TypeOK, NEW c \in Clients, NEW next \in Client, Step(c, next)
    PROVE  /\ client' \in [Clients -> Client]
           /\ client'[c] = next
           /\ \A d \in Clients \ {c} : client'[d] = client[d]
BY DEF TypeOK, Step

LEMMA Conditioned ==
    ASSUME TypeOK, NEW c \in Clients, NEW m \in Client, Conditions(c, m)
    PROVE  /\ client' \in [Clients -> Client]
           /\ \A d \in Clients \ {c} : client'[d] = client[d]
           /\ client'[c].received = m.received /\ client'[c].status = m.status
           /\ client'[c].completed = m.completed
           /\ CASE ~(m.received /\ m.status = "success") ->
                       client'[c].pc = "waiting" /\ finished' = finished
                [] m.received /\ m.status = "success" /\ c = "publish" ->
                       client'[c].pc = "idle" /\ finished' = finished \cup {published}
                [] OTHER -> client'[c].pc = "receiving" /\ finished' = finished
<1> DEFINE pc == IF ~(m.received /\ m.status = "success") THEN "waiting"
                 ELSE IF c = "publish" THEN "idle" ELSE "receiving"
           next == [m EXCEPT !.pc = pc]
<1>1. next \in Client /\ Step(c, next)
  BY DEF Conditions, Client
<1>2. client' \in [Clients -> Client] /\ client'[c] = next
      /\ \A d \in Clients \ {c} : client'[d] = client[d]
  BY <1>1, Stepped
<1>3. /\ next.received = m.received /\ next.status = m.status /\ next.completed = m.completed
      /\ next.pc = pc
  BY DEF Client
<1>. QED
  BY <1>2, <1>3 DEF Conditions

---------------------------------------------------------------------------
(***************************************************************************)
(* Types.                                                                  *)
(***************************************************************************)
LEMMA ThreadTypes ==
    ASSUME TypeInv, NEW c \in Clients, Call(c) \/ Thread(c) \/ MQTTreceive
    PROVE  TypeInv'
<1>0. TypeOK /\ client[c] \in Client /\ "publish" \in Clients /\ "subscribe" \in Clients
      /\ client["subscribe"] \in Client /\ published \in Nat /\ c \in Commands
  BY DEF TypeInv, TypeOK, Clients, Commands, Acknowledged
<1>1. CASE Call(c)
  <2>1. [client[c] EXCEPT !.pc = "waiting", !.received = FALSE, !.status = "success"] \in Client
    BY <1>0 DEF Client
  <2>2. client' \in [Clients -> Client]
        /\ (c # "publish" => client'["publish"] = client["publish"])
    BY <1>0, <1>1, <2>1, Stepped DEF Call
  <2>3. /\ published' \in 0..MaxPublishes /\ finished' \subseteq 1..published'
        /\ client'["publish"].pc # "idle" => published' >= 1
    <3>1. CASE c = "publish"
      <4>1. published' = published + 1 /\ published < MaxPublishes /\ finished' = finished
        BY <1>1, <3>1 DEF Call, history
      <4>2. published \in 0..MaxPublishes /\ finished \subseteq 1..published
        BY <1>0 DEF TypeOK
      <4>. QED
        BY <4>1, <4>2
    <3>2. CASE c # "publish"
      BY <1>0, <1>1, <2>2, <3>2 DEF Call, TypeInv, TypeOK, history
    <3>. QED
      BY <3>1, <3>2
  <2>. QED
    BY <1>0, <1>1, <2>2, <2>3
       DEF Call, TypeInv, TypeOK, network, manager, agentLib, bounds, history
<1>2. CASE SeeConnected(c)
  <2>1. [client[c] EXCEPT !.pc = "enqueueing"] \in Client
    BY <1>0 DEF Client
  <2>2. client' \in [Clients -> Client]
        /\ (client'["publish"].pc # "idle" => client["publish"].pc # "idle")
    BY <1>0, <1>2, <2>1, Stepped DEF SeeConnected
  <2>. QED
    BY <1>0, <1>2, <2>2
       DEF SeeConnected, TypeInv, TypeOK, network, manager, agentLib, bounds, history
<1>3. CASE Enqueue(c)
  <2>1. [client[c] EXCEPT !.pc = "completing"] \in Client
    BY <1>0 DEF Client
  <2>2. client' \in [Clients -> Client]
        /\ (client'["publish"].pc # "idle" => client["publish"].pc # "idle")
    BY <1>0, <1>3, <2>1, Stepped DEF Enqueue
  <2>3. queue' \in Seq(Commands) /\ Len(queue') <= QueueLength
    BY <1>0, <1>3, Appended DEF Enqueue, TypeOK
  <2>4. UNCHANGED <<network, manager, pending, subscription, incoming, published, bounds, history>>
    BY <1>3 DEF Enqueue
  <2>. QED
    BY <1>0, <2>2, <2>3, <2>4 DEF TypeInv, TypeOK, network, manager, bounds, history
<1>4. ASSUME NEW m \in Client, Conditions(c, m), client[c].pc # "idle",
             UNCHANGED <<network, manager, agentLib, incoming, published, bounds, received, taken,
                       connects>>
      PROVE  TypeInv'
  <2>1. /\ client' \in [Clients -> Client]
        /\ \A d \in Clients \ {c} : client'[d] = client[d]
        /\ finished' = finished \/ (c = "publish" /\ finished' = finished \cup {published})
    BY <1>0, <1>4, Conditioned
  <2>2. c = "publish" => published \in 1..published
    BY <1>0, <1>4 DEF TypeInv
  <2>3. finished' \subseteq 1..published
    BY <1>0, <2>1, <2>2 DEF TypeOK
  <2>. QED
    BY <1>0, <1>4, <2>1, <2>3 DEF TypeInv, TypeOK, network, manager, agentLib, bounds
<1>5. CASE EnqueueFails(c)
  BY <1>0, <1>4, <1>5 DEF EnqueueFails
<1>6. CASE SeeCompleted(c)
  <2>1. [client[c] EXCEPT !.received = TRUE, !.completed = FALSE] \in Client
    BY <1>0 DEF Client
  <2>. QED
    BY <1>4, <1>6, <2>1 DEF SeeCompleted
<1>7. CASE MQTTreceive
  <2>1. [client["subscribe"] EXCEPT !.pc = "idle"] \in Client
    BY <1>0 DEF Client
  <2>2. client' \in [Clients -> Client] /\ client'["publish"] = client["publish"]
    BY <1>0, <1>7, <2>1, Stepped DEF MQTTreceive
  <2>. QED
    BY <1>0, <1>7, <2>2
       DEF MQTTreceive, TypeInv, TypeOK, network, manager, agentLib, bounds, history
<1>. QED
  BY <1>1, <1>2, <1>3, <1>5, <1>6, <1>7 DEF Thread

LEMMA AgentTypes ==
    ASSUME TypeInv, AgentTask \/ Acknowledge
    PROVE  TypeInv'
<1>0. TypeOK /\ "publish" \in Clients
  BY DEF TypeInv, Clients
<1>1. queue # <<>> => Tail(queue) \in Seq(Commands) /\ Len(Tail(queue)) <= QueueLength
  BY <1>0, Removed DEF TypeOK
<1>2. CASE StartLoop
  BY <1>0, <1>2 DEF StartLoop, TypeInv, TypeOK, AgentPcs, network, agentLib, bounds, history
<1>3. CASE Send
  BY <1>0, <1>1, <1>3 DEF Send, TypeInv, TypeOK, manager, bounds, history
<1>4. CASE SendFails
  <2>1. client' \in [Clients -> Client] /\ client'["publish"].pc = client["publish"].pc
    BY <1>0, <1>4, Concluded DEF SendFails, Results
  <2>. QED
    BY <1>0, <1>1, <1>4, <2>1 DEF SendFails, TypeInv, TypeOK, AgentPcs, network, bounds, history
<1>5. CASE ProcessLoop
  BY <1>0, <1>1, <1>5 DEF ProcessLoop, TypeInv, TypeOK, network, manager, bounds, history
<1>6. CASE LoopFails
  BY <1>0, <1>6 DEF LoopFails, TypeInv, TypeOK, AgentPcs, network, agentLib, bounds, history
<1>7. CASE AgentDisconnected
  <2>1. Post("disconnected") => events' \in Seq(Events) /\ Len(events') <= EventQueueSize
    BY <1>0, Appended DEF TypeOK, Post, Events
  <2>. QED
    BY <1>0, <1>7, <2>1 DEF AgentDisconnected, TypeInv, TypeOK, AgentPcs, ClearBit, SetBit,
       network, agentLib, bounds, history
<1>8. ASSUME NEW a \in acks, HandleAck(a) PROVE TypeInv'
  <2>1. client' \in [Clients -> Client] /\ client'["publish"].pc = client["publish"].pc
        /\ subscription' \in BOOLEAN
    <3>1. CASE a.command \in pending
      BY <1>0, <1>8, <3>1, Concluded DEF HandleAck, TypeOK, Results
    <3>2. CASE a.command \notin pending
      BY <1>0, <1>8, <3>2 DEF HandleAck, TypeOK
    <3>. QED
      BY <3>1, <3>2
  <2>. QED
    BY <1>0, <1>8, <2>1 DEF HandleAck, TypeInv, TypeOK, manager, bounds, history
<1>. QED
  BY <1>2, <1>3, <1>4, <1>5, <1>6, <1>7, <1>8 DEF AgentTask, Acknowledge

\* What a post leaves in the event queue.
LEMMA Posted ==
    ASSUME TypeOK, NEW e \in Events, Post(e)
    PROVE  /\ events' \in Seq(Events) /\ Len(events') <= EventQueueSize
           /\ \A f : Has(events', f) <=> Has(events, f) \/ f = e
BY Appended DEF TypeOK, Post

LEMMA ConnectionTypes ==
    ASSUME TypeInv, ConnectionTask
    PROVE  TypeInv'
<1>0. TypeOK /\ "publish" \in Clients /\ {"loop", "resubscribe"} \subseteq Commands
  BY DEF TypeInv, Clients, Commands, Acknowledged, Subscribes
<1>1. Len(queue) < QueueLength => \A e \in {"loop", "resubscribe"} :
          Append(queue, e) \in Seq(Commands) /\ Len(Append(queue, e)) <= QueueLength
  BY <1>0, Appended DEF TypeOK
<1>2. CASE StartConnecting
  BY <1>0, <1>2 DEF StartConnecting, Disconnect, TypeInv, TypeOK, ConnPcs, agentLib, bounds, history
<1>3. AfterConnect \in [session : BOOLEAN, subscribed : BOOLEAN] /\ SessionPresent \in BOOLEAN
  BY <1>0 DEF AfterConnect, SessionPresent, TypeOK
<1>4. CASE Connect
  <2>1. client' \in [Clients -> Client] /\ client'["publish"].pc = client["publish"].pc
    BY <1>0, <1>4, Concluded DEF Connect, Results, TypeOK
  <2>2. queue' \in Seq(Commands) /\ Len(queue') <= QueueLength
    BY <1>0, <1>1, <1>4 DEF Connect, TypeOK
  <2>3. pending' \subseteq Acknowledged /\ wire' \subseteq Acknowledged
    BY <1>0, <1>4 DEF Connect, TypeOK
  <2>4. /\ conn' = "clearing" /\ cleanSession' = FALSE /\ sock' = "open"
        /\ connects' = connects + 1 /\ broker' = AfterConnect
        /\ taken' = [m \in Publications |-> 0]
        /\ UNCHANGED <<link, acks, bits, appConnected, events, agent, subscription, incoming,
                       published, bounds, finished, received>>
    BY <1>4 DEF Connect, Established
  <2>5. /\ connects' \in Nat /\ broker' \in [session : BOOLEAN, subscribed : BOOLEAN]
        /\ taken' \in [Publications -> Nat]
    BY <1>0, <1>3, <2>4 DEF TypeOK
  <2>6. UNCHANGED <<published, messages, drops, selectErrors, refusals, finished, received>>
    BY <2>4 DEF bounds
  <2>. QED
    BY <1>0, <2>1, <2>2, <2>3, <2>4, <2>5, <2>6 DEF TypeInv, TypeOK, ConnPcs
<1>5. CASE ResumeFails
  <2>1. client' \in [Clients -> Client] /\ client'["publish"].pc = client["publish"].pc
    BY <1>0, <1>5, Concluded DEF ResumeFails, Results
  <2>2. drops' \in 0..MaxDrops
    BY <1>0, <1>5 DEF ResumeFails, TypeOK
  <2>3. broker' \in [session : BOOLEAN, subscribed : BOOLEAN]
    BY <1>3, <1>5 DEF ResumeFails
  <2>4. pending' = {}
        /\ UNCHANGED <<link, sock, wire, acks, manager, queue, subscription, incoming, published,
                       messages, selectErrors, refusals, history>>
    BY <1>5 DEF ResumeFails
  <2>5. /\ UNCHANGED <<link, sock, wire, acks, queue, subscription, incoming>>
        /\ UNCHANGED <<bits, appConnected, events, conn, cleanSession, agent>>
        /\ UNCHANGED <<published, messages, selectErrors, refusals, finished, received, taken, connects>>
    BY <2>4 DEF manager, history
  <2>6. pending' \subseteq Acknowledged
    BY <2>4
  <2>. QED
    BY <1>0, <2>1, <2>2, <2>3, <2>5, <2>6 DEF TypeInv, TypeOK
<1>6. CASE FlagConnected
  BY <1>0, <1>6, Posted DEF FlagConnected, TypeInv, TypeOK, ConnPcs, ClearBit, SetBit, Events,
     network, agentLib, bounds, history
<1>7. CASE FlagError
  BY <1>0, <1>7, Posted DEF FlagError, TypeInv, TypeOK, ConnPcs, ClearBit, SetBit, Events,
     network, agentLib, bounds, history
<1>8. CASE SeeDisconnected \/ LoopProcessed
  BY <1>0, <1>8 DEF SeeDisconnected, LoopProcessed, TypeInv, TypeOK, ConnPcs, network, agentLib,
     bounds, history
<1>9. CASE SelectReadable
  <2>1. queue' \in Seq(Commands) /\ Len(queue') <= QueueLength
    BY <1>0, <1>1, <1>9 DEF SelectReadable, TypeOK
  <2>. QED
    BY <1>0, <1>9, <2>1 DEF SelectReadable, TypeInv, TypeOK, ConnPcs, network, bounds, history
<1>10. CASE SelectError
  BY <1>0, <1>10 DEF SelectError, TypeInv, TypeOK, ConnPcs, network, agentLib, history
<1>. QED
  BY <1>2, <1>4, <1>5, <1>6, <1>7, <1>8, <1>9, <1>10 DEF ConnectionTask

LEMMA NetworkTypes ==
    ASSUME TypeInv, HandleEvent \/ BrokerTask \/ WifiUp \/ Environment
    PROVE  TypeInv'
<1>0. TypeOK
  BY DEF TypeInv
<1>1. CASE HandleEvent
  <2>1. Tail(events) \in Seq(Events) /\ Len(Tail(events)) <= EventQueueSize
    BY <1>0, <1>1, Removed DEF HandleEvent, TypeOK
  <2>2. bits' \subseteq {WIFI_CONNECTED, CONNECTED, DISCONNECTED} /\ appConnected' \in BOOLEAN
    BY <1>0, <1>1 DEF HandleEvent, prvWifiEventHandler, prvCoreMqttAgentEventHandler, TypeOK,
       SetBit, ClearBit
  <2>. QED
    BY <1>0, <1>1, <2>1, <2>2 DEF HandleEvent, TypeInv, TypeOK, network, agentLib, bounds, history
<1>2. CASE BrokerTakesPublish
  <2>1. [command |-> "publish", status |-> "success"] \in [command : Acknowledged, status : Results]
    BY DEF Acknowledged, Clients, Results
  <2>2. received' \in [Publications -> Nat] /\ taken' \in [Publications -> Nat]
    <3>1. \A m \in Publications : received[m] + 1 \in Nat /\ taken[m] + 1 \in Nat
      BY <1>0 DEF TypeOK
    <3>2. /\ received' = [received EXCEPT ![published] = received[published] + 1]
          /\ taken' = [taken EXCEPT ![published] = taken[published] + 1]
      BY <1>2 DEF BrokerTakesPublish
    <3>. QED
      BY <1>0, <3>1, <3>2 DEF TypeOK
  <2>. QED
    BY <1>0, <1>2, <2>1, <2>2
       DEF BrokerTakesPublish, Results, TypeInv, TypeOK, manager, agentLib, bounds
<1>3. ASSUME NEW c \in Subscribes, NEW refuse \in BOOLEAN, NEW content,
             BrokerTakesSubscribe(c, refuse, content)
      PROVE  TypeInv'
  <2>1. [command |-> c, status |-> IF refuse THEN "failed" ELSE "success"]
            \in [command : Acknowledged, status : {"success", "failed"}]
    BY DEF Acknowledged
  <2>2. refusals' \in 0..MaxRefusals
    <3>1. refusals' = refusals \/ (refusals < MaxRefusals /\ refusals' = refusals + 1)
      BY <1>3 DEF BrokerTakesSubscribe
    <3>2. refusals \in 0..MaxRefusals /\ MaxRefusals \in Nat
      BY <1>0 DEF TypeOK, ConstantsAssumption
    <3>. QED
      BY <3>1, <3>2
  <2>4. broker' \in [session : BOOLEAN, subscribed : BOOLEAN]
    <3>1. PICK now \in BOOLEAN : broker' = [broker EXCEPT !.subscribed = now]
      BY <1>3 DEF BrokerTakesSubscribe
    <3>. QED
      BY <1>0, <3>1 DEF TypeOK
  <2>3. acks' \subseteq [command : Acknowledged, status : {"success", "failed"}]
    BY <1>0, <1>3, <2>1 DEF BrokerTakesSubscribe, TypeOK
  <2>5. /\ wire' = wire \ {c}
        /\ UNCHANGED <<link, sock, manager, agentLib, client, incoming, published, messages,
                       drops, selectErrors, history>>
    BY <1>3 DEF BrokerTakesSubscribe
  <2>6. wire' \subseteq Acknowledged
    BY <1>0, <2>5 DEF TypeOK
  <2>7. UNCHANGED <<link, sock, bits, appConnected, events, conn, cleanSession, agent, queue, pending,
                    subscription, client, incoming, published, messages, drops, selectErrors,
                    finished, received, taken, connects>>
    BY <2>5 DEF manager, agentLib, history
  <2>. QED
    BY <1>0, <2>2, <2>3, <2>4, <2>6, <2>7 DEF TypeInv, TypeOK
<1>4. CASE WifiUp \/ WifiDown
  <2>1. events' \in Seq(Events) /\ Len(events') <= EventQueueSize
    BY <1>0, <1>4, Posted DEF WifiUp, WifiDown, Events
  <2>4. link' \in BOOLEAN
    BY <1>4 DEF WifiUp, WifiDown
  <2>2. CASE WifiUp
    <3>1. UNCHANGED <<sock, wire, acks, broker, bits, appConnected, conn, cleanSession, agent,
                      agentLib, client, incoming, published, bounds, history>>
      BY <2>2 DEF WifiUp
    <3>. QED
      BY <1>0, <2>1, <2>4, <3>1 DEF TypeInv, TypeOK, agentLib, bounds, history
  <2>3. CASE WifiDown
    <3>1. drops' \in 0..MaxDrops /\ sock' \in {"none", "open", "broken"} /\ wire' = {} /\ acks' = {}
      BY <1>0, <2>3 DEF WifiDown, Disconnect, TypeOK
    <3>2. UNCHANGED <<broker, bits, appConnected, conn, cleanSession, agent, agentLib, client,
                      incoming, published, messages, selectErrors, refusals, history>>
      BY <2>3 DEF WifiDown
    <3>. QED
      BY <1>0, <2>1, <2>4, <3>1, <3>2 DEF TypeInv, TypeOK, agentLib, history
  <2>. QED
    BY <1>4, <2>2, <2>3
<1>5. CASE ConnectionBreaks
  BY <1>0, <1>5 DEF ConnectionBreaks, Disconnect, TypeInv, TypeOK, manager, agentLib, history
<1>6. CASE ConnackLost
  <2>1. AfterConnect \in [session : BOOLEAN, subscribed : BOOLEAN]
    BY <1>0 DEF AfterConnect, TypeOK
  <2>. QED
    BY <1>0, <1>6, <2>1 DEF ConnackLost, TypeInv, TypeOK, manager, agentLib, history
<1>7. CASE SessionExpires
  BY <1>0, <1>7 DEF SessionExpires, TypeInv, TypeOK, manager, agentLib, bounds, history
<1>8. ASSUME NEW content, IncomingPublish(content) PROVE TypeInv'
  <2>1. incoming' \in BOOLEAN
    BY <1>0, <1>8 DEF IncomingPublish, TypeOK
  <2>. QED
    BY <1>0, <1>8, <2>1 DEF IncomingPublish, TypeInv, TypeOK, network, manager, agentLib, history
<1>. QED
  BY <1>1, <1>2, <1>3, <1>4, <1>5, <1>6, <1>7, <1>8 DEF BrokerTask, Environment

LEMMA TypeInvariant == Spec => []TypeInv
<1>1. ASSUME Init PROVE TypeInv
  <2>1. published = 0 /\ client["publish"].pc = "idle"
    BY <1>1 DEF Init, Clients
  <2>2. /\ client \in [Clients -> Client] /\ broker \in [session : BOOLEAN, subscribed : BOOLEAN]
        /\ received \in [Publications -> Nat] /\ taken \in [Publications -> Nat]
    BY <1>1 DEF Init, Client
  <2>3. /\ events \in Seq(Events) /\ Len(events) <= EventQueueSize
        /\ queue \in Seq(Commands) /\ Len(queue) <= QueueLength
    <3>1. \A S : <<>> \in Seq(S) /\ Len(<<>>) = 0
      OBVIOUS
    <3>. QED
      BY <1>1, <3>1 DEF Init, ConstantsAssumption
  <2>4. /\ published \in 0..MaxPublishes /\ messages \in 0..MaxMessages /\ drops \in 0..MaxDrops
        /\ selectErrors \in 0..MaxSelectErrors /\ refusals \in 0..MaxRefusals /\ connects \in Nat
    BY <1>1 DEF Init, ConstantsAssumption
  <2>5. /\ link \in BOOLEAN /\ appConnected \in BOOLEAN /\ cleanSession \in BOOLEAN
        /\ subscription \in BOOLEAN /\ incoming \in BOOLEAN
    BY <1>1 DEF Init
  <2>6. /\ bits = {DISCONNECTED} /\ sock = "none" /\ conn = "waiting" /\ agent = "waiting"
        /\ pending = {} /\ wire = {} /\ acks = {} /\ finished = {}
    BY <1>1 DEF Init
  <2>. QED
    BY <2>1, <2>2, <2>3, <2>4, <2>5, <2>6 DEF TypeInv, TypeOK, ConnPcs, AgentPcs
<1>2. TypeInv /\ [Next]_vars => TypeInv'
  <2>1. TypeInv /\ UNCHANGED vars => TypeInv'
    BY DEF TypeInv, TypeOK, vars, network, manager, agentLib, bounds, history
  <2>. QED
    BY <2>1, ThreadTypes, AgentTypes, ConnectionTypes, NetworkTypes
       DEF Next, Clients
<1>. QED
  BY <1>1, <1>2, PTL DEF Spec

\* Every variable keeps its type: neither queue exceeds its capacity, and only
\* publications that were started are finished.
THEOREM TypeCorrect == Spec => []TypeOK
<1>1. TypeInv => TypeOK
  BY DEF TypeInv
<1>. QED
  BY <1>1, TypeInvariant, PTL

---------------------------------------------------------------------------
(***************************************************************************)
(* One command per thread.                                                 *)
(***************************************************************************)

\* A step that leaves the thread alone, puts its command nowhere and may take it away.
LEMMA Undisturbed ==
    ASSUME NEW c \in Clients, OneCommand(c), client'[c] = client[c],
           c \in pending' => c \in pending, Has(queue', c) => Has(queue, c), AtMostOne(queue', c)
    PROVE  OneCommand(c)'
BY DEF OneCommand, Outstanding, InLoop

LEMMA ThreadCommands ==
    ASSUME TypeInv, ThreadsInv, NEW d \in Clients, Call(d) \/ Thread(d) \/ MQTTreceive
    PROVE  ThreadsInv'
<1>0. TypeOK /\ d \in Commands /\ client \in [Clients -> Client] /\ "subscribe" \in Clients
  BY DEF TypeInv, TypeOK, Clients, Commands, Acknowledged
<1>1. ASSUME NEW c \in Clients, UNCHANGED <<pending, queue>>, client'[c] = client[c]
      PROVE  OneCommand(c)'
  BY <1>1, Undisturbed DEF ThreadsInv, OneCommand
<1>2. CASE Call(d)
  <2> DEFINE next == [client[d] EXCEPT !.pc = "waiting", !.received = FALSE, !.status = "success"]
  <2>1. next \in Client /\ next.pc = "waiting" /\ next.received = FALSE
        /\ next.completed = client[d].completed
    BY <1>0 DEF Client
  <2>2. client'[d] = next /\ \A c \in Clients \ {d} : client'[c] = client[c]
    BY <1>0, <1>2, <2>1, Stepped DEF Call
  <2>3. UNCHANGED <<pending, queue>> /\ client[d].pc = "idle"
    BY <1>2 DEF Call, agentLib
  <2>4. OneCommand(d)'
    BY <2>1, <2>2, <2>3 DEF ThreadsInv, OneCommand, Outstanding, InLoop
  <2>. QED
    BY <1>1, <2>2, <2>3, <2>4 DEF ThreadsInv
<1>3. CASE SeeConnected(d)
  <2> DEFINE next == [client[d] EXCEPT !.pc = "enqueueing"]
  <2>1. next \in Client /\ next.pc = "enqueueing" /\ next.received = client[d].received
        /\ next.status = client[d].status /\ next.completed = client[d].completed
    BY <1>0 DEF Client
  <2>2. client'[d] = next /\ \A c \in Clients \ {d} : client'[c] = client[c]
    BY <1>0, <1>3, <2>1, Stepped DEF SeeConnected
  <2>3. UNCHANGED <<pending, queue>> /\ client[d].pc = "waiting"
    BY <1>3 DEF SeeConnected, agentLib
  <2>4. OneCommand(d)'
    BY <2>1, <2>2, <2>3 DEF ThreadsInv, OneCommand, Outstanding, InLoop
  <2>. QED
    BY <1>1, <2>2, <2>3, <2>4 DEF ThreadsInv
<1>4. CASE Enqueue(d)
  <2> DEFINE next == [client[d] EXCEPT !.pc = "completing"]
  <2>1. next \in Client /\ next.pc = "completing" /\ next.received = client[d].received
        /\ next.status = client[d].status /\ next.completed = client[d].completed
    BY <1>0 DEF Client
  <2>2. client'[d] = next /\ \A c \in Clients \ {d} : client'[c] = client[c]
    BY <1>0, <1>4, <2>1, Stepped DEF Enqueue
  <2>3. /\ UNCHANGED pending /\ client[d].pc = "enqueueing"
        /\ \A c : Has(queue', c) <=> Has(queue, c) \/ c = d
        /\ \A c : AtMostOne(queue, c) /\ (c = d => ~Has(queue, c)) => AtMostOne(queue', c)
    <3>1. queue' = Append(queue, d) /\ UNCHANGED pending /\ client[d].pc = "enqueueing"
      BY <1>4 DEF Enqueue
    <3>2. queue \in Seq(Commands) /\ d \in Commands
      BY <1>0 DEF TypeOK, Clients, Commands, Acknowledged
    <3>. QED
      BY ONLY <3>1, <3>2, Appended
  <2>4. OneCommand(d)'
    BY <2>1, <2>2, <2>3 DEF ThreadsInv, OneCommand, Outstanding, InLoop
  <2>5. ASSUME NEW c \in Clients \ {d} PROVE OneCommand(c)'
    BY <2>2, <2>3, Undisturbed DEF ThreadsInv, OneCommand
  <2>. QED
    BY <2>4, <2>5 DEF ThreadsInv
<1>5. CASE EnqueueFails(d) \/ SeeCompleted(d)
  <2>1. [client[d] EXCEPT !.received = TRUE, !.completed = FALSE] \in Client
        /\ [client[d] EXCEPT !.received = TRUE, !.completed = FALSE].completed = FALSE
    BY <1>0 DEF Client
  <2>2. PICK m \in Client : Conditions(d, m) /\ ~m.completed
    BY <1>0, <1>5, <2>1 DEF EnqueueFails, SeeCompleted, ThreadsInv, OneCommand
  <2>3. /\ \A c \in Clients \ {d} : client'[c] = client[c]
        /\ ~client'[d].completed
        /\ InLoop(d)' => ~(client'[d].received /\ client'[d].status = "success")
    BY <1>0, <2>2, Conditioned DEF InLoop
  <2>4. UNCHANGED <<pending, queue>> /\ ~Outstanding(d)
    BY <1>5 DEF EnqueueFails, SeeCompleted, ThreadsInv, OneCommand, agentLib
  <2>5. OneCommand(d)'
    BY <2>3, <2>4 DEF ThreadsInv, OneCommand, Outstanding
  <2>. QED
    BY <1>1, <2>3, <2>4, <2>5 DEF ThreadsInv
<1>6. CASE MQTTreceive
  <2> DEFINE next == [client["subscribe"] EXCEPT !.pc = "idle"]
  <2>1. next \in Client /\ next.pc = "idle" /\ next.completed = client["subscribe"].completed
    BY <1>0 DEF Client
  <2>2. client'["subscribe"] = next /\ \A c \in Clients \ {"subscribe"} : client'[c] = client[c]
    BY <1>0, <1>6, <2>1, Stepped DEF MQTTreceive
  <2>3. UNCHANGED <<pending, queue>> /\ client["subscribe"].pc = "receiving"
    BY <1>6 DEF MQTTreceive, agentLib
  <2>4. OneCommand("subscribe")'
    BY <1>0, <2>1, <2>2, <2>3 DEF ThreadsInv, OneCommand, Outstanding, InLoop
  <2>. QED
    BY <1>1, <2>2, <2>3, <2>4 DEF ThreadsInv
<1>. QED
  BY <1>2, <1>3, <1>4, <1>5, <1>6 DEF Thread

\* Commands concluded while pending are no longer outstanding.
LEMMA ConcludedCommands ==
    ASSUME TypeInv, ThreadsInv, NEW C \in SUBSET Acknowledged, NEW status \in Results,
           Conclude(C, status), \A c \in C \cap Clients : Outstanding(c),
           \A c \in Clients : /\ c \in pending' => c \in pending \ C
                              /\ Has(queue', c) => Has(queue, c)
                              /\ c \in C => ~Has(queue', c)
                              /\ AtMostOne(queue', c)
    PROVE  ThreadsInv'
<1>1. TypeOK
  BY DEF TypeInv
<1>2. ASSUME NEW c \in Clients, c \notin C PROVE OneCommand(c)'
  BY <1>1, <1>2, Concluded, Undisturbed DEF ThreadsInv
<1>3. ASSUME NEW c \in Clients, c \in C PROVE OneCommand(c)'
  <2>1. client'[c].pc = "completing" /\ client'[c].completed
    BY <1>1, <1>3, Concluded DEF ThreadsInv, OneCommand
  <2>2. c \notin pending' /\ ~Has(queue', c) /\ AtMostOne(queue', c)
    BY <1>3
  <2>. QED
    BY <2>1, <2>2 DEF OneCommand, Outstanding
<1>. QED
  BY <1>2, <1>3 DEF ThreadsInv

LEMMA AgentCommands ==
    ASSUME TypeInv, ThreadsInv, AgentTask \/ Acknowledge
    PROVE  ThreadsInv'
<1>0. TypeOK /\ queue \in Seq(Commands)
  BY DEF TypeInv, TypeOK
<1>1. ASSUME UNCHANGED <<pending, queue, client>> PROVE ThreadsInv'
  BY <1>1, Undisturbed DEF ThreadsInv, OneCommand
<1>2. ASSUME queue # <<>>, queue' = Tail(queue)
      PROVE  \A c \in Clients : /\ Has(queue', c) => Has(queue, c)
                                /\ c = Head(queue) => Has(queue, c) /\ ~Has(queue', c)
                                /\ AtMostOne(queue', c)
  BY <1>0, <1>2, Removed DEF ThreadsInv, OneCommand
<1>3. CASE StartLoop \/ LoopFails \/ AgentDisconnected
  BY <1>1, <1>3 DEF StartLoop, LoopFails, AgentDisconnected, agentLib
<1>4. CASE Send
  <2>1. /\ queue # <<>> /\ queue' = Tail(queue) /\ pending' = pending \cup {Head(queue)}
        /\ client' = client
    BY <1>4 DEF Send
  <2>2. ASSUME NEW c \in Clients, c # Head(queue) PROVE OneCommand(c)'
    BY <1>2, <2>1, <2>2, Undisturbed DEF ThreadsInv
  <2>3. ASSUME NEW c \in Clients, c = Head(queue) PROVE OneCommand(c)'
    BY <1>2, <2>1, <2>3 DEF ThreadsInv, OneCommand, Outstanding, InLoop
  <2>. QED
    BY <2>2, <2>3 DEF ThreadsInv
<1>5. CASE SendFails
  <2>1. /\ queue # <<>> /\ queue' = Tail(queue) /\ pending' = pending /\ Head(queue) \in Acknowledged
        /\ Conclude({Head(queue)}, "failed")
    BY <1>5 DEF SendFails
  <2>2. \A c \in Clients : c = Head(queue) => Outstanding(c) /\ c \notin pending
    BY <1>2, <2>1 DEF Outstanding, ThreadsInv, OneCommand
  <2>. QED
    BY <1>2, <2>1, <2>2, ConcludedCommands DEF Results
<1>6. CASE ProcessLoop
  BY <1>2, <1>6, Undisturbed DEF ProcessLoop, ThreadsInv
<1>7. ASSUME NEW a \in acks, HandleAck(a) PROVE ThreadsInv'
  <2>1. CASE a.command \in pending
    <3>1. /\ queue' = queue /\ pending' = pending \ {a.command}
          /\ Conclude({a.command}, a.status)
      BY <1>7, <2>1 DEF HandleAck
    <3>2. a.command \in Acknowledged /\ a.status \in Results
      BY <1>0 DEF TypeOK, Results
    <3>3. \A c \in Clients : AtMostOne(queue, c) /\ (c \in pending => ~Has(queue, c))
      BY DEF ThreadsInv, OneCommand
    <3>. QED
      BY <2>1, <3>1, <3>2, <3>3, ConcludedCommands DEF Outstanding
  <2>2. CASE a.command \notin pending
    BY <1>1, <1>7, <2>2 DEF HandleAck
  <2>. QED
    BY <2>1, <2>2
<1>. QED
  BY <1>3, <1>4, <1>5, <1>6, <1>7 DEF AgentTask, Acknowledge

LEMMA ConnectionCommands ==
    ASSUME TypeInv, ThreadsInv, ConnectionTask
    PROVE  ThreadsInv'
<1>0. TypeOK /\ queue \in Seq(Commands) /\ pending \subseteq Acknowledged
  BY DEF TypeInv, TypeOK
<1>9. ASSUME NEW e \in {"loop", "resubscribe"}, queue' = queue \/ queue' = Append(queue, e)
      PROVE  \A c \in Clients : (Has(queue', c) => Has(queue, c)) /\ AtMostOne(queue', c)
  <2>1. e \in Commands /\ \A c \in Clients : c # e
    BY DEF Clients, Commands, Acknowledged, Subscribes
  <2>2. \A c \in Clients : AtMostOne(queue, c)
    BY DEF ThreadsInv, OneCommand
  <2>3. CASE queue' = queue
    BY <2>2, <2>3
  <2>4. CASE queue' = Append(queue, e)
    BY <1>0, <2>1, <2>2, <2>4, Appended
  <2>. QED
    BY <1>9, <2>3, <2>4
<1>1. ASSUME UNCHANGED <<pending, client>>, queue' = queue \/ queue' = Append(queue, "loop")
                                            \/ queue' = Append(queue, "resubscribe")
      PROVE  ThreadsInv'
  <2>1. \A c \in Clients : (Has(queue', c) => Has(queue, c)) /\ AtMostOne(queue', c)
    BY <1>1, <1>9
  <2>. QED
    BY <1>1, <2>1, Undisturbed DEF ThreadsInv
<1>2. CASE StartConnecting \/ FlagConnected \/ SeeDisconnected \/ LoopProcessed \/ SelectError \/ FlagError
  BY <1>1, <1>2 DEF StartConnecting, FlagConnected, SeeDisconnected, LoopProcessed, SelectError,
     FlagError, agentLib
<1>3. CASE SelectReadable
  BY <1>1, <1>3 DEF SelectReadable
<1>4. ASSUME NEW C \in SUBSET pending, Conclude(C, "failed"), pending' = pending \ C,
             queue' = queue \/ queue' = Append(queue, "resubscribe")
      PROVE  ThreadsInv'
  <2>1. \A c \in Clients : (Has(queue', c) => Has(queue, c)) /\ AtMostOne(queue', c)
    BY <1>4, <1>9
  <2>2. \A c \in C \cap Clients : Outstanding(c) /\ ~Has(queue, c)
    BY DEF ThreadsInv, OneCommand, Outstanding
  <2>. QED
    BY <1>0, <1>4, <2>1, <2>2, ConcludedCommands DEF Results
<1>5. CASE Connect
  <2>1. queue' = queue \/ queue' = Append(queue, "resubscribe")
    BY <1>5 DEF Connect
  <2>2. CASE cleanSession
    BY <1>1, <1>5, <2>1, <2>2 DEF Connect
  <2>3. CASE ~cleanSession
    <3>1. ClearedOnResume \subseteq pending
      BY DEF ClearedOnResume
    <3>2. Conclude(ClearedOnResume, "failed") /\ pending' = pending \ ClearedOnResume
      BY <1>5, <2>3 DEF Connect
    <3>. QED
      BY <1>4, <2>1, <3>1, <3>2
  <2>. QED
    BY <2>2, <2>3
<1>6. CASE ResumeFails
  BY <1>4, <1>6 DEF ResumeFails
<1>. QED
  BY <1>2, <1>3, <1>5, <1>6 DEF ConnectionTask

LEMMA ThreadsInvariant == Spec => []ThreadsInv
<1>1. ASSUME Init PROVE ThreadsInv
  <2>1. \A c : ~Has(queue, c) /\ AtMostOne(queue, c)
    BY <1>1 DEF Init, Has, AtMostOne
  <2>. QED
    BY <1>1, <2>1 DEF Init, ThreadsInv, OneCommand, Outstanding, InLoop
<1>2. TypeInv /\ ThreadsInv /\ [Next]_vars => ThreadsInv'
  <2> SUFFICES ASSUME TypeInv, ThreadsInv, [Next]_vars PROVE ThreadsInv'
    OBVIOUS
  <2>1. ASSUME UNCHANGED <<pending, queue, client>> PROVE ThreadsInv'
    BY <2>1, Undisturbed DEF ThreadsInv, OneCommand
  <2>2. CASE HandleEvent \/ BrokerTask \/ WifiUp \/ Environment
    <3>1. UNCHANGED <<pending, queue, client>>
      BY <2>2 DEF HandleEvent, BrokerTask, BrokerTakesPublish, BrokerTakesSubscribe, WifiUp,
         Environment, WifiDown, ConnectionBreaks, ConnackLost, SessionExpires, IncomingPublish, agentLib
    <3>. QED
      BY <2>1, <3>1
  <2>3. CASE UNCHANGED vars
    BY <2>1, <2>3 DEF vars, agentLib
  <2>4. CASE MQTTreceive
    BY <2>4, ThreadCommands DEF Clients
  <2>. QED
    BY <2>2, <2>3, <2>4, ThreadCommands, AgentCommands, ConnectionCommands DEF Next
<1>. QED
  BY <1>1, <1>2, TypeInvariant, PTL DEF Spec

\* A thread leaves prvPublishToTopic or prvSubscribeToTopic, whose stack holds the command's
\* context and arguments, only when the agent holds no command of it any more: neither a
\* lost connection nor a full queue nor a retry makes it abandon one.
THEOREM ContextCorrect == Spec => []ContextOutlivesCommand
<1>1. ThreadsInv => ContextOutlivesCommand
  BY DEF ThreadsInv, OneCommand, Outstanding, Has, ContextOutlivesCommand
<1>. QED
  BY <1>1, ThreadsInvariant, PTL

---------------------------------------------------------------------------
(***************************************************************************)
(* What is on the wire.                                                    *)
(***************************************************************************)
LEMMA WireSteps ==
    ASSUME TypeInv, ThreadsInv, WireInv, [Next]_vars
    PROVE  WireInv'
<1>0. /\ TypeOK /\ Clients = {"publish", "subscribe"} /\ sock \in {"none", "open", "broken"}
      /\ \A a \in acks : a.command \in Acknowledged
  BY DEF TypeInv, TypeOK, Clients
<1>1. ASSUME UNCHANGED <<sock, wire, acks, pending>>, conn' = "connecting" => conn = "connecting"
      PROVE  WireInv'
  BY <1>1 DEF WireInv
<1>2. ASSUME sock' # "open", wire' = {}, acks' = {}, conn' = "connecting" => sock' = "none"
      PROVE  WireInv'
  BY <1>2 DEF WireInv
<1>3. ASSUME NEW c \in Clients, Call(c) \/ Thread(c) \/ MQTTreceive PROVE WireInv'
  BY <1>1, <1>3 DEF Call, Thread, SeeConnected, Enqueue, EnqueueFails, SeeCompleted, MQTTreceive,
     network, manager, agentLib
<1>4. CASE AgentTask
  <2>1. CASE StartLoop \/ SendFails \/ ProcessLoop \/ LoopFails \/ AgentDisconnected
    BY <1>1, <2>1 DEF StartLoop, SendFails, ProcessLoop, LoopFails, AgentDisconnected, network,
       manager, agentLib
  <2>2. CASE Send
    <3>1. /\ queue # <<>> /\ sock' = sock /\ acks' = acks /\ conn' = conn
          /\ pending' = pending \cup {Head(queue)}
          /\ wire' = IF sock = "open" THEN wire \cup {Head(queue)} ELSE wire
      BY <2>2 DEF Send, manager
    <3>2. Head(queue) \in Clients => Head(queue) \notin pending
      BY <1>0, <3>1, Removed DEF TypeOK, ThreadsInv, OneCommand
    <3>. QED
      BY <3>1, <3>2 DEF WireInv
  <2>. QED
    BY <1>4, <2>1, <2>2 DEF AgentTask
<1>5. ASSUME NEW a \in acks, HandleAck(a) PROVE WireInv'
  <2>1. /\ acks' = acks \ {a} /\ pending' = pending \ {a.command}
        /\ UNCHANGED <<sock, wire, conn>>
    BY <1>5 DEF HandleAck, manager
  <2>. QED
    BY <2>1 DEF WireInv
<1>6. CASE ConnectionTask
  <2>1. CASE StartConnecting
    BY <1>2, <2>1 DEF StartConnecting, Disconnect
  <2>2. CASE Connect
    <3>1. acks' = {} /\ sock' = "open" /\ conn' = "clearing"
      BY <2>2 DEF Connect, Established, WireInv
    <3>2. wire' \subseteq pending'
      <4>1. CASE cleanSession
        BY <2>2, <4>1 DEF Connect, WireInv
      <4>2. CASE ~cleanSession
        BY <2>2, <4>2 DEF Connect
      <4>. QED
        BY <4>1, <4>2
    <3>. QED
      BY <3>1, <3>2 DEF WireInv
  <2>3. CASE ResumeFails
    BY <1>2, <2>3 DEF ResumeFails, WireInv, manager
  <2>4. CASE FlagConnected \/ SeeDisconnected \/ SelectReadable \/ LoopProcessed \/ SelectError \/ FlagError
    BY <1>1, <2>4 DEF FlagConnected, SeeDisconnected, SelectReadable, LoopProcessed, SelectError,
       FlagError, network, agentLib
  <2>. QED
    BY <1>6, <2>1, <2>2, <2>3, <2>4 DEF ConnectionTask
<1>7. CASE HandleEvent \/ WifiUp
  BY <1>1, <1>7 DEF HandleEvent, WifiUp, network, agentLib
<1>8. CASE BrokerTask
  <2>1. PICK c \in Acknowledged, status \in Results :
          /\ sock = "open" /\ c \in wire /\ wire' = wire \ {c}
          /\ acks' = acks \cup {[command |-> c, status |-> status]}
          /\ UNCHANGED <<sock, pending, conn>>
    BY <1>8 DEF BrokerTask, BrokerTakesPublish, BrokerTakesSubscribe, manager, agentLib,
       Acknowledged, Clients, Results
  <2>. QED
    BY <2>1 DEF WireInv
<1>9. CASE Environment
  <2>1. CASE WifiDown \/ ConnectionBreaks
    BY <1>0, <1>2, <2>1 DEF WifiDown, ConnectionBreaks, Disconnect, WireInv, manager
  <2>2. CASE ConnackLost \/ SessionExpires \/ \E content \in {"SOS/IN", "garbage"} : IncomingPublish(content)
    BY <1>1, <2>2 DEF ConnackLost, SessionExpires, IncomingPublish, network, manager, agentLib
  <2>. QED
    BY <1>9, <2>1, <2>2 DEF Environment
<1>10. CASE UNCHANGED vars
  BY <1>1, <1>10 DEF vars, network, manager, agentLib
<1>. QED
  BY <1>3, <1>4, <1>5, <1>6, <1>7, <1>8, <1>9, <1>10 DEF Next, Acknowledge, Clients

LEMMA WireInvariant == Spec => []WireInv
<1>1. Init => WireInv
  BY DEF Init, WireInv
<1>. QED
  BY <1>1, WireSteps, TypeInvariant, ThreadsInvariant, PTL DEF Spec

---------------------------------------------------------------------------
(***************************************************************************)
(* What the broker has received.                                           *)
(***************************************************************************)

\* A step by which the broker gets nothing and nothing is finished, and after which what
\* is acknowledged or has succeeded was so before.
LEMMA NothingReceived ==
    ASSUME TypeInv, ReceivedInv, UNCHANGED <<published, received, taken, finished, connects>>,
           acks' \subseteq acks, Succeeded("publish")' => PublishAcked \/ Succeeded("publish"),
           sock' = "open" => /\ sock = "open"
                             /\ InLoop("publish")' => InLoop("publish")
                             /\ PublishAcked \/ Succeeded("publish")
                                    => \/ PublishAcked' \/ Succeeded("publish")'
                                       \/ ~InLoop("publish")'
    PROVE  ReceivedInv'
<1>1. PublishAcked' => PublishAcked
  BY DEF PublishAcked
<1>. QED
  BY <1>1 DEF ReceivedInv, FinishedMeansReceived, AtMostOncePerConnection

LEMMA ThreadReceived ==
    ASSUME TypeInv, ThreadsInv, WireInv, ReceivedInv, NEW c \in Clients,
           Call(c) \/ Thread(c) \/ MQTTreceive
    PROVE  ReceivedInv'
<1>0. TypeOK /\ c \in Clients /\ client \in [Clients -> Client] /\ Clients = {"publish", "subscribe"}
  BY DEF TypeInv, TypeOK, Clients
<1>9. client[c] \in Client /\ client["subscribe"] \in Client
  BY <1>0
<1>1. ASSUME client'["publish"] = client["publish"],
             UNCHANGED <<sock, acks, published, received, taken, finished, connects>>
      PROVE  ReceivedInv'
  BY <1>1, NothingReceived DEF Succeeded, PublishAcked, InLoop
<1>2. CASE Call(c)
  <2> DEFINE next == [client[c] EXCEPT !.pc = "waiting", !.received = FALSE, !.status = "success"]
  <2>1. next \in Client /\ next.completed = client[c].completed
    BY <1>9 DEF Client
  <2>2. client'[c] = next /\ \A d \in Clients \ {c} : client'[d] = client[d]
    BY <1>0, <1>2, <2>1, Stepped DEF Call
  <2>3. UNCHANGED <<sock, acks, received, taken, finished, connects>> /\ client[c].pc = "idle"
    BY <1>2 DEF Call, network, history
  <2>4. CASE c = "publish"
    <3>1. published' = published + 1 /\ published' \in Publications
      <4>1. published < MaxPublishes /\ published' = published + 1
        BY <1>2, <2>4 DEF Call
      <4>2. published \in 0..MaxPublishes
        BY <1>0 DEF TypeOK
      <4>3. MaxPublishes \in Nat
        BY DEF ConstantsAssumption
      <4>. QED
        BY <4>1, <4>2, <4>3 DEF Publications
    <3>2. ~PublishAcked' /\ ~Succeeded("publish")'
      BY <1>0, <2>1, <2>2, <2>3, <2>4
         DEF WireInv, ThreadsInv, OneCommand, Outstanding, PublishAcked, Succeeded
    <3>3. taken'[published'] = 0 /\ \A m \in Publications : m > published' => taken'[m] = 0
      BY <1>0, <2>3, <3>1 DEF ReceivedInv, TypeOK, Publications
    <3>5. \A a \in acks' : a.command # "publish"
      BY <3>2 DEF PublishAcked
    <3>6. FinishedMeansReceived' /\ AtMostOncePerConnection'
      BY <2>3 DEF ReceivedInv, FinishedMeansReceived, AtMostOncePerConnection
    <3>. QED
      BY <3>2, <3>3, <3>5, <3>6 DEF ReceivedInv
  <2>5. CASE c # "publish"
    BY <1>0, <1>1, <1>2, <2>2, <2>3, <2>5 DEF Call
  <2>. QED
    BY <2>4, <2>5
<1>3. CASE SeeConnected(c) \/ Enqueue(c)
  <2>1. PICK pc \in {"enqueueing", "completing"} : Step(c, [client[c] EXCEPT !.pc = pc])
    BY <1>3 DEF SeeConnected, Enqueue
  <2> DEFINE next == [client[c] EXCEPT !.pc = pc]
  <2>2. next \in Client /\ next.completed = client[c].completed /\ next.status = client[c].status
    BY <1>9 DEF Client
  <2>3. client'[c] = next /\ \A d \in Clients \ {c} : client'[d] = client[d]
    BY <1>0, <2>1, <2>2, Stepped
  <2>4. UNCHANGED <<sock, acks, published, received, taken, finished, connects>> /\ InLoop(c)
    BY <1>3 DEF SeeConnected, Enqueue, network, history, InLoop
  <2>5. CASE c = "publish"
    BY <2>2, <2>3, <2>4, <2>5, NothingReceived DEF Succeeded, PublishAcked
  <2>6. CASE c # "publish"
    BY <1>0, <1>1, <2>3, <2>4, <2>6
  <2>. QED
    BY <2>5, <2>6
<1>4. CASE EnqueueFails(c) \/ SeeCompleted(c)
  <2> DEFINE seen == [client[c] EXCEPT !.received = TRUE, !.completed = FALSE]
  <2>0. /\ seen \in Client /\ ~seen.completed /\ seen.received
        /\ seen.status = client[c].status
    BY <1>9 DEF Client
  <2>1. PICK m \in Client : /\ Conditions(c, m) /\ ~m.completed /\ m.status = client[c].status
                            /\ m.received /\ m.status = "success" => client[c].completed
                            /\ client[c].completed => m.received
    <3>1. CASE EnqueueFails(c)
      BY <1>0, <1>9, <3>1 DEF EnqueueFails, ThreadsInv, OneCommand, InLoop
    <3>2. CASE SeeCompleted(c)
      BY <2>0, <3>2 DEF SeeCompleted
    <3>. QED
      BY <1>4, <3>1, <3>2
  <2>2. UNCHANGED <<sock, acks, published, received, taken, connects>> /\ InLoop(c)
    BY <1>4 DEF EnqueueFails, SeeCompleted, network, InLoop
  <2> DEFINE returns == m.received /\ m.status = "success"
  <2>3. /\ \A d \in Clients \ {c} : client'[d] = client[d]
        /\ ~client'[c].completed
        /\ c = "publish" => IF returns THEN finished' = finished \cup {published} /\ client'[c].pc = "idle"
                            ELSE finished' = finished /\ client'[c].pc = "waiting"
        /\ c # "publish" => finished' = finished
    BY <1>0, <2>1, Conditioned
  <2>4. CASE c # "publish"
    BY <1>0, <1>1, <2>2, <2>3, <2>4
  <2>5. CASE c = "publish" /\ returns
    <3>1. Succeeded("publish")
      BY <2>1, <2>5 DEF Succeeded
    <3>2. FinishedMeansReceived'
      BY <2>2, <2>3, <2>5, <3>1 DEF ReceivedInv, FinishedMeansReceived
    <3>3. ~Succeeded("publish")' /\ ~InLoop("publish")' /\ (PublishAcked' <=> PublishAcked)
      BY <2>2, <2>3, <2>5 DEF Succeeded, InLoop, PublishAcked
    <3>4. AtMostOncePerConnection'
      BY <2>2 DEF ReceivedInv, AtMostOncePerConnection
    <3>. QED
      BY <2>2, <3>2, <3>3, <3>4 DEF ReceivedInv
  <2>6. CASE c = "publish" /\ ~returns
    <3>1. ~Succeeded("publish")' /\ (Succeeded("publish") => m.status = "success" /\ ~m.received)
      BY <2>1, <2>3, <2>6 DEF Succeeded
    <3>2. ~Succeeded("publish")
      BY <2>1, <2>6, <3>1 DEF Succeeded
    <3>. QED
      BY <2>2, <2>3, <2>6, <3>1, <3>2, NothingReceived DEF PublishAcked
  <2>. QED
    BY <2>4, <2>5, <2>6
<1>5. CASE MQTTreceive
  <2>1. [client["subscribe"] EXCEPT !.pc = "idle"] \in Client
    BY <1>0 DEF Client
  <2>2. client'["publish"] = client["publish"]
    BY <1>0, <1>5, <2>1, Stepped DEF MQTTreceive
  <2>. QED
    BY <1>1, <1>5, <2>2 DEF MQTTreceive, network, history
<1>. QED
  BY <1>2, <1>3, <1>4, <1>5 DEF Thread

LEMMA AgentReceived ==
    ASSUME TypeInv, ThreadsInv, WireInv, ReceivedInv, AgentTask \/ Acknowledge
    PROVE  ReceivedInv'
<1>0. TypeOK /\ "publish" \in Clients
  BY DEF TypeInv, Clients
<1>1. CASE AgentTask
  <2>1. UNCHANGED <<sock, acks, published, received, taken, finished, connects>>
    BY <1>1 DEF AgentTask, StartLoop, Send, SendFails, ProcessLoop, LoopFails, AgentDisconnected,
       network, history
  <2>2. CASE SendFails
    <3>1. sock # "open" /\ Conclude({Head(queue)}, "failed")
      BY <2>2 DEF SendFails
    <3>2. Succeeded("publish")' => Succeeded("publish")
      BY <1>0, <3>1, Concluded DEF Succeeded, Results
    <3>. QED
      BY <2>1, <3>1, <3>2, NothingReceived
  <2>3. CASE ~SendFails
    <3>1. client' = client
      BY <1>1, <2>3 DEF AgentTask, StartLoop, Send, ProcessLoop, LoopFails, AgentDisconnected
    <3>. QED
      BY <2>1, <3>1, NothingReceived DEF Succeeded, PublishAcked, InLoop
  <2>. QED
    BY <2>2, <2>3
<1>2. ASSUME NEW a \in acks, HandleAck(a) PROVE ReceivedInv'
  <2>1. acks' = acks \ {a} /\ UNCHANGED <<sock, published, received, taken, finished, connects>>
    BY <1>2 DEF HandleAck, history
  <2>2. CASE a.command = "publish"
    <3>1. a.status = "success" /\ PublishAcked
      BY <1>2, <2>2 DEF ReceivedInv, PublishAcked
    <3>2. Conclude({"publish"}, "success")
      BY <1>0, <1>2, <2>2, <3>1 DEF HandleAck, WireInv
    <3>3. Succeeded("publish")' /\ client'["publish"].pc = client["publish"].pc
      BY <1>0, <3>2, Concluded DEF Succeeded, Results
    <3>. QED
      BY <2>1, <3>1, <3>3, NothingReceived DEF InLoop
  <2>3. CASE a.command # "publish"
    <3>1. client'["publish"] = client["publish"]
      <4>1. a.status \in Results
        BY <1>0 DEF TypeOK, Results
      <4>2. CASE a.command \in pending
        BY <1>0, <1>2, <2>3, <4>1, <4>2, Concluded DEF HandleAck
      <4>3. CASE a.command \notin pending
        BY <1>2, <4>3 DEF HandleAck
      <4>. QED
        BY <4>2, <4>3
    <3>2. PublishAcked' <=> PublishAcked
      BY <2>1, <2>3 DEF PublishAcked
    <3>. QED
      BY <2>1, <3>1, <3>2, NothingReceived DEF Succeeded, InLoop
  <2>. QED
    BY <2>2, <2>3
<1>. QED
  BY <1>1, <1>2 DEF Acknowledge

LEMMA ConnectionReceived ==
    ASSUME TypeInv, ThreadsInv, WireInv, ReceivedInv, ConnectionTask
    PROVE  ReceivedInv'
<1>0. TypeOK /\ "publish" \in Clients
  BY DEF TypeInv, Clients
<1>1. ASSUME UNCHANGED <<client, published, received, taken, finished, connects>>,
             UNCHANGED <<sock, acks>> \/ (sock' # "open" /\ acks' = {})
      PROVE  ReceivedInv'
  BY <1>1, NothingReceived DEF Succeeded, PublishAcked, InLoop
<1>2. CASE StartConnecting
  BY <1>1, <1>2 DEF StartConnecting, Disconnect, history
<1>3. CASE FlagConnected \/ SeeDisconnected \/ SelectReadable \/ LoopProcessed \/ SelectError \/ FlagError
  BY <1>1, <1>3 DEF FlagConnected, SeeDisconnected, SelectReadable, LoopProcessed, SelectError,
     FlagError, network, history
<1>4. CASE Connect
  <2>1. /\ taken' = [m \in Publications |-> 0] /\ acks' = acks /\ acks = {}
        /\ UNCHANGED <<published, finished, received>>
    BY <1>4 DEF Connect, Established, WireInv
  <2>2. Succeeded("publish")' => Succeeded("publish")
    <3>1. CASE cleanSession
      BY <1>4, <3>1 DEF Connect, Succeeded
    <3>2. CASE ~cleanSession
      BY <1>0, <1>4, <3>2, Concluded DEF Connect, Succeeded, Results
    <3>. QED
      BY <3>1, <3>2
  <2>3. ~PublishAcked' /\ (Succeeded("publish")' => received'[published'] >= 1)
    BY <2>1, <2>2 DEF PublishAcked, ReceivedInv
  <2>4. AtMostOncePerConnection'
    BY <2>1 DEF AtMostOncePerConnection
  <2>5. client["publish"].pc = client'["publish"].pc
    <3>1. CASE cleanSession
      BY <1>4, <3>1 DEF Connect
    <3>2. CASE ~cleanSession
      BY <1>0, <1>4, <3>2, Concluded DEF Connect, Results
    <3>. QED
      BY <3>1, <3>2
  <2>6. InLoop("publish")' => taken'[published'] = 0
    <3>1. ASSUME InLoop("publish") PROVE published \in Publications
      BY <1>0, <3>1 DEF TypeInv, TypeOK, InLoop, Publications, ConstantsAssumption
    <3>. QED
      BY <2>1, <2>5, <3>1 DEF InLoop
  <2>7. FinishedMeansReceived' /\ \A m \in Publications : m > published' => taken'[m] = 0
    BY <2>1 DEF ReceivedInv, FinishedMeansReceived
  <2>8. \A a \in acks' : a.command = "publish" => a.status = "success"
    BY <2>1
  <2>. QED
    BY <2>3, <2>4, <2>6, <2>7, <2>8 DEF ReceivedInv
<1>5. CASE ResumeFails
  <2>1. sock' # "open" /\ UNCHANGED <<acks, published, finished, received, taken, connects>>
    BY <1>5 DEF ResumeFails, WireInv, history
  <2>2. Succeeded("publish")' => Succeeded("publish")
    BY <1>0, <1>5, Concluded DEF ResumeFails, Succeeded, Results
  <2>. QED
    BY <2>1, <2>2, NothingReceived
<1>. QED
  BY <1>2, <1>3, <1>4, <1>5 DEF ConnectionTask

LEMMA NetworkReceived ==
    ASSUME TypeInv, ThreadsInv, WireInv, ReceivedInv, HandleEvent \/ BrokerTask \/ WifiUp \/ Environment
    PROVE  ReceivedInv'
<1>0. TypeOK
  BY DEF TypeInv
<1>1. ASSUME UNCHANGED <<client, published, received, taken, finished, connects>>,
             UNCHANGED <<sock, acks>> \/ (sock' # "open" /\ acks' = {})
      PROVE  ReceivedInv'
  BY <1>1, NothingReceived DEF Succeeded, PublishAcked, InLoop
<1>2. CASE HandleEvent \/ WifiUp
  BY <1>1, <1>2 DEF HandleEvent, WifiUp, network, history
<1>3. CASE Environment
  <2>1. sock \in {"none", "open", "broken"}
    BY <1>0 DEF TypeOK
  <2>2. CASE WifiDown \/ ConnectionBreaks
    BY <1>1, <2>1, <2>2 DEF WifiDown, ConnectionBreaks, Disconnect, history
  <2>3. CASE ConnackLost \/ SessionExpires \/ \E content \in {"SOS/IN", "garbage"} : IncomingPublish(content)
    BY <1>1, <2>3 DEF ConnackLost, SessionExpires, IncomingPublish, network, history
  <2>. QED
    BY <1>3, <2>2, <2>3 DEF Environment
<1>4. CASE BrokerTakesPublish
  <2>1. /\ sock = "open" /\ sock' = sock /\ "publish" \in wire
        /\ acks' = acks \cup {[command |-> "publish", status |-> "success"]}
        /\ received' = [received EXCEPT ![published] = received[published] + 1]
        /\ taken' = [taken EXCEPT ![published] = taken[published] + 1]
        /\ UNCHANGED <<client, published, finished, connects>>
    BY <1>4 DEF BrokerTakesPublish
  <2>2. "publish" \in pending /\ ~PublishAcked
    BY <2>1 DEF WireInv, PublishAcked, Clients
  <2>3. InLoop("publish") /\ ~Succeeded("publish") /\ client["publish"].pc # "idle"
    BY <2>2 DEF ThreadsInv, OneCommand, Outstanding, Clients, InLoop, Succeeded
  <2>4. published \in Publications
    BY <1>0, <2>3 DEF TypeInv, TypeOK, Publications, ConstantsAssumption
  <2>5. received[published] \in Nat /\ taken[published] = 0
    BY <1>0, <2>1, <2>2, <2>3, <2>4 DEF TypeOK, ReceivedInv, AtMostOncePerConnection
  <2>6. /\ received'[published] = received[published] + 1
        /\ \A m \in Publications \ {published} : received'[m] = received[m]
        /\ taken'[published] = taken[published] + 1
        /\ \A m \in Publications \ {published} : taken'[m] = taken[m]
    BY <1>0, <2>1, <2>4 DEF TypeOK
  <2>7. PublishAcked' /\ received'[published'] >= 1
    <3>1. [command |-> "publish", status |-> "success"] \in acks'
      BY <2>1
    <3>2. PublishAcked'
      BY <3>1 DEF PublishAcked
    <3>. QED
      BY <2>1, <2>5, <2>6, <3>2
  <2>8. FinishedMeansReceived'
    <3>1. ASSUME NEW m \in finished PROVE received'[m] >= 1
      <4>1. m \in Publications /\ received[m] >= 1
        BY <1>0, <3>1 DEF TypeOK, Publications, ReceivedInv, FinishedMeansReceived, ConstantsAssumption
      <4>. QED
        BY <2>1, <2>6, <2>7, <4>1
    <3>. QED
      BY <2>1, <3>1 DEF FinishedMeansReceived
  <2>9. AtMostOncePerConnection'
    BY <2>1, <2>5, <2>6 DEF ReceivedInv, AtMostOncePerConnection
  <2>10. \A m \in Publications : m > published' => taken'[m] = 0
    <3>1. \A m \in Publications : m > published => m # published
      BY <2>4 DEF Publications
    <3>. QED
      BY <2>1, <2>6, <3>1 DEF ReceivedInv
  <2>11. \A a \in acks' : a.command = "publish" => a.status = "success"
    BY <2>1 DEF ReceivedInv
  <2>. QED
    BY <2>1, <2>7, <2>8, <2>9, <2>10, <2>11 DEF ReceivedInv
<1>5. ASSUME NEW c \in Subscribes, NEW refuse \in BOOLEAN, NEW content,
             BrokerTakesSubscribe(c, refuse, content)
      PROVE  ReceivedInv'
  <2>1. PICK status \in Results : acks' = acks \cup {[command |-> c, status |-> status]}
    BY <1>5 DEF BrokerTakesSubscribe, Results
  <2>2. UNCHANGED <<sock, client, published, received, taken, finished, connects>>
    BY <1>5 DEF BrokerTakesSubscribe, history
  <2>3. c # "publish"
    BY DEF Subscribes
  <2>4. /\ PublishAcked' <=> PublishAcked
        /\ \A a \in acks' : a.command = "publish" => a \in acks
    BY <2>1, <2>3 DEF PublishAcked
  <2>. QED
    BY <2>2, <2>4 DEF ReceivedInv, FinishedMeansReceived, AtMostOncePerConnection, Succeeded, InLoop
<1>. QED
  BY <1>2, <1>3, <1>4, <1>5 DEF BrokerTask

LEMMA ReceivedInvariant == Spec => []ReceivedInv
<1>1. ASSUME Init PROVE ReceivedInv
  BY <1>1 DEF Init, ReceivedInv, PublishAcked, Succeeded, InLoop, Clients, FinishedMeansReceived,
     AtMostOncePerConnection
<1>2. TypeInv /\ ThreadsInv /\ WireInv /\ ReceivedInv /\ [Next]_vars => ReceivedInv'
  <2> SUFFICES ASSUME TypeInv, ThreadsInv, WireInv, ReceivedInv, [Next]_vars PROVE ReceivedInv'
    OBVIOUS
  <2>1. CASE UNCHANGED vars
    BY <2>1, NothingReceived DEF vars, network, history, Succeeded, PublishAcked, InLoop
  <2>2. CASE MQTTreceive
    BY <2>2, ThreadReceived DEF Clients
  <2>. QED
    BY <2>1, <2>2, ThreadReceived, AgentReceived, ConnectionReceived, NetworkReceived DEF Next
<1>. QED
  BY <1>1, <1>2, TypeInvariant, ThreadsInvariant, WireInvariant, PTL DEF Spec

\* prvPublishToTopic returns only for a publication the broker has got, whatever
\* connections are lost, however full the queue is and however often the thread retries.
THEOREM FinishedCorrect == Spec => []FinishedMeansReceived
<1>1. ReceivedInv => FinishedMeansReceived
  BY DEF ReceivedInv
<1>. QED
  BY <1>1, ReceivedInvariant, PTL

\* Counted from each CONNECT, the broker gets a publication at most once: the agent's resend
\* of what is pending and the thread's own retry of what has failed never meet on a connection.
THEOREM AtMostOnceCorrect == Spec => []AtMostOncePerConnection
<1>1. ReceivedInv => AtMostOncePerConnection
  BY DEF ReceivedInv
<1>. QED
  BY <1>1, ReceivedInvariant, PTL

---------------------------------------------------------------------------
(***************************************************************************)
(* What the tasks believe of an open connection.                           *)
(***************************************************************************)
LEMMA OnlineSteps ==
    ASSUME TypeInv, OnlineInv, [Next]_vars
    PROVE  OnlineInv'
<1>0. TypeOK /\ sock \in {"none", "open", "broken"} /\ agent \in AgentPcs /\ conn \in ConnPcs
      /\ events \in Seq(Events) /\ CONNECTED # DISCONNECTED
      /\ WIFI_CONNECTED \notin {CONNECTED, DISCONNECTED}
  BY DEF TypeInv, TypeOK, CONNECTED, DISCONNECTED, WIFI_CONNECTED
<1>1. ASSUME UNCHANGED <<sock, manager>> PROVE OnlineInv'
  BY <1>1 DEF OnlineInv, manager
<1>2. ASSUME sock' # "open" PROVE OnlineInv'
  BY <1>2 DEF OnlineInv
<1>3. ASSUME NEW c \in Clients, Call(c) \/ Thread(c) \/ MQTTreceive PROVE OnlineInv'
  BY <1>1, <1>3 DEF Call, Thread, SeeConnected, Enqueue, EnqueueFails, SeeCompleted, MQTTreceive,
     network
<1>4. CASE AgentTask \/ Acknowledge
  <2>1. CASE Send \/ ProcessLoop \/ Acknowledge
    BY <1>1, <2>1 DEF Send, ProcessLoop, Acknowledge, HandleAck, network
  <2>2. CASE StartLoop
    BY <2>2 DEF StartLoop, OnlineInv, network
  <2>3. CASE SendFails \/ LoopFails
    BY <1>2, <2>3 DEF SendFails, LoopFails, network
  <2>4. CASE AgentDisconnected
    BY <1>2, <2>4 DEF AgentDisconnected, OnlineInv, network
  <2>. QED
    BY <1>4, <2>1, <2>2, <2>3, <2>4 DEF AgentTask
<1>5. CASE ConnectionTask
  <2>1. CASE StartConnecting
    BY <1>2, <2>1 DEF StartConnecting, Disconnect
  <2>2. CASE Connect
    <3>1. /\ events' = <<>> /\ agent' \in {"waiting", "looping"} /\ conn' = "clearing"
      BY <1>0, <2>2 DEF Connect, HandshakeOutlasts, Established, AgentPcs
    <3>2. ~Has(events', "disconnected")
      BY <3>1 DEF Has
    <3>. QED
      BY <3>1, <3>2 DEF OnlineInv
  <2>3. CASE ResumeFails
    BY <1>1, <2>3 DEF ResumeFails
  <2>4. CASE FlagConnected
    <3>1. UNCHANGED <<sock, agent, appConnected>>
      BY <2>4 DEF FlagConnected, network
    <3>2. CASE conn \in {"clearing", "setting"}
      BY <1>0, <2>4, <3>1, <3>2 DEF FlagConnected, OnlineInv, ClearBit, SetBit
    <3>3. CASE conn = "posting"
      <4>1. Post("connected") /\ conn' = "serving" /\ UNCHANGED bits
        BY <2>4, <3>3 DEF FlagConnected
      <4>2. \A f : Has(events', f) <=> Has(events, f) \/ f = "connected"
        BY <1>0, <4>1, Posted DEF Events
      <4>. QED
        BY <3>1, <3>3, <4>1, <4>2 DEF OnlineInv
    <3>. QED
      BY <2>4, <3>2, <3>3 DEF FlagConnected
  <2>5. CASE SeeDisconnected \/ FlagError
    BY <1>2, <2>5 DEF SeeDisconnected, FlagError, OnlineInv, network
  <2>6. CASE SelectError
    BY <1>2, <2>6 DEF SelectError, network
  <2>7. CASE SelectReadable \/ LoopProcessed
    BY <2>7 DEF SelectReadable, LoopProcessed, OnlineInv, network
  <2>. QED
    BY <1>5, <2>1, <2>2, <2>3, <2>4, <2>5, <2>6, <2>7 DEF ConnectionTask
<1>6. CASE HandleEvent
  <2> DEFINE e == Head(events)
  <2>1. /\ events # <<>> /\ events' = Tail(events) /\ UNCHANGED <<sock, agent, conn>>
        /\ prvWifiEventHandler(e) \/ prvCoreMqttAgentEventHandler(e)
    BY <1>6 DEF HandleEvent, network
  <2>2. /\ Has(events, e)
        /\ Has(events', "disconnected") => Has(events, "disconnected")
        /\ Has(events, "connected") => e = "connected" \/ Has(events', "connected")
    BY <1>0, <2>1, Removed
  <2>3. CASE sock = "open"
    <3>1. e # "disconnected"
      BY <2>2, <2>3 DEF OnlineInv
    <3>2. CASE e = "connected"
      BY <2>1, <2>2, <2>3, <3>2
         DEF OnlineInv, prvWifiEventHandler, prvCoreMqttAgentEventHandler
    <3>3. CASE prvWifiEventHandler(e)
      <4>1. UNCHANGED appConnected /\ e # "connected"
            /\ (CONNECTED \in bits => CONNECTED \in bits')
            /\ (DISCONNECTED \notin bits => DISCONNECTED \notin bits')
        BY <1>0, <3>3 DEF prvWifiEventHandler, SetBit, ClearBit
      <4>. QED
        BY <2>1, <2>2, <2>3, <4>1 DEF OnlineInv
    <3>. QED
      BY <2>1, <3>1, <3>2, <3>3 DEF prvCoreMqttAgentEventHandler
  <2>4. CASE sock # "open"
    BY <1>2, <2>1, <2>4
  <2>. QED
    BY <2>3, <2>4
<1>7. CASE BrokerTask
  BY <1>1, <1>7 DEF BrokerTask, BrokerTakesPublish, BrokerTakesSubscribe
<1>8. CASE WifiUp
  <2>1. \A f : Has(events', f) <=> Has(events, f) \/ f = "gotIp"
    BY <1>0, <1>8, Posted DEF WifiUp, Events
  <2>. QED
    BY <1>8, <2>1 DEF WifiUp, OnlineInv
<1>9. CASE Environment
  <2>1. CASE WifiDown \/ ConnectionBreaks
    BY <1>0, <1>2, <2>1 DEF WifiDown, ConnectionBreaks, Disconnect
  <2>2. CASE ConnackLost \/ SessionExpires \/ \E content \in {"SOS/IN", "garbage"} : IncomingPublish(content)
    BY <1>1, <2>2 DEF ConnackLost, SessionExpires, IncomingPublish, network
  <2>. QED
    BY <1>9, <2>1, <2>2 DEF Environment
<1>10. CASE UNCHANGED vars
  BY <1>1, <1>10 DEF vars, network
<1>. QED
  BY <1>3, <1>4, <1>5, <1>6, <1>7, <1>8, <1>9, <1>10 DEF Next, Clients

LEMMA OnlineInvariant == Spec => []OnlineInv
<1>1. Init => OnlineInv
  BY DEF Init, OnlineInv
<1>. QED
  BY <1>1, OnlineSteps, TypeInvariant, PTL DEF Spec

\* With every event handled and the tasks settled on an open connection, the manager's
\* bits and WIFI's own flag all say connected: no order of the four flag writers leaves
\* the threads waiting on a connection that is there.
THEOREM FlagsCorrect == Spec => []FlagsAgree
<1>1. OnlineInv => FlagsAgree
  <2>1. events = <<>> => ~Has(events, "connected")
    BY DEF Has
  <2>. QED
    BY <2>1 DEF OnlineInv, FlagsAgree, Settled
<1>. QED
  BY <1>1, OnlineInvariant, PTL

---------------------------------------------------------------------------
(***************************************************************************)
(* The subscription.  A connection that is lost once is set up again once, *)
(* with a clean session behind it and room in the queue, so the filter in  *)
(* the list is subscribed again, or a command that will do so is under     *)
(* way.                                                                    *)
(***************************************************************************)
Listed == subscription =>
    broker.subscribed \/ Has(queue, "resubscribe") \/ "resubscribe" \in pending

SubscribeAcked == \E a \in acks : a.command \in Subscribes /\ a.status = "success"

\* The agent's bits: a connection that was flagged is flagged as open or as lost, but for
\* the moment in which the agent task changes the one into the other.
BitsInv == conn \in {"posting", "serving", "processing", "errorPosting"} =>
    CONNECTED \in bits \/ DISCONNECTED \in bits \/ agent = "setting"

\* How often there has been a connection, when at most one was lost.
AttemptsInv ==
    /\ cleanSession <=> connects = 0
    /\ connects = 0 => conn \in {"waiting", "connecting"} /\ ~subscription /\ ~Has(queue, "loop")
    /\ drops = 0 => connects <= 1 /\ (connects = 1 => sock = "open")
    /\ connects <= 2 /\ (connects = 2 => sock = "open")

\* The connection task flags the connection it has just established.
Flagging == conn \in {"clearing", "setting", "posting"}

\* Before the second one the queue holds each command once, and the broker no session.
FirstInv == connects <= 1 =>
    /\ ~broker.session /\ ~Has(queue, "resubscribe")
    /\ AtMostOne(queue, "loop")
    /\ Has(queue, "loop") => (conn = "processing" \/ DISCONNECTED \in bits) /\ ~Flagging

ListInv == sock = "open" => Listed /\ (SubscribeAcked => broker.subscribed)

OneLossInv == drops <= 1 => AttemptsInv /\ FirstInv /\ ListInv

LEMMA BitsSteps ==
    ASSUME TypeInv, BitsInv, [Next]_vars
    PROVE  BitsInv'
<1>0. TypeOK /\ CONNECTED # DISCONNECTED /\ WIFI_CONNECTED \notin {CONNECTED, DISCONNECTED}
  BY DEF TypeInv, CONNECTED, DISCONNECTED, WIFI_CONNECTED
<1>1. ASSUME UNCHANGED <<bits, conn, agent>> PROVE BitsInv'
  BY <1>1 DEF BitsInv
<1>2. ASSUME NEW c \in Clients, Call(c) \/ Thread(c) \/ MQTTreceive PROVE BitsInv'
  BY <1>1, <1>2 DEF Call, Thread, SeeConnected, Enqueue, EnqueueFails, SeeCompleted, MQTTreceive,
     manager
<1>3. CASE AgentTask \/ Acknowledge
  <2>1. CASE Send \/ ProcessLoop \/ Acknowledge
    BY <1>1, <2>1 DEF Send, ProcessLoop, Acknowledge, HandleAck, manager
  <2>2. CASE StartLoop \/ SendFails \/ LoopFails
    BY <2>2 DEF StartLoop, SendFails, LoopFails, BitsInv
  <2>3. CASE AgentDisconnected
    BY <1>0, <2>3 DEF AgentDisconnected, ClearBit, SetBit, BitsInv
  <2>. QED
    BY <1>3, <2>1, <2>2, <2>3 DEF AgentTask
<1>4. CASE ConnectionTask
  <2>1. CASE StartConnecting \/ Connect
    BY <2>1 DEF StartConnecting, Connect, Established, BitsInv
  <2>2. CASE ResumeFails
    BY <1>1, <2>2 DEF ResumeFails, manager
  <2>3. CASE FlagConnected
    BY <1>0, <2>3 DEF FlagConnected, ClearBit, SetBit, BitsInv
  <2>4. CASE SeeDisconnected \/ SelectReadable \/ LoopProcessed \/ SelectError
    BY <2>4 DEF SeeDisconnected, SelectReadable, LoopProcessed, SelectError, BitsInv
  <2>5. CASE FlagError
    BY <1>0, <2>5 DEF FlagError, ClearBit, SetBit, BitsInv
  <2>. QED
    BY <1>4, <2>1, <2>2, <2>3, <2>4, <2>5 DEF ConnectionTask
<1>5. CASE HandleEvent
  <2>1. UNCHANGED <<conn, agent>> /\ (DISCONNECTED \in bits => DISCONNECTED \in bits')
    BY <1>0, <1>5
       DEF HandleEvent, prvWifiEventHandler, prvCoreMqttAgentEventHandler, SetBit, ClearBit
  <2>2. CONNECTED \in bits => CONNECTED \in bits' \/ DISCONNECTED \in bits'
    BY <1>0, <1>5
       DEF HandleEvent, prvWifiEventHandler, prvCoreMqttAgentEventHandler, SetBit, ClearBit
  <2>. QED
    BY <2>1, <2>2 DEF BitsInv
<1>6. CASE BrokerTask
  BY <1>1, <1>6 DEF BrokerTask, BrokerTakesPublish, BrokerTakesSubscribe, manager
<1>7. CASE WifiUp \/ WifiDown
  BY <1>1, <1>7 DEF WifiUp, WifiDown
<1>8. CASE Environment
  <2>1. CASE ConnectionBreaks \/ ConnackLost \/ SessionExpires
             \/ \E content \in {"SOS/IN", "garbage"} : IncomingPublish(content)
    BY <1>1, <2>1 DEF ConnectionBreaks, ConnackLost, SessionExpires, IncomingPublish, manager
  <2>. QED
    BY <1>7, <1>8, <2>1 DEF Environment
<1>9. CASE UNCHANGED vars
  BY <1>1, <1>9 DEF vars, manager
<1>. QED
  BY <1>2, <1>3, <1>4, <1>5, <1>6, <1>7, <1>8, <1>9 DEF Next, Clients

LEMMA BitsInvariant == Spec => []BitsInv
<1>1. Init => BitsInv
  BY DEF Init, BitsInv
<1>. QED
  BY <1>1, BitsSteps, TypeInvariant, PTL DEF Spec

\* Three different commands take three places.
LEMMA ShortQueue ==
    ASSUME TypeInv, ThreadsInv, ~Has(queue, "resubscribe"), AtMostOne(queue, "loop")
    PROVE  Len(queue) <= 3
<1> SUFFICES ASSUME Len(queue) >= 4 PROVE FALSE
  BY DEF TypeInv, TypeOK
<1>1. queue \in Seq(Commands) /\ {1, 2, 3, 4} \subseteq DOMAIN queue
  BY DEF TypeInv, TypeOK
<1>2. \A i \in {1, 2, 3, 4} : queue[i] \in {"publish", "subscribe", "loop"}
  BY <1>1 DEF Has, Commands, Acknowledged, Clients, Subscribes
<1>3. \A e \in {"publish", "subscribe", "loop"} : AtMostOne(queue, e)
  BY DEF ThreadsInv, OneCommand, Clients
<1>4. \A i, j \in {1, 2, 3, 4} : queue[i] = queue[j] => i = j
  BY <1>1, <1>2, <1>3 DEF AtMostOne
<1>. QED
  BY <1>2, <1>4

\* A step that leaves the session alone, and puts no command of these in the queue.
LEMMA SameSession ==
    ASSUME TypeInv, OneLossInv, drops' \in Nat, drops' <= 1 => drops' = drops,
           UNCHANGED <<sock, cleanSession, connects, broker, acks, subscription>>,
           conn' = conn \/ connects > 0, Flagging' => Flagging,
           \A e \in {"loop", "resubscribe"} : Has(queue', e) => Has(queue, e),
           AtMostOne(queue, "loop") => AtMostOne(queue', "loop"),
           sock = "open" /\ Listed => Listed',
           connects <= 1 /\ Has(queue', "loop") /\ (conn = "processing" \/ DISCONNECTED \in bits)
               => conn' = "processing" \/ DISCONNECTED \in bits'
    PROVE  OneLossInv'
<1>1. connects \in Nat
  BY DEF TypeInv, TypeOK
<1> SUFFICES ASSUME drops' <= 1 PROVE (AttemptsInv /\ FirstInv /\ ListInv)'
  BY DEF OneLossInv
<1>2. AttemptsInv /\ FirstInv /\ ListInv
  BY DEF OneLossInv
<1>3. AttemptsInv'
  BY <1>1, <1>2 DEF AttemptsInv
<1>4. FirstInv'
  BY <1>1, <1>2 DEF FirstInv
<1>5. ListInv'
  BY <1>2 DEF ListInv, SubscribeAcked
<1>. QED
  BY <1>3, <1>4, <1>5

\* A step that does not touch the queue or the session at all.
LEMMA SameQueue ==
    ASSUME TypeInv, OneLossInv,
           UNCHANGED <<drops, sock, cleanSession, connects, broker, acks, subscription, queue, pending>>,
           conn' = conn \/ connects > 0, Flagging' => Flagging,
           (conn = "processing" \/ DISCONNECTED \in bits)
               => conn' = "processing" \/ DISCONNECTED \in bits' \/ ~Has(queue, "loop") \/ connects > 1
    PROVE  OneLossInv'
<1>1. drops \in Nat /\ connects \in Nat
  BY DEF TypeInv, TypeOK
<1>2. Listed => Listed'
  BY DEF Listed
<1>3. connects > 1 => ~(connects <= 1)
  BY <1>1
<1>. QED
  BY <1>1, <1>2, <1>3, SameSession

LEMMA ThreadLoss ==
    ASSUME TypeInv, OneLossInv, NEW c \in Clients, Call(c) \/ Thread(c) \/ MQTTreceive
    PROVE  OneLossInv'
<1>1. CASE Call(c) \/ SeeConnected(c) \/ MQTTreceive
  BY <1>1, SameQueue
     DEF Call, SeeConnected, MQTTreceive, network, manager, agentLib, bounds, history, Flagging
<1>2. CASE EnqueueFails(c) \/ SeeCompleted(c)
  BY <1>2, SameQueue DEF EnqueueFails, SeeCompleted, network, manager, agentLib, bounds, Flagging
<1>3. CASE Enqueue(c)
  <2>1. c \in Commands /\ c \notin {"loop", "resubscribe"} /\ queue \in Seq(Commands)
    BY DEF Clients, Commands, Acknowledged, TypeInv, TypeOK
  <2>2. /\ \A e : Has(queue', e) <=> Has(queue, e) \/ e = c
        /\ \A e : AtMostOne(queue, e) /\ (e = c => ~Has(queue, e)) => AtMostOne(queue', e)
    BY <1>3, <2>1, Appended DEF Enqueue
  <2>3. UNCHANGED <<drops, sock, cleanSession, connects, broker, acks, subscription, pending, conn, bits>>
    BY <1>3 DEF Enqueue, network, manager, bounds, history
  <2>4. Listed => Listed'
    BY <2>2, <2>3 DEF Listed
  <2>5. drops \in Nat
    BY DEF TypeInv, TypeOK
  <2>. QED
    BY <2>1, <2>2, <2>3, <2>4, <2>5, SameSession DEF Flagging
<1>. QED
  BY <1>1, <1>2, <1>3 DEF Thread

LEMMA AgentLoss ==
    ASSUME TypeInv, OneLossInv, AgentTask
    PROVE  OneLossInv'
<1>0. /\ queue \in Seq(Commands) /\ drops \in Nat /\ CONNECTED # DISCONNECTED
  BY DEF TypeInv, TypeOK, CONNECTED, DISCONNECTED
<1>1. CASE StartLoop \/ LoopFails
  BY <1>1, SameQueue DEF StartLoop, LoopFails, network, agentLib, bounds, history, Flagging
<1>2. CASE AgentDisconnected
  <2>1. DISCONNECTED \in bits => DISCONNECTED \in bits'
    BY <1>0, <1>2 DEF AgentDisconnected, ClearBit, SetBit
  <2>. QED
    BY <1>2, <2>1, SameQueue DEF AgentDisconnected, network, agentLib, bounds, history, Flagging
<1>3. ASSUME queue # <<>>, queue' = Tail(queue),
             pending' = pending \/ pending' = pending \cup {Head(queue)},
             sock = "open" => Head(queue) = "loop" \/ Head(queue) \in pending',
             UNCHANGED <<drops, sock, cleanSession, connects, broker, acks, subscription, conn, bits>>
      PROVE  OneLossInv'
  <2>1. /\ \A e : Has(queue', e) => Has(queue, e)
        /\ \A e : Has(queue, e) => e = Head(queue) \/ Has(queue', e)
        /\ \A e : AtMostOne(queue, e) => AtMostOne(queue', e)
    BY <1>0, <1>3, Removed
  <2>2. sock = "open" /\ Listed => Listed'
    BY <1>3, <2>1 DEF Listed
  <2>. QED
    BY <1>0, <1>3, <2>1, <2>2, SameSession DEF Flagging
<1>4. CASE Send
  BY <1>3, <1>4 DEF Send, manager, bounds, history
<1>5. CASE SendFails
  BY <1>3, <1>5 DEF SendFails, network, bounds, history
<1>6. CASE ProcessLoop
  BY <1>3, <1>6 DEF ProcessLoop, network, manager, bounds, history
<1>. QED
  BY <1>1, <1>2, <1>4, <1>5, <1>6 DEF AgentTask

LEMMA AcknowledgeLoss ==
    ASSUME TypeInv, OnlineInv, OneLossInv, NEW a \in acks, HandleAck(a)
    PROVE  OneLossInv'
<1>1. /\ sock = "open" /\ acks' = acks \ {a} /\ pending' = pending \ {a.command}
      /\ UNCHANGED <<drops, sock, cleanSession, connects, broker, conn, bits, queue>>
  BY DEF HandleAck, manager, bounds, history
<1>2. \/ subscription' = subscription /\ a.command \notin pending
      \/ subscription' = (\/ a.command = "subscribe" /\ a.status = "success"
                          \/ subscription /\ ~(a.command = "resubscribe" /\ a.status = "failed"))
  BY DEF HandleAck
<1>3. a.status \in {"success", "failed"} /\ connects \in Nat
  BY DEF TypeInv, TypeOK
<1> SUFFICES ASSUME drops <= 1 PROVE (AttemptsInv /\ FirstInv /\ ListInv)'
  BY <1>1 DEF OneLossInv
<1>4. AttemptsInv /\ FirstInv /\ ListInv
  BY DEF OneLossInv
<1>5. a.command \in Subscribes /\ a.status = "success" => broker.subscribed
  BY <1>1, <1>4 DEF ListInv, SubscribeAcked
<1>6. connects # 0
  BY <1>1, <1>4 DEF OnlineInv, AttemptsInv
<1>7. AttemptsInv'
  BY <1>1, <1>4, <1>6 DEF AttemptsInv
<1>8. FirstInv'
  BY <1>1, <1>4 DEF FirstInv, Flagging
<1>9. ListInv'
  <2>1. SubscribeAcked' => broker.subscribed'
    BY <1>1, <1>4 DEF ListInv, SubscribeAcked
  <2>2. CASE subscription' = subscription /\ a.command \notin pending
    BY <1>1, <1>4, <2>1, <2>2 DEF ListInv, Listed
  <2>3. CASE a.command = "subscribe" /\ a.status = "success"
    BY <1>1, <1>5, <2>1, <2>3 DEF ListInv, Listed, Subscribes
  <2>4. CASE subscription /\ a.command = "resubscribe" /\ a.status = "success"
    BY <1>1, <1>5, <2>1, <2>4 DEF ListInv, Listed, Subscribes
  <2>5. CASE subscription /\ a.command # "resubscribe"
    BY <1>1, <1>4, <2>1, <2>5 DEF ListInv, Listed
  <2>6. CASE ~subscription'
    BY <2>1, <2>6 DEF ListInv, Listed
  <2>. QED
    BY <1>2, <1>3, <2>2, <2>3, <2>4, <2>5, <2>6
<1>. QED
  BY <1>7, <1>8, <1>9

\* The connection task's attempts.  With one connection lost, the one attempt that finds
\* something to subscribe again finds no session, and room in the queue.
LEMMA AttemptLoss ==
    ASSUME 4 <= QueueLength, TypeInv, ThreadsInv, WireInv, ReceivedInv, OneLossInv,
           Connect \/ ResumeFails \/ ConnackLost
    PROVE  OneLossInv'
<1>1. /\ conn = "connecting" /\ sock = "none" /\ acks = {} /\ connects \in Nat /\ drops \in Nat
      /\ queue \in Seq(Commands) /\ QueueLength \in Nat
  <2>1. conn = "connecting"
    BY DEF Connect, ResumeFails, ConnackLost
  <2>2. sock = "none" /\ acks = {}
    BY <2>1 DEF WireInv
  <2>. QED
    BY <2>1, <2>2 DEF TypeInv, TypeOK
<1>2. drops' = drops \/ drops' = drops + 1
  BY DEF Connect, ResumeFails, ConnackLost, bounds
<1> SUFFICES ASSUME drops' <= 1 PROVE (AttemptsInv /\ FirstInv /\ ListInv)'
  BY DEF OneLossInv
<1>3. AttemptsInv /\ FirstInv /\ ListInv
  BY <1>1, <1>2 DEF OneLossInv
<1>4. connects <= 1 /\ (connects = 1 => drops = 1) /\ (cleanSession <=> connects = 0)
  BY <1>1, <1>2, <1>3 DEF AttemptsInv
<1>5. ~broker.session /\ ~Has(queue, "resubscribe") /\ ~SessionPresent
  BY <1>3, <1>4 DEF FirstInv, SessionPresent
<1>6. Len(queue) < QueueLength
  <2>1. Len(queue) <= 3
    BY <1>3, <1>4, ShortQueue DEF FirstInv
  <2>. QED
    BY <1>1, <2>1
<1>7. ~ResumeFails
  BY <1>1, <1>5, <1>6 DEF ResumeFails
<1>8. CASE ConnackLost
  <2>1. /\ drops' = drops + 1 /\ broker' = AfterConnect
        /\ UNCHANGED <<sock, cleanSession, connects, subscription, queue, conn, bits>>
    BY <1>8 DEF ConnackLost, manager, agentLib, history
  <2>2. connects = 0 /\ cleanSession
    BY <1>1, <1>2, <1>4, <2>1
  <2>3. ~broker'.session
    BY <2>1, <2>2 DEF AfterConnect
  <2>4. AttemptsInv'
    BY <1>1, <1>3, <2>1, <2>2 DEF AttemptsInv
  <2>5. FirstInv'
    BY <1>3, <1>4, <2>1, <2>3 DEF FirstInv, Flagging
  <2>6. ListInv'
    BY <1>1, <2>1 DEF ListInv
  <2>. QED
    BY <2>4, <2>5, <2>6
<1>9. CASE Connect
  <2>1. /\ conn' = "clearing" /\ cleanSession' = FALSE /\ sock' = "open"
        /\ connects' = connects + 1 /\ broker' = AfterConnect
        /\ queue' = IF ResubscribeNeeded THEN Append(queue, "resubscribe") ELSE queue
        /\ UNCHANGED <<acks, bits, subscription, drops>>
    BY <1>9 DEF Connect, Established, bounds
  <2>2. ~SubscribeAcked'
    BY <1>1, <2>1 DEF SubscribeAcked
  <2>3. CASE connects = 0
    <3>1. ~subscription /\ ~broker'.session /\ queue' = queue /\ ~Has(queue, "loop")
      BY <1>3, <1>4, <2>1, <2>3 DEF AttemptsInv, AfterConnect, ResubscribeNeeded
    <3>2. AttemptsInv'
      BY <2>1, <2>3 DEF AttemptsInv
    <3>3. FirstInv'
      BY <1>3, <1>4, <2>1, <3>1 DEF FirstInv, Flagging
    <3>4. ListInv'
      BY <2>1, <2>2, <3>1 DEF ListInv, Listed
    <3>. QED
      BY <3>2, <3>3, <3>4
  <2>4. CASE connects = 1
    <3>1. AttemptsInv' /\ FirstInv'
      BY <1>4, <2>1, <2>4 DEF AttemptsInv, FirstInv
    <3>2. subscription => Has(queue', "resubscribe")
      <4>1. subscription => queue' = Append(queue, "resubscribe")
        BY <1>4, <1>5, <2>1, <2>4 DEF ResubscribeNeeded
      <4>2. "resubscribe" \in Commands
        BY DEF Commands, Acknowledged, Subscribes
      <4>3. Has(Append(queue, "resubscribe"), "resubscribe")
        BY <1>1, <4>2, Appended
      <4>. QED
        BY <4>1, <4>3
    <3>3. ListInv'
      BY <2>1, <2>2, <3>2 DEF ListInv, Listed
    <3>. QED
      BY <3>1, <3>3
  <2>. QED
    BY <1>1, <1>4, <2>3, <2>4
<1>. QED
  BY <1>7, <1>8, <1>9

LEMMA ConnectionLoss ==
    ASSUME 4 <= QueueLength, TypeInv, ThreadsInv, WireInv, ReceivedInv, OnlineInv, BitsInv, OneLossInv,
           ConnectionTask
    PROVE  OneLossInv'
<1>0. /\ queue \in Seq(Commands) /\ drops \in Nat /\ connects \in Nat /\ CONNECTED # DISCONNECTED
      /\ WIFI_CONNECTED \notin {CONNECTED, DISCONNECTED}
  BY DEF TypeInv, TypeOK, CONNECTED, DISCONNECTED, WIFI_CONNECTED
<1>1. CASE StartConnecting
  <2>1. /\ sock' = "none" /\ conn' = "connecting" /\ DISCONNECTED \in bits' /\ sock # "open"
        /\ UNCHANGED <<drops, cleanSession, connects, broker, subscription, queue, pending>>
    BY <1>1 DEF StartConnecting, Disconnect, agentLib, bounds, history, OnlineInv
  <2> SUFFICES ASSUME drops <= 1 PROVE (AttemptsInv /\ FirstInv /\ ListInv)'
    BY <2>1 DEF OneLossInv
  <2>2. AttemptsInv /\ FirstInv
    BY DEF OneLossInv
  <2>3. AttemptsInv'
    BY <2>1, <2>2 DEF AttemptsInv
  <2>4. FirstInv'
    BY <2>1, <2>2 DEF FirstInv, Flagging
  <2>5. ListInv'
    BY <2>1 DEF ListInv
  <2>. QED
    BY <2>3, <2>4, <2>5
<1>2. CASE Connect \/ ResumeFails
  BY <1>2, AttemptLoss
<1>3. ASSUME conn \notin {"waiting", "connecting"}, drops <= 1 PROVE connects > 0
  BY <1>0, <1>3 DEF OneLossInv, AttemptsInv
<1>4. ASSUME drops > 1, drops' = drops PROVE OneLossInv'
  BY <1>0, <1>4 DEF OneLossInv
<1>5. CASE FlagConnected
  <2>1. /\ UNCHANGED <<drops, sock, cleanSession, connects, broker, acks, subscription, queue, pending>>
        /\ conn \in {"clearing", "setting", "posting"}
    BY <1>5 DEF FlagConnected, network, agentLib, bounds, history
  <2>2. CASE conn = "clearing"
    <3>1. OneLossInv /\ drops <= 1 /\ connects <= 1 => ~Has(queue, "loop")
      BY <2>2 DEF OneLossInv, FirstInv, Flagging
    <3>2. ~(connects <= 1) => connects > 1
      BY <1>0
    <3>3. Flagging
      BY <2>2 DEF Flagging
    <3>. QED
      BY <1>0, <1>3, <1>4, <2>1, <2>2, <3>1, <3>2, <3>3, SameQueue
  <2>3. CASE conn \in {"setting", "posting"}
    <3>1. DISCONNECTED \in bits => DISCONNECTED \in bits'
      BY <1>0, <1>5, <2>3 DEF FlagConnected, SetBit
    <3>. QED
      BY <1>0, <1>3, <1>4, <2>1, <2>3, <3>1, SameQueue DEF Flagging
  <2>. QED
    BY <2>1, <2>2, <2>3
<1>6. CASE SeeDisconnected \/ SelectError
  <2>1. /\ UNCHANGED <<drops, sock, cleanSession, connects, broker, acks, subscription, queue, pending, bits>>
        /\ conn = "serving"
    BY <1>6 DEF SeeDisconnected, SelectError, network, agentLib, bounds, history
  <2>3. ~Flagging'
    BY <1>6 DEF SeeDisconnected, SelectError, Flagging
  <2>. QED
    BY <1>0, <1>3, <1>4, <2>1, <2>3, SameQueue
<1>7. CASE FlagError
  <2>1. /\ UNCHANGED <<drops, sock, cleanSession, connects, broker, acks, subscription, queue, pending>>
        /\ conn \in {"errorClearing", "errorSetting", "errorPosting"}
    BY <1>7 DEF FlagError, network, agentLib, bounds, history
  <2>2. DISCONNECTED \in bits => DISCONNECTED \in bits'
    BY <1>0, <1>7 DEF FlagError, SetBit, ClearBit
  <2>3. ~Flagging'
    BY <1>7 DEF FlagError, Flagging
  <2>. QED
    BY <1>0, <1>3, <1>4, <2>1, <2>2, <2>3, SameQueue
<1>8. CASE LoopProcessed
  <2>1. /\ UNCHANGED <<drops, sock, cleanSession, connects, broker, acks, subscription, queue, pending, bits>>
        /\ conn = "processing"
        /\ (agent = "waiting" /\ CONNECTED \notin bits) \/ ~Has(queue, "loop")
    BY <1>8 DEF LoopProcessed, network, agentLib, bounds, history, Has
  <2>2. DISCONNECTED \in bits \/ ~Has(queue, "loop")
    BY <2>1 DEF BitsInv
  <2>3. ~Flagging'
    BY <1>8 DEF LoopProcessed, Flagging
  <2>. QED
    BY <1>0, <1>3, <1>4, <2>1, <2>2, <2>3, SameQueue
<1>9. CASE SelectReadable
  <2>1. /\ UNCHANGED <<drops, sock, cleanSession, connects, broker, acks, subscription, pending, bits>>
        /\ conn = "serving" /\ conn' = "processing" /\ DISCONNECTED \notin bits
        /\ queue' = queue \/ queue' = Append(queue, "loop")
    BY <1>9 DEF SelectReadable, network, bounds, history
  <2>2. CASE queue' = queue
    BY <1>0, <1>3, <1>4, <2>1, <2>2, SameQueue DEF Flagging
  <2>3. CASE queue' = Append(queue, "loop")
    <3>1. "loop" \in Commands
      BY DEF Commands
    <3>2. /\ \A e : Has(queue', e) <=> Has(queue, e) \/ e = "loop"
          /\ \A e : AtMostOne(queue, e) /\ (e = "loop" => ~Has(queue, e)) => AtMostOne(queue', e)
      BY <1>0, <2>3, <3>1, Appended
    <3> SUFFICES ASSUME drops <= 1 PROVE (AttemptsInv /\ FirstInv /\ ListInv)'
      BY <2>1 DEF OneLossInv
    <3>3. AttemptsInv /\ FirstInv /\ ListInv /\ connects > 0
      BY <1>3, <2>1 DEF OneLossInv
    <3>4. AttemptsInv'
      BY <1>0, <2>1, <3>3 DEF AttemptsInv
    <3>5. FirstInv'
      BY <2>1, <3>2, <3>3 DEF FirstInv, Flagging
    <3>6. ListInv'
      BY <2>1, <3>2, <3>3 DEF ListInv, Listed, SubscribeAcked
    <3>. QED
      BY <3>4, <3>5, <3>6
  <2>. QED
    BY <2>1, <2>2, <2>3
<1>. QED
  BY <1>1, <1>2, <1>5, <1>6, <1>7, <1>8, <1>9 DEF ConnectionTask

LEMMA NetworkLoss ==
    ASSUME ~FilterOverwritten, 4 <= QueueLength, TypeInv, ThreadsInv, WireInv, ReceivedInv, OnlineInv,
           OneLossInv, HandleEvent \/ BrokerTask \/ WifiUp \/ Environment
    PROVE  OneLossInv'
<1>0. /\ drops \in Nat /\ connects \in Nat /\ CONNECTED # DISCONNECTED
      /\ WIFI_CONNECTED \notin {CONNECTED, DISCONNECTED}
  BY DEF TypeInv, TypeOK, CONNECTED, DISCONNECTED, WIFI_CONNECTED
<1>1. CASE HandleEvent
  <2>1. DISCONNECTED \in bits => DISCONNECTED \in bits'
    BY <1>0, <1>1
       DEF HandleEvent, prvWifiEventHandler, prvCoreMqttAgentEventHandler, SetBit, ClearBit
  <2>. QED
    BY <1>1, <2>1, SameQueue DEF HandleEvent, network, agentLib, bounds, history, Flagging
<1>2. CASE WifiUp
  BY <1>2, SameQueue DEF WifiUp, agentLib, bounds, history, Flagging
<1>3. ASSUME NEW content, IncomingPublish(content) PROVE OneLossInv'
  BY <1>3, SameQueue DEF IncomingPublish, network, manager, agentLib, history, Flagging
<1>4. CASE BrokerTask
  <2> DEFINE Takes(a) ==
                 /\ acks' = acks \cup {a} /\ sock = "open"
                 /\ UNCHANGED <<drops, sock, cleanSession, connects, subscription, queue, pending, conn, bits>>
                 /\ broker'.session = broker.session
                 /\ broker.subscribed => broker'.subscribed
                 /\ a.command \in Subscribes /\ a.status = "success" => broker'.subscribed
  <2>0. \E a : Takes(a)
    <3>1. CASE BrokerTakesPublish
      <4>1. Takes([command |-> "publish", status |-> "success"])
        BY <3>1 DEF BrokerTakesPublish, manager, agentLib, bounds, Subscribes
      <4>. QED
        BY <4>1
    <3>2. ASSUME NEW c \in Subscribes, NEW refuse \in BOOLEAN, NEW content,
                 BrokerTakesSubscribe(c, refuse, content)
          PROVE  \E a : Takes(a)
      <4>1. content = "SOS/IN"
        BY <3>2 DEF BrokerTakesSubscribe, Contents
      <4>2. /\ acks' = acks \cup {[command |-> c, status |-> IF refuse THEN "failed" ELSE "success"]}
            /\ sock = "open"
            /\ UNCHANGED <<drops, sock, cleanSession, connects, subscription, queue, pending, conn, bits>>
            /\ broker' = [broker EXCEPT !.subscribed = broker.subscribed \/ ~refuse]
        BY <3>2, <4>1 DEF BrokerTakesSubscribe, manager, agentLib, history
      <4>3. broker \in [session : BOOLEAN, subscribed : BOOLEAN]
        BY DEF TypeInv, TypeOK
      <4>4. broker'.session = broker.session /\ broker'.subscribed = (broker.subscribed \/ ~refuse)
        BY <4>2, <4>3
      <4>5. Takes([command |-> c, status |-> IF refuse THEN "failed" ELSE "success"])
        BY <4>2, <4>4
      <4>. QED
        BY <4>5
    <3>. QED
      BY <1>4, <3>1, <3>2 DEF BrokerTask
  <2>1. PICK a : Takes(a)
    BY <2>0
  <2> SUFFICES ASSUME drops <= 1 PROVE (AttemptsInv /\ FirstInv /\ ListInv)'
    BY <2>1 DEF OneLossInv
  <2>2. AttemptsInv /\ FirstInv /\ ListInv
    BY DEF OneLossInv
  <2>3. AttemptsInv'
    BY <2>1, <2>2 DEF AttemptsInv
  <2>4. FirstInv'
    BY <2>1, <2>2 DEF FirstInv, Flagging
  <2>5. ListInv'
    BY <2>1, <2>2 DEF ListInv, Listed, SubscribeAcked
  <2>. QED
    BY <2>3, <2>4, <2>5
<1>5. CASE WifiDown \/ ConnectionBreaks
  <2>1. /\ drops' = drops + 1 /\ sock' # "open"
        /\ UNCHANGED <<cleanSession, connects, broker, subscription, queue, pending, conn, bits>>
    BY <1>5 DEF WifiDown, ConnectionBreaks, Disconnect, manager, agentLib, history
  <2> SUFFICES ASSUME drops' <= 1 PROVE (AttemptsInv /\ FirstInv /\ ListInv)'
    BY DEF OneLossInv
  <2>2. AttemptsInv /\ FirstInv /\ drops = 0
    BY <1>0, <2>1 DEF OneLossInv
  <2>3. AttemptsInv'
    BY <1>0, <2>1, <2>2 DEF AttemptsInv
  <2>4. FirstInv'
    BY <2>1, <2>2 DEF FirstInv, Flagging
  <2>5. ListInv'
    BY <2>1 DEF ListInv
  <2>. QED
    BY <2>3, <2>4, <2>5
<1>6. CASE ConnackLost
  BY <1>6, AttemptLoss
<1>7. CASE SessionExpires
  <2>1. /\ ~broker'.session /\ sock' # "open"
        /\ UNCHANGED <<drops, sock, cleanSession, connects, subscription, queue, pending, conn, bits>>
    BY <1>7 DEF SessionExpires, manager, agentLib, bounds, history
  <2> SUFFICES ASSUME drops <= 1 PROVE (AttemptsInv /\ FirstInv /\ ListInv)'
    BY <2>1 DEF OneLossInv
  <2>2. AttemptsInv /\ FirstInv
    BY DEF OneLossInv
  <2>3. AttemptsInv'
    BY <2>1, <2>2 DEF AttemptsInv
  <2>4. FirstInv'
    BY <2>1, <2>2 DEF FirstInv, Flagging
  <2>5. ListInv'
    BY <2>1 DEF ListInv
  <2>. QED
    BY <2>3, <2>4, <2>5
<1>. QED
  BY <1>1, <1>2, <1>3, <1>4, <1>5, <1>6, <1>7 DEF Environment

\* A filter in the list is subscribed at the broker, or a command that will subscribe it is
\* on its way, after any one lost connection, link or CONNACK, and any number of refused
\* subscriptions and select errors (core_mqtt_agent_manager.c:634-676 and 404-425).
THEOREM SubscriptionCorrect ==
    ASSUME ~FilterOverwritten, 4 <= QueueLength
    PROVE  Spec => [](drops <= 1 => SubscriptionKept)
<1>1. Init => OneLossInv
  <2>1. \A e : ~Has(<<>>, e) /\ AtMostOne(<<>>, e)
    BY DEF Has, AtMostOne
  <2>. QED
    BY <2>1 DEF Init, OneLossInv, AttemptsInv, FirstInv, ListInv
<1>2. /\ TypeInv /\ ThreadsInv /\ WireInv /\ ReceivedInv /\ OnlineInv /\ BitsInv /\ OneLossInv
      /\ [Next]_vars
      => OneLossInv'
  <2>1. TypeInv /\ OneLossInv /\ UNCHANGED vars => OneLossInv'
    BY SameQueue DEF vars, network, manager, agentLib, bounds, history, Flagging
  <2>. QED
    BY <2>1, ThreadLoss, AgentLoss, AcknowledgeLoss, ConnectionLoss, NetworkLoss
       DEF Next, Acknowledge, Clients
<1>3. OneLossInv => (drops <= 1 => SubscriptionKept)
  BY DEF OneLossInv, ListInv, Listed, SubscriptionKept, Settled, SubscribeUnderWay, Has, Subscribes
<1>. QED
  BY <1>1, <1>2, <1>3, TypeInvariant, ThreadsInvariant, WireInvariant, ReceivedInvariant,
     OnlineInvariant, BitsInvariant, PTL DEF Spec
=============================================================================
