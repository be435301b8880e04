------------------------------ MODULE ServerMqtt ------------------------------
(***************************************************************************)
(* The server tower's MQTT stack: the coreMQTT-Agent manager (connection   *)
(* task, agent task, event handlers), the two threads that issue commands  *)
(* (thread_LoRa publishes what consumeInfo hands to WIFI, thread_Wifi      *)
(* subscribes to SOS/IN and waits for messages), and, as far as the code   *)
(* depends on them, the agent library, the event loop and the broker.      *)
(*                                                                         *)
(* The two commands a thread waits for are named after their kind, and a   *)
(* kind identifies a command: a thread has one command outstanding, and    *)
(* all resubscribe commands share their static arguments.                  *)
(***************************************************************************)
EXTENDS Integers, Sequences, FiniteSets

CONSTANTS
    QueueLength,        \* configMQTT_AGENT_COMMAND_QUEUE_LENGTH
    EventQueueSize,     \* capacity of the default event loop
    FilterOverwritten,  \* whether the build reuses the stack of MQTTsubscribe (see Contents)
    MaxPublishes,       \* bound: publications
    MaxMessages,        \* bound: messages the broker sends on SOS/IN
    MaxDrops,           \* bound: connections, CONNACKs and Wi-Fi links lost
    MaxSelectErrors,    \* bound: select() reporting an error on the socket
    MaxRefusals         \* bound: subscriptions the broker refuses

ASSUME ConstantsAssumption ==
    /\ QueueLength \in Nat \ {0} /\ EventQueueSize \in Nat \ {0}
    /\ FilterOverwritten \in BOOLEAN
    /\ MaxPublishes \in Nat /\ MaxMessages \in Nat /\ MaxDrops \in Nat
    /\ MaxSelectErrors \in Nat /\ MaxRefusals \in Nat

Clients      == {"publish", "subscribe"}
Subscribes   == {"subscribe", "resubscribe"}
Acknowledged == Clients \cup Subscribes
Commands     == Acknowledged \cup {"loop"}
Publications == 1..MaxPublishes

\* The bits of the manager's xNetworkEventGroup (WIFI_DISCONNECTED_BIT is never used).
WIFI_CONNECTED == "wifiConnected"
CONNECTED      == "agentConnected"
DISCONNECTED   == "agentDisconnected"

VARIABLES
    link,          \* the Wi-Fi station has an address
    sock,          \* the TLS connection: "none", "open", "broken"
    bits,          \* the manager's xNetworkEventGroup
    appConnected,  \* WIFI::xNetworkEventGroup, its CORE_MQTT_AGENT_CONNECTED_BIT
    events,        \* the default event loop's queue
    conn,          \* where prvCoreMqttAgentConnectionTask is
    cleanSession,  \* its static xCleanSession
    agent,         \* where prvMQTTAgentTask is
    queue,         \* the agent's command queue
    pending,       \* pPendingAcks: commands sent and not acknowledged
    client,        \* thread -> its progress through prvPublishToTopic / prvSubscribeToTopic
    subscription,  \* whether xGlobalSubscriptionList holds SOS/IN
    incoming,      \* MQTT_INCOMING_PUBLISH_RECEIVED_BIT
    wire, acks,    \* packets under way to the broker and acknowledgements back
    broker,        \* the broker's session for this client and its subscription
    published,     \* publications started so far
    messages, drops, selectErrors, refusals,  \* bounded counters
    finished,      \* history: publications prvPublishToTopic has returned for
    received,      \* history: publication -> how often the broker has got it
    taken,         \* history: the same since the connection was established
    connects       \* history: connections established

network == <<link, sock, wire, acks, broker>>
manager == <<bits, appConnected, events, conn, cleanSession, agent>>
agentLib == <<queue, pending, subscription>>
bounds  == <<messages, drops, selectErrors, refusals>>
history == <<finished, received, taken, connects>>
vars == <<network, manager, agentLib, client, incoming, published, bounds, history>>

ConnPcs  == {"waiting", "connecting", "clearing", "setting", "posting", "serving",
             "processing", "errorClearing", "errorSetting", "errorPosting"}
AgentPcs == {"waiting", "looping", "clearing", "setting", "posting"}
Events   == {"gotIp", "staDisconnected", "connected", "disconnected"}

\* received and status are xReceivedEvent and xCommandContext.xReturnStatus; completed is
\* the thread's ..._COMMAND_COMPLETED_BIT in WIFI::xMqttEventGroup.
Client == [pc : {"idle", "waiting", "enqueueing", "completing", "receiving"},
           received : BOOLEAN, status : {"success", "failed"}, completed : BOOLEAN]

TypeOK ==
    /\ link \in BOOLEAN /\ sock \in {"none", "open", "broken"}
    /\ bits \subseteq {WIFI_CONNECTED, CONNECTED, DISCONNECTED}
    /\ appConnected \in BOOLEAN
    /\ events \in Seq(Events) /\ Len(events) <= EventQueueSize
    /\ conn \in ConnPcs /\ cleanSession \in BOOLEAN /\ agent \in AgentPcs
    /\ queue \in Seq(Commands) /\ Len(queue) <= QueueLength
    /\ pending \subseteq Acknowledged
    /\ client \in [Clients -> Client]
    /\ subscription \in BOOLEAN /\ incoming \in BOOLEAN
    /\ wire \subseteq Acknowledged
    /\ acks \subseteq [command : Acknowledged, status : {"success", "failed"}]
    /\ broker \in [session : BOOLEAN, subscribed : BOOLEAN]
    /\ published \in 0..MaxPublishes /\ messages \in 0..MaxMessages
    /\ drops \in 0..MaxDrops /\ selectErrors \in 0..MaxSelectErrors
    /\ refusals \in 0..MaxRefusals
    /\ finished \subseteq 1..published
    /\ received \in [Publications -> Nat] /\ taken \in [Publications -> Nat] /\ connects \in Nat

Init ==
    /\ link = FALSE /\ sock = "none"
    /\ bits = {DISCONNECTED} /\ appConnected = FALSE /\ events = <<>>
    /\ conn = "waiting" /\ cleanSession = TRUE /\ agent = "waiting"
    /\ queue = <<>> /\ pending = {} /\ subscription = FALSE
    /\ client = [c \in Clients |->
           [pc |-> "idle", received |-> FALSE, status |-> "success", completed |-> FALSE]]
    /\ incoming = FALSE
    /\ wire = {} /\ acks = {}
    /\ broker = [session |-> FALSE, subscribed |-> FALSE]
    /\ published = 0 /\ messages = 0 /\ drops = 0 /\ selectErrors = 0 /\ refusals = 0
    /\ finished = {} /\ received = [m \in Publications |-> 0]
    /\ taken = [m \in Publications |-> 0] /\ connects = 0

---------------------------------------------------------------------------
(***************************************************************************)
(* Helpers.                                                                *)
(***************************************************************************)
SetBit(b)   == bits' = bits \cup {b}
ClearBit(b) == bits' = bits \ {b}

\* Mutant: the post does not wait for room.
PostAnyway(e) == events' = Append(events, e)

\* esp_event_post with portMAX_DELAY: it blocks while the queue is full.
Post(e) == Len(events) < EventQueueSize /\ events' = Append(events, e)

\* concludeCommand for the commands of a set: the callbacks of the two threads store the
\* status and set the completed bit; a resubscribe without SUBACK codes changes nothing.
Conclude(commands, status) ==
    client' = [c \in Clients |->
        IF c \in commands THEN [client[c] EXCEPT !.status = status, !.completed = TRUE]
        ELSE client[c]]

\* The filter string of the list is an array on the stack of MQTTsubscribe.  While that
\* call runs it is intact; afterwards its bytes are what the build has left there.
InMQTTsubscribe == client["subscribe"].pc \in {"waiting", "enqueueing", "completing"}
Contents == IF InMQTTsubscribe \/ ~FilterOverwritten THEN {"SOS/IN"} ELSE {"SOS/IN", "garbage"}

\* Everything sent on a connection that is gone is lost.
Disconnect(to) == sock' = to /\ wire' = {} /\ acks' = {}

---------------------------------------------------------------------------
(***************************************************************************)
(* prvPublishToTopic and prvSubscribeToTopic, the same loop: wait for      *)
(* CONNECTED, enqueue the command, wait for its completion, and again      *)
(* until it has completed with success.                                    *)
(***************************************************************************)
Step(c, next) == client' = [client EXCEPT ![c] = next]

Call(c) ==
    /\ client[c].pc = "idle"
    /\ IF c = "publish"
       THEN published < MaxPublishes /\ published' = published + 1
       ELSE UNCHANGED published
    /\ Step(c, [client[c] EXCEPT !.pc = "waiting", !.received = FALSE, !.status = "success"])
    /\ UNCHANGED <<network, manager, agentLib, incoming, bounds, history>>

SeeConnected(c) ==
    /\ client[c].pc = "waiting" /\ appConnected
    /\ Step(c, [client[c] EXCEPT !.pc = "enqueueing"])
    /\ UNCHANGED <<network, manager, agentLib, incoming, published, bounds, history>>

Enqueue(c) ==
    /\ client[c].pc = "enqueueing" /\ Len(queue) < QueueLength
    /\ queue' = Append(queue, c)
    /\ Step(c, [client[c] EXCEPT !.pc = "completing"])
    /\ UNCHANGED <<network, manager, pending, subscription, incoming, published, bounds, history>>

\* Mutant: the returned status is not looked at.
ConditionsIgnoringStatus(c, m) ==
    /\ Step(c, [m EXCEPT !.pc = IF ~m.received THEN "waiting"
                                ELSE IF c = "publish" THEN "idle" ELSE "receiving"])
    /\ finished' = IF m.received /\ c = "publish" THEN finished \cup {published} ELSE finished

\* The end of the loop's body: return with success, or go around.
Conditions(c, m) ==
    LET returns == m.received /\ m.status = "success"
    IN  /\ Step(c, [m EXCEPT !.pc = IF ~returns THEN "waiting"
                                    ELSE IF c = "publish" THEN "idle" ELSE "receiving"])
        /\ finished' = IF returns /\ c = "publish" THEN finished \cup {published} ELSE finished

\* The queue stayed full for 500 ms.
EnqueueFails(c) ==
    /\ client[c].pc = "enqueueing" /\ Len(queue) = QueueLength
    /\ Conditions(c, client[c])
    /\ UNCHANGED <<network, manager, agentLib, incoming, published, bounds, received, taken,
                   connects>>

\* Mutant: prvWaitForEvent times out.
SeeCompletedOrTimeout(c) ==
    /\ client[c].pc = "completing"
    /\ Conditions(c, [client[c] EXCEPT !.received = @ \/ client[c].completed, !.completed = FALSE])
    /\ UNCHANGED <<network, manager, agentLib, incoming, published, bounds, received, taken,
                   connects>>

\* prvWaitForEvent has no timeout and clears the bit.
SeeCompleted(c) ==
    /\ client[c].pc = "completing" /\ client[c].completed
    /\ Conditions(c, [client[c] EXCEPT !.received = TRUE, !.completed = FALSE])
    /\ UNCHANGED <<network, manager, agentLib, incoming, published, bounds, received, taken,
                   connects>>

\* MQTTreceive, up to thread_Wifi's next MQTTsubscribe.
MQTTreceive ==
    /\ client["subscribe"].pc = "receiving" /\ incoming
    /\ incoming' = FALSE
    /\ Step("subscribe", [client["subscribe"] EXCEPT !.pc = "idle"])
    /\ UNCHANGED <<network, manager, agentLib, published, bounds, history>>

---------------------------------------------------------------------------
(***************************************************************************)
(* prvMQTTAgentTask and MQTTAgent_CommandLoop.                             *)
(***************************************************************************)
StartLoop ==
    /\ agent = "waiting" /\ CONNECTED \in bits
    /\ agent' = "looping"
    /\ UNCHANGED <<network, bits, appConnected, events, conn, cleanSession,
                   agentLib, client, incoming, published, bounds, history>>

\* processCommand on a command that needs an acknowledgement: sent and pending (on a
\* broken connection the packet may still fit the socket's buffer), or failed.
Send ==
    /\ agent = "looping" /\ queue # <<>> /\ Head(queue) \in Acknowledged
    /\ sock # "none"
    /\ queue' = Tail(queue)
    /\ pending' = pending \cup {Head(queue)}
    /\ wire' = IF sock = "open" THEN wire \cup {Head(queue)} ELSE wire
    /\ UNCHANGED <<link, sock, acks, broker, manager, subscription, client, incoming,
                   published, bounds, history>>

\* Mutant: a command whose packet could not be sent is concluded and stays pending.
SendFailsPending ==
    /\ agent = "looping" /\ queue # <<>> /\ Head(queue) \in Acknowledged
    /\ sock # "open"
    /\ queue' = Tail(queue) /\ pending' = pending \cup {Head(queue)}
    /\ Conclude({Head(queue)}, "failed")
    /\ agent' = "clearing"
    /\ UNCHANGED <<network, bits, appConnected, events, conn, cleanSession,
                   subscription, incoming, published, bounds, history>>

SendFails ==
    /\ agent = "looping" /\ queue # <<>> /\ Head(queue) \in Acknowledged
    /\ sock # "open"
    /\ queue' = Tail(queue)
    /\ Conclude({Head(queue)}, "failed")
    /\ agent' = "clearing"
    /\ UNCHANGED <<network, bits, appConnected, events, conn, cleanSession, pending,
                   subscription, incoming, published, bounds, history>>

ProcessLoop ==
    /\ agent = "looping" /\ queue # <<>> /\ Head(queue) = "loop"
    /\ queue' = Tail(queue)
    /\ UNCHANGED <<network, manager, pending, subscription, client, incoming,
                   published, bounds, history>>

\* Mutant: the acknowledged command is not removed from the pending list.
HandleAckKeepingEntry(a) ==
    /\ agent = "looping" /\ sock = "open" /\ a \in acks
    /\ acks' = acks \ {a}
    /\ Conclude({a.command} \cap pending, a.status)
    /\ subscription' = (subscription \/ (a.command = "subscribe" /\ a.status = "success"))
    /\ UNCHANGED <<link, sock, wire, broker, manager, queue, pending, incoming, published,
                   bounds, history>>

\* handleAcks: the callbacks of a thread's command and of a resubscribe.  A subscribe
\* that succeeds is added to the list; a resubscribe that is refused is removed.
HandleAck(a) ==
    /\ agent = "looping" /\ sock = "open" /\ a \in acks
    /\ acks' = acks \ {a}
    /\ pending' = pending \ {a.command}
    /\ IF a.command \in pending
       THEN /\ Conclude({a.command}, a.status)
            /\ subscription' =
                 \/ a.command = "subscribe" /\ a.status = "success"
                 \/ subscription /\ ~(a.command = "resubscribe" /\ a.status = "failed")
       ELSE UNCHANGED <<client, subscription>>
    /\ UNCHANGED <<link, sock, wire, broker, manager, queue, incoming, published, bounds, history>>

\* prvIncomingPublishCallback fans a message out to the list; without a match it is an
\* unsolicited publish.
IncomingPublish(content) ==
    /\ agent = "looping" /\ sock = "open" /\ broker.subscribed
    /\ messages < MaxMessages /\ messages' = messages + 1
    /\ content \in Contents
    /\ incoming' = (incoming \/ (subscription /\ content = "SOS/IN"))
    /\ UNCHANGED <<network, manager, agentLib, client, published, drops, selectErrors,
                   refusals, history>>

\* The process loop's receive fails: the command loop returns.
LoopFails ==
    /\ agent = "looping" /\ sock # "open"
    /\ agent' = "clearing"
    /\ UNCHANGED <<network, bits, appConnected, events, conn, cleanSession,
                   agentLib, client, incoming, published, bounds, history>>

AgentDisconnected ==
    /\ \/ agent = "clearing" /\ ClearBit(CONNECTED) /\ agent' = "setting" /\ UNCHANGED events
       \/ agent = "setting" /\ SetBit(DISCONNECTED) /\ agent' = "posting" /\ UNCHANGED events
       \/ agent = "posting" /\ Post("disconnected") /\ agent' = "waiting" /\ UNCHANGED bits
    /\ UNCHANGED <<network, appConnected, conn, cleanSession, agentLib, client, incoming,
                   published, bounds, history>>

---------------------------------------------------------------------------
(***************************************************************************)
(* prvCoreMqttAgentConnectionTask.                                         *)
(***************************************************************************)
StartConnecting ==
    /\ conn = "waiting" /\ {WIFI_CONNECTED, DISCONNECTED} \subseteq bits
    /\ conn' = "connecting"
    /\ Disconnect("none")
    /\ UNCHANGED <<link, broker, bits, appConnected, events, cleanSession, agent,
                   agentLib, client, incoming, published, bounds, history>>

\* Connecting takes a TLS handshake over the network, a good part of a second.  The event
\* loop task (priority 20) has handled what is posted and the agent task has got from
\* clearing a bit to posting the event long before.
HandshakeOutlasts == events = <<>> /\ agent \notin {"clearing", "setting", "posting"}

\* The broker on CONNECT: it drops the session of a clean connect, and creates one for
\* any other if there is none.
AfterConnect == [session |-> ~cleanSession,
                 subscribed |-> ~cleanSession /\ broker.session /\ broker.subscribed]
SessionPresent == ~cleanSession /\ broker.session

\* CONNECT has reached the broker, its CONNACK is lost or late; the task retries.
ConnackLost ==
    /\ conn = "connecting" /\ link /\ drops < MaxDrops
    /\ drops' = drops + 1
    /\ broker' = AfterConnect
    /\ UNCHANGED <<link, sock, wire, acks, manager, agentLib, client, incoming, published,
                   messages, selectErrors, refusals, history>>

Established ==
    /\ conn' = "clearing" /\ cleanSession' = FALSE
    /\ sock' = "open"
    /\ connects' = connects + 1 /\ taken' = [m \in Publications |-> 0]

\* Mutants: a new session leaves pending publishes alone; nothing is subscribed again.
ClearedSubscribesOnly == pending \cap Subscribes
ResubscribeNever == FALSE

\* MQTTAgent_ResumeSession's two outcomes: which pending commands it concludes.
ClearedOnResume == IF SessionPresent THEN pending \cap Subscribes ELSE pending

ResubscribeNeeded == ~cleanSession /\ ~SessionPresent /\ subscription

\* The connection is established: pending publishes are resent in a session that is
\* present, the subscriptions are queued again (prvHandleResubscribe) in a new one.
Connect ==
    /\ conn = "connecting" /\ link /\ HandshakeOutlasts
    /\ ResubscribeNeeded => Len(queue) < QueueLength
    /\ Established
    /\ broker' = AfterConnect
    /\ IF cleanSession
       THEN UNCHANGED <<client, pending, wire>>
       ELSE /\ Conclude(ClearedOnResume, "failed")
            /\ pending' = pending \ ClearedOnResume
            /\ wire' = IF SessionPresent THEN pending' ELSE {}
    /\ queue' = IF ResubscribeNeeded THEN Append(queue, "resubscribe") ELSE queue
    /\ UNCHANGED <<link, acks, bits, appConnected, events, agent, subscription, incoming,
                   published, bounds, finished, received>>

\* The connection is given up after MQTT_Connect: resending a publish fails (and concludes
\* it), or the queue has no room for the resubscribe.
ResumeFails ==
    /\ conn = "connecting" /\ link /\ HandshakeOutlasts /\ ~cleanSession
    /\ IF ResubscribeNeeded THEN Len(queue) = QueueLength /\ UNCHANGED drops
       ELSE /\ SessionPresent /\ "publish" \in pending
            /\ drops < MaxDrops /\ drops' = drops + 1
    /\ broker' = AfterConnect
    /\ Conclude(pending, "failed")
    /\ pending' = {}
    /\ UNCHANGED <<link, sock, wire, acks, manager, queue, subscription, incoming, published,
                   messages, selectErrors, refusals, history>>

\* Mutant: the connected event is not posted.
FlagConnectedSilently ==
    /\ \/ conn = "clearing" /\ ClearBit(DISCONNECTED) /\ conn' = "setting"
       \/ conn = "setting" /\ SetBit(CONNECTED) /\ conn' = "serving"
    /\ UNCHANGED <<network, events, appConnected, cleanSession, agent, agentLib, client,
                   incoming, published, bounds, history>>

FlagConnected ==
    /\ \/ conn = "clearing" /\ ClearBit(DISCONNECTED) /\ conn' = "setting" /\ UNCHANGED events
       \/ conn = "setting" /\ SetBit(CONNECTED) /\ conn' = "posting" /\ UNCHANGED events
       \/ conn = "posting" /\ Post("connected") /\ conn' = "serving" /\ UNCHANGED bits
    /\ UNCHANGED <<network, appConnected, cleanSession, agent, agentLib, client, incoming,
                   published, bounds, history>>

SeeDisconnected ==
    /\ conn = "serving" /\ DISCONNECTED \in bits
    /\ conn' = "waiting"
    /\ UNCHANGED <<network, bits, appConnected, events, cleanSession, agent, agentLib,
                   client, incoming, published, bounds, history>>

\* select() says readable: a process loop command is queued, if there is room at once.
SelectReadable ==
    /\ conn = "serving" /\ DISCONNECTED \notin bits
    /\ acks # {} \/ sock = "broken"
    /\ queue' = IF Len(queue) < QueueLength THEN Append(queue, "loop") ELSE queue
    /\ conn' = "processing"
    /\ UNCHANGED <<network, bits, appConnected, events, cleanSession, agent, pending,
                   subscription, client, incoming, published, bounds, history>>

\* ulTaskNotifyTake: the command has been processed, or ten seconds have passed with
\* the agent task waiting for the next connection.
LoopProcessed ==
    /\ conn = "processing"
    /\ (agent = "waiting" /\ CONNECTED \notin bits) \/ \A i \in DOMAIN queue : queue[i] # "loop"
    /\ conn' = "serving"
    /\ UNCHANGED <<network, bits, appConnected, events, cleanSession, agent, agentLib,
                   client, incoming, published, bounds, history>>

SelectError ==
    /\ conn = "serving" /\ DISCONNECTED \notin bits
    /\ sock = "broken" /\ selectErrors < MaxSelectErrors
    /\ selectErrors' = selectErrors + 1
    /\ conn' = "errorClearing"
    /\ UNCHANGED <<network, bits, appConnected, events, cleanSession, agent, agentLib,
                   client, incoming, published, messages, drops, refusals, history>>

FlagError ==
    /\ \/ conn = "errorClearing" /\ ClearBit(CONNECTED) /\ conn' = "errorSetting" /\ UNCHANGED events
       \/ conn = "errorSetting" /\ SetBit(DISCONNECTED) /\ conn' = "errorPosting" /\ UNCHANGED events
       \/ conn = "errorPosting" /\ Post("disconnected") /\ conn' = "serving" /\ UNCHANGED bits
    /\ UNCHANGED <<network, appConnected, cleanSession, agent, agentLib, client, incoming,
                   published, bounds, history>>

---------------------------------------------------------------------------
(***************************************************************************)
(* The event loop task: the manager's handlers and WIFI's.                 *)
(***************************************************************************)
prvWifiEventHandler(e) ==
    /\ e \in {"gotIp", "staDisconnected"}
    /\ IF e = "gotIp" THEN SetBit(WIFI_CONNECTED) ELSE ClearBit(WIFI_CONNECTED)
    /\ UNCHANGED appConnected

prvCoreMqttAgentEventHandler(e) ==
    \/ /\ e = "connected"
       /\ appConnected' = TRUE
       /\ UNCHANGED bits
    \/ /\ e = "disconnected"
       /\ bits' = (bits \ {CONNECTED}) \cup {DISCONNECTED}
       /\ appConnected' = FALSE

HandleEvent ==
    /\ events # <<>> /\ events' = Tail(events)
    /\ prvWifiEventHandler(Head(events)) \/ prvCoreMqttAgentEventHandler(Head(events))
    /\ UNCHANGED <<network, conn, cleanSession, agent, agentLib, client, incoming,
                   published, bounds, history>>

---------------------------------------------------------------------------
(***************************************************************************)
(* The network and the broker.                                             *)
(***************************************************************************)
WifiUp ==
    /\ ~link /\ link' = TRUE
    /\ Post("gotIp")
    /\ UNCHANGED <<sock, wire, acks, broker, bits, appConnected, conn, cleanSession, agent,
                   agentLib, client, incoming, published, bounds, history>>

WifiDown ==
    /\ link /\ link' = FALSE
    /\ drops < MaxDrops /\ drops' = drops + 1
    /\ Post("staDisconnected")
    /\ Disconnect(IF sock = "open" THEN "broken" ELSE sock)
    /\ UNCHANGED <<broker, bits, appConnected, conn, cleanSession, agent, agentLib, client,
                   incoming, published, messages, selectErrors, refusals, history>>

ConnectionBreaks ==
    /\ sock = "open"
    /\ drops < MaxDrops /\ drops' = drops + 1
    /\ Disconnect("broken")
    /\ UNCHANGED <<link, broker, manager, agentLib, client, incoming, published, messages,
                   selectErrors, refusals, history>>

SessionExpires ==
    /\ sock # "open" /\ broker.session
    /\ broker' = [session |-> FALSE, subscribed |-> FALSE]
    /\ UNCHANGED <<link, sock, wire, acks, manager, agentLib, client, incoming, published,
                   bounds, history>>

BrokerTakesPublish ==
    /\ sock = "open" /\ "publish" \in wire
    /\ wire' = wire \ {"publish"}
    /\ acks' = acks \cup {[command |-> "publish", status |-> "success"]}
    /\ received' = [received EXCEPT ![published] = @ + 1]
    /\ taken' = [taken EXCEPT ![published] = @ + 1]
    /\ UNCHANGED <<link, sock, broker, manager, agentLib, client, incoming, published,
                   bounds, finished, connects>>

\* A resubscribe carries what the list's filter string holds when it is sent.
BrokerTakesSubscribe(c, refuse, content) ==
    /\ sock = "open" /\ c \in wire \cap Subscribes
    /\ refuse => refusals < MaxRefusals
    /\ refusals' = IF refuse THEN refusals + 1 ELSE refusals
    /\ content \in IF c = "resubscribe" THEN Contents ELSE {"SOS/IN"}
    /\ wire' = wire \ {c}
    /\ acks' = acks \cup {[command |-> c, status |-> IF refuse THEN "failed" ELSE "success"]}
    /\ broker' = [broker EXCEPT !.subscribed = @ \/ (~refuse /\ content = "SOS/IN")]
    /\ UNCHANGED <<link, sock, manager, agentLib, client, incoming, published, messages,
                   drops, selectErrors, history>>

---------------------------------------------------------------------------
Thread(c) == SeeConnected(c) \/ Enqueue(c) \/ EnqueueFails(c) \/ SeeCompleted(c)

AgentTask == StartLoop \/ Send \/ SendFails \/ ProcessLoop \/ LoopFails \/ AgentDisconnected
Acknowledge == \E a \in acks : HandleAck(a)

ConnectionTask ==
    \/ StartConnecting \/ Connect \/ ResumeFails \/ FlagConnected \/ SeeDisconnected
    \/ SelectReadable \/ LoopProcessed \/ SelectError \/ FlagError

BrokerTask ==
    \/ BrokerTakesPublish
    \/ \E c \in Subscribes, refuse \in BOOLEAN, content \in {"SOS/IN", "garbage"} :
           BrokerTakesSubscribe(c, refuse, content)

Environment ==
    \/ WifiDown \/ ConnectionBreaks \/ ConnackLost \/ SessionExpires
    \/ \E content \in {"SOS/IN", "garbage"} : IncomingPublish(content)

Next ==
    \/ \E c \in Clients : Call(c) \/ Thread(c)
    \/ MQTTreceive \/ AgentTask \/ Acknowledge \/ ConnectionTask \/ HandleEvent \/ BrokerTask
    \/ WifiUp \/ Environment

Spec == Init /\ [][Next]_vars

(***************************************************************************)
(* Fairness.  Every task runs (preemptive priorities, and all of them      *)
(* block), and the agent's process loop reads whatever has arrived before  *)
(* the next command.  Wi-Fi comes back, a broker that has a packet answers, and a    *)
(* connection attempt that can succeed again and again succeeds once (the  *)
(* task retries forever).  A thread that retries forever to enqueue finds  *)
(* room in a queue that is drained.                                        *)
(***************************************************************************)
Fairness ==
    /\ \A c \in Clients : WF_vars(Thread(c)) /\ SF_vars(Enqueue(c)) /\ SF_vars(SeeConnected(c))
    /\ WF_vars(AgentTask) /\ WF_vars(Acknowledge) /\ WF_vars(LoopFails)
    /\ WF_vars(ConnectionTask) /\ SF_vars(Connect)
    /\ WF_vars(HandleEvent) /\ WF_vars(BrokerTask) /\ WF_vars(WifiUp)

FairSpec == Spec /\ Fairness

---------------------------------------------------------------------------
(***************************************************************************)
(* Properties.                                                             *)
(***************************************************************************)

\* prvPublishToTopic returns only for a publication the broker has got: no lost
\* connection, stale completed bit or failed enqueue makes it return early.
FinishedMeansReceived == \A m \in finished : received[m] >= 1

\* The broker gets a publication at most once on one connection: the agent's resend of a
\* pending command and the thread's own retry of a failed one never both go on it.
AtMostOncePerConnection == \A m \in Publications : taken[m] <= 1

\* A command's arguments and context live on the stack of the thread that issued it: the
\* thread does not leave the call while the command is queued or pending ("the variable
\* must persist until the callback executes").
ContextOutlivesCommand == \A c \in Clients :
    (c \in pending \/ \E i \in DOMAIN queue : queue[i] = c) => client[c].pc = "completing"

\* Once the last event is handled, what WIFI believes of the connection is what the
\* manager knows: with the tasks settled on an open connection, the threads may send.
Settled == events = <<>> /\ conn = "serving" /\ agent = "looping" /\ sock = "open"
FlagsAgree == (Settled /\ DISCONNECTED \notin bits) => (CONNECTED \in bits /\ appConnected)

\* A filter that is in the list is subscribed at the broker, unless a subscribe command
\* for it is still on its way: a failed resubscribe removes it from the list
\* (core_mqtt_agent_manager.c:176-178).
SubscribeUnderWay ==
    \/ \E i \in DOMAIN queue : queue[i] \in Subscribes
    \/ pending \cap Subscribes # {} \/ InMQTTsubscribe
SubscriptionKept ==
    (Settled /\ subscription /\ ~SubscribeUnderWay) => broker.subscribed

\* Whatever is lost on the way, every publication is finished in the end: no thread waits
\* for a bit that nobody sets any more.
PublishCompletes == (client["publish"].pc # "idle") ~> (client["publish"].pc = "idle")
=============================================================================
