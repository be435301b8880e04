------------------------------ MODULE LoraTowers ------------------------------
(***************************************************************************)
(* The chain of SafeClimb towers: one LoraManager per tower, run by        *)
(* thread_LoRa (exec in a loop), the radio between them, the button        *)
(* interrupt and the threads that hand packages to LoraManager.            *)
(*                                                                         *)
(* Tower MainTower (TOWER_NUMBER of the main tower) measures and sends to  *)
(* tower 0 (the server); the towers in between repeat.  Every exchange is  *)
(* two waves: the payload goes down hop by hop, each hop acknowledged by   *)
(* "OK" or by overhearing the forwarded payload, then the return "R" comes *)
(* back hop by hop, and the originator reports "Communication Successful". *)
(*                                                                         *)
(* A handler that delays (vTaskDelay) is two steps: what it does before    *)
(* the delay and what it does after it, so that the interrupt and the      *)
(* other threads run in between.  Elapsed times are not kept: a timeout is *)
(* an action that may happen once it is armed, except for the one ordering *)
(* of timeouts that the durations in parameters.h fix (see OutlivedBy).    *)
(***************************************************************************)
EXTENDS Integers, FiniteSets

CONSTANTS
    MainTower,        \* TOWER_NUMBER of the main tower; the server is tower 0
    Buttons,          \* the towers whose button is pressed
    LongMessages,     \* whether messages from MQTT may be longer than LORA_BYTES
    MaxMeasurements,  \* bound: measurements the main tower takes
    MaxTexts,         \* bound: text packages handed to LoraManager by other threads
    MaxPresses,       \* bound: button presses
    MaxCrcErrors      \* bound: frames that arrive with a CRC error

ASSUME ConstantsAssumption ==
    /\ MainTower \in Nat \ {0}
    /\ Buttons \subseteq 0..MainTower
    /\ MaxMeasurements \in Nat /\ MaxTexts \in Nat
    /\ MaxPresses \in Nat /\ MaxCrcErrors \in Nat
ASSUME LongMessagesAssumption == LongMessages \in BOOLEAN

Server == 0
Towers == 0..MainTower

\* Every package that carries information has an identity of its own: it stands
\* for the readings of a measurement or the characters of a text.
Measurements == 1..MaxMeasurements
Texts        == (MaxMeasurements + 1)..(MaxMeasurements + MaxTexts)
NoId         == 0
Ids          == {NoId} \cup Measurements \cup Texts

States == {"Send_Payload", "Send_Confirm_Primary", "Send_Return",
           "Receive_Payload", "Receive_Confirm_Primary", "Receive_Return",
           "Receive_Return_Confirm"}

\* Where thread_LoRa is: between two execs, in deep sleep, or in the delay of a
\* handler.  "measuring" is the main tower reading its sensors before the first exec.
Idle   == "idle"
Asleep == "asleep"
Delays == {"measuring", "sentPayload", "sentConfirm", "sentReturn",
           "acceptActual", "acceptReceived", "gotReturn", "gotReturnConfirm"}

---------------------------------------------------------------------------
(***************************************************************************)
(* Packages (LoraPackage).  "sensors" is the measurement with payload "T"; *)
(* "OK" and "R" are the two control packages of setPayload's default       *)
(* arguments (isInfo = false, txt = 1, ka = false); "blank" is the zeroed  *)
(* object a tower boots with, whose payload_size is 0.                     *)
(***************************************************************************)
Kinds   == {"sensors", "text", "OK", "R", "blank"}
Package == [kind : Kinds, dest : Towers, sender : Towers, orig : Towers, id : Ids]

Blank == [kind |-> "blank", dest |-> 0, sender |-> 0, orig |-> 0, id |-> NoId]

isText(p)      == p.kind \in {"text", "OK", "R"}
isInfo(p)      == p.kind \in {"sensors", "text"}
\* Mutant: a measurement opens a session too.
infoKeepsAlive(p) == isInfo(p)

iskeepAlive(p) == p.kind = "text"

\* memcmp(expected, payload, payload_size) == 0: with payload_size 0 it holds.
PayloadIs(p, expected) == p.kind \in {expected, "blank"}

\* memcmp(received.payload, actual.payload, ...) == 0: the payload of a
\* measurement is always "T", its readings are not part of it.
SamePayload(p, q) == p.kind = q.kind

\* Mutant: the neighbour's tower number instead of the tower's own.
NewPackageFromNeighbour(kind, dest, t, id) ==
    [kind |-> kind, dest |-> dest, sender |-> t + 1, orig |-> t, id |-> id]

NewPackage(kind, dest, t, id) ==
    [kind |-> kind, dest |-> dest, sender |-> t, orig |-> t, id |-> id]

\* The radio's receive buffer: nothing, a package, or a frame with a CRC error.
NoFrame  == [kind |-> "none"]
CrcError == [kind |-> "crc"]

---------------------------------------------------------------------------
VARIABLES
    lora,       \* tower -> the members of its LoraManager and of its threads
    rx,         \* tower -> its radio's receive buffer
    measured,   \* measurements taken so far
    texts,      \* texts handed over so far
    presses,    \* button presses so far
    crcErrors,  \* frames that arrived with a CRC error so far
    accepted,   \* history: tower -> ids it has taken charge of
    consumed,   \* history: ids consumeInfo has been called for
    repeated,   \* history: ids consumeInfo has been called for more than once
    announced   \* history: ids reported with "Communication Successful"

history == <<accepted, consumed, repeated, announced>>
bounds  == <<measured, texts, presses, crcErrors>>
vars    == <<lora, rx, bounds, history>>

Manager ==
    [at : {Idle, Asleep} \cup Delays,
     state : States, sender : BOOLEAN, transmitting : BOOLEAN,
     keepAlive : BOOLEAN, higher_order : BOOLEAN,
     actualPackage : Package, receivedPackage : Package,
     bluetooth_tower : Towers,
     bluetooth : {"off", "notified", "turningOn", "on", "ordering"},  \* thread_Bluetooth
     wifi : {"free", "ordered"}]                                      \* thread_Wifi

TypeOK ==
    /\ lora \in [Towers -> Manager]
    /\ rx \in [Towers -> Package \cup {NoFrame, CrcError}]
    /\ measured \in 0..MaxMeasurements
    /\ texts \in 0..MaxTexts
    /\ presses \in 0..MaxPresses
    /\ crcErrors \in 0..MaxCrcErrors
    /\ accepted \in [Towers -> SUBSET Ids]
    /\ consumed \subseteq Ids
    /\ repeated \subseteq consumed
    /\ announced \subseteq Ids

\* The zeroed object of a tower in deep sleep: RAM is not retained.
Off == [at |-> Asleep, state |-> "Send_Payload", sender |-> FALSE,
        transmitting |-> FALSE, keepAlive |-> FALSE, higher_order |-> FALSE,
        actualPackage |-> Blank, receivedPackage |-> Blank,
        bluetooth_tower |-> 0, bluetooth |-> "off", wifi |-> "free"]

Init ==
    /\ lora = [t \in Towers |-> Off]
    /\ rx = [t \in Towers |-> NoFrame]
    /\ measured = 0 /\ texts = 0 /\ presses = 0 /\ crcErrors = 0
    /\ accepted = [t \in Towers |-> {}]
    /\ consumed = {} /\ repeated = {} /\ announced = {}

---------------------------------------------------------------------------
(***************************************************************************)
(* LoraManager's own helpers, on the record m of one tower.                *)
(***************************************************************************)
changeState(m, s) == IF m.higher_order THEN m ELSE [m EXCEPT !.state = s]

sendPackage(m, p) ==
    LET loaded == [m EXCEPT !.actualPackage = p, !.sender = TRUE,
                            !.transmitting = TRUE]
    IN  IF iskeepAlive(p) THEN [loaded EXCEPT !.state = "Send_Payload"]
                          ELSE changeState(loaded, "Send_Payload")

\* Without keepAlive the tower enters deep sleep; with it the tower listens
\* again (the nested Receive_Payload finds the radio just switched on).
Sleep(m) ==
    IF m.keepAlive
    THEN changeState([m EXCEPT !.transmitting = FALSE, !.sender = FALSE],
                     "Receive_Payload")
    ELSE Off

\* The handler returns; the next exec starts with higher_order = false.
Return(m) == IF m.at = Asleep THEN m ELSE [m EXCEPT !.at = Idle, !.higher_order = FALSE]

\* lora_receive_packet returns 0 on a CRC error and setPackage(buf, 0) leaves
\* the package as it was.
setPackage(old, frame) == IF frame = CrcError THEN old ELSE frame

\* LoraManager runs the LoRa thread of t and t's radio has been asked to receive.
Listening(t) == lora[t].at = Idle /\ lora[t].state \in
    {"Receive_Payload", "Receive_Confirm_Primary", "Receive_Return", "Receive_Return_Confirm"}

InHandler(t, s) == lora[t].at = Idle /\ lora[t].state = s

Become(t, m)  == lora' = [lora EXCEPT ![t] = m]
Accept(t, id) == accepted' = [accepted EXCEPT ![t] = @ \cup {id}]
Drain(t)      == rx' = [rx EXCEPT ![t] = NoFrame]

---------------------------------------------------------------------------
(***************************************************************************)
(* Boot.  A tower wakes by its timer or its button; app_main starts the    *)
(* LoRa thread, which makes the main tower measure and send unless it was  *)
(* the button that woke it (bluetooth_comm).  All other towers listen.     *)
(***************************************************************************)
Booted == [Off EXCEPT !.at = Idle]
receivePackage(m) == changeState(m, "Receive_Payload")

WakeByTimer(t) ==
    /\ lora[t].at = Asleep
    /\ IF t = MainTower
       THEN /\ measured < MaxMeasurements
            /\ measured' = measured + 1
            /\ Become(t, [Booted EXCEPT !.at = "measuring"])
       ELSE /\ Become(t, receivePackage(Booted))
            /\ UNCHANGED measured
    /\ UNCHANGED <<rx, texts, presses, crcErrors, history>>

\* The sensors have been read, some four seconds later.
SendMeasurement(t) ==
    /\ lora[t].at = "measuring" /\ ~lora[t].transmitting
    /\ Become(t, Return(sendPackage(lora[t], NewPackage("sensors", Server, t, measured))))
    /\ Accept(t, measured)
    /\ UNCHANGED <<rx, bounds, consumed, repeated, announced>>

WakeByButton(t) ==
    /\ lora[t].at = Asleep
    /\ t \in Buttons /\ presses < MaxPresses
    /\ presses' = presses + 1
    /\ Become(t, [receivePackage(Booted) EXCEPT !.bluetooth = "notified"])
    /\ UNCHANGED <<rx, measured, texts, crcErrors, history>>

(***************************************************************************)
(* gpio_interrupt_handler on a running tower: notify thread_Bluetooth and  *)
(* LoraManager::interrupt().  higher_order outlives the interrupt only     *)
(* while a handler is in its delay: exec clears it.                        *)
(***************************************************************************)
ButtonPressed(t) ==
    /\ lora[t].at # Asleep
    /\ t \in Buttons /\ presses < MaxPresses
    /\ presses' = presses + 1
    /\ Become(t, [lora[t] EXCEPT
                    !.state = "Receive_Payload", !.transmitting = FALSE, !.sender = FALSE,
                    !.higher_order = (lora[t].at # Idle),
                    !.bluetooth = IF @ = "off" THEN "notified" ELSE @])
    /\ UNCHANGED <<rx, measured, texts, crcErrors, history>>

\* thread_Bluetooth gets the notification: receivePackage(), then turnOn().
BluetoothNotified(t) ==
    /\ lora[t].bluetooth = "notified"
    /\ Become(t, [receivePackage(lora[t]) EXCEPT !.bluetooth = "turningOn"])
    /\ UNCHANGED <<rx, bounds, history>>

\* turnOn() has returned: setKeepAlive(true).
BluetoothOn(t) ==
    /\ lora[t].bluetooth = "turningOn"
    /\ Become(t, [lora[t] EXCEPT !.bluetooth = "on", !.keepAlive = TRUE])
    /\ UNCHANGED <<rx, bounds, history>>

\* A thread hands over one text package with keepAlive: it spins while
\* transmitting is set, then loads actualPackage and forces the state.  The
\* caller is the manager with the thread's own progress updated.
HandOver(t, dest, caller) ==
    LET id == MaxMeasurements + texts + 1
    IN  /\ lora[t].at # Asleep /\ ~lora[t].transmitting
        /\ texts < MaxTexts
        /\ texts' = texts + 1
        /\ Become(t, sendPackage(caller, NewPackage("text", dest, t, id)))
        /\ Accept(t, id)
        /\ UNCHANGED <<rx, measured, presses, crcErrors, consumed, repeated, announced>>

\* setHigherOrder(true) from another thread: the handler whose delay is running loses
\* its change of state; between two execs the next exec clears it.
setHigherOrder(m) == [m EXCEPT !.higher_order = (m.at # Idle)]

\* thread_Bluetooth: text from the phone to the server; after the last package of a
\* text, setHigherOrder(true).  A phone does not connect and write in the seconds
\* the tower still measures.
SendFromBluetooth(t) ==
    /\ lora[t].bluetooth = "on" /\ lora[t].at # "measuring"
    /\ \E next \in {"on", "ordering"} :
           HandOver(t, Server, [lora[t] EXCEPT !.bluetooth = next])

BluetoothOrders(t) ==
    /\ lora[t].bluetooth = "ordering"
    /\ Become(t, setHigherOrder([lora[t] EXCEPT !.bluetooth = "on"]))
    /\ UNCHANGED <<rx, bounds, history>>

\* WIFI::MQTTreceive on the server: text to the tower of the last text consumed.  For
\* each package of a long message it calls setHigherOrder(true) first, whatever the
\* LoRa thread is doing, and spins in sendPackage afterwards.
WifiOrders(t) ==
    /\ t = Server /\ LongMessages /\ texts < MaxTexts
    /\ lora[t].at # Asleep /\ lora[t].wifi = "free"
    /\ Become(t, setHigherOrder([lora[t] EXCEPT !.wifi = "ordered"]))
    /\ UNCHANGED <<rx, bounds, history>>

SendFromWifi(t) ==
    /\ t = Server
    /\ HandOver(t, lora[t].bluetooth_tower, [lora[t] EXCEPT !.wifi = "free"])

---------------------------------------------------------------------------
(***************************************************************************)
(* The three sending handlers.  Transmit is the part up to and including   *)
(* lora_send_packet: any set of listening towers hears the frame, some of  *)
(* them with a CRC error.  A frame is a second or more on the air and a    *)
(* listening tower polls its radio every 20 ms: it has read its frame      *)
(* before the next one is complete.  The sender does not listen before the *)
(* handler's delay has ended; what its own receive buffer held is lost.    *)
(***************************************************************************)
Transmit(t, p, delay) ==
    LET listeners == {u \in Towers \ {t} : Listening(u)}
    IN  /\ \A u \in listeners : rx[u] = NoFrame
        /\ \E heard \in SUBSET listeners : \E garbled \in SUBSET (listeners \ heard) :
            /\ crcErrors + Cardinality(garbled) <= MaxCrcErrors
            /\ crcErrors' = crcErrors + Cardinality(garbled)
            /\ rx' = [u \in Towers |-> IF u = t THEN NoFrame
                                       ELSE IF u \in heard THEN p
                                       ELSE IF u \in garbled THEN CrcError ELSE rx[u]]
            /\ Become(t, [lora[t] EXCEPT !.at = delay])
            /\ UNCHANGED <<measured, texts, presses, history>>

Send_Payload(t) ==
    InHandler(t, "Send_Payload") /\ Transmit(t, lora[t].actualPackage, "sentPayload")

Send_Confirm_Primary(t) ==
    /\ InHandler(t, "Send_Confirm_Primary")
    /\ Transmit(t, NewPackage("OK", lora[t].actualPackage.dest, t, NoId), "sentConfirm")

Send_Return(t) ==
    /\ InHandler(t, "Send_Return")
    /\ Transmit(t, NewPackage("R", lora[t].actualPackage.dest, t, NoId), "sentReturn")

\* Mutant: no acknowledgement of the payload is waited for.
Send_Payload_Unconfirmed(t) ==
    /\ lora[t].at = "sentPayload"
    /\ Become(t, Return(changeState(lora[t], "Receive_Return_Confirm")))
    /\ UNCHANGED <<rx, bounds, history>>

Send_Payload_Done(t) ==
    /\ lora[t].at = "sentPayload"
    /\ Become(t, Return(changeState(lora[t], "Receive_Confirm_Primary")))
    /\ UNCHANGED <<rx, bounds, history>>

\* consumeInfo publishes or shows the package; a text also tells the server
\* which tower to answer to.
Send_Confirm_Primary_Done(t) ==
    LET m == lora[t]
        p == m.actualPackage
    IN  /\ m.at = "sentConfirm"
        /\ IF p.dest = t
           THEN /\ Become(t, Return([changeState(m, "Send_Return") EXCEPT
                       !.bluetooth_tower = IF isText(p) /\ t = Server THEN p.orig ELSE @]))
                /\ consumed' = consumed \cup {p.id}
                /\ repeated' = repeated \cup (consumed \cap {p.id})
           ELSE /\ Become(t, Return(changeState(m, "Send_Payload")))
                /\ UNCHANGED <<consumed, repeated>>
        /\ UNCHANGED <<rx, bounds, accepted, announced>>

Send_Return_Done(t) ==
    /\ lora[t].at = "sentReturn"
    /\ Become(t, Return(changeState(lora[t], "Receive_Return_Confirm")))
    /\ UNCHANGED <<rx, bounds, history>>

---------------------------------------------------------------------------
(***************************************************************************)
(* The four receiving handlers, with a frame in the receive buffer.        *)
(***************************************************************************)

\* Mutants: the package of any tower is taken; the two neighbours are swapped.
FromAnyone(t, p) == p.sender # t
FromNextSwapped(t, p) == \/ p.dest <= t /\ p.sender = t + 1
                         \/ p.dest >= t /\ p.sender = t - 1

\* The package comes from the neighbour on the far side of its destination (it is
\* on its way through or to t), or from the neighbour towards its destination.
FromPrevious(t, p) == \/ p.dest <= t /\ p.sender = t + 1
                      \/ p.dest >= t /\ p.sender = t - 1
FromNext(t, p)     == \/ p.dest <= t /\ p.sender = t - 1
                      \/ p.dest >= t /\ p.sender = t + 1

\* Mutant: the session does not refuse measurements.
RefusesNothing(m, p) == FALSE

\* The tests behind "Invalid transmission".
RefusesSensors(m, p) == ~isText(p) /\ m.keepAlive
PassesBack(t, m, p)  == m.sender /\ p.sender > t /\ p.dest <= t

Receive_Payload(t) ==
    LET p == setPackage(lora[t].actualPackage, rx[t])
        m == [lora[t] EXCEPT !.actualPackage = p]
        invalid == RefusesSensors(m, p) \/ m.transmitting \/ PassesBack(t, m, p)
    IN  /\ InHandler(t, "Receive_Payload") /\ rx[t] # NoFrame
        /\ Become(t, IF invalid \/ ~FromPrevious(t, p) \/ ~isInfo(p) THEN m
                     ELSE [m EXCEPT !.keepAlive = @ \/ iskeepAlive(p), !.at = "acceptActual"])
        /\ Drain(t)
        /\ UNCHANGED <<bounds, history>>

\* After the delay: take charge of whatever actualPackage is by then.
AcceptActual(t) ==
    LET m == [changeState(lora[t], "Send_Confirm_Primary") EXCEPT
                !.actualPackage.sender = t, !.transmitting = TRUE]
    IN  /\ lora[t].at = "acceptActual"
        /\ Become(t, Return(m))
        /\ Accept(t, m.actualPackage.id)
        /\ UNCHANGED <<rx, bounds, consumed, repeated, announced>>

\* The first branch of the other three handlers: a text with keepAlive is taken
\* from any tower, unless it is on its way away from this one.
ReceiveText(t, m) ==
    LET p == m.receivedPackage
        awaySide == \/ p.sender > t /\ p.dest > t
                    \/ p.sender < t /\ p.dest < t
        kept == [m EXCEPT !.keepAlive = TRUE]
    IN  IF awaySide THEN kept ELSE [kept EXCEPT !.at = "acceptReceived"]

AcceptReceived(t) ==
    LET mine == [lora[t].receivedPackage EXCEPT !.sender = t]
        m == [changeState(lora[t], "Send_Confirm_Primary") EXCEPT
                !.receivedPackage = mine, !.actualPackage = mine, !.transmitting = TRUE]
    IN  /\ lora[t].at = "acceptReceived"
        /\ Become(t, Return(m))
        /\ Accept(t, mine.id)
        /\ UNCHANGED <<rx, bounds, consumed, repeated, announced>>

\* The manager of t with the frame loaded into receivedPackage.
Heard(t) == [lora[t] EXCEPT !.receivedPackage = setPackage(@, rx[t])]

\* A receiving handler other than Receive_Payload: take a text, ignore an invalid
\* package, or become what the handler makes of any other.
Receive(t, s, invalid, otherwise) ==
    LET m == Heard(t)
        p == m.receivedPackage
    IN  /\ InHandler(t, s) /\ rx[t] # NoFrame
        /\ Become(t, IF isInfo(p) /\ iskeepAlive(p) THEN ReceiveText(t, m)
                     ELSE IF invalid THEN m ELSE otherwise)
        /\ Drain(t)
        /\ UNCHANGED <<bounds, history>>

Receive_Confirm_Primary(t) ==
    LET m == Heard(t)
        p == m.receivedPackage
    IN  Receive(t, "Receive_Confirm_Primary", RefusesSensors(m, p) \/ PassesBack(t, m, p),
            IF ~FromNext(t, p) \/ p.dest = t THEN m
            ELSE IF SamePayload(p, m.actualPackage) \/ PayloadIs(p, "OK")
                 THEN changeState(m, "Receive_Return")
            ELSE IF PayloadIs(p, "R") THEN changeState(m, "Send_Return") ELSE m)

Receive_Return(t) ==
    LET m == Heard(t)
        p == m.receivedPackage
    IN  Receive(t, "Receive_Return", PassesBack(t, m, p),
            IF FromNext(t, p) /\ PayloadIs(p, "R") THEN [m EXCEPT !.at = "gotReturn"] ELSE m)

Receive_Return_Done(t) ==
    /\ lora[t].at = "gotReturn"
    /\ Become(t, Return(changeState(lora[t], "Send_Return")))
    /\ UNCHANGED <<rx, bounds, history>>

\* The relays and the destination; an originator never gets here (Succeed).
Receive_Return_Confirm(t) ==
    LET m == Heard(t)
        p == m.receivedPackage
    IN  /\ ~lora[t].sender
        /\ Receive(t, "Receive_Return_Confirm", PassesBack(t, m, p),
            IF FromPrevious(t, p) /\ PayloadIs(p, "R")
            THEN [m EXCEPT !.at = "gotReturnConfirm"] ELSE m)

Receive_Return_Confirm_Done(t) ==
    /\ lora[t].at = "gotReturnConfirm"
    /\ Become(t, Return(Sleep(lora[t])))
    /\ UNCHANGED <<rx, bounds, history>>

\* "Communication Successful": the originator in Receive_Return_Confirm.
Succeed(t) ==
    /\ InHandler(t, "Receive_Return_Confirm") /\ lora[t].sender
    /\ Become(t, Sleep(lora[t]))
    /\ Drain(t)
    /\ announced' = announced \cup {lora[t].actualPackage.id}
    /\ UNCHANGED <<bounds, accepted, consumed, repeated>>

---------------------------------------------------------------------------
(***************************************************************************)
(* Timeouts.  The random retransmission timeout needs an empty receive     *)
(* buffer; exec checks the other two before it runs a handler.             *)
(***************************************************************************)
\* Mutant: the payload is sent once.
RetransmitPayloadNever(t) == FALSE

RetransmitPayload(t) ==
    /\ InHandler(t, "Receive_Confirm_Primary") /\ rx[t] = NoFrame
    /\ Become(t, changeState(lora[t], "Send_Payload"))
    /\ UNCHANGED <<rx, bounds, history>>

RetransmitReturn(t) ==
    /\ InHandler(t, "Receive_Return_Confirm") /\ rx[t] = NoFrame /\ ~lora[t].sender
    /\ Become(t, changeState(lora[t], "Send_Return"))
    /\ UNCHANGED <<rx, bounds, history>>

\* GLOBAL_TIMEOUT (120 s) runs from the moment a tower takes charge.  u is nearer
\* to the main tower and took charge of the same measurement before t: it has
\* since sent "OK" and the payload, and t has waited out its own delay, 7 s in
\* all at least, while no handler of u delays its next exec by more than 4 s.
\* So u has given up before t does.
InExchange(m) == m.at # Asleep /\ (m.at # Idle \/ m.state # "Receive_Payload")
\* Mutant: the timeouts of an exchange run out in any order.
OutlivedByNobody(u, t) == FALSE

OutlivedBy(u, t) ==
    /\ u > t /\ InExchange(lora[u]) /\ ~lora[u].keepAlive
    /\ lora[u].actualPackage.kind = "sensors"
    /\ lora[u].actualPackage.id = lora[t].actualPackage.id

GlobalTimeout(t) ==
    /\ lora[t].at = Idle /\ ~lora[t].keepAlive
    /\ lora[t].state # "Receive_Payload"
    /\ ~\E u \in Towers : OutlivedBy(u, t)
    /\ Become(t, Sleep(lora[t]))
    /\ Drain(t)
    /\ UNCHANGED <<bounds, history>>

\* Mutant: a listening tower does not check the timeout.
BluetoothTimeoutUnlessListening(t) ==
    /\ lora[t].at = Idle /\ lora[t].keepAlive
    /\ lora[t].state # "Receive_Payload"
    /\ Become(t, Sleep([lora[t] EXCEPT !.keepAlive = FALSE]))
    /\ Drain(t)
    /\ UNCHANGED <<bounds, history>>

BluetoothTimeout(t) ==
    /\ lora[t].at = Idle /\ lora[t].keepAlive
    /\ Become(t, Sleep([lora[t] EXCEPT !.keepAlive = FALSE]))
    /\ Drain(t)
    /\ UNCHANGED <<bounds, history>>

---------------------------------------------------------------------------
Sending(t) == Send_Payload(t) \/ Send_Confirm_Primary(t) \/ Send_Return(t)

AfterDelay(t) ==
    \/ SendMeasurement(t)
    \/ Send_Payload_Done(t) \/ Send_Confirm_Primary_Done(t) \/ Send_Return_Done(t)
    \/ AcceptActual(t) \/ AcceptReceived(t)
    \/ Receive_Return_Done(t) \/ Receive_Return_Confirm_Done(t)

Receiving(t) ==
    \/ Receive_Payload(t) \/ Receive_Confirm_Primary(t)
    \/ Receive_Return(t) \/ Receive_Return_Confirm(t)

Retransmit(t) == RetransmitPayload(t) \/ RetransmitReturn(t)
GiveUp(t)     == GlobalTimeout(t) \/ BluetoothTimeout(t)

\* thread_LoRa, without the timeouts that end an exchange.
LoRaThread(t) == Sending(t) \/ AfterDelay(t) \/ Receiving(t) \/ Retransmit(t) \/ Succeed(t)

BluetoothThread(t) == BluetoothNotified(t) \/ BluetoothOn(t) \/ BluetoothOrders(t)

Environment(t) ==
    \/ WakeByTimer(t) \/ WakeByButton(t) \/ ButtonPressed(t)
    \/ SendFromBluetooth(t) \/ WifiOrders(t) \/ SendFromWifi(t)

Next == \E t \in Towers : LoRaThread(t) \/ GiveUp(t) \/ BluetoothThread(t) \/ Environment(t)

Spec == Init /\ [][Next]_vars

---------------------------------------------------------------------------
(***************************************************************************)
(* Fairness.  FreeRTOS round-robins the equal-priority tasks, so each      *)
(* thread of an awake tower keeps running (consumeInfo returning on the    *)
(* server also needs a network).  A tower in deep sleep is woken by its    *)
(* timer.  The timeouts are strongly fair: a time that has elapsed stays   *)
(* elapsed from one exec to the next, while the action is disabled         *)
(* whenever a handler is in its delay or a frame has to be read first.     *)
(* So is Sending, whose guard waits for other towers to read a frame.      *)
(***************************************************************************)
ThreadsRun == \A t \in Towers :
    /\ WF_vars(LoRaThread(t)) /\ SF_vars(Sending(t)) /\ SF_vars(Retransmit(t))
    /\ WF_vars(BluetoothThread(t)) /\ WF_vars(WakeByTimer(t))

TimersElapse == \A t \in Towers : SF_vars(GiveUp(t))

\* The random retransmission timeout (5 to 14 s) is there so that two towers do
\* not transmit over each other forever: a frame that is sent again and again
\* while its neighbour listens again and again is heard in the end.
SendHeard(t, u) ==
    Sending(t) /\ Listening(u) /\ rx'[u] \notin {NoFrame, CrcError}
RadioFair == \A t, u \in Towers :
    t \in {u - 1, u + 1} => SF_vars(SendHeard(t, u))

TimedSpec == Spec /\ ThreadsRun /\ TimersElapse
RadioSpec == Spec /\ ThreadsRun /\ RadioFair

---------------------------------------------------------------------------
(***************************************************************************)
(* Properties.                                                             *)
(***************************************************************************)

\* What the chain promises about measurements (module MeasurementDelivery): each is
\* delivered at most once and reported successful only once it has been delivered.
Deliveries == [m \in Measurements |->
    IF m \in repeated THEN 2 ELSE IF m \in consumed THEN 1 ELSE 0]
Delivery == INSTANCE MeasurementDelivery WITH
    taken <- measured, deliveries <- Deliveries, reported <- announced \cap Measurements
DeliveryPromise == Delivery!Spec

\* What the originator reports as "Communication Successful" has been handed to
\* consumeInfo at the destination (LoraManager.cpp:312-316 against 130-136).
SuccessMeansConsumed == announced \subseteq consumed

\* The same when the only package under way is a text and nobody else's answer can be
\* taken for its own: an "R" names no package, but there is only one it can be about.
OnlyTexts == measured = 0 /\ crcErrors = 0
TextSuccessMeansConsumed == (OnlyTexts /\ texts <= 1) => SuccessMeansConsumed

\* Nothing is reported successful before anything has been consumed anywhere:
\* an "R" only ever starts at a destination that has just called consumeInfo.
NoSuccessBeforeDelivery == (crcErrors = 0 /\ consumed = {}) => announced = {}

\* However many frames are lost, repeated or corrupted and whoever gives up and
\* reboots, a measurement is published once: retransmissions, the stale exchange
\* of a rebooted neighbour and the payload overheard twice never make the server
\* consume the same measurement again.
ConsumedOnce == repeated \cap Measurements = {}

\* No tower is skipped: a tower takes charge of a measurement only after the next
\* tower up the chain has (the neighbour test of Receive_Payload, line 171).
PathUnbroken == \A t \in Towers \ {MainTower} :
    accepted[t] \cap Measurements \subseteq accepted[t + 1]

\* A tower stops retransmitting a measurement (Receive_Return has no retransmission
\* timeout) only when the next tower down has taken charge of it.
CustodyPassedOn == \A t \in Towers \ {Server} :
    (InHandler(t, "Receive_Return") /\ lora[t].actualPackage.kind = "sensors")
        => lora[t].actualPackage.id \in accepted[t - 1]

\* The return wave only carries back what has been consumed: a tower sends or
\* confirms "R" only for a package that consumeInfo has been called for.
ReturnMeansConsumed == \A t \in Towers :
    (lora[t].at # Asleep /\ lora[t].state \in {"Send_Return", "Receive_Return_Confirm"})
        => lora[t].actualPackage.id \in consumed

\* A tower in the middle of an exchange never swaps the measurement it carries for
\* another measurement: only a text, a reboot or the button takes it away.
KeepsMeasurement == [][\A t \in Towers :
    (/\ InExchange(lora[t]) /\ lora[t].actualPackage.kind = "sensors"
     /\ lora'[t].at # Asleep
     /\ lora'[t].actualPackage.id # lora[t].actualPackage.id)
        => lora'[t].actualPackage.kind = "text"]_vars

\* A phone or a text meets a measurement on a tower that has it in hand or has taken
\* charge of it: the button is pressed there or has just been, a text is heard there, or
\* another thread holds the state with setHigherOrder.
HasMeasurement(t) ==
    /\ lora[t].actualPackage.kind = "sensors"
    /\ InExchange(lora[t]) \/ lora[t].actualPackage.id \in accepted[t]
TextMeetsMeasurement == \E t \in Towers :
    /\ HasMeasurement(t)
    /\ \/ lora[t].bluetooth \in {"notified", "turningOn"}
       \/ lora[t].receivedPackage.kind = "text"
       \/ lora[t].higher_order

\* Sessions, texts and buttons anywhere else do no harm: a measurement is published twice
\* only in a behaviour in which one of them meets it on its way.  A tower already in a
\* session has to refuse the measurement (lines 167 and 237): its timeout (600 s) is not
\* the one that the order of the neighbours' timeouts (120 s) rests on.
OnlyTextsRepeat == []~TextMeetsMeasurement => []ConsumedOnce

\* sendPackage spins while transmitting is set, so transmitting must not stay set:
\* whatever a tower waits for (an "R" nobody repeats, a tower that left, a flag set
\* by a handler the button interrupted), a timeout ends it.
EveryExchangeEnds == \A t \in Towers :
    lora[t].transmitting ~> ~lora[t].transmitting

\* With a radio that lets retransmissions through in the end, a measurement is
\* consumed by the server unless the main tower's own timeout ends the exchange.
MeasurementArrives == \A m \in Measurements :
    (measured = m) ~> (m \in consumed \/ lora[MainTower].at = Asleep)
=============================================================================
