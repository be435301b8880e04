------------------------ MODULE LoraTowersReturnProofs ------------------------
(***************************************************************************)
(* As long as the radio corrupts no frame, nobody reports success before   *)
(* something has been consumed (NoSuccessBeforeDelivery).                  *)
(*                                                                         *)
(* Inductively: until then there is no "R" anywhere.  No frame on the air  *)
(* is one, nobody is in or about to enter a state of the return wave, and  *)
(* whoever is in an exchange carries information, so that what it sends as *)
(* its payload is no "R" either (nor the blank package, which passes for   *)
(* every payload).                                                         *)
(*                                                                         *)
(* What the towers of an exchange carry is something that was measured or  *)
(* handed over (CarryInv).  So if there has been one package only, what is *)
(* reported as a success is what was consumed (OnePackageCorrect,          *)
(* TextSuccessCorrect).                                                    *)
(***************************************************************************)
EXTENDS LoraTowersProofs

USE ConstantsAssumption

Before == crcErrors = 0 /\ consumed = {}

ReturnStates == {"Send_Return", "Receive_Return_Confirm"}
ReturnDelays == {"sentReturn", "gotReturn", "gotReturnConfirm"}

\* Manager m has no part in a return wave.
Quiet(m) ==
    /\ m.at # Asleep => m.state \notin ReturnStates
    /\ m.at \notin ReturnDelays
    /\ m.at = "acceptReceived" => m.receivedPackage.kind = "text"
    /\ InExchange(m) /\ m.at # "measuring" => isInfo(m.actualPackage)

\* A receive buffer that holds a package on its way out, or nothing.
Outward(frame) == frame = NoFrame \/ (frame # CrcError /\ frame.kind \in {"sensors", "text", "OK"})

ReturnInv ==
    /\ TypeOK
    /\ Before => /\ announced = {}
                 /\ \A t \in Towers : Quiet(lora[t]) /\ Outward(rx[t])

---------------------------------------------------------------------------
\* A tower that sleeps or has just booted is quiet.
LEMMA OffQuiet == Quiet(Off) /\ Quiet([Booted EXCEPT !.at = "measuring"])
                  /\ Quiet(receivePackage(Booted))
BY DEF Off, Booted, Quiet, ReturnStates, ReturnDelays, InExchange, Asleep, Idle,
       receivePackage, changeState

\* A step that leaves tower t quiet and fills no receive buffer, with nothing
\* consumed and nobody announcing anything.
LEMMA BecomeQuiet ==
    ASSUME ReturnInv, TypeOK', NEW t \in Towers, NEW m, Become(t, m),
           Before => Quiet(m), rx' = rx \/ Drain(t),
           UNCHANGED <<crcErrors, consumed, announced>>
    PROVE  ReturnInv'
<1>1. \A u \in Towers : lora'[u] = IF u = t THEN m ELSE lora[u]
  BY DEF Become, ReturnInv, TypeOK
<1>2. \A u \in Towers : rx'[u] \in {rx[u], NoFrame}
  BY DEF Drain, ReturnInv, TypeOK
<1>. QED
  BY <1>1, <1>2 DEF ReturnInv, Before, Outward

\* Every step of the environment.
LEMMA EnvironmentQuiet ==
    ASSUME ReturnInv, TypeOK', NEW t \in Towers, Environment(t) \/ BluetoothThread(t)
    PROVE  ReturnInv'
<1> DEFINE m == lora[t]
<1>0. m \in Manager /\ (Before => Quiet(m))
  BY DEF ReturnInv, TypeOK
<1>1. CASE WakeByTimer(t)
  BY <1>1, OffQuiet, BecomeQuiet DEF WakeByTimer, history
<1>2. CASE WakeByButton(t)
  <2>1. receivePackage(Booted) \in Manager
    BY OffType DEF receivePackage, changeState, Booted, Manager, States
  <2>2. Quiet([receivePackage(Booted) EXCEPT !.bluetooth = "notified"])
    BY <2>1, OffQuiet DEF Quiet, InExchange, Manager
  <2>. QED
    BY <1>2, <2>2, BecomeQuiet DEF WakeByButton, history, bounds
<1>3. CASE ButtonPressed(t)
  <2> DEFINE n == [m EXCEPT
                    !.state = "Receive_Payload", !.transmitting = FALSE, !.sender = FALSE,
                    !.higher_order = (m.at # Idle),
                    !.bluetooth = IF @ = "off" THEN "notified" ELSE @]
  <2>1. Before => Quiet(n)
    BY <1>0 DEF Quiet, InExchange, Manager, ReturnStates
  <2>2. Become(t, n)
    BY <1>3 DEF ButtonPressed
  <2>. QED
    BY <1>3, <2>1, <2>2, BecomeQuiet DEF ButtonPressed, history
<1>4. CASE BluetoothNotified(t)
  <2>1. Before => Quiet([receivePackage(m) EXCEPT !.bluetooth = "turningOn"])
    BY <1>0 DEF receivePackage, changeState, Quiet, InExchange, Manager, ReturnStates
  <2>. QED
    BY <1>4, <2>1, BecomeQuiet DEF BluetoothNotified, history, bounds
<1>5. CASE BluetoothOn(t)
  <2>1. Before => Quiet([m EXCEPT !.bluetooth = "on", !.keepAlive = TRUE])
    BY <1>0 DEF Quiet, InExchange, Manager
  <2>. QED
    BY <1>5, <2>1, BecomeQuiet DEF BluetoothOn, history, bounds
<1>6. CASE SendFromBluetooth(t) \/ SendFromWifi(t)
  <2>0. PICK dest \in Towers, c \in Callers(m) : HandOver(t, dest, c)
    BY <1>0, <1>6, ThreadSteps
  <2> DEFINE p == NewPackage("text", dest, t, MaxMeasurements + texts + 1)
             loaded == sendPackage(c, p)
  <2>1. p.kind = "text" /\ c \in Manager /\ c.at = m.at
        /\ c.receivedPackage = m.receivedPackage
    BY <1>0, CallerSame DEF NewPackage
  <2>2. /\ loaded.actualPackage = p /\ loaded.receivedPackage = m.receivedPackage
        /\ loaded.state = "Send_Payload" /\ loaded.at = m.at
    BY <2>1 DEF sendPackage, iskeepAlive, Manager
  <2>3. Before => Quiet(loaded)
    BY <1>0, <2>1, <2>2 DEF Quiet, InExchange, isInfo, ReturnStates
  <2>. QED
    BY <2>0, <2>3, BecomeQuiet DEF HandOver
<1>7. CASE BluetoothOrders(t) \/ WifiOrders(t)
  <2>1. PICK c \in Callers(m) :
            Become(t, setHigherOrder(c)) /\ UNCHANGED <<rx, bounds, history>>
    BY <1>0, <1>7, ThreadSteps
  <2>2. Before => Quiet(setHigherOrder(c))
    BY <1>0, CallerSame DEF Quiet, InExchange
  <2>. QED
    BY <2>1, <2>2, BecomeQuiet DEF history, bounds
<1>. QED
  BY <1>1, <1>2, <1>3, <1>4, <1>5, <1>6, <1>7 DEF Environment, BluetoothThread

\* A transmission without a CRC error spreads what it sends and nothing else.
LEMMA TransmitQuiet ==
    ASSUME ReturnInv, TypeOK', NEW t \in Towers, NEW p, NEW delay \in Delays,
           Transmit(t, p, delay),
           Before => /\ p.kind \in {"sensors", "text", "OK"} /\ p # CrcError
                     /\ delay \in {"sentPayload", "sentConfirm"}
                     /\ lora[t].at = Idle /\ lora[t].state # "Receive_Payload"
    PROVE  ReturnInv'
<1>0. lora[t] \in Manager
  BY DEF ReturnInv, TypeOK
<1> DEFINE listeners == {u \in Towers \ {t} : Listening(u)}
<1>8. PICK heard \in SUBSET listeners : \E garbled \in SUBSET (listeners \ heard) :
        /\ crcErrors' = crcErrors + Cardinality(garbled)
        /\ rx' = [u \in Towers |-> IF u = t THEN NoFrame
                                   ELSE IF u \in heard THEN p
                                   ELSE IF u \in garbled THEN CrcError ELSE rx[u]]
  BY Zenon DEF Transmit
<1>1. PICK garbled \in SUBSET (listeners \ heard) :
        /\ crcErrors' = crcErrors + Cardinality(garbled)
        /\ rx' = [u \in Towers |-> IF u = t THEN NoFrame
                                   ELSE IF u \in heard THEN p
                                   ELSE IF u \in garbled THEN CrcError ELSE rx[u]]
  BY <1>8, Zenon
<1>2. IsFiniteSet(garbled) /\ Cardinality(garbled) \in Nat
  <2>2. garbled \subseteq Towers
    OBVIOUS
  <2>3. IsFiniteSet(garbled)
    BY <2>2, TowersFinite, FS_Subset
  <2>. QED
    BY <2>3, FS_CardinalityType
<1>3. Before' => Before /\ garbled = {}
  <2>1. crcErrors \in Nat /\ UNCHANGED consumed
    BY DEF ReturnInv, TypeOK, Transmit, history
  <2>2. Before' => crcErrors = 0 /\ Cardinality(garbled) = 0 /\ consumed = {}
    BY <1>1, <1>2, <2>1 DEF Before
  <2>. QED
    BY <1>2, <2>2, FS_EmptySet DEF Before
<1>4. Before => Quiet([lora[t] EXCEPT !.at = delay])
  <2>1. SUFFICES ASSUME Before PROVE Quiet([lora[t] EXCEPT !.at = delay])
    OBVIOUS
  <2>2. Quiet(lora[t]) /\ lora[t].at = Idle /\ lora[t].state # "Receive_Payload"
        /\ delay \in {"sentPayload", "sentConfirm"}
    BY <2>1 DEF ReturnInv
  <2>3. /\ lora[t].state \notin ReturnStates /\ isInfo(lora[t].actualPackage)
    BY <2>2 DEF Quiet, InExchange, Idle, Asleep
  <2>4. /\ [lora[t] EXCEPT !.at = delay].at = delay
        /\ [lora[t] EXCEPT !.at = delay].state = lora[t].state
        /\ [lora[t] EXCEPT !.at = delay].actualPackage = lora[t].actualPackage
    BY <1>0 DEF Manager
  <2>. QED
    BY <2>2, <2>3, <2>4 DEF Quiet, ReturnDelays
<1>5. \A u \in Towers : Before' => Outward(rx'[u])
  <2>1. SUFFICES ASSUME NEW u \in Towers, Before' PROVE Outward(rx'[u])
    OBVIOUS
  <2>2. Outward(rx[u]) /\ p.kind \in {"sensors", "text", "OK"} /\ p # CrcError
    BY <1>3, <2>1 DEF ReturnInv
  <2>3. rx'[u] \in {NoFrame, p, rx[u]}
    BY <1>1, <1>3, <2>1
  <2>. QED
    BY <2>2, <2>3 DEF Outward
<1>6. \A u \in Towers : lora'[u] = IF u = t THEN [lora[t] EXCEPT !.at = delay] ELSE lora[u]
  BY DEF Transmit, Become, ReturnInv, TypeOK
<1>7. UNCHANGED announced
  BY DEF Transmit, history
<1>. QED
  BY <1>3, <1>4, <1>5, <1>6, <1>7 DEF ReturnInv

\* The sending steps and the ends of delays: Send_Return is out of the question
\* until a destination has consumed something, and then Before is over.
LEMMA SendingQuiet ==
    ASSUME ReturnInv, TypeOK', NEW t \in Towers, Sending(t) \/ AfterDelay(t)
    PROVE  ReturnInv'
<1> DEFINE m == lora[t]
<1>0. /\ m \in Manager /\ m.actualPackage \in Package /\ m.receivedPackage \in Package
      /\ Before => Quiet(m)
  BY DEF ReturnInv, TypeOK, Manager
<1>1. CASE Send_Payload(t)
  <2>1. Before => m.actualPackage.kind \in {"sensors", "text"}
    BY <1>0, <1>1 DEF Send_Payload, Quiet, InHandler, InExchange, Idle, Asleep, isInfo
  <2>2. m.actualPackage # CrcError
    BY <1>0 DEF Package, CrcError, Kinds
  <2>3. InHandler(t, "Send_Payload") /\ Transmit(t, m.actualPackage, "sentPayload")
    BY <1>1 DEF Send_Payload
  <2>. QED
    BY <2>1, <2>2, <2>3, TransmitQuiet DEF InHandler, Delays
<1>2. CASE Send_Confirm_Primary(t)
  <2> DEFINE p == NewPackage("OK", m.actualPackage.dest, t, NoId)
  <2>1. p.kind = "OK" /\ p # CrcError
    BY DEF NewPackage, CrcError
  <2>2. InHandler(t, "Send_Confirm_Primary") /\ Transmit(t, p, "sentConfirm")
    BY <1>2 DEF Send_Confirm_Primary
  <2>. QED
    BY <2>1, <2>2, TransmitQuiet DEF InHandler, Delays
<1>3. CASE Send_Return(t)
  <2> DEFINE p == NewPackage("R", m.actualPackage.dest, t, NoId)
  <2>1. ~Before
    BY <1>0, <1>3 DEF Send_Return, Quiet, InHandler, Idle, Asleep, ReturnStates
  <2>2. Transmit(t, p, "sentReturn")
    BY <1>3 DEF Send_Return
  <2>. QED
    BY <2>1, <2>2, TransmitQuiet DEF Delays
<1>4. CASE Send_Payload_Done(t)
  <2>1. Before => Quiet(Return(changeState(m, "Receive_Confirm_Primary")))
    BY <1>0, <1>4 DEF Send_Payload_Done, Quiet, Return, changeState, InExchange, Manager,
                      ReturnStates, ReturnDelays, Idle, Asleep
  <2>. QED
    BY <1>4, <2>1, BecomeQuiet DEF Send_Payload_Done, history, bounds
<1>5. CASE Send_Return_Done(t) \/ Receive_Return_Done(t) \/ Receive_Return_Confirm_Done(t)
  <2>1. ~Before
    BY <1>0, <1>5 DEF Send_Return_Done, Receive_Return_Done, Receive_Return_Confirm_Done,
                      Quiet, ReturnDelays
  <2>2. PICK n : Become(t, n)
    BY <1>5 DEF Send_Return_Done, Receive_Return_Done, Receive_Return_Confirm_Done
  <2>3. UNCHANGED <<rx, crcErrors, consumed, announced>>
    BY <1>5 DEF Send_Return_Done, Receive_Return_Done, Receive_Return_Confirm_Done,
                history, bounds
  <2>. QED
    BY <2>1, <2>2, <2>3, BecomeQuiet
<1>6. CASE Send_Confirm_Primary_Done(t)
  <2>1. CASE m.actualPackage.dest = t
    <3>1. consumed' # {}
      BY <1>6, <2>1 DEF Send_Confirm_Primary_Done
    <3>. QED
      BY <3>1 DEF ReturnInv, Before
  <2>2. CASE m.actualPackage.dest # t
    <3>1. Before => Quiet(Return(changeState(m, "Send_Payload")))
      BY <1>0, <1>6 DEF Send_Confirm_Primary_Done, Quiet, Return, changeState, InExchange,
                        Manager, ReturnStates, ReturnDelays, Idle, Asleep
    <3>. QED
      BY <1>6, <2>2, <3>1, BecomeQuiet DEF Send_Confirm_Primary_Done, bounds
  <2>. QED
    BY <2>1, <2>2
<1>7. CASE AcceptActual(t)
  <2> DEFINE c == changeState(m, "Send_Confirm_Primary")
             n == [c EXCEPT !.actualPackage.sender = t, !.transmitting = TRUE]
  <2>1. /\ c \in Manager /\ c.at = "acceptActual" /\ c.actualPackage = m.actualPackage
        /\ c.state \in {m.state, "Send_Confirm_Primary"}
    BY <1>0, <1>7 DEF AcceptActual, changeState, Manager, States
  <2>2. /\ n \in Manager /\ n.at = "acceptActual" /\ n.state = c.state
        /\ n.actualPackage.kind = m.actualPackage.kind
    BY <1>0, <2>1 DEF Manager, Package
  <2>3. Before => Quiet(Return(n))
    BY <1>0, <1>7, <2>1, <2>2 DEF AcceptActual, Quiet, Return, InExchange, isInfo, Manager,
                                  ReturnStates, ReturnDelays, Idle, Asleep
  <2>4. Become(t, Return(n)) /\ UNCHANGED <<rx, bounds, consumed, announced>>
    BY <1>7 DEF AcceptActual
  <2>. QED
    BY <2>3, <2>4, BecomeQuiet DEF bounds
<1>8. CASE AcceptReceived(t)
  <2> DEFINE q == [m.receivedPackage EXCEPT !.sender = t]
             c == changeState(m, "Send_Confirm_Primary")
             n == [c EXCEPT !.receivedPackage = q, !.actualPackage = q, !.transmitting = TRUE]
  <2>1. Before => q.kind = "text"
    BY <1>0, <1>8 DEF AcceptReceived, Quiet, Package
  <2>2. c \in Manager /\ c.at = "acceptReceived" /\ c.state \in {m.state, "Send_Confirm_Primary"}
    BY <1>0, <1>8 DEF AcceptReceived, changeState, Manager, States
  <2>3. n.at = "acceptReceived" /\ n.state = c.state /\ n.actualPackage = q
    BY <2>2 DEF Manager
  <2>4. Before => Quiet(Return(n))
    BY <1>0, <1>8, <2>1, <2>2, <2>3
       DEF AcceptReceived, Quiet, Return, InExchange, isInfo, Manager, ReturnStates,
           ReturnDelays, Idle, Asleep
  <2>5. Become(t, Return(n)) /\ UNCHANGED <<rx, bounds, consumed, announced>>
    BY <1>8 DEF AcceptReceived
  <2>. QED
    BY <2>4, <2>5, BecomeQuiet DEF bounds
<1>9. CASE SendMeasurement(t)
  <2> DEFINE p == NewPackage("sensors", Server, t, measured)
             c == sendPackage(m, p)
  <2>1. /\ c.at = "measuring" /\ c.actualPackage = p /\ c.state \in {m.state, "Send_Payload"}
        /\ p.kind = "sensors"
    BY <1>0, <1>9 DEF SendMeasurement, sendPackage, changeState, NewPackage, iskeepAlive, Manager
  <2>2. Before => Quiet(Return(c))
    BY <1>0, <1>9, <2>1 DEF SendMeasurement, Quiet, Return, InExchange, isInfo, ReturnStates,
                            ReturnDelays, Idle, Asleep
  <2>. QED
    BY <1>9, <2>2, BecomeQuiet DEF SendMeasurement, bounds
<1>. QED
  BY <1>1, <1>2, <1>3, <1>4, <1>5, <1>6, <1>7, <1>8, <1>9 DEF Sending, AfterDelay

\* Receiving: a package on its way out is answered with a state of the outward wave.
LEMMA ReceivingQuiet ==
    ASSUME ReturnInv, TypeOK', NEW t \in Towers, Receiving(t)
    PROVE  ReturnInv'
<1> DEFINE m == lora[t]
           h == Heard(t)
<1>0. m \in Manager /\ (Before => Quiet(m) /\ Outward(rx[t]))
  BY DEF ReturnInv, TypeOK
<1>1. CASE Receive_Payload(t)
  <2> DEFINE p == setPackage(m.actualPackage, rx[t])
             l == [m EXCEPT !.actualPackage = p]
             a == [l EXCEPT !.keepAlive = @ \/ iskeepAlive(p), !.at = "acceptActual"]
  <2>1. m.at = Idle /\ m.state = "Receive_Payload"
    BY <1>1 DEF Receive_Payload, InHandler
  <2>2. Quiet(l)
    BY <1>0, <2>1 DEF Quiet, InExchange, Manager, ReturnStates, ReturnDelays, Idle, Asleep
  <2>3. isInfo(p) => Quiet(a)
    BY <1>0, <2>1 DEF Quiet, InExchange, Manager, ReturnStates, ReturnDelays, Idle, Asleep
  <2>4. Become(t, l) \/ (isInfo(p) /\ Become(t, a))
    BY <1>1 DEF Receive_Payload
  <2>5. Drain(t) /\ UNCHANGED <<bounds, history>>
    BY <1>1 DEF Receive_Payload
  <2>. QED
    BY <2>2, <2>3, <2>4, <2>5, BecomeQuiet DEF bounds, history
<1>2. ASSUME Before, rx[t] # NoFrame, m.at = Idle, m.state # "Receive_Payload"
      PROVE  /\ h \in Manager /\ h.at = Idle /\ h.state = m.state
             /\ h.receivedPackage.kind \in {"sensors", "text", "OK"}
             /\ isInfo(h.actualPackage) /\ Quiet(h)
  <2>1. rx[t] \in Package /\ h.receivedPackage = rx[t]
    BY <1>0, <1>2 DEF Outward, Heard, setPackage, Manager, ReturnInv, TypeOK
  <2>2. h = [m EXCEPT !.receivedPackage = rx[t]]
    BY <1>0, <1>2 DEF Outward, Heard, setPackage
  <2>3. h \in Manager /\ h.at = Idle /\ h.state = m.state /\ h.actualPackage = m.actualPackage
    BY <1>0, <1>2, <2>1, <2>2 DEF Manager
  <2>4. isInfo(m.actualPackage)
    BY <1>0, <1>2 DEF Quiet, InExchange, Idle, Asleep
  <2>. QED
    BY <1>0, <1>2, <2>1, <2>3, <2>4 DEF Quiet, InExchange, Outward, ReturnDelays, Idle, Asleep
<1>3. ASSUME NEW s, NEW invalid, NEW otherwise, s # "Receive_Payload",
             Receive(t, s, invalid, otherwise),
             Before => Quiet(otherwise)
      PROVE  ReturnInv'
  <2> DEFINE p == h.receivedPackage
             n == IF isInfo(p) /\ iskeepAlive(p) THEN ReceiveText(t, h)
                  ELSE IF invalid THEN h ELSE otherwise
  <2>1. m.at = Idle /\ m.state = s /\ rx[t] # NoFrame
    BY <1>3 DEF Receive, InHandler
  <2>2. ASSUME Before, iskeepAlive(p) PROVE Quiet(ReceiveText(t, h))
    <3>1. h \in Manager /\ h.at = Idle /\ Quiet(h) /\ isInfo(h.actualPackage)
      BY <1>2, <1>3, <2>1, <2>2
    <3>2. p.kind = "text"
      BY <2>2 DEF iskeepAlive
    <3>3. Quiet([h EXCEPT !.keepAlive = TRUE])
      BY <3>1 DEF Quiet, InExchange, Manager
    <3>4. Quiet([[h EXCEPT !.keepAlive = TRUE] EXCEPT !.at = "acceptReceived"])
      BY <3>1, <3>2 DEF Quiet, InExchange, Manager, ReturnDelays, Idle, Asleep
    <3>. QED
      BY <3>3, <3>4 DEF ReceiveText
  <2>3. Before => Quiet(n)
    BY <1>2, <1>3, <2>1, <2>2
  <2>4. Become(t, n) /\ Drain(t) /\ UNCHANGED <<bounds, history>>
    BY <1>3 DEF Receive
  <2>. QED
    BY <2>3, <2>4, BecomeQuiet DEF bounds, history
<1>4. CASE Receive_Confirm_Primary(t)
  <2> DEFINE p == h.receivedPackage
             otherwise ==
               IF ~FromNext(t, p) \/ p.dest = t THEN h
               ELSE IF SamePayload(p, h.actualPackage) \/ PayloadIs(p, "OK")
                    THEN changeState(h, "Receive_Return")
               ELSE IF PayloadIs(p, "R") THEN changeState(h, "Send_Return") ELSE h
  <2>1. Receive(t, "Receive_Confirm_Primary", RefusesSensors(h, p) \/ PassesBack(t, h, p), otherwise)
    BY <1>4 DEF Receive_Confirm_Primary
  <2>2. m.at = Idle /\ m.state = "Receive_Confirm_Primary" /\ rx[t] # NoFrame
    BY <1>4 DEF Receive_Confirm_Primary, Receive, InHandler
  <2>3. Before => Quiet(otherwise)
    <3> SUFFICES ASSUME Before PROVE Quiet(otherwise)
      OBVIOUS
    <3>1. /\ h \in Manager /\ h.at = Idle /\ h.state = "Receive_Confirm_Primary"
          /\ p.kind \in {"sensors", "text", "OK"} /\ isInfo(h.actualPackage) /\ Quiet(h)
      BY <1>2, <2>2
    <3>2. ~PayloadIs(p, "R")
      BY <3>1 DEF PayloadIs
    <3>3. Quiet(changeState(h, "Receive_Return"))
      BY <3>1 DEF Quiet, changeState, InExchange, Manager, ReturnStates, ReturnDelays, Idle, Asleep
    <3>. QED
      BY <3>1, <3>2, <3>3
  <2>. QED
    BY <1>3, <2>1, <2>3
<1>5. CASE Receive_Return(t)
  <2> DEFINE p == h.receivedPackage
             otherwise == IF FromNext(t, p) /\ PayloadIs(p, "R")
                          THEN [h EXCEPT !.at = "gotReturn"] ELSE h
  <2>1. Receive(t, "Receive_Return", PassesBack(t, h, p), otherwise)
    BY <1>5 DEF Receive_Return
  <2>2. m.at = Idle /\ m.state = "Receive_Return" /\ rx[t] # NoFrame
    BY <1>5 DEF Receive_Return, Receive, InHandler
  <2>3. Before => Quiet(otherwise)
    BY <1>2, <2>2 DEF PayloadIs
  <2>. QED
    BY <1>3, <2>1, <2>3
<1>6. CASE Receive_Return_Confirm(t)
  <2> DEFINE p == h.receivedPackage
             otherwise == IF FromPrevious(t, p) /\ PayloadIs(p, "R")
                          THEN [h EXCEPT !.at = "gotReturnConfirm"] ELSE h
  <2>1. Receive(t, "Receive_Return_Confirm", PassesBack(t, h, p), otherwise)
    BY <1>6 DEF Receive_Return_Confirm
  <2>2. ~Before
    BY <1>0, <1>6 DEF Receive_Return_Confirm, Receive, InHandler, Quiet, ReturnStates, Idle, Asleep
  <2>. QED
    BY <1>3, <2>1, <2>2
<1>. QED
  BY <1>1, <1>4, <1>5, <1>6 DEF Receiving

\* The timeouts; only a tower of the return wave announces success.
LEMMA EndingQuiet ==
    ASSUME ReturnInv, TypeOK', NEW t \in Towers, Retransmit(t) \/ GiveUp(t) \/ Succeed(t)
    PROVE  ReturnInv'
<1> DEFINE m == lora[t]
<1>0. m \in Manager /\ (Before => Quiet(m))
  BY DEF ReturnInv, TypeOK
<1>1. CASE RetransmitPayload(t)
  <2>1. Before => Quiet(changeState(m, "Send_Payload"))
    BY <1>0, <1>1 DEF RetransmitPayload, InHandler, Quiet, changeState, InExchange, Manager,
                      ReturnStates, ReturnDelays, Idle, Asleep
  <2>. QED
    BY <1>1, <2>1, BecomeQuiet DEF RetransmitPayload, bounds, history
<1>2. CASE RetransmitReturn(t)
  <2>1. ~Before
    BY <1>0, <1>2 DEF RetransmitReturn, InHandler, Quiet, ReturnStates, Idle, Asleep
  <2>. QED
    BY <1>2, <2>1, BecomeQuiet DEF RetransmitReturn, bounds, history
<1>3. CASE GlobalTimeout(t)
  <2>1. Sleep(m) = Off
    BY <1>3 DEF GlobalTimeout, Sleep
  <2>. QED
    BY <1>3, <2>1, OffQuiet, BecomeQuiet DEF GlobalTimeout, bounds, history
<1>4. CASE BluetoothTimeout(t)
  <2>1. Sleep([m EXCEPT !.keepAlive = FALSE]) = Off
    BY <1>0 DEF Sleep, Manager
  <2>. QED
    BY <1>4, <2>1, OffQuiet, BecomeQuiet DEF BluetoothTimeout, bounds, history
<1>5. CASE Succeed(t)
  <2>1. ~Before
    BY <1>0, <1>5 DEF Succeed, InHandler, Quiet, ReturnStates, Idle, Asleep
  <2>2. ~Before'
    BY <1>5, <2>1 DEF Succeed, Before, bounds
  <2>. QED
    BY <2>2 DEF ReturnInv
<1>. QED
  BY <1>1, <1>2, <1>3, <1>4, <1>5 DEF Retransmit, GiveUp

\* Without CRC errors, "Communication Successful" (LoraManager.cpp:314) is printed
\* nowhere before consumeInfo has been called somewhere, whatever frames are lost
\* and whoever gives up, reboots or is interrupted.
THEOREM NoSuccessCorrect == Spec => []NoSuccessBeforeDelivery
<1>1. Init => ReturnInv
  <2> SUFFICES ASSUME Init PROVE ReturnInv
    OBVIOUS
  <2>1. TypeOK
    BY OffType DEF Init, TypeOK
  <2>. QED
    BY <2>1, OffQuiet DEF Init, ReturnInv, Outward
<1>2. ReturnInv /\ TypeOK' /\ [Next]_vars => ReturnInv'
  <2> SUFFICES ASSUME ReturnInv, TypeOK', [Next]_vars PROVE ReturnInv'
    OBVIOUS
  <2>1. ASSUME NEW t \in Towers, LoRaThread(t) \/ GiveUp(t) \/ BluetoothThread(t) \/ Environment(t)
        PROVE  ReturnInv'
    BY <2>1, SendingQuiet, ReceivingQuiet, EndingQuiet, EnvironmentQuiet DEF LoRaThread
  <2>2. CASE UNCHANGED vars
    BY <2>2 DEF ReturnInv, Before, Quiet, Outward, InExchange, vars, bounds, history
  <2>. QED
    BY <2>1, <2>2 DEF Next
<1>3. ReturnInv => NoSuccessBeforeDelivery
  BY DEF ReturnInv, Before, NoSuccessBeforeDelivery
<1>. QED
  BY <1>1, <1>2, <1>3, TypeCorrect, PTL DEF Spec

---------------------------------------------------------------------------
(***************************************************************************)
(* What is consumed and what is reported is something that was measured or *)
(* handed over: "OK", "R" and the blank package never take the place of    *)
(* the information a tower in an exchange carries.  So if there has been   *)
(* one package only, consumed and reported are about the same one, and the *)
(* success of a lone text is true by NoSuccessBeforeDelivery.              *)
(***************************************************************************)

\* The ids of the measurements and texts so far.
Given == (1..measured) \cup ((MaxMeasurements + 1)..(MaxMeasurements + texts))

Named(g, p) == isInfo(p) => p.id \in g

\* Manager m carries information of g whenever it is in an exchange.
Carries(g, m) ==
    /\ Named(g, m.actualPackage) /\ Named(g, m.receivedPackage)
    /\ m.at = "acceptReceived" => isInfo(m.receivedPackage)
    /\ InExchange(m) /\ m.at # "measuring" => isInfo(m.actualPackage)

CarryInv ==
    /\ TypeOK
    /\ \A t \in Towers : Carries(Given, lora[t]) /\ Named(Given, rx[t])
    /\ \A t \in Towers : lora[t].at = "measuring" => measured > 0
    /\ consumed \subseteq Given /\ announced \subseteq Given

\* What has been given stays given.
LEMMA GivenGrows ==
    ASSUME TypeOK, TypeOK', measured' >= measured, texts' >= texts
    PROVE  /\ Given \subseteq Given'
           /\ \A p : Named(Given, p) => Named(Given', p)
           /\ \A m : Carries(Given, m) => Carries(Given', m)
<1>1. Given \subseteq Given'
  <2>1. /\ measured \in Nat /\ measured' \in Nat /\ texts \in Nat /\ texts' \in Nat
        /\ MaxMeasurements \in Nat
    BY DEF TypeOK
  <2>2. \A i \in 1..measured : i \in 1..measured'
    BY <2>1
  <2>3. \A i \in (MaxMeasurements + 1)..(MaxMeasurements + texts) :
            i \in (MaxMeasurements + 1)..(MaxMeasurements + texts')
    <3>1. \A a, b, c \in Nat : a >= b => \A i \in (c + 1)..(c + b) : i \in (c + 1)..(c + a)
      OBVIOUS
    <3>. QED
      BY <2>1, <3>1
  <2>4. Given' = (1..measured') \cup ((MaxMeasurements + 1)..(MaxMeasurements + texts'))
    BY DEF Given
  <2>. QED
    BY <2>2, <2>3, <2>4, Zenon DEF Given
<1>. QED
  BY <1>1 DEF Named, Carries

LEMMA OffCarries ==
    \A g : /\ Carries(g, Off) /\ Carries(g, [Booted EXCEPT !.at = "measuring"])
           /\ Carries(g, receivePackage(Booted))
           /\ Carries(g, [receivePackage(Booted) EXCEPT !.bluetooth = "notified"])
BY DEF Off, Booted, Carries, Named, Blank, isInfo, InExchange, Asleep, Idle, receivePackage,
       changeState

\* A manager with the packages of another, in an exchange only if that one is.
LEMMA CarriesOn ==
    ASSUME NEW g, NEW m, NEW n, Carries(g, m),
           n.actualPackage = m.actualPackage, n.receivedPackage = m.receivedPackage,
           n.at = m.at \/ n.at # "acceptReceived",
           InExchange(n) /\ n.at # "measuring" => InExchange(m) /\ m.at # "measuring"
    PROVE  Carries(g, n)
BY DEF Carries

\* changeState, Return and Sleep, on a manager that is in an exchange.
LEMMA HelpersCarry ==
    ASSUME NEW g, NEW m \in Manager, Carries(g, m), InExchange(m), m.at # "measuring",
           NEW s \in States
    PROVE  /\ Carries(g, changeState(m, s)) /\ Carries(g, Return(changeState(m, s)))
           /\ Carries(g, Sleep(m)) /\ Carries(g, Return(Sleep(m)))
<1>1. ASSUME NEW k \in Manager, k.at = m.at, k.actualPackage = m.actualPackage,
             k.receivedPackage = m.receivedPackage, NEW z \in States
      PROVE  Carries(g, changeState(k, z)) /\ Carries(g, Return(changeState(k, z)))
  <2>1. /\ changeState(k, z) \in Manager /\ changeState(k, z).at = m.at
        /\ changeState(k, z).actualPackage = m.actualPackage
        /\ changeState(k, z).receivedPackage = m.receivedPackage
    BY <1>1 DEF changeState, Manager
  <2>2. /\ Return(changeState(k, z)).at \in {m.at, Idle}
        /\ Return(changeState(k, z)).actualPackage = m.actualPackage
        /\ Return(changeState(k, z)).receivedPackage = m.receivedPackage
    BY <2>1 DEF Return, Manager
  <2>. QED
    BY <2>1, <2>2, CarriesOn DEF Idle
<1>2. /\ Carries(g, changeState(m, s)) /\ Carries(g, Return(changeState(m, s)))
  BY <1>1
<1>3. Carries(g, Sleep(m)) /\ Carries(g, Return(Sleep(m)))
  <2> DEFINE silent == [m EXCEPT !.transmitting = FALSE, !.sender = FALSE]
  <2>1. /\ silent \in Manager /\ silent.at = m.at /\ silent.actualPackage = m.actualPackage
        /\ silent.receivedPackage = m.receivedPackage
    BY DEF Manager
  <2>2. Carries(g, changeState(silent, "Receive_Payload"))
        /\ Carries(g, Return(changeState(silent, "Receive_Payload")))
    BY <1>1, <2>1 DEF States
  <2>3. Carries(g, Off) /\ Carries(g, Return(Off))
    BY OffCarries DEF Return, Off
  <2>. QED
    BY <2>2, <2>3 DEF Sleep
<1>. QED
  BY <1>2, <1>3

\* A step of one tower that fills no receive buffer.
LEMMA BecomeCarries ==
    ASSUME CarryInv, TypeOK', NEW t \in Towers, NEW m, Become(t, m),
           Carries(Given', m), m.at = "measuring" => measured' > 0,
           rx' = rx \/ Drain(t), measured' >= measured, texts' >= texts,
           consumed' \subseteq consumed \cup Given', announced' \subseteq announced \cup Given'
    PROVE  CarryInv'
<1>1. /\ \A u \in Towers : lora'[u] = IF u = t THEN m ELSE lora[u]
      /\ \A u \in Towers : rx'[u] \in {rx[u], NoFrame}
  BY DEF Become, Drain, CarryInv, TypeOK
<1>2. /\ Given \subseteq Given'
      /\ \A p : Named(Given, p) => Named(Given', p)
      /\ \A n : Carries(Given, n) => Carries(Given', n)
  BY GivenGrows DEF CarryInv
<1>3. Named(Given', NoFrame)
  BY DEF Named, isInfo, NoFrame
<1>4. \A u \in Towers : Carries(Given', lora'[u]) /\ Named(Given', rx'[u])
  BY <1>1, <1>2, <1>3 DEF CarryInv
<1>5. \A u \in Towers : lora'[u].at = "measuring" => measured' > 0
  BY <1>1 DEF CarryInv, TypeOK
<1>6. consumed' \subseteq Given' /\ announced' \subseteq Given'
  BY <1>2 DEF CarryInv
<1>. QED
  BY <1>4, <1>5, <1>6 DEF CarryInv

\* The environment and the other threads: a text handed over is a text given.
LEMMA EnvironmentCarries ==
    ASSUME CarryInv, TypeOK', NEW t \in Towers, Environment(t) \/ BluetoothThread(t)
    PROVE  CarryInv'
<1> DEFINE m == lora[t]
<1>0. /\ m \in Manager /\ Carries(Given, m) /\ (m.at = "measuring" => measured > 0)
      /\ measured \in Nat /\ texts \in Nat /\ MaxMeasurements \in Nat
  BY DEF CarryInv, TypeOK
<1>1. CASE WakeByTimer(t)
  <2>1. measured' >= measured /\ texts' = texts
        /\ UNCHANGED <<rx, consumed, announced>>
    BY <1>0, <1>1 DEF WakeByTimer, history
  <2>2. CASE t = MainTower
    <3> DEFINE n == [Booted EXCEPT !.at = "measuring"]
    <3>1. measured' > 0 /\ Become(t, n)
      BY <1>0, <1>1, <2>2 DEF WakeByTimer
    <3>2. Carries(Given', n)
      BY OffCarries
    <3>. HIDE DEF n
    <3>. QED
      BY <1>0, <2>1, <3>1, <3>2, BecomeCarries
  <2>3. CASE t # MainTower
    <3> DEFINE n == receivePackage(Booted)
    <3>1. n.at = Idle
      BY DEF receivePackage, changeState, Booted, Off
    <3>2. Become(t, n)
      BY <1>1, <2>3 DEF WakeByTimer
    <3>3. Carries(Given', n)
      BY OffCarries
    <3>. HIDE DEF n
    <3>. QED
      BY <1>0, <2>1, <3>1, <3>2, <3>3, BecomeCarries DEF Idle
  <2>. QED
    BY <2>2, <2>3
<1>2. CASE WakeByButton(t)
  <2> DEFINE n == [receivePackage(Booted) EXCEPT !.bluetooth = "notified"]
  <2>1. n.at = Idle
    BY DEF receivePackage, changeState, Booted, Off
  <2>2. Become(t, n) /\ UNCHANGED <<rx, measured, texts, consumed, announced>>
    BY <1>2 DEF WakeByButton, history
  <2>3. Carries(Given', n)
    BY OffCarries
  <2>. HIDE DEF n
  <2>. QED
    BY <1>0, <2>1, <2>2, <2>3, BecomeCarries DEF Idle
<1>3. ASSUME NEW n, Become(t, n), n.at = m.at, n.state \in {m.state, "Receive_Payload"},
             n.actualPackage = m.actualPackage, n.receivedPackage = m.receivedPackage,
             UNCHANGED <<rx, measured, texts, history>>
      PROVE  CarryInv'
  <2>1. InExchange(n) => InExchange(m)
    BY <1>3 DEF InExchange
  <2>2. Given' = Given
    BY <1>3 DEF Given
  <2>3. Carries(Given', n)
    BY <1>0, <1>3, <2>1, <2>2, CarriesOn
  <2>. QED
    BY <1>0, <1>3, <2>3, BecomeCarries DEF history
<1>4. CASE ButtonPressed(t)
  <2> DEFINE n == [m EXCEPT
                    !.state = "Receive_Payload", !.transmitting = FALSE, !.sender = FALSE,
                    !.higher_order = (m.at # Idle),
                    !.bluetooth = IF @ = "off" THEN "notified" ELSE @]
  <2>1. /\ n.at = m.at /\ n.state = "Receive_Payload"
        /\ n.actualPackage = m.actualPackage /\ n.receivedPackage = m.receivedPackage
    BY <1>0 DEF Manager
  <2>2. Become(t, n) /\ UNCHANGED <<rx, measured, texts, history>>
    BY <1>4 DEF ButtonPressed
  <2>. QED
    BY <1>3, <2>1, <2>2
<1>5. CASE BluetoothNotified(t)
  <2> DEFINE n == [receivePackage(m) EXCEPT !.bluetooth = "turningOn"]
  <2>1. /\ n.at = m.at /\ n.state \in {m.state, "Receive_Payload"}
        /\ n.actualPackage = m.actualPackage /\ n.receivedPackage = m.receivedPackage
    BY <1>0 DEF receivePackage, changeState, Manager
  <2>2. Become(t, n) /\ UNCHANGED <<rx, measured, texts, history>>
    BY <1>5 DEF BluetoothNotified, bounds
  <2>. QED
    BY <1>3, <2>1, <2>2
<1>6. CASE BluetoothOn(t)
  <2> DEFINE n == [m EXCEPT !.bluetooth = "on", !.keepAlive = TRUE]
  <2>1. /\ n.at = m.at /\ n.state = m.state
        /\ n.actualPackage = m.actualPackage /\ n.receivedPackage = m.receivedPackage
    BY <1>0 DEF Manager
  <2>2. Become(t, n) /\ UNCHANGED <<rx, measured, texts, history>>
    BY <1>6 DEF BluetoothOn, bounds
  <2>. QED
    BY <1>3, <2>1, <2>2
<1>7. CASE SendFromBluetooth(t) \/ SendFromWifi(t)
  <2>0. PICK dest \in Towers, c \in Callers(m) : HandOver(t, dest, c)
    BY <1>0, <1>7, ThreadSteps
  <2> DEFINE p == NewPackage("text", dest, t, MaxMeasurements + texts + 1)
             loaded == sendPackage(c, p)
  <2>1. p.kind = "text" /\ c \in Manager /\ c.at = m.at
        /\ c.receivedPackage = m.receivedPackage
    BY <1>0, CallerSame DEF NewPackage
  <2>2. /\ loaded.actualPackage = p /\ loaded.receivedPackage = m.receivedPackage
        /\ loaded.at = m.at
    BY <2>1 DEF sendPackage, iskeepAlive, Manager
  <2>3. /\ measured' = measured /\ texts' = texts + 1 /\ Become(t, loaded)
        /\ UNCHANGED <<rx, consumed, announced>>
    BY <2>0 DEF HandOver
  <2>4. p.id \in Given'
    BY <1>0, <2>3 DEF Given, NewPackage
  <2>5. Carries(Given', m)
    BY <1>0, <2>3, GivenGrows DEF CarryInv
  <2>6. Carries(Given', loaded)
    BY <2>1, <2>2, <2>4, <2>5 DEF Carries, Named, isInfo
  <2>. QED
    BY <1>0, <2>2, <2>3, <2>6, BecomeCarries
<1>8. CASE BluetoothOrders(t) \/ WifiOrders(t)
  <2>1. PICK c \in Callers(m) :
            Become(t, setHigherOrder(c)) /\ UNCHANGED <<rx, bounds, history>>
    BY <1>0, <1>8, ThreadSteps
  <2> DEFINE n == setHigherOrder(c)
  <2>2. /\ n.at = m.at /\ n.state = m.state
        /\ n.actualPackage = m.actualPackage /\ n.receivedPackage = m.receivedPackage
    BY <1>0, CallerSame
  <2>. QED
    BY <1>3, <2>1, <2>2 DEF bounds
<1>. QED
  BY <1>1, <1>2, <1>4, <1>5, <1>6, <1>7, <1>8 DEF Environment, BluetoothThread

\* A transmission by a tower in an exchange.
LEMMA TransmitCarries ==
    ASSUME CarryInv, TypeOK', NEW t \in Towers, NEW p, Named(Given, p),
           NEW delay \in Delays \ {"measuring", "acceptReceived"},
           Transmit(t, p, delay), lora[t].at = Idle, lora[t].state # "Receive_Payload"
    PROVE  CarryInv'
<1> DEFINE n == [lora[t] EXCEPT !.at = delay]
<1>1. /\ Become(t, n) /\ UNCHANGED <<measured, texts, history>>
      /\ \A u \in Towers : rx'[u] \in {NoFrame, rx[u], p, CrcError}
  BY DEF Transmit
<1>2. Given' = Given
  BY <1>1 DEF Given
<1>3. /\ n.at = delay /\ n.actualPackage = lora[t].actualPackage
      /\ n.receivedPackage = lora[t].receivedPackage
  BY DEF CarryInv, TypeOK, Manager
<1>4. InExchange(lora[t]) /\ lora[t].at # "measuring"
  BY DEF InExchange, Idle, Asleep
<1>5. Carries(Given, n)
  BY <1>3, <1>4, CarriesOn DEF CarryInv
<1>6. \A u \in Towers : lora'[u] = IF u = t THEN n ELSE lora[u]
  BY <1>1 DEF Become, CarryInv, TypeOK
<1>7. \A u \in Towers : Carries(Given', lora'[u])
  BY <1>2, <1>5, <1>6 DEF CarryInv
<1>8. \A u \in Towers : lora'[u].at = "measuring" => measured' > 0
  BY <1>1, <1>3, <1>6 DEF CarryInv
<1>9. Named(Given, NoFrame) /\ Named(Given, CrcError)
  BY DEF Named, isInfo, NoFrame, CrcError
<1>10. \A u \in Towers : Named(Given', rx'[u])
  BY <1>1, <1>2, <1>9 DEF CarryInv
<1>. QED
  BY <1>1, <1>2, <1>7, <1>8, <1>10 DEF CarryInv, history

\* The sending steps and the ends of delays; "sentConfirm" consumes what is in hand.
LEMMA SendingCarries ==
    ASSUME CarryInv, TypeOK', NEW t \in Towers, Sending(t) \/ AfterDelay(t)
    PROVE  CarryInv'
<1> DEFINE m == lora[t]
<1>0. /\ m \in Manager /\ Carries(Given, m) /\ (m.at = "measuring" => measured > 0)
      /\ measured \in Nat /\ texts \in Nat /\ MaxMeasurements \in Nat
  BY DEF CarryInv, TypeOK
<1>1. CASE Sending(t)
  <2>1. \A kind \in {"OK", "R"}, dest \in Towers : Named(Given, NewPackage(kind, dest, t, NoId))
    BY DEF Named, isInfo, NewPackage
  <2>2. m.actualPackage.dest \in Towers
    BY <1>0 DEF Manager, Package
  <2>3. CASE Send_Payload(t)
    BY <1>0, <2>3, TransmitCarries DEF Send_Payload, InHandler, Carries, Delays
  <2>4. CASE Send_Confirm_Primary(t)
    BY <2>1, <2>2, <2>4, TransmitCarries DEF Send_Confirm_Primary, InHandler, Delays
  <2>5. CASE Send_Return(t)
    BY <2>1, <2>2, <2>5, TransmitCarries DEF Send_Return, InHandler, Delays
  <2>. QED
    BY <1>1, <2>3, <2>4, <2>5 DEF Sending
<1>2. ASSUME measured' = measured, texts' = texts PROVE Given' = Given
  BY <1>2 DEF Given
<1>3. ASSUME m.at \in Delays \ {"measuring"}
      PROVE  /\ InExchange(m) /\ isInfo(m.actualPackage) /\ m.actualPackage.id \in Given
             /\ \A s \in States : Carries(Given, Return(changeState(m, s)))
             /\ Carries(Given, Return(Sleep(m)))
  <2>1. InExchange(m) /\ m.at # "measuring"
    BY <1>3 DEF InExchange, Delays, Idle, Asleep
  <2>2. isInfo(m.actualPackage) /\ m.actualPackage.id \in Given
    BY <1>0, <2>1 DEF Carries, Named
  <2>3. \A s \in States : /\ Carries(Given, Return(changeState(m, s)))
                          /\ Carries(Given, Return(Sleep(m)))
    BY <1>0, <2>1, HelpersCarry
  <2>4. "Send_Return" \in States
    BY DEF States
  <2>. QED
    BY <2>1, <2>2, <2>3, <2>4
<1>4. \A n \in Manager : Return(n).at \in {Idle, Asleep}
  BY DEF Return, Manager, Idle, Asleep
<1>5. CASE Send_Payload_Done(t) \/ Send_Return_Done(t) \/ Receive_Return_Done(t)
           \/ Receive_Return_Confirm_Done(t)
  <2>1. /\ UNCHANGED <<rx, measured, texts, consumed, announced>>
        /\ m.at \in Delays \ {"measuring"}
        /\ \/ \E s \in States : Become(t, Return(changeState(m, s)))
           \/ Become(t, Return(Sleep(m)))
    BY <1>5 DEF Send_Payload_Done, Send_Return_Done, Receive_Return_Done,
                Receive_Return_Confirm_Done, history, bounds, Delays, States
  <2>2. /\ \A s \in States : changeState(m, s) \in Manager
        /\ Sleep(m) \in Manager
    BY <1>0, ChangeStateType, SleepType
  <2>3. PICK k \in Manager : Become(t, Return(k)) /\ Carries(Given, Return(k))
    BY <1>3, <2>1, <2>2
  <2>. QED
    BY <1>0, <1>2, <1>4, <2>1, <2>3, BecomeCarries DEF Idle, Asleep
<1>6. CASE Send_Confirm_Primary_Done(t)
  <2>1. /\ UNCHANGED <<rx, measured, texts, announced>> /\ m.at = "sentConfirm"
        /\ consumed' \subseteq consumed \cup {m.actualPackage.id}
    BY <1>6 DEF Send_Confirm_Primary_Done, bounds
  <2>2. m.at \in Delays \ {"measuring"}
    BY <2>1 DEF Delays
  <2>3. CASE m.actualPackage.dest = t
    <3> DEFINE c == changeState(m, "Send_Return")
               n == [c EXCEPT !.bluetooth_tower =
                        IF isText(m.actualPackage) /\ t = Server THEN m.actualPackage.orig ELSE @]
    <3>1. c \in Manager /\ Carries(Given, Return(c))
      BY <1>0, <1>3, <2>2, ChangeStateType DEF States
    <3>2. /\ Return(n).at = Return(c).at /\ Return(n).state = Return(c).state
          /\ Return(n).actualPackage = Return(c).actualPackage
          /\ Return(n).receivedPackage = Return(c).receivedPackage
          /\ Return(n).at = Idle
      BY <2>1, <3>1 DEF Return, Manager, changeState, Asleep
    <3>3. Carries(Given, Return(n))
      BY <3>1, <3>2, CarriesOn DEF InExchange
    <3>4. Become(t, Return(n))
      BY <1>6, <2>3 DEF Send_Confirm_Primary_Done
    <3>. QED
      BY <1>0, <1>2, <1>3, <2>1, <2>2, <3>2, <3>3, <3>4, BecomeCarries DEF Idle
  <2>4. CASE m.actualPackage.dest # t
    <3>1. Become(t, Return(changeState(m, "Send_Payload")))
      BY <1>6, <2>4 DEF Send_Confirm_Primary_Done
    <3>2. changeState(m, "Send_Payload") \in Manager
          /\ Carries(Given, Return(changeState(m, "Send_Payload")))
      BY <1>0, <1>3, <2>2, ChangeStateType DEF States
    <3>. QED
      BY <1>0, <1>2, <1>3, <1>4, <2>1, <2>2, <3>1, <3>2, BecomeCarries DEF Idle, Asleep
  <2>. QED
    BY <2>3, <2>4
<1>7. CASE AcceptActual(t)
  <2> DEFINE c == changeState(m, "Send_Confirm_Primary")
             n == [c EXCEPT !.actualPackage.sender = t, !.transmitting = TRUE]
  <2>1. /\ m.at = "acceptActual" /\ Become(t, Return(n))
        /\ UNCHANGED <<rx, measured, texts, consumed, announced>>
    BY <1>7 DEF AcceptActual, bounds
  <2>2. m.at \in Delays \ {"measuring"}
    BY <2>1 DEF Delays
  <2>3. /\ c \in Manager /\ c.at = "acceptActual" /\ c.actualPackage = m.actualPackage
        /\ c.receivedPackage = m.receivedPackage
    BY <1>0, <2>1 DEF changeState, Manager, States
  <2>4. /\ Return(n).at = Idle /\ Return(n).receivedPackage = m.receivedPackage
        /\ Return(n).actualPackage.kind = m.actualPackage.kind
        /\ Return(n).actualPackage.id = m.actualPackage.id
    BY <2>3 DEF Return, Manager, Package, Asleep
  <2>5. Carries(Given, Return(n))
    BY <1>0, <1>3, <2>2, <2>4 DEF Carries, Named, isInfo, Idle
  <2>. QED
    BY <1>0, <1>2, <2>1, <2>4, <2>5, BecomeCarries DEF Idle
<1>8. CASE AcceptReceived(t)
  <2> DEFINE q == [m.receivedPackage EXCEPT !.sender = t]
             c == changeState(m, "Send_Confirm_Primary")
             n == [c EXCEPT !.receivedPackage = q, !.actualPackage = q, !.transmitting = TRUE]
  <2>1. /\ m.at = "acceptReceived" /\ Become(t, Return(n))
        /\ UNCHANGED <<rx, measured, texts, consumed, announced>>
    BY <1>8 DEF AcceptReceived, bounds
  <2>2. q.kind = m.receivedPackage.kind /\ q.id = m.receivedPackage.id
    BY <1>0 DEF Manager, Package
  <2>3. c \in Manager /\ c.at = "acceptReceived"
    BY <1>0, <2>1 DEF changeState, Manager, States
  <2>4. Return(n).at = Idle /\ Return(n).receivedPackage = q /\ Return(n).actualPackage = q
    BY <2>3 DEF Return, Manager, Asleep
  <2>5. Carries(Given, Return(n))
    BY <1>0, <2>1, <2>2, <2>4 DEF Carries, Named, isInfo, Idle
  <2>. QED
    BY <1>0, <1>2, <2>1, <2>4, <2>5, BecomeCarries DEF Idle
<1>9. CASE SendMeasurement(t)
  <2> DEFINE p == NewPackage("sensors", Server, t, measured)
             c == sendPackage(m, p)
  <2>1. /\ m.at = "measuring" /\ Become(t, Return(c))
        /\ UNCHANGED <<rx, measured, texts, consumed, announced>>
    BY <1>9 DEF SendMeasurement, bounds
  <2>2. /\ c.at = "measuring" /\ c.actualPackage = p /\ c.receivedPackage = m.receivedPackage
        /\ p.kind = "sensors" /\ p.id = measured
    BY <1>0, <2>1 DEF sendPackage, changeState, NewPackage, iskeepAlive, Manager
  <2>3. /\ Return(c).at = Idle /\ Return(c).actualPackage = p
        /\ Return(c).receivedPackage = m.receivedPackage
    <3>1. c \in Manager
      BY <1>0, SendPackageType, <2>1, NewPackageType, IdsType DEF CarryInv, TypeOK, Kinds, Towers,
         Server, Measurements
    <3>. QED
      BY <2>2, <3>1 DEF Return, Manager, Asleep
  <2>4. measured \in Given
    BY <1>0, <2>1 DEF Given
  <2>5. Carries(Given, Return(c))
    BY <1>0, <2>2, <2>3, <2>4 DEF Carries, Named, isInfo, Idle
  <2>. QED
    BY <1>0, <1>2, <2>1, <2>3, <2>5, BecomeCarries DEF Idle
<1>. QED
  BY <1>1, <1>5, <1>6, <1>7, <1>8, <1>9 DEF AfterDelay

\* Receiving: what is read is something given, or no information; only information
\* takes a tower into an exchange.
LEMMA ReceivingCarries ==
    ASSUME CarryInv, TypeOK', NEW t \in Towers, Receiving(t)
    PROVE  CarryInv'
<1> DEFINE m == lora[t]
           h == Heard(t)
<1>0. /\ m \in Manager /\ Carries(Given, m) /\ (m.at = "measuring" => measured > 0)
      /\ measured \in Nat /\ texts \in Nat /\ Named(Given, rx[t])
      /\ rx[t] \in Package \cup {NoFrame, CrcError}
  BY DEF CarryInv, TypeOK
<1>1. ASSUME NEW n, Become(t, n), Drain(t), UNCHANGED <<bounds, history>>, Carries(Given, n),
             n.at # "measuring"
      PROVE  CarryInv'
  <2>1. UNCHANGED <<measured, texts, consumed, announced>>
    BY <1>1 DEF bounds, history
  <2>2. Given' = Given
    BY <2>1 DEF Given
  <2>. QED
    BY <1>0, <1>1, <2>1, <2>2, BecomeCarries
<1>2. CASE Receive_Payload(t)
  <2> DEFINE p == setPackage(m.actualPackage, rx[t])
             l == [m EXCEPT !.actualPackage = p]
             a == [l EXCEPT !.keepAlive = @ \/ iskeepAlive(p), !.at = "acceptActual"]
  <2>1. m.at = Idle /\ m.state = "Receive_Payload"
    BY <1>2 DEF Receive_Payload, InHandler
  <2>2. Named(Given, p)
    BY <1>0 DEF setPackage, Carries
  <2>3. /\ l.at = Idle /\ l.state = "Receive_Payload" /\ l.actualPackage = p
        /\ l.receivedPackage = m.receivedPackage
        /\ a.at = "acceptActual" /\ a.actualPackage = p /\ a.receivedPackage = m.receivedPackage
    BY <1>0, <2>1 DEF Manager
  <2>4. Carries(Given, l) /\ (isInfo(p) => Carries(Given, a))
    BY <1>0, <2>2, <2>3 DEF Carries, InExchange, Idle, Asleep
  <2>5. Become(t, l) \/ (isInfo(p) /\ Become(t, a))
    BY <1>2 DEF Receive_Payload
  <2>6. Drain(t) /\ UNCHANGED <<bounds, history>>
    BY <1>2 DEF Receive_Payload
  <2>. QED
    BY <1>1, <2>3, <2>4, <2>5, <2>6 DEF Idle
<1>3. ASSUME rx[t] # NoFrame, m.at = Idle, m.state # "Receive_Payload"
      PROVE  /\ h \in Manager /\ h.at = Idle /\ h.state = m.state
             /\ InExchange(h) /\ Carries(Given, h)
  <2> DEFINE p == setPackage(m.receivedPackage, rx[t])
  <2>1. Named(Given, p)
    BY <1>0 DEF setPackage, Carries
  <2>2. p \in Package
    BY <1>0, <1>3, SetPackageType DEF Manager
  <2>3. h = [m EXCEPT !.receivedPackage = p]
    BY DEF Heard
  <2>4. /\ h \in Manager /\ h.at = Idle /\ h.state = m.state
        /\ h.actualPackage = m.actualPackage /\ h.receivedPackage = p
    BY <1>0, <1>3, <2>2, <2>3 DEF Manager
  <2>5. InExchange(h) /\ InExchange(m)
    BY <1>3, <2>4 DEF InExchange, Idle, Asleep
  <2>. QED
    BY <1>0, <1>3, <2>1, <2>4, <2>5 DEF Carries, Idle
<1>4. ASSUME NEW s, NEW invalid, NEW otherwise, s # "Receive_Payload",
             Receive(t, s, invalid, otherwise),
             Carries(Given, otherwise), otherwise.at # "measuring"
      PROVE  CarryInv'
  <2> DEFINE p == h.receivedPackage
             n == IF isInfo(p) /\ iskeepAlive(p) THEN ReceiveText(t, h)
                  ELSE IF invalid THEN h ELSE otherwise
             kept == [h EXCEPT !.keepAlive = TRUE]
             taken == [kept EXCEPT !.at = "acceptReceived"]
  <2>1. m.at = Idle /\ m.state = s /\ rx[t] # NoFrame
    BY <1>4 DEF Receive, InHandler
  <2>2. /\ h \in Manager /\ h.at = Idle /\ h.state = m.state
        /\ InExchange(h) /\ Carries(Given, h)
    BY <1>3, <1>4, <2>1
  <2>3. /\ kept.at = Idle /\ kept.actualPackage = h.actualPackage /\ kept.receivedPackage = p
        /\ taken.at = "acceptReceived" /\ taken.actualPackage = h.actualPackage
        /\ taken.receivedPackage = p
    BY <2>2 DEF Manager
  <2>4. Carries(Given, kept) /\ (isInfo(p) => Carries(Given, taken))
    BY <2>2, <2>3 DEF Carries, Idle
  <2>5. isInfo(p) => /\ Carries(Given, ReceiveText(t, h))
                     /\ ReceiveText(t, h).at # "measuring"
    BY <2>3, <2>4 DEF ReceiveText, Idle
  <2>6. Carries(Given, n) /\ n.at # "measuring"
    BY <1>4, <2>2, <2>5 DEF Idle
  <2>7. Become(t, n) /\ Drain(t) /\ UNCHANGED <<bounds, history>>
    BY <1>4 DEF Receive
  <2>. HIDE DEF n
  <2>. QED
    BY <1>1, <2>6, <2>7
<1>5. ASSUME rx[t] # NoFrame, m.at = Idle, m.state # "Receive_Payload"
      PROVE  /\ Carries(Given, h) /\ h.at # "measuring"
             /\ \A s \in States : /\ Carries(Given, changeState(h, s))
                                  /\ changeState(h, s).at # "measuring"
             /\ \A d \in {"gotReturn", "gotReturnConfirm"} :
                    /\ Carries(Given, [h EXCEPT !.at = d])
                    /\ [h EXCEPT !.at = d].at # "measuring"
  <2>1. /\ h \in Manager /\ h.at = Idle /\ InExchange(h) /\ Carries(Given, h)
    BY <1>3, <1>5
  <2>2. h.at # "measuring"
    BY <2>1 DEF Idle
  <2>3. \A s \in States : Carries(Given, changeState(h, s))
    BY <2>1, <2>2, HelpersCarry
  <2>4. \A s \in States : changeState(h, s).at # "measuring"
    BY <2>1, <2>2, HelperPlaces
  <2>5. ASSUME NEW d \in {"gotReturn", "gotReturnConfirm"}
        PROVE  Carries(Given, [h EXCEPT !.at = d]) /\ [h EXCEPT !.at = d].at # "measuring"
    <3> DEFINE n == [h EXCEPT !.at = d]
    <3>1. n.at = d /\ n.actualPackage = h.actualPackage /\ n.receivedPackage = h.receivedPackage
      BY <2>1 DEF Manager
    <3>. QED
      BY <2>1, <2>2, <3>1, CarriesOn
  <2>. QED
    BY <2>1, <2>2, <2>3, <2>4, <2>5
<1>6. CASE Receive_Confirm_Primary(t)
  <2> DEFINE p == h.receivedPackage
             otherwise ==
               IF ~FromNext(t, p) \/ p.dest = t THEN h
               ELSE IF SamePayload(p, h.actualPackage) \/ PayloadIs(p, "OK")
                    THEN changeState(h, "Receive_Return")
               ELSE IF PayloadIs(p, "R") THEN changeState(h, "Send_Return") ELSE h
  <2>1. Receive(t, "Receive_Confirm_Primary", RefusesSensors(h, p) \/ PassesBack(t, h, p), otherwise)
    BY <1>6 DEF Receive_Confirm_Primary
  <2>2. m.at = Idle /\ m.state = "Receive_Confirm_Primary" /\ rx[t] # NoFrame
    BY <2>1 DEF Receive, InHandler
  <2>3. Carries(Given, otherwise) /\ otherwise.at # "measuring"
    BY <1>5, <2>2 DEF States
  <2>. HIDE DEF otherwise
  <2>. QED
    BY <1>4, <2>1, <2>3
<1>7. CASE Receive_Return(t)
  <2> DEFINE p == h.receivedPackage
             otherwise == IF FromNext(t, p) /\ PayloadIs(p, "R")
                          THEN [h EXCEPT !.at = "gotReturn"] ELSE h
  <2>1. Receive(t, "Receive_Return", PassesBack(t, h, p), otherwise)
    BY <1>7 DEF Receive_Return
  <2>2. m.at = Idle /\ m.state = "Receive_Return" /\ rx[t] # NoFrame
    BY <2>1 DEF Receive, InHandler
  <2>3. Carries(Given, otherwise) /\ otherwise.at # "measuring"
    BY <1>5, <2>2
  <2>. HIDE DEF otherwise
  <2>. QED
    BY <1>4, <2>1, <2>3
<1>8. CASE Receive_Return_Confirm(t)
  <2> DEFINE p == h.receivedPackage
             otherwise == IF FromPrevious(t, p) /\ PayloadIs(p, "R")
                          THEN [h EXCEPT !.at = "gotReturnConfirm"] ELSE h
  <2>1. Receive(t, "Receive_Return_Confirm", PassesBack(t, h, p), otherwise)
    BY <1>8 DEF Receive_Return_Confirm
  <2>2. m.at = Idle /\ m.state = "Receive_Return_Confirm" /\ rx[t] # NoFrame
    BY <2>1 DEF Receive, InHandler
  <2>3. Carries(Given, otherwise) /\ otherwise.at # "measuring"
    BY <1>5, <2>2
  <2>. HIDE DEF otherwise
  <2>. QED
    BY <1>4, <2>1, <2>3
<1>. QED
  BY <1>2, <1>6, <1>7, <1>8 DEF Receiving

\* The timeouts and the end: what is announced is what the originator has in hand.
LEMMA EndingCarries ==
    ASSUME CarryInv, TypeOK', NEW t \in Towers, Retransmit(t) \/ GiveUp(t) \/ Succeed(t)
    PROVE  CarryInv'
<1> DEFINE m == lora[t]
<1>0. /\ m \in Manager /\ Carries(Given, m) /\ measured \in Nat /\ texts \in Nat
  BY DEF CarryInv, TypeOK
<1>1. ASSUME m.at = Idle, m.state # "Receive_Payload"
      PROVE  /\ isInfo(m.actualPackage) /\ m.actualPackage.id \in Given
             /\ \A s \in States : /\ Carries(Given, changeState(m, s))
                                  /\ changeState(m, s).at # "measuring"
             /\ Carries(Given, Sleep(m)) /\ Sleep(m).at # "measuring"
  <2>1. InExchange(m) /\ m.at # "measuring"
    BY <1>1 DEF InExchange, Idle, Asleep
  <2>2. isInfo(m.actualPackage) /\ m.actualPackage.id \in Given
    BY <1>0, <2>1 DEF Carries, Named
  <2>3. \A s \in States : Carries(Given, changeState(m, s)) /\ Carries(Given, Sleep(m))
    BY <1>0, <2>1, HelpersCarry
  <2>4. /\ \A s \in States : changeState(m, s).at # "measuring"
        /\ Sleep(m).at # "measuring"
    BY <1>0, <1>1, HelperPlaces DEF Idle, Asleep
  <2>5. "Send_Return" \in States
    BY DEF States
  <2>. QED
    BY <2>2, <2>3, <2>4, <2>5
<1>2. ASSUME measured' = measured, texts' = texts PROVE Given' = Given
  BY <1>2 DEF Given
<1>3. CASE Retransmit(t)
  <2>1. /\ m.at = Idle /\ m.state # "Receive_Payload"
        /\ \E s \in States : Become(t, changeState(m, s))
        /\ UNCHANGED <<rx, measured, texts, consumed, announced>>
    BY <1>3 DEF Retransmit, RetransmitPayload, RetransmitReturn, InHandler, States, bounds, history
  <2>. QED
    BY <1>0, <1>1, <1>2, <2>1, BecomeCarries
<1>4. CASE GiveUp(t)
  <2>1. /\ Become(t, Off) /\ Drain(t)
        /\ UNCHANGED <<measured, texts, consumed, announced>>
    <3>1. Sleep([m EXCEPT !.keepAlive = FALSE]) = Off
      BY <1>0 DEF Sleep, Manager
    <3>2. ~m.keepAlive => Sleep(m) = Off
      BY DEF Sleep
    <3>. QED
      BY <1>4, <3>1, <3>2 DEF GiveUp, GlobalTimeout, BluetoothTimeout, bounds, history
  <2>2. Carries(Given, Off) /\ Off.at # "measuring"
    BY OffCarries DEF Off, Asleep
  <2>. QED
    BY <1>0, <1>2, <2>1, <2>2, BecomeCarries
<1>5. CASE Succeed(t)
  <2>1. /\ m.at = Idle /\ m.state # "Receive_Payload" /\ Become(t, Sleep(m)) /\ Drain(t)
        /\ UNCHANGED <<measured, texts, consumed>>
        /\ announced' = announced \cup {m.actualPackage.id}
    BY <1>5 DEF Succeed, InHandler, bounds
  <2>. QED
    BY <1>0, <1>1, <1>2, <2>1, BecomeCarries
<1>. QED
  BY <1>3, <1>4, <1>5

LEMMA CarryInvariant == Spec => []CarryInv
<1>1. Init => CarryInv
  <2> SUFFICES ASSUME Init PROVE CarryInv
    OBVIOUS
  <2>1. TypeOK
    BY OffType DEF Init, TypeOK
  <2>2. Named(Given, NoFrame)
    BY DEF Named, isInfo, NoFrame
  <2>. QED
    BY <2>1, <2>2, OffCarries DEF Init, CarryInv, Off, Asleep
<1>2. CarryInv /\ TypeOK' /\ [Next]_vars => CarryInv'
  <2> SUFFICES ASSUME CarryInv, TypeOK', [Next]_vars PROVE CarryInv'
    OBVIOUS
  <2>1. ASSUME NEW t \in Towers, LoRaThread(t) \/ GiveUp(t) \/ BluetoothThread(t) \/ Environment(t)
        PROVE  CarryInv'
    BY <2>1, SendingCarries, ReceivingCarries, EndingCarries, EnvironmentCarries DEF LoRaThread
  <2>2. CASE UNCHANGED vars
    BY <2>2 DEF CarryInv, Given, vars, bounds, history
  <2>. QED
    BY <2>1, <2>2 DEF Next
<1>. QED
  BY <1>1, <1>2, TypeCorrect, PTL DEF Spec

\* The success of a package that is the only one so far is not another's: it has been
\* handed to consumeInfo (LoraManager.cpp:312-316 against 130-136), for measurements and
\* texts in either direction, with the button pressed at any time and any frames lost.
THEOREM OnePackageCorrect ==
    Spec => []((crcErrors = 0 /\ measured + texts <= 1) => SuccessMeansConsumed)
<1>1. CarryInv /\ NoSuccessBeforeDelivery
        => ((crcErrors = 0 /\ measured + texts <= 1) => SuccessMeansConsumed)
  <2> SUFFICES ASSUME CarryInv, NoSuccessBeforeDelivery, crcErrors = 0, measured + texts <= 1,
                      NEW i \in announced
               PROVE  i \in consumed
    BY DEF SuccessMeansConsumed
  <2>1. PICK j : j \in consumed
    BY DEF NoSuccessBeforeDelivery
  <2>2. i \in Given /\ j \in Given
    BY <2>1 DEF CarryInv
  <2>3. measured \in Nat /\ texts \in Nat /\ MaxMeasurements \in Nat
    BY DEF CarryInv, TypeOK
  <2>4. i = j
    BY <2>2, <2>3 DEF Given
  <2>. QED
    BY <2>1, <2>4
<1>. QED
  BY <1>1, CarryInvariant, NoSuccessCorrect, PTL

\* The same for a lone text: no measurement, "OK" or "R" is taken for its answer.
THEOREM TextSuccessCorrect == Spec => []TextSuccessMeansConsumed
<1>1. TypeOK /\ ((crcErrors = 0 /\ measured + texts <= 1) => SuccessMeansConsumed)
        => TextSuccessMeansConsumed
  BY DEF TypeOK, TextSuccessMeansConsumed, OnlyTexts
<1>. QED
  BY <1>1, TypeCorrect, OnePackageCorrect, PTL
=============================================================================
