--------------------------- MODULE LoraTowersProofs ---------------------------
(***************************************************************************)
(* Proofs about the chain of towers, for every number of towers and every  *)
(* bound.  First type correctness, from one typing lemma per helper of     *)
(* LoraManager; then the invariants that rest on it.                       *)
(***************************************************************************)
EXTENDS LoraTowers, FiniteSetTheorems, TLAPS

USE ConstantsAssumption

---------------------------------------------------------------------------
(***************************************************************************)
(* What the helpers return.                                                *)
(***************************************************************************)

\* The zeroed package a tower boots with is a package.
LEMMA BlankType == Blank \in Package
BY DEF Blank, Package, Kinds, Towers, Ids

\* setPayload builds a package when its arguments are in range.
LEMMA NewPackageType ==
    ASSUME NEW kind \in Kinds, NEW dest \in Towers, NEW t \in Towers, NEW id \in Ids
    PROVE  NewPackage(kind, dest, t, id) \in Package
BY DEF NewPackage, Package

\* A tower in deep sleep has a manager of the right type.
LEMMA OffType == Off \in Manager
BY BlankType DEF Off, Manager, States, Asleep, Idle, Towers

\* changeState keeps the type.
LEMMA ChangeStateType ==
    ASSUME NEW m \in Manager, NEW s \in States
    PROVE  changeState(m, s) \in Manager
BY DEF changeState, Manager

\* sendPackage keeps the type.
LEMMA SendPackageType ==
    ASSUME NEW m \in Manager, NEW p \in Package
    PROVE  sendPackage(m, p) \in Manager
<1> DEFINE loaded == [m EXCEPT !.actualPackage = p, !.sender = TRUE, !.transmitting = TRUE]
<1>1. loaded \in Manager
  BY DEF Manager
<1>2. [loaded EXCEPT !.state = "Send_Payload"] \in Manager
  BY <1>1 DEF Manager, States
<1>3. changeState(loaded, "Send_Payload") \in Manager
  BY <1>1, ChangeStateType DEF States
<1>. QED
  BY <1>2, <1>3 DEF sendPackage

\* Sleep keeps the type.
LEMMA SleepType ==
    ASSUME NEW m \in Manager
    PROVE  Sleep(m) \in Manager
<1> DEFINE silent == [m EXCEPT !.transmitting = FALSE, !.sender = FALSE]
<1>1. silent \in Manager
  BY DEF Manager
<1>2. changeState(silent, "Receive_Payload") \in Manager
  BY <1>1, ChangeStateType DEF States
<1>. QED
  BY <1>2, OffType DEF Sleep

\* Returning from a handler keeps the type.
LEMMA ReturnType ==
    ASSUME NEW m \in Manager
    PROVE  Return(m) \in Manager
BY DEF Return, Manager, Idle

\* A received frame, or the old package on a CRC error, is a package.
LEMMA SetPackageType ==
    ASSUME NEW old \in Package, NEW frame \in Package \cup {NoFrame, CrcError},
           frame # NoFrame
    PROVE  setPackage(old, frame) \in Package
BY DEF setPackage

\* The ids of what is measured and handed over are ids.
LEMMA IdsType ==
    /\ Measurements \subseteq Ids /\ Texts \subseteq Ids /\ NoId \in Ids
    /\ \A n \in 0..MaxMeasurements : n < MaxMeasurements => n + 1 \in Measurements
    /\ \A n \in 0..MaxTexts : n < MaxTexts => MaxMeasurements + n + 1 \in Texts
BY DEF Ids, Measurements, Texts, NoId

\* A manager with the progress of one of its other two threads updated.
Callers(m) == {[m EXCEPT !.bluetooth = "on"], [m EXCEPT !.bluetooth = "ordering"],
               [m EXCEPT !.wifi = "free"], [m EXCEPT !.wifi = "ordered"]}

\* Such an update, with or without setHigherOrder, leaves what LoraManager decides by.
LEMMA CallerSame ==
    ASSUME NEW m \in Manager, NEW c \in Callers(m), NEW n \in {c, setHigherOrder(c)}
    PROVE  /\ n \in Manager
           /\ n.at = m.at /\ n.state = m.state
           /\ n.sender = m.sender /\ n.keepAlive = m.keepAlive
           /\ n.actualPackage = m.actualPackage /\ n.receivedPackage = m.receivedPackage
<1>1. /\ c \in Manager
      /\ c.at = m.at /\ c.state = m.state
      /\ c.sender = m.sender /\ c.keepAlive = m.keepAlive
      /\ c.actualPackage = m.actualPackage /\ c.receivedPackage = m.receivedPackage
  BY DEF Callers, Manager
<1>. QED
  BY <1>1 DEF setHigherOrder, Manager

\* The steps of the two threads that hand over texts.
LEMMA ThreadSteps ==
    ASSUME NEW t \in Towers, lora[t] \in Manager
    PROVE  /\ SendFromBluetooth(t) \/ SendFromWifi(t) =>
                 \E dest \in Towers : \E c \in Callers(lora[t]) : HandOver(t, dest, c)
           /\ BluetoothOrders(t) \/ WifiOrders(t) =>
                 \E c \in Callers(lora[t]) :
                     Become(t, setHigherOrder(c)) /\ UNCHANGED <<rx, bounds, history>>
<1>1. Server \in Towers /\ lora[t].bluetooth_tower \in Towers
  BY DEF Server, Towers, Manager
<1>. QED
  BY <1>1 DEF Callers, SendFromBluetooth, SendFromWifi, BluetoothOrders, WifiOrders

---------------------------------------------------------------------------
(***************************************************************************)
(* Type correctness.                                                       *)
(***************************************************************************)

\* A step that gives tower t a manager and a receive buffer of the right type, and
\* leaves the rest alone, keeps the types.
LEMMA BecomeType ==
    ASSUME TypeOK, NEW t \in Towers, NEW m \in Manager, Become(t, m),
           rx' = rx \/ Drain(t),
           UNCHANGED <<bounds, history>>
    PROVE  TypeOK'
BY DEF TypeOK, Become, Drain, bounds, history

\* Every step of the environment keeps the types.
LEMMA EnvironmentType ==
    ASSUME TypeOK, NEW t \in Towers, Environment(t) \/ BluetoothThread(t)
    PROVE  TypeOK'
<1> DEFINE m == lora[t]
<1>0. m \in Manager
  BY DEF TypeOK
<1>1. Booted \in Manager
  BY OffType DEF Booted, Manager
<1>2. CASE WakeByTimer(t)
  <2>1. receivePackage(Booted) \in Manager
    BY <1>1, ChangeStateType DEF receivePackage, States
  <2>2. [Booted EXCEPT !.at = "measuring"] \in Manager
    BY <1>1 DEF Manager, Delays
  <2>. QED
    BY <1>2, <2>1, <2>2 DEF WakeByTimer, TypeOK, Become, history
<1>3. CASE WakeByButton(t)
  <2>1. receivePackage(Booted) \in Manager
    BY <1>1, ChangeStateType DEF receivePackage, States
  <2>2. [receivePackage(Booted) EXCEPT !.bluetooth = "notified"] \in Manager
    BY <2>1 DEF Manager
  <2>. QED
    BY <1>3, <2>2 DEF WakeByButton, TypeOK, Become, history
<1>4. CASE ButtonPressed(t)
  <2> DEFINE n == [m EXCEPT
                    !.state = "Receive_Payload", !.transmitting = FALSE, !.sender = FALSE,
                    !.higher_order = (m.at # Idle),
                    !.bluetooth = IF @ = "off" THEN "notified" ELSE @]
  <2>1. n \in Manager
    BY <1>0 DEF Manager, States
  <2>2. Become(t, n)
    BY <1>4 DEF ButtonPressed
  <2>. QED
    BY <1>4, <2>1, <2>2 DEF ButtonPressed, TypeOK, Become, history
<1>5. CASE BluetoothNotified(t)
  <2>1. receivePackage(m) \in Manager
    BY <1>0, ChangeStateType DEF receivePackage, States
  <2>2. [receivePackage(m) EXCEPT !.bluetooth = "turningOn"] \in Manager
    BY <2>1 DEF Manager
  <2>. QED
    BY <1>5, <2>2, BecomeType DEF BluetoothNotified
<1>6. CASE BluetoothOn(t)
  <2>1. [m EXCEPT !.bluetooth = "on", !.keepAlive = TRUE] \in Manager
    BY <1>0 DEF Manager
  <2>. QED
    BY <1>6, <2>1, BecomeType DEF BluetoothOn
<1>7. CASE SendFromBluetooth(t) \/ SendFromWifi(t)
  <2>0. PICK dest \in Towers, c \in Callers(m) : HandOver(t, dest, c)
    BY <1>0, <1>7, ThreadSteps
  <2> DEFINE id == MaxMeasurements + texts + 1
             p == NewPackage("text", dest, t, id)
             loaded == sendPackage(c, p)
  <2>1. id \in Ids
    BY <2>0, IdsType DEF HandOver, TypeOK
  <2>2. p \in Package
    BY <2>1, NewPackageType DEF Kinds
  <2>3. loaded \in Manager
    BY <1>0, <2>2, CallerSame, SendPackageType
  <2>4. Become(t, loaded) /\ Accept(t, id)
    BY <2>0 DEF HandOver
  <2>. QED
    BY <2>0, <2>1, <2>3, <2>4 DEF HandOver, TypeOK, Become, Accept
<1>8. CASE BluetoothOrders(t) \/ WifiOrders(t)
  <2>1. PICK c \in Callers(m) :
            Become(t, setHigherOrder(c)) /\ UNCHANGED <<rx, bounds, history>>
    BY <1>0, <1>8, ThreadSteps
  <2>2. setHigherOrder(c) \in Manager
    BY <1>0, CallerSame
  <2>. QED
    BY <2>1, <2>2, BecomeType
<1>. QED
  BY <1>2, <1>3, <1>4, <1>5, <1>6, <1>7, <1>8 DEF Environment, BluetoothThread

\* There are finitely many towers.
LEMMA TowersFinite == IsFiniteSet(Towers)
<1>1. 0 \in Int /\ MainTower \in Int
  OBVIOUS
<1>2. IsFiniteSet(0..MainTower)
  BY <1>1, FS_Interval, Zenon
<1>. QED
  BY <1>2 DEF Towers

\* What a transmission leaves in the receive buffers are packages or CRC errors.
LEMMA TransmitType ==
    ASSUME TypeOK, NEW t \in Towers, NEW p \in Package, NEW delay \in Delays,
           Transmit(t, p, delay)
    PROVE  TypeOK'
<1>1. [lora[t] EXCEPT !.at = delay] \in Manager
  BY DEF TypeOK, Manager
<1>2. lora' \in [Towers -> Manager]
  BY <1>1 DEF Transmit, Become, TypeOK
<1> DEFINE listeners == {u \in Towers \ {t} : Listening(u)}
<1>7. PICK heard \in SUBSET listeners : \E garbled \in SUBSET (listeners \ heard) :
        /\ crcErrors + Cardinality(garbled) <= MaxCrcErrors
        /\ crcErrors' = crcErrors + Cardinality(garbled)
        /\ rx' = [u \in Towers |-> IF u = t THEN NoFrame
                                   ELSE IF u \in heard THEN p
                                   ELSE IF u \in garbled THEN CrcError ELSE rx[u]]
  BY Zenon DEF Transmit
<1>3. PICK garbled \in SUBSET (listeners \ heard) :
        /\ crcErrors + Cardinality(garbled) <= MaxCrcErrors
        /\ crcErrors' = crcErrors + Cardinality(garbled)
        /\ rx' = [u \in Towers |-> IF u = t THEN NoFrame
                                   ELSE IF u \in heard THEN p
                                   ELSE IF u \in garbled THEN CrcError ELSE rx[u]]
  BY <1>7, Zenon
<1>4. rx' \in [Towers -> Package \cup {NoFrame, CrcError}]
  BY <1>3 DEF TypeOK
<1>5. crcErrors' \in 0..MaxCrcErrors
  <2>1. IsFiniteSet(garbled)
    BY <1>3, TowersFinite, FS_Subset
  <2>2. Cardinality(garbled) \in Nat
    BY <2>1, FS_CardinalityType
  <2>. QED
    BY <1>3, <2>2 DEF TypeOK
<1>6. UNCHANGED <<measured, texts, presses, accepted, consumed, repeated, announced>>
  BY DEF Transmit, history
<1>. QED
  BY <1>2, <1>4, <1>5, <1>6 DEF TypeOK

\* Every step of the LoRa thread that sends, or ends a delay, keeps the types.
LEMMA SendingType ==
    ASSUME TypeOK, NEW t \in Towers, Sending(t) \/ AfterDelay(t)
    PROVE  TypeOK'
<1> DEFINE m == lora[t]
<1>0. /\ m \in Manager /\ m.actualPackage \in Package /\ m.receivedPackage \in Package
      /\ Return(m) \in Manager
  BY ReturnType DEF TypeOK, Manager
<1>1. \A s \in States : changeState(m, s) \in Manager /\ Return(changeState(m, s)) \in Manager
  BY <1>0, ChangeStateType, ReturnType
<1>2. CASE Send_Payload(t)
  BY <1>0, <1>2, TransmitType DEF Send_Payload, Delays
<1>3. CASE Send_Confirm_Primary(t)
  <2>1. NewPackage("OK", m.actualPackage.dest, t, NoId) \in Package
    BY <1>0, NewPackageType, IdsType DEF Package, Kinds
  <2>. QED
    BY <1>3, <2>1, TransmitType DEF Send_Confirm_Primary, Delays
<1>4. CASE Send_Return(t)
  <2>1. NewPackage("R", m.actualPackage.dest, t, NoId) \in Package
    BY <1>0, NewPackageType, IdsType DEF Package, Kinds
  <2>. QED
    BY <1>4, <2>1, TransmitType DEF Send_Return, Delays
<1>5. CASE Send_Payload_Done(t)
  BY <1>1, <1>5, BecomeType DEF Send_Payload_Done, States
<1>6. CASE Send_Return_Done(t)
  BY <1>1, <1>6, BecomeType DEF Send_Return_Done, States
<1>7. CASE Receive_Return_Done(t)
  BY <1>1, <1>7, BecomeType DEF Receive_Return_Done, States
<1>8. CASE Receive_Return_Confirm_Done(t)
  BY <1>0, <1>8, SleepType, ReturnType, BecomeType DEF Receive_Return_Confirm_Done
<1>9. CASE Send_Confirm_Primary_Done(t)
  <2> DEFINE p == m.actualPackage
             n == [changeState(m, "Send_Return") EXCEPT
                     !.bluetooth_tower = IF isText(p) /\ t = Server THEN p.orig ELSE @]
  <2>1. CASE p.dest = t
    <3>1. p.orig \in Towers /\ p.id \in Ids
      BY <1>0 DEF Package
    <3>0. changeState(m, "Send_Return") \in Manager
      BY <1>1 DEF States
    <3>2. n \in Manager
      BY <3>0, <3>1 DEF Manager
    <3>3. Return(n) \in Manager
      BY <3>2, ReturnType
    <3>4. Become(t, Return(n)) /\ consumed' = consumed \cup {p.id}
          /\ repeated' = repeated \cup (consumed \cap {p.id})
          /\ UNCHANGED <<rx, bounds, accepted, announced>>
      BY <1>9, <2>1 DEF Send_Confirm_Primary_Done
    <3>5. lora' \in [Towers -> Manager]
      BY <3>3, <3>4 DEF Become, TypeOK
    <3>. QED
      BY <3>1, <3>4, <3>5 DEF TypeOK, bounds
  <2>2. CASE p.dest # t
    <3>1. Return(changeState(m, "Send_Payload")) \in Manager
      BY <1>1 DEF States
    <3>2. /\ Become(t, Return(changeState(m, "Send_Payload")))
          /\ UNCHANGED <<rx, bounds, history>>
      BY <1>9, <2>2 DEF Send_Confirm_Primary_Done, history
    <3>. QED
      BY <3>1, <3>2, BecomeType
  <2>. QED
    BY <2>1, <2>2
<1>10. ASSUME NEW n \in Manager, NEW id \in Ids, Become(t, n), Accept(t, id),
              UNCHANGED <<rx, bounds, consumed, repeated, announced>>
       PROVE  TypeOK'
  BY <1>10 DEF TypeOK, Become, Accept, bounds
<1>13. CASE SendMeasurement(t)
  <2> DEFINE p == NewPackage("sensors", Server, t, measured)
  <2>1. measured \in Ids
    BY DEF TypeOK, Ids, Measurements, NoId
  <2>2. p \in Package
    BY <2>1, NewPackageType DEF Kinds, Server, Towers
  <2>3. Return(sendPackage(m, p)) \in Manager
    BY <1>0, <2>2, SendPackageType, ReturnType
  <2>. QED
    BY <1>10, <1>13, <2>1, <2>3 DEF SendMeasurement
<1>11. CASE AcceptActual(t)
  <2> DEFINE n == [changeState(m, "Send_Confirm_Primary") EXCEPT
                     !.actualPackage.sender = t, !.transmitting = TRUE]
             k == changeState(m, "Send_Confirm_Primary")
  <2>0. k \in Manager /\ [k.actualPackage EXCEPT !.sender = t] \in Package
    BY <1>1 DEF Manager, Package, States
  <2>1. n \in Manager
    BY <2>0 DEF Manager
  <2>2. Return(n) \in Manager /\ n.actualPackage.id \in Ids
    BY <2>1, ReturnType DEF Manager, Package
  <2>. QED
    BY <1>10, <1>11, <2>2 DEF AcceptActual
<1>12. CASE AcceptReceived(t)
  <2> DEFINE mine == [m.receivedPackage EXCEPT !.sender = t]
             n == [changeState(m, "Send_Confirm_Primary") EXCEPT
                     !.receivedPackage = mine, !.actualPackage = mine, !.transmitting = TRUE]
  <2>1. mine \in Package /\ mine.id \in Ids
    BY <1>0 DEF Package
  <2>2. ASSUME NEW k \in Manager, NEW p \in Package
        PROVE  [k EXCEPT !.receivedPackage = p, !.actualPackage = p,
                         !.transmitting = TRUE] \in Manager
    BY DEF Manager
  <2>3. changeState(m, "Send_Confirm_Primary") \in Manager
    BY <1>1 DEF States
  <2>4. n \in Manager
    BY <2>1, <2>2, <2>3
  <2>5. Return(n) \in Manager
    BY <2>4, ReturnType
  <2>. QED
    BY <1>10, <1>12, <2>1, <2>5 DEF AcceptReceived
<1>. QED
  BY <1>2, <1>3, <1>4, <1>5, <1>6, <1>7, <1>8, <1>9, <1>11, <1>12, <1>13 DEF Sending, AfterDelay

\* A receiving handler ends with a manager of the right type if what it makes of
\* a package that is neither a text nor invalid has it.
LEMMA ReceiveKeepsType ==
    ASSUME TypeOK, NEW t \in Towers, NEW s, NEW invalid, NEW otherwise,
           Heard(t) \in Manager => otherwise \in Manager,
           Receive(t, s, invalid, otherwise)
    PROVE  TypeOK'
<1> DEFINE m == Heard(t)
           p == m.receivedPackage
           n == IF isInfo(p) /\ iskeepAlive(p) THEN ReceiveText(t, m)
                ELSE IF invalid THEN m ELSE otherwise
<1>1. lora[t] \in Manager /\ rx[t] \in Package \cup {NoFrame, CrcError}
  BY DEF TypeOK
<1>2. setPackage(lora[t].receivedPackage, rx[t]) \in Package
  BY <1>1, SetPackageType DEF Receive, Manager
<1>3. m \in Manager
  BY <1>1, <1>2 DEF Heard, Manager
<1>4. ReceiveText(t, m) \in Manager
  <2>1. [m EXCEPT !.keepAlive = TRUE] \in Manager
    BY <1>3 DEF Manager
  <2>2. [[m EXCEPT !.keepAlive = TRUE] EXCEPT !.at = "acceptReceived"] \in Manager
    BY <2>1 DEF Manager, Delays
  <2>. QED
    BY <2>1, <2>2 DEF ReceiveText
<1>5. n \in Manager
  BY <1>3, <1>4
<1>6. Become(t, n) /\ Drain(t) /\ UNCHANGED <<bounds, history>>
  BY DEF Receive
<1>. QED
  BY <1>5, <1>6, BecomeType

\* Every step of the LoRa thread that reads a frame keeps the types.
LEMMA ReceivingType ==
    ASSUME TypeOK, NEW t \in Towers, Receiving(t)
    PROVE  TypeOK'
<1>0. lora[t] \in Manager /\ rx[t] \in Package \cup {NoFrame, CrcError}
  BY DEF TypeOK
<1>1. CASE Receive_Payload(t)
  <2> DEFINE p == setPackage(lora[t].actualPackage, rx[t])
             m == [lora[t] EXCEPT !.actualPackage = p]
             a == [m EXCEPT !.keepAlive = @ \/ iskeepAlive(p), !.at = "acceptActual"]
  <2>1. p \in Package
    BY <1>0, <1>1, SetPackageType DEF Receive_Payload, Manager
  <2>2. m \in Manager
    BY <1>0, <2>1 DEF Manager
  <2>3. m.keepAlive \/ iskeepAlive(p) \in BOOLEAN
    BY DEF iskeepAlive
  <2>4. a \in Manager
    BY <2>2, <2>3 DEF Manager, Delays, iskeepAlive
  <2>5. (Become(t, m) \/ Become(t, a)) /\ Drain(t) /\ UNCHANGED <<bounds, history>>
    BY <1>1 DEF Receive_Payload
  <2>. QED
    BY <2>2, <2>4, <2>5, BecomeType
<1>2. CASE Receive_Confirm_Primary(t)
  <2> DEFINE m == Heard(t)
             p == m.receivedPackage
             otherwise ==
               IF ~FromNext(t, p) \/ p.dest = t THEN m
               ELSE IF SamePayload(p, m.actualPackage) \/ PayloadIs(p, "OK")
                    THEN changeState(m, "Receive_Return")
               ELSE IF PayloadIs(p, "R") THEN changeState(m, "Send_Return") ELSE m
  <2>1. m \in Manager => otherwise \in Manager
    BY ChangeStateType DEF States
  <2>. QED
    BY <1>2, <2>1, ReceiveKeepsType DEF Receive_Confirm_Primary
<1>3. CASE Receive_Return(t)
  <2> DEFINE m == Heard(t)
             p == m.receivedPackage
             otherwise == IF FromNext(t, p) /\ PayloadIs(p, "R")
                          THEN [m EXCEPT !.at = "gotReturn"] ELSE m
  <2>1. m \in Manager => otherwise \in Manager
    BY DEF Manager, Delays
  <2>. QED
    BY <1>3, <2>1, ReceiveKeepsType DEF Receive_Return
<1>4. CASE Receive_Return_Confirm(t)
  <2> DEFINE m == Heard(t)
             p == m.receivedPackage
             otherwise == IF FromPrevious(t, p) /\ PayloadIs(p, "R")
                          THEN [m EXCEPT !.at = "gotReturnConfirm"] ELSE m
  <2>1. m \in Manager => otherwise \in Manager
    BY DEF Manager, Delays
  <2>. QED
    BY <1>4, <2>1, ReceiveKeepsType DEF Receive_Return_Confirm
<1>. QED
  BY <1>1, <1>2, <1>3, <1>4 DEF Receiving

\* The timeouts and the originator's success keep the types.
LEMMA EndingType ==
    ASSUME TypeOK, NEW t \in Towers, Retransmit(t) \/ GiveUp(t) \/ Succeed(t)
    PROVE  TypeOK'
<1> DEFINE m == lora[t]
<1>0. m \in Manager /\ Sleep(m) \in Manager
  BY SleepType DEF TypeOK
<1>1. CASE RetransmitPayload(t)
  BY <1>0, <1>1, ChangeStateType, BecomeType DEF RetransmitPayload, States
<1>2. CASE RetransmitReturn(t)
  BY <1>0, <1>2, ChangeStateType, BecomeType DEF RetransmitReturn, States
<1>3. CASE GlobalTimeout(t)
  BY <1>0, <1>3, BecomeType DEF GlobalTimeout
<1>4. CASE BluetoothTimeout(t)
  <2>1. [m EXCEPT !.keepAlive = FALSE] \in Manager
    BY <1>0 DEF Manager
  <2>. QED
    BY <1>4, <2>1, SleepType, BecomeType DEF BluetoothTimeout
<1>5. CASE Succeed(t)
  <2>1. m.actualPackage.id \in Ids
    BY <1>0 DEF Manager, Package
  <2>. QED
    BY <1>0, <1>5, <2>1 DEF Succeed, TypeOK, Become, Drain, bounds
<1>. QED
  BY <1>1, <1>2, <1>3, <1>4, <1>5 DEF Retransmit, GiveUp

\* Type correctness: managers, receive buffers, bounds and histories have their
\* types in every reachable state, for every chain of towers.
THEOREM TypeCorrect == Spec => []TypeOK
<1>1. Init => TypeOK
  BY OffType DEF Init, TypeOK
<1>2. TypeOK /\ [Next]_vars => TypeOK'
  <2> SUFFICES ASSUME TypeOK, [Next]_vars PROVE TypeOK'
    OBVIOUS
  <2>1. ASSUME NEW t \in Towers, LoRaThread(t) \/ GiveUp(t) \/ BluetoothThread(t) \/ Environment(t)
        PROVE  TypeOK'
    BY <2>1, SendingType, ReceivingType, EndingType, EnvironmentType DEF LoRaThread
  <2>2. CASE UNCHANGED vars
    BY <2>2 DEF TypeOK, vars, bounds, history
  <2>. QED
    BY <2>1, <2>2 DEF Next
<1>. QED
  BY <1>1, <1>2, PTL DEF Spec

\* changeState and sendPackage leave thread_LoRa where it is, Sleep too unless it is deep sleep.
LEMMA HelperPlaces ==
    ASSUME NEW m \in Manager
    PROVE  /\ \A s \in States : changeState(m, s).at = m.at
           /\ Sleep(m).at \in {m.at, Asleep}
           /\ \A p \in Package : sendPackage(m, p).at = m.at
<1>1. \A k \in Manager : \A s \in States : changeState(k, s).at = k.at
  BY DEF changeState, Manager
<1>2. Sleep(m).at \in {m.at, Asleep}
  <2> DEFINE silent == [m EXCEPT !.transmitting = FALSE, !.sender = FALSE]
  <2>1. silent \in Manager /\ silent.at = m.at
    BY DEF Manager
  <2>2. changeState(silent, "Receive_Payload").at = m.at
    BY <1>1, <2>1 DEF States
  <2>. QED
    BY <2>2 DEF Sleep, Off
<1>3. ASSUME NEW p \in Package PROVE sendPackage(m, p).at = m.at
  <2> DEFINE loaded == [m EXCEPT !.actualPackage = p, !.sender = TRUE, !.transmitting = TRUE]
  <2>1. loaded \in Manager /\ loaded.at = m.at
    BY DEF Manager
  <2>2. /\ [loaded EXCEPT !.state = "Send_Payload"].at = m.at
        /\ changeState(loaded, "Send_Payload").at = m.at
    BY <1>1, <2>1 DEF Manager, States
  <2>. QED
    BY <2>2 DEF sendPackage
<1>. QED
  BY <1>1, <1>2, <1>3
=============================================================================
