------------------------- MODULE LoraTowersPathProofs -------------------------
(***************************************************************************)
(* No tower is skipped (PathUnbroken), for every chain of towers.          *)
(*                                                                         *)
(* PathUnbroken says nothing of the packages that are under way, so it is  *)
(* not inductive.  What makes it so is that a measurement is vouched for   *)
(* wherever it is, on the air or in a manager: the tower named as its      *)
(* sender has taken charge of it.  A tower between the test of its         *)
(* neighbour's number and the end of the delay still holds a package that  *)
(* passed the test, or a text that another thread put in its place.        *)
(***************************************************************************)
EXTENDS LoraTowersProofs

USE ConstantsAssumption

\* The tower a measurement names as its sender has taken charge of it; nothing
\* else passes for a measurement.
VouchedBy(acc, p) ==
    IF p.kind = "sensors" THEN p.dest = Server /\ p.id \in acc[p.sender]
                          ELSE p.id \notin Measurements

\* What manager m of tower t holds is vouched for, and what it is about to take
\* charge of is the package that passed the tests of its handler.
Sound(acc, t, m) ==
    /\ VouchedBy(acc, m.actualPackage) /\ VouchedBy(acc, m.receivedPackage)
    /\ (m.at = "acceptActual" /\ m.actualPackage.kind = "sensors")
          => m.actualPackage.sender = t + 1
    /\ m.at = "acceptReceived" => m.receivedPackage.kind = "text"
    /\ m.at = "measuring" => t = MainTower /\ m.actualPackage.kind # "sensors"

PathInv ==
    /\ TypeOK
    /\ PathUnbroken
    /\ \A t \in Towers : Sound(accepted, t, lora[t])
    /\ \A t \in Towers : rx[t] \in Package => VouchedBy(accepted, rx[t])

---------------------------------------------------------------------------
(***************************************************************************)
(* The helpers of LoraManager keep a manager sound.                        *)
(***************************************************************************)

\* Packages that are no measurement and carry no measurement's id are vouched for.
LEMMA VouchedNew ==
    ASSUME NEW acc, NEW kind \in Kinds \ {"sensors"}, NEW dest, NEW t,
           NEW id \in {NoId} \cup Texts
    PROVE  VouchedBy(acc, NewPackage(kind, dest, t, id))
BY DEF VouchedBy, NewPackage, NoId, Texts, Measurements

\* A tower that has just booted, or sleeps, holds no measurement.
LEMMA OffSound ==
    ASSUME NEW acc, NEW t
    PROVE  Sound(acc, t, Off) /\ Sound(acc, t, Booted)
BY DEF Off, Booted, Sound, VouchedBy, Blank, NoId, Measurements, Asleep, Idle

\* changeState and the return of a handler touch no package.
LEMMA ChangeStateSound ==
    ASSUME NEW acc, NEW t, NEW m \in Manager, Sound(acc, t, m), NEW s \in States
    PROVE  Sound(acc, t, changeState(m, s))
BY DEF Sound, changeState, Manager

LEMMA ReturnSound ==
    ASSUME NEW acc, NEW t, NEW m \in Manager, Sound(acc, t, m)
    PROVE  Sound(acc, t, Return(m))
BY DEF Sound, Return, Manager, Idle

\* Sleep keeps the packages or loses them all.
LEMMA SleepSound ==
    ASSUME NEW acc, NEW t, NEW m \in Manager, Sound(acc, t, m)
    PROVE  Sound(acc, t, Sleep(m))
<1> DEFINE silent == [m EXCEPT !.transmitting = FALSE, !.sender = FALSE]
<1>1. silent \in Manager /\ Sound(acc, t, silent)
  BY DEF Manager, Sound
<1>2. Sound(acc, t, changeState(silent, "Receive_Payload"))
  BY <1>1, ChangeStateSound DEF States
<1>. QED
  BY <1>2, OffSound DEF Sleep

\* sendPackage loads a text that is vouched for.
LEMMA SendPackageSound ==
    ASSUME NEW acc, NEW t, NEW m \in Manager, Sound(acc, t, m),
           NEW p \in Package, VouchedBy(acc, p), p.kind # "sensors"
    PROVE  Sound(acc, t, sendPackage(m, p))
<1> DEFINE loaded == [m EXCEPT !.actualPackage = p, !.sender = TRUE, !.transmitting = TRUE]
<1>1. loaded \in Manager /\ Sound(acc, t, loaded)
  BY DEF Manager, Sound
<1>2. Sound(acc, t, [loaded EXCEPT !.state = "Send_Payload"])
  BY <1>1 DEF Manager, Sound
<1>3. Sound(acc, t, changeState(loaded, "Send_Payload"))
  BY <1>1, ChangeStateSound DEF States
<1>. QED
  BY <1>2, <1>3 DEF sendPackage

---------------------------------------------------------------------------
(***************************************************************************)
(* The two shapes of a step that concerns one tower.                       *)
(***************************************************************************)

\* A step that leaves a sound manager and a receive buffer no fuller than it was,
\* with nobody taking charge of anything.
LEMMA BecomeSound ==
    ASSUME PathInv, TypeOK', NEW t \in Towers, NEW m, Become(t, m),
           Sound(accepted, t, m), rx' = rx \/ Drain(t), UNCHANGED accepted
    PROVE  PathInv'
<1>1. \A u \in Towers : lora'[u] = IF u = t THEN m ELSE lora[u]
  BY DEF Become, PathInv, TypeOK
<1>2. \A u \in Towers : Sound(accepted', u, lora'[u])
  BY <1>1 DEF PathInv
<1>3. \A u \in Towers : rx'[u] \in {rx[u], NoFrame}
  BY DEF Drain, PathInv, TypeOK
<1>4. NoFrame \notin Package
  BY DEF NoFrame, Package, Kinds
<1>5. \A u \in Towers : rx'[u] \in Package => VouchedBy(accepted', rx'[u])
  BY <1>3, <1>4 DEF PathInv
<1>6. PathUnbroken'
  BY DEF PathInv, PathUnbroken
<1>. QED
  BY <1>2, <1>5, <1>6 DEF PathInv

\* A step that takes charge of id at t, which the next tower up has done if it is a
\* measurement, and leaves the manager sound with that.
LEMMA AcceptSound ==
    ASSUME PathInv, TypeOK', NEW t \in Towers, NEW m, NEW id, Become(t, m),
           Accept(t, id), UNCHANGED rx,
           Sound(accepted', t, m),
           id \in Measurements => t = MainTower \/ id \in accepted[t + 1]
    PROVE  PathInv'
<1>0. accepted \in [Towers -> SUBSET Ids]
  BY DEF PathInv, TypeOK
<1>1. \A u \in Towers : accepted'[u] = IF u = t THEN accepted[u] \cup {id} ELSE accepted[u]
  BY <1>0 DEF Accept
<1>2. \A p \in Package : VouchedBy(accepted, p) => VouchedBy(accepted', p)
  BY <1>1 DEF VouchedBy, Package
<1>3. \A u \in Towers : Sound(accepted', u, lora'[u])
  <2>1. \A u \in Towers : lora'[u] = IF u = t THEN m ELSE lora[u]
    BY DEF Become, PathInv, TypeOK
  <2>2. \A u \in Towers : /\ lora[u].actualPackage \in Package
                          /\ lora[u].receivedPackage \in Package
    BY DEF PathInv, TypeOK, Manager
  <2>3. ASSUME NEW u \in Towers, u # t PROVE Sound(accepted', u, lora'[u])
    BY <1>2, <2>1, <2>2, <2>3 DEF PathInv, Sound
  <2>. QED
    BY <2>1, <2>3
<1>4. \A u \in Towers : rx'[u] \in Package => VouchedBy(accepted', rx'[u])
  BY <1>2 DEF PathInv
<1>5. PathUnbroken'
  <2> SUFFICES ASSUME NEW u \in Towers \ {MainTower}, NEW i \in accepted'[u] \cap Measurements
               PROVE  i \in accepted'[u + 1]
    BY DEF PathUnbroken
  <2>1. u + 1 \in Towers /\ u # u + 1
    BY DEF Towers
  <2>2. CASE u = t /\ i = id
    BY <1>1, <2>1, <2>2
  <2>3. CASE i \in accepted[u]
    BY <1>1, <2>1, <2>3 DEF PathInv, PathUnbroken
  <2>. QED
    BY <1>1, <2>2, <2>3
<1>. QED
  BY <1>3, <1>4, <1>5 DEF PathInv

---------------------------------------------------------------------------
(***************************************************************************)
(* The steps.                                                              *)
(***************************************************************************)

\* The environment: a boot empties the manager, only SendMeasurement hands over a
\* measurement and every other thread hands over a text.
LEMMA EnvironmentPath ==
    ASSUME PathInv, TypeOK', NEW t \in Towers, Environment(t) \/ BluetoothThread(t)
    PROVE  PathInv'
<1> DEFINE m == lora[t]
<1>0. m \in Manager /\ Sound(accepted, t, m)
  BY DEF PathInv, TypeOK
<1>1. Booted \in Manager /\ Sound(accepted, t, Booted)
  BY OffType, OffSound DEF Booted, Manager
<1>2. Sound(accepted, t, receivePackage(Booted)) /\ Sound(accepted, t, receivePackage(m))
  BY <1>0, <1>1, ChangeStateSound DEF receivePackage, States
<1>3. receivePackage(Booted) \in Manager /\ receivePackage(m) \in Manager
  BY <1>0, <1>1, ChangeStateType DEF receivePackage, States
<1>4. CASE WakeByTimer(t)
  <2>1. t = MainTower => Sound(accepted, t, [Booted EXCEPT !.at = "measuring"])
    BY <1>1 DEF Sound, Manager, Booted, Off, Blank
  <2>. QED
    BY <1>2, <1>4, <2>1, BecomeSound DEF WakeByTimer, history
<1>5. CASE WakeByButton(t)
  <2>1. Sound(accepted, t, [receivePackage(Booted) EXCEPT !.bluetooth = "notified"])
    BY <1>2, <1>3 DEF Sound, Manager
  <2>. QED
    BY <1>5, <2>1, BecomeSound DEF WakeByButton, history
<1>6. CASE ButtonPressed(t)
  <2> DEFINE n == [m EXCEPT
                    !.state = "Receive_Payload", !.transmitting = FALSE, !.sender = FALSE,
                    !.higher_order = (m.at # Idle),
                    !.bluetooth = IF @ = "off" THEN "notified" ELSE @]
  <2>1. Sound(accepted, t, n)
    BY <1>0 DEF Sound, Manager
  <2>2. Become(t, n)
    BY <1>6 DEF ButtonPressed
  <2>. QED
    BY <1>6, <2>1, <2>2, BecomeSound DEF ButtonPressed, history
<1>7. CASE BluetoothNotified(t)
  <2>1. Sound(accepted, t, [receivePackage(m) EXCEPT !.bluetooth = "turningOn"])
    BY <1>2, <1>3 DEF Sound, Manager
  <2>. QED
    BY <1>7, <2>1, BecomeSound DEF BluetoothNotified, history
<1>8. CASE BluetoothOn(t)
  <2>1. Sound(accepted, t, [m EXCEPT !.bluetooth = "on", !.keepAlive = TRUE])
    BY <1>0 DEF Sound, Manager
  <2>. QED
    BY <1>8, <2>1, BecomeSound DEF BluetoothOn, history
<1>9. CASE SendFromBluetooth(t) \/ SendFromWifi(t)
  <2>0. PICK dest \in Towers, c \in Callers(m) : HandOver(t, dest, c)
    BY <1>0, <1>9, ThreadSteps
  <2> DEFINE id == MaxMeasurements + texts + 1
             p == NewPackage("text", dest, t, id)
             loaded == sendPackage(c, p)
  <2>1. id \in Texts /\ id \notin Measurements
    BY <2>0 DEF HandOver, PathInv, TypeOK, Texts, Measurements
  <2>2. p \in Package /\ p.kind = "text"
    BY <2>1, NewPackageType, IdsType DEF Kinds, NewPackage
  <2>3. Accept(t, id) /\ Become(t, loaded) /\ UNCHANGED rx
    BY <2>0 DEF HandOver
  <2>4. \A q \in Package : VouchedBy(accepted, q) => VouchedBy(accepted', q)
    <3>1. \A u \in Towers : accepted[u] \subseteq accepted'[u]
      BY <2>3 DEF Accept, PathInv, TypeOK
    <3>. QED
      BY <3>1 DEF VouchedBy, Package
  <2>5. c \in Manager /\ Sound(accepted', t, c)
    BY <1>0, <2>4, CallerSame DEF Sound, Manager
  <2>6. VouchedBy(accepted', p)
    BY <2>1, VouchedNew DEF Kinds
  <2>7. Sound(accepted', t, loaded)
    BY <2>2, <2>5, <2>6, SendPackageSound
  <2>. QED
    BY <2>1, <2>3, <2>7, AcceptSound
<1>10. CASE BluetoothOrders(t) \/ WifiOrders(t)
  <2>1. PICK c \in Callers(m) :
            Become(t, setHigherOrder(c)) /\ UNCHANGED <<rx, bounds, history>>
    BY <1>0, <1>10, ThreadSteps
  <2>2. Sound(accepted, t, setHigherOrder(c))
    BY <1>0, CallerSame DEF Sound
  <2>. QED
    BY <2>1, <2>2, BecomeSound DEF history
<1>. QED
  BY <1>4, <1>5, <1>6, <1>7, <1>8, <1>9, <1>10 DEF Environment, BluetoothThread

\* A transmission puts a vouched package into receive buffers.
LEMMA TransmitPath ==
    ASSUME PathInv, TypeOK', NEW t \in Towers, NEW p \in Package, NEW delay,
           delay \notin {"acceptActual", "acceptReceived", "measuring"},
           VouchedBy(accepted, p), Transmit(t, p, delay)
    PROVE  PathInv'
<1>1. \A u \in Towers : rx'[u] \in {NoFrame, p, CrcError, rx[u]}
  BY DEF Transmit
<1>2. NoFrame \notin Package /\ CrcError \notin Package
  BY DEF NoFrame, CrcError, Package, Kinds
<1>3. UNCHANGED accepted /\ Become(t, [lora[t] EXCEPT !.at = delay])
  BY DEF Transmit, history
<1>4. \A u \in Towers : rx'[u] \in Package => VouchedBy(accepted', rx'[u])
  BY <1>1, <1>2, <1>3 DEF PathInv
<1>5. Sound(accepted, t, [lora[t] EXCEPT !.at = delay])
  BY DEF Sound, PathInv, TypeOK, Manager
<1>6. \A u \in Towers : Sound(accepted', u, lora'[u])
  BY <1>3, <1>5 DEF PathInv, Become, TypeOK
<1>7. PathUnbroken'
  BY <1>3 DEF PathInv, PathUnbroken
<1>. QED
  BY <1>4, <1>6, <1>7 DEF PathInv

\* The LoRa thread's sending steps and the ends of its delays; taking charge of a
\* measurement names the tower as its sender at the same time.
LEMMA SendingPath ==
    ASSUME PathInv, TypeOK', NEW t \in Towers, Sending(t) \/ AfterDelay(t)
    PROVE  PathInv'
<1> DEFINE m == lora[t]
<1>0. /\ m \in Manager /\ m.actualPackage \in Package /\ m.receivedPackage \in Package
      /\ Sound(accepted, t, m) /\ accepted \in [Towers -> SUBSET Ids]
  BY DEF PathInv, TypeOK, Manager
<1>1. \A s \in States : /\ changeState(m, s) \in Manager
                        /\ Sound(accepted, t, changeState(m, s))
                        /\ Sound(accepted, t, Return(changeState(m, s)))
  BY <1>0, ChangeStateType, ChangeStateSound, ReturnSound
<1>2. CASE Send_Payload(t)
  BY <1>0, <1>2, TransmitPath DEF Send_Payload, Sound
<1>3. CASE Send_Confirm_Primary(t)
  <2>1. NewPackage("OK", m.actualPackage.dest, t, NoId) \in Package
    BY <1>0, NewPackageType, IdsType DEF Package, Kinds
  <2>2. VouchedBy(accepted, NewPackage("OK", m.actualPackage.dest, t, NoId))
    BY VouchedNew DEF Kinds
  <2>. QED
    BY <1>3, <2>1, <2>2, TransmitPath DEF Send_Confirm_Primary
<1>4. CASE Send_Return(t)
  <2>1. NewPackage("R", m.actualPackage.dest, t, NoId) \in Package
    BY <1>0, NewPackageType, IdsType DEF Package, Kinds
  <2>2. VouchedBy(accepted, NewPackage("R", m.actualPackage.dest, t, NoId))
    BY VouchedNew DEF Kinds
  <2>. QED
    BY <1>4, <2>1, <2>2, TransmitPath DEF Send_Return
<1>5. CASE Send_Payload_Done(t)
  BY <1>1, <1>5, BecomeSound DEF Send_Payload_Done, States, history
<1>6. CASE Send_Return_Done(t)
  BY <1>1, <1>6, BecomeSound DEF Send_Return_Done, States, history
<1>7. CASE Receive_Return_Done(t)
  BY <1>1, <1>7, BecomeSound DEF Receive_Return_Done, States, history
<1>8. CASE Receive_Return_Confirm_Done(t)
  <2>1. Sound(accepted, t, Return(Sleep(m)))
    BY <1>0, SleepType, SleepSound, ReturnSound
  <2>. QED
    BY <1>8, <2>1, BecomeSound DEF Receive_Return_Confirm_Done, history
<1>9. CASE Send_Confirm_Primary_Done(t)
  <2> DEFINE p == m.actualPackage
             back == IF isText(p) /\ t = Server THEN p.orig ELSE changeState(m, "Send_Return").bluetooth_tower
             n == [changeState(m, "Send_Return") EXCEPT !.bluetooth_tower = back]
  <2>1. CASE p.dest = t
    <3>1. back \in Towers
      BY <1>0, <1>1 DEF Package, Manager, States
    <3>5. ASSUME NEW k \in Manager, Sound(accepted, t, k), NEW b \in Towers
          PROVE  /\ [k EXCEPT !.bluetooth_tower = b] \in Manager
                 /\ Sound(accepted, t, [k EXCEPT !.bluetooth_tower = b])
      BY <3>5 DEF Manager, Sound
    <3>6. changeState(m, "Send_Return") \in Manager
          /\ Sound(accepted, t, changeState(m, "Send_Return"))
      BY <1>1 DEF States
    <3>2. n \in Manager /\ Sound(accepted, t, n)
      BY <3>1, <3>5, <3>6
    <3>3. Sound(accepted, t, Return(n))
      BY <3>2, ReturnSound
    <3>4. Become(t, Return(n)) /\ UNCHANGED <<rx, accepted>>
      BY <1>9, <2>1 DEF Send_Confirm_Primary_Done
    <3>. QED
      BY <3>3, <3>4, BecomeSound
  <2>2. CASE p.dest # t
    BY <1>1, <1>9, <2>2, BecomeSound DEF Send_Confirm_Primary_Done, States
  <2>. QED
    BY <2>1, <2>2
<1>10. ASSUME NEW id, Accept(t, id)
       PROVE  /\ \A q \in Package : VouchedBy(accepted, q) => VouchedBy(accepted', q)
              /\ id \in accepted'[t]
  <2>1. \A u \in Towers : accepted[u] \subseteq accepted'[u]
    BY <1>0, <1>10 DEF Accept
  <2>. QED
    BY <1>0, <1>10, <2>1 DEF VouchedBy, Package, Accept
<1>11. CASE AcceptActual(t)
  <2> DEFINE p == m.actualPackage
             q == [p EXCEPT !.sender = t]
             c == changeState(m, "Send_Confirm_Primary")
             n == [c EXCEPT !.actualPackage.sender = t, !.transmitting = TRUE]
  <2>1. c \in Manager /\ c.actualPackage = p /\ c.receivedPackage = m.receivedPackage
        /\ c.at = "acceptActual"
    BY <1>0, <1>1, <1>11 DEF changeState, Manager, States, AcceptActual
  <2>2. n \in Manager /\ n.actualPackage = q /\ n.receivedPackage = m.receivedPackage
        /\ n.at = "acceptActual"
    BY <2>1 DEF Manager, Package
  <2>3. Become(t, Return(n)) /\ Accept(t, p.id) /\ UNCHANGED rx
    BY <1>0, <1>11, <2>2 DEF AcceptActual, Package
  <2>4. VouchedBy(accepted', q) /\ VouchedBy(accepted', m.receivedPackage)
    BY <1>0, <1>10, <2>3 DEF VouchedBy, Package, Sound
  <2>5. Sound(accepted', t, Return(n))
    BY <2>2, <2>4 DEF Sound, Return, Manager, Idle, Asleep
  <2>6. p.id \in Measurements => p.id \in accepted[t + 1]
    BY <1>0, <1>11 DEF AcceptActual, Sound, VouchedBy
  <2>. QED
    BY <2>3, <2>5, <2>6, AcceptSound
<1>12. CASE AcceptReceived(t)
  <2> DEFINE p == m.receivedPackage
             q == [p EXCEPT !.sender = t]
             c == changeState(m, "Send_Confirm_Primary")
             n == [c EXCEPT !.receivedPackage = q, !.actualPackage = q, !.transmitting = TRUE]
  <2>1. p.kind = "text" /\ p.id \notin Measurements
    BY <1>0, <1>12 DEF AcceptReceived, Sound, VouchedBy
  <2>2. VouchedBy(accepted', q) /\ q \in Package /\ q.id = p.id
    BY <1>0, <2>1 DEF VouchedBy, Package
  <2>3. c \in Manager /\ c.at = "acceptReceived"
    BY <1>0, <1>1, <1>12 DEF changeState, Manager, States, AcceptReceived
  <2>4. n \in Manager /\ n.actualPackage = q /\ n.receivedPackage = q /\ n.at = "acceptReceived"
    BY <2>2, <2>3 DEF Manager
  <2>5. Sound(accepted', t, Return(n))
    BY <2>2, <2>4 DEF Sound, Return, Manager, Idle, Asleep
  <2>6. Become(t, Return(n)) /\ Accept(t, q.id) /\ UNCHANGED rx
    BY <1>12 DEF AcceptReceived
  <2>. QED
    BY <2>1, <2>2, <2>5, <2>6, AcceptSound
<1>13. CASE SendMeasurement(t)
  <2> DEFINE p == NewPackage("sensors", Server, t, measured)
  <2>1. m.at = "measuring" /\ t = MainTower
    BY <1>0, <1>13 DEF SendMeasurement, Sound
  <2>2. p \in Package /\ p.dest = Server /\ p.id = measured /\ p.kind = "sensors" /\ p.sender = t
    <3>1. measured \in Ids
      BY DEF PathInv, TypeOK, Ids, Measurements, NoId
    <3>. QED
      BY <3>1, NewPackageType DEF NewPackage, Kinds, Server, Towers
  <2>3. Become(t, Return(sendPackage(m, p))) /\ Accept(t, measured) /\ UNCHANGED rx
    BY <1>13 DEF SendMeasurement
  <2>4. VouchedBy(accepted', p)
    BY <1>10, <2>2, <2>3 DEF VouchedBy
  <2>5. Sound(accepted', t, m)
    BY <1>0, <1>10, <2>3 DEF Sound
  <2>6. /\ sendPackage(m, p).at = "measuring"
        /\ sendPackage(m, p).actualPackage = p
        /\ sendPackage(m, p).receivedPackage = m.receivedPackage
        /\ sendPackage(m, p) \in Manager
    <3>1. sendPackage(m, p) \in Manager
      BY <1>0, <2>2, SendPackageType
    <3>. QED
      BY <1>0, <2>1, <2>2, <3>1 DEF sendPackage, changeState, iskeepAlive, Manager
  <2>7. Sound(accepted', t, Return(sendPackage(m, p)))
    BY <2>4, <2>5, <2>6 DEF Sound, Return, Manager, Idle, Asleep
  <2>. QED
    BY <2>1, <2>3, <2>7, AcceptSound
<1>. QED
  BY <1>2, <1>3, <1>4, <1>5, <1>6, <1>7, <1>8, <1>9, <1>11, <1>12, <1>13
     DEF Sending, AfterDelay

\* A frame read into either package was vouched for in the receive buffer.
LEMMA FrameVouched ==
    ASSUME PathInv, NEW t \in Towers, rx[t] # NoFrame,
           NEW old \in Package, VouchedBy(accepted, old)
    PROVE  /\ setPackage(old, rx[t]) \in Package
           /\ VouchedBy(accepted, setPackage(old, rx[t]))
BY SetPackageType DEF setPackage, PathInv, TypeOK

\* What a receiving handler other than Receive_Payload leaves is sound if what it
\* makes of a package that is neither a text nor invalid is.
LEMMA ReceiveKeepsPath ==
    ASSUME PathInv, TypeOK', NEW t \in Towers, NEW s, NEW invalid, NEW otherwise,
           Heard(t) \in Manager /\ Heard(t).at = Idle /\ Sound(accepted, t, Heard(t))
              => Sound(accepted, t, otherwise),
           Receive(t, s, invalid, otherwise)
    PROVE  PathInv'
<1> DEFINE m == Heard(t)
           p == m.receivedPackage
           n == IF isInfo(p) /\ iskeepAlive(p) THEN ReceiveText(t, m)
                ELSE IF invalid THEN m ELSE otherwise
<1>1. lora[t] \in Manager /\ Sound(accepted, t, lora[t]) /\ lora[t].at = Idle /\ rx[t] # NoFrame
  BY DEF PathInv, TypeOK, Receive, InHandler
<1>2. /\ setPackage(lora[t].receivedPackage, rx[t]) \in Package
      /\ VouchedBy(accepted, setPackage(lora[t].receivedPackage, rx[t]))
  BY <1>1, FrameVouched DEF Sound, Manager
<1>3. m \in Manager /\ m.at = Idle /\ Sound(accepted, t, m)
  BY <1>1, <1>2 DEF Heard, Manager, Sound, Idle
<1>4. ASSUME iskeepAlive(p) PROVE Sound(accepted, t, ReceiveText(t, m))
  <2>1. p.kind = "text"
    BY <1>4 DEF iskeepAlive
  <2>2. Sound(accepted, t, [m EXCEPT !.keepAlive = TRUE])
    BY <1>3 DEF Sound, Manager
  <2>3. Sound(accepted, t, [[m EXCEPT !.keepAlive = TRUE] EXCEPT !.at = "acceptReceived"])
    BY <1>3, <2>1 DEF Sound, Manager
  <2>. QED
    BY <2>2, <2>3 DEF ReceiveText
<1>5. Sound(accepted, t, n)
  BY <1>3, <1>4
<1>6. Become(t, n) /\ Drain(t) /\ UNCHANGED accepted
  BY DEF Receive, history
<1>. QED
  BY <1>5, <1>6, BecomeSound

\* Only Receive_Payload lets a measurement in, and only from the next tower up: a
\* measurement is on its way to tower 0, so its sender is not t - 1.
LEMMA ReceivingPath ==
    ASSUME PathInv, TypeOK', NEW t \in Towers, Receiving(t)
    PROVE  PathInv'
<1>0. lora[t] \in Manager /\ Sound(accepted, t, lora[t])
  BY DEF PathInv, TypeOK
<1>1. CASE Receive_Payload(t)
  <2> DEFINE p == setPackage(lora[t].actualPackage, rx[t])
             m == [lora[t] EXCEPT !.actualPackage = p]
             a == [m EXCEPT !.keepAlive = @ \/ iskeepAlive(p), !.at = "acceptActual"]
  <2>1. p \in Package /\ VouchedBy(accepted, p) /\ lora[t].at = Idle
    BY <1>0, <1>1, FrameVouched DEF Receive_Payload, Manager, Sound, InHandler
  <2>2. m \in Manager /\ Sound(accepted, t, m)
    BY <1>0, <2>1 DEF Manager, Sound, Idle
  <2>3. ASSUME FromPrevious(t, p), p.kind = "sensors" PROVE p.sender = t + 1
    BY <2>1, <2>3 DEF FromPrevious, VouchedBy, Package, Towers, Server
  <2>4. ASSUME FromPrevious(t, p) PROVE Sound(accepted, t, a)
    BY <2>2, <2>3, <2>4 DEF Sound, Manager
  <2>5. /\ Become(t, m) \/ (FromPrevious(t, p) /\ Become(t, a))
        /\ Drain(t) /\ UNCHANGED accepted
    BY <1>1 DEF Receive_Payload, history
  <2>. QED
    BY <2>2, <2>4, <2>5, BecomeSound
<1>2. CASE Receive_Confirm_Primary(t)
  <2> DEFINE m == Heard(t)
             p == m.receivedPackage
             otherwise ==
               IF ~FromNext(t, p) \/ p.dest = t THEN m
               ELSE IF SamePayload(p, m.actualPackage) \/ PayloadIs(p, "OK")
                    THEN changeState(m, "Receive_Return")
               ELSE IF PayloadIs(p, "R") THEN changeState(m, "Send_Return") ELSE m
  <2>1. m \in Manager /\ Sound(accepted, t, m) => Sound(accepted, t, otherwise)
    BY ChangeStateSound DEF States
  <2>. QED
    BY <1>2, <2>1, ReceiveKeepsPath DEF Receive_Confirm_Primary
<1>3. CASE Receive_Return(t)
  <2> DEFINE m == Heard(t)
             p == m.receivedPackage
             otherwise == IF FromNext(t, p) /\ PayloadIs(p, "R")
                          THEN [m EXCEPT !.at = "gotReturn"] ELSE m
  <2>1. m \in Manager /\ Sound(accepted, t, m) => Sound(accepted, t, otherwise)
    BY DEF Sound, Manager
  <2>. QED
    BY <1>3, <2>1, ReceiveKeepsPath DEF Receive_Return
<1>4. CASE Receive_Return_Confirm(t)
  <2> DEFINE m == Heard(t)
             p == m.receivedPackage
             otherwise == IF FromPrevious(t, p) /\ PayloadIs(p, "R")
                          THEN [m EXCEPT !.at = "gotReturnConfirm"] ELSE m
  <2>1. m \in Manager /\ Sound(accepted, t, m) => Sound(accepted, t, otherwise)
    BY DEF Sound, Manager
  <2>. QED
    BY <1>4, <2>1, ReceiveKeepsPath DEF Receive_Return_Confirm
<1>. QED
  BY <1>1, <1>2, <1>3, <1>4 DEF Receiving

\* The timeouts and the originator's success keep the packages or lose them.
LEMMA EndingPath ==
    ASSUME PathInv, TypeOK', NEW t \in Towers, Retransmit(t) \/ GiveUp(t) \/ Succeed(t)
    PROVE  PathInv'
<1> DEFINE m == lora[t]
<1>0. m \in Manager /\ Sound(accepted, t, m) /\ Sound(accepted, t, Sleep(m))
  BY SleepSound DEF PathInv, TypeOK
<1>1. CASE RetransmitPayload(t)
  BY <1>0, <1>1, ChangeStateSound, BecomeSound DEF RetransmitPayload, States, history
<1>2. CASE RetransmitReturn(t)
  BY <1>0, <1>2, ChangeStateSound, BecomeSound DEF RetransmitReturn, States, history
<1>3. CASE GlobalTimeout(t)
  BY <1>0, <1>3, BecomeSound DEF GlobalTimeout, history
<1>4. CASE BluetoothTimeout(t)
  <2>1. [m EXCEPT !.keepAlive = FALSE] \in Manager
        /\ Sound(accepted, t, [m EXCEPT !.keepAlive = FALSE])
    BY <1>0 DEF Manager, Sound
  <2>. QED
    BY <1>4, <2>1, SleepSound, BecomeSound DEF BluetoothTimeout, history
<1>5. CASE Succeed(t)
  BY <1>0, <1>5, BecomeSound DEF Succeed
<1>. QED
  BY <1>1, <1>2, <1>3, <1>4, <1>5 DEF Retransmit, GiveUp

\* The inductive invariant holds in every reachable state.
LEMMA PathInvariant == Spec => []PathInv
<1>1. Init => PathInv
  <2> SUFFICES ASSUME Init PROVE PathInv
    OBVIOUS
  <2>1. TypeOK
    BY OffType DEF Init, TypeOK
  <2>2. \A t \in Towers : Sound(accepted, t, lora[t])
    BY OffSound DEF Init
  <2>3. \A t \in Towers : rx[t] \notin Package
    BY DEF Init, NoFrame, Package, Kinds
  <2>. QED
    BY <2>1, <2>2, <2>3 DEF PathInv, Init, PathUnbroken, Towers
<1>2. PathInv /\ TypeOK' /\ [Next]_vars => PathInv'
  <2> SUFFICES ASSUME PathInv, TypeOK', [Next]_vars PROVE PathInv'
    OBVIOUS
  <2>1. ASSUME NEW t \in Towers, LoRaThread(t) \/ GiveUp(t) \/ BluetoothThread(t) \/ Environment(t)
        PROVE  PathInv'
    BY <2>1, SendingPath, ReceivingPath, EndingPath, EnvironmentPath DEF LoRaThread
  <2>2. CASE UNCHANGED vars
    BY <2>2 DEF PathInv, PathUnbroken, vars, history
  <2>. QED
    BY <2>1, <2>2 DEF Next
<1>. QED
  BY <1>1, <1>2, TypeCorrect, PTL DEF Spec

\* No tower is skipped: in every reachable state of every chain, a tower other than
\* the main tower has taken charge only of measurements that the next tower up
\* has taken charge of (the neighbour test of Receive_Payload, LoraManager.cpp:171).
THEOREM PathCorrect == Spec => []PathUnbroken
<1>1. PathInv => PathUnbroken
  BY DEF PathInv
<1>. QED
  BY <1>1, PathInvariant, PTL

---------------------------------------------------------------------------
(***************************************************************************)
(* A tower keeps the measurement it carries.                               *)
(***************************************************************************)

\* A helper that loses nothing keeps the package under way, or the tower sleeps.
LEMMA HelpersKeep ==
    ASSUME NEW m \in Manager
    PROVE  /\ \A s \in States : /\ changeState(m, s).actualPackage = m.actualPackage
                               /\ Return(changeState(m, s)).actualPackage = m.actualPackage
           /\ Sleep(m).at # Asleep => Sleep(m).actualPackage = m.actualPackage
           /\ Return(Sleep(m)).at # Asleep => Return(Sleep(m)).actualPackage = m.actualPackage
<1>1. \A s \in States : changeState(m, s) \in Manager
  BY ChangeStateType
<1>2. \A s \in States : changeState(m, s).actualPackage = m.actualPackage
  BY DEF changeState, Manager
<1>3. \A n \in Manager : Return(n).actualPackage = n.actualPackage /\ (Return(n).at = Asleep <=> n.at = Asleep)
  BY DEF Return, Manager, Idle, Asleep
<1>4. Sleep(m).at # Asleep => Sleep(m).actualPackage = m.actualPackage
  <2> DEFINE silent == [m EXCEPT !.transmitting = FALSE, !.sender = FALSE]
  <2>1. changeState(silent, "Receive_Payload").actualPackage = m.actualPackage
    BY DEF changeState, Manager
  <2>. QED
    BY <2>1 DEF Sleep, Off
<1>. QED
  BY <1>1, <1>2, <1>3, <1>4, SleepType

\* What KeepsMeasurement asks of one tower.
Kept(t) ==
    (/\ InExchange(lora[t]) /\ lora[t].actualPackage.kind = "sensors"
     /\ lora'[t].at # Asleep
     /\ lora'[t].actualPackage.id # lora[t].actualPackage.id)
        => lora'[t].actualPackage.kind = "text"

\* A step of tower t that keeps its package, loads a text, sleeps or starts outside
\* an exchange that carries a measurement is harmless to every tower.
LEMMA BecomeKeeps ==
    ASSUME TypeOK, NEW t \in Towers, NEW m, Become(t, m),
           \/ m.at = Asleep
           \/ m.actualPackage.id = lora[t].actualPackage.id
           \/ m.actualPackage.kind = "text"
           \/ ~InExchange(lora[t])
           \/ lora[t].actualPackage.kind # "sensors"
    PROVE  \A u \in Towers : Kept(u)
BY DEF Become, Kept, TypeOK

\* Every step of the environment.
LEMMA EnvironmentKeeps ==
    ASSUME PathInv, NEW t \in Towers, Environment(t) \/ BluetoothThread(t)
    PROVE  \A u \in Towers : Kept(u)
<1>0. lora[t] \in Manager /\ Sound(accepted, t, lora[t]) /\ TypeOK
  BY DEF PathInv, TypeOK
<1>1. receivePackage(lora[t]).actualPackage = lora[t].actualPackage
      /\ receivePackage(lora[t]) \in Manager
  BY <1>0, HelpersKeep, ChangeStateType DEF receivePackage, States
<1>2. CASE WakeByTimer(t) \/ WakeByButton(t)
  <2>1. ~InExchange(lora[t])
    BY <1>2 DEF WakeByTimer, WakeByButton, InExchange
  <2>2. PICK m : Become(t, m)
    BY <1>2 DEF WakeByTimer, WakeByButton
  <2>. QED
    BY <1>0, <2>1, <2>2, BecomeKeeps
<1>3. CASE ButtonPressed(t)
  <2> DEFINE n == [lora[t] EXCEPT
                    !.state = "Receive_Payload", !.transmitting = FALSE, !.sender = FALSE,
                    !.higher_order = (lora[t].at # Idle),
                    !.bluetooth = IF @ = "off" THEN "notified" ELSE @]
  <2>1. n.actualPackage = lora[t].actualPackage
    BY <1>0 DEF Manager
  <2>2. Become(t, n)
    BY <1>3 DEF ButtonPressed
  <2>. QED
    BY <1>0, <2>1, <2>2, BecomeKeeps
<1>4. CASE BluetoothNotified(t)
  <2>1. [receivePackage(lora[t]) EXCEPT !.bluetooth = "turningOn"].actualPackage
          = lora[t].actualPackage
    BY <1>1 DEF Manager
  <2>. QED
    BY <1>0, <1>4, <2>1, BecomeKeeps DEF BluetoothNotified
<1>5. CASE BluetoothOn(t)
  <2>1. [lora[t] EXCEPT !.bluetooth = "on", !.keepAlive = TRUE].actualPackage
          = lora[t].actualPackage
    BY <1>0 DEF Manager
  <2>. QED
    BY <1>0, <1>5, <2>1, BecomeKeeps DEF BluetoothOn
<1>6. CASE SendFromBluetooth(t) \/ SendFromWifi(t)
  <2>0. PICK dest \in Towers, c \in Callers(lora[t]) : HandOver(t, dest, c)
    BY <1>0, <1>6, ThreadSteps
  <2> DEFINE p == NewPackage("text", dest, t, MaxMeasurements + texts + 1)
             loaded == sendPackage(c, p)
  <2>1. p.kind = "text" /\ c \in Manager
    BY <1>0, CallerSame DEF NewPackage
  <2>2. loaded.actualPackage = p
    BY <2>1 DEF sendPackage, iskeepAlive, Manager
  <2>3. Become(t, loaded)
    BY <2>0 DEF HandOver
  <2>. QED
    BY <1>0, <2>1, <2>2, <2>3, BecomeKeeps
<1>7. CASE BluetoothOrders(t) \/ WifiOrders(t)
  <2>1. PICK c \in Callers(lora[t]) : Become(t, setHigherOrder(c))
    BY <1>0, <1>7, ThreadSteps
  <2>2. setHigherOrder(c).actualPackage = lora[t].actualPackage
    BY <1>0, CallerSame
  <2>. QED
    BY <1>0, <2>1, <2>2, BecomeKeeps
<1>. QED
  BY <1>2, <1>3, <1>4, <1>5, <1>6, <1>7 DEF Environment, BluetoothThread

\* The sending steps and the ends of delays: a tower takes charge of what it holds,
\* or of the text it has just received.
LEMMA SendingKeeps ==
    ASSUME PathInv, NEW t \in Towers, Sending(t) \/ AfterDelay(t)
    PROVE  \A u \in Towers : Kept(u)
<1> DEFINE m == lora[t]
<1>0. /\ m \in Manager /\ Sound(accepted, t, m) /\ TypeOK
      /\ m.actualPackage \in Package /\ m.receivedPackage \in Package
  BY DEF PathInv, TypeOK, Manager
<1>1. \A s \in States : /\ changeState(m, s) \in Manager
                        /\ changeState(m, s).actualPackage = m.actualPackage
                        /\ Return(changeState(m, s)).actualPackage = m.actualPackage
  BY <1>0, HelpersKeep, ChangeStateType
<1>2. CASE Sending(t)
  <2>1. \A d \in Delays : [m EXCEPT !.at = d].actualPackage = m.actualPackage
    BY <1>0 DEF Manager
  <2>2. PICK d \in Delays : Become(t, [m EXCEPT !.at = d])
    BY <1>2 DEF Sending, Send_Payload, Send_Confirm_Primary, Send_Return, Transmit, Delays
  <2>. QED
    BY <1>0, <2>1, <2>2, BecomeKeeps
<1>3. CASE SendMeasurement(t)
  BY <1>0, <1>3, BecomeKeeps DEF SendMeasurement, Sound
<1>4. CASE Send_Payload_Done(t)
  BY <1>0, <1>1, <1>4, BecomeKeeps DEF Send_Payload_Done, States
<1>5. CASE Send_Return_Done(t)
  BY <1>0, <1>1, <1>5, BecomeKeeps DEF Send_Return_Done, States
<1>6. CASE Receive_Return_Done(t)
  BY <1>0, <1>1, <1>6, BecomeKeeps DEF Receive_Return_Done, States
<1>7. CASE Receive_Return_Confirm_Done(t)
  BY <1>0, <1>7, HelpersKeep, BecomeKeeps DEF Receive_Return_Confirm_Done
<1>8. CASE Send_Confirm_Primary_Done(t)
  <2> DEFINE c == changeState(m, "Send_Return")
             n == [c EXCEPT !.bluetooth_tower =
                     IF isText(m.actualPackage) /\ t = Server THEN m.actualPackage.orig ELSE @]
  <2>1. CASE m.actualPackage.dest = t
    <3>1. c.actualPackage = m.actualPackage /\ c \in Manager
      BY <1>1 DEF States
    <3>2. n.actualPackage = c.actualPackage
      BY <3>1 DEF Manager
    <3>3. Return(n).actualPackage = n.actualPackage
      BY <3>1 DEF Return, Manager
    <3>4. Become(t, Return(n))
      BY <1>8, <2>1 DEF Send_Confirm_Primary_Done
    <3>. QED
      BY <1>0, <3>1, <3>2, <3>3, <3>4, BecomeKeeps
  <2>2. CASE m.actualPackage.dest # t
    BY <1>0, <1>1, <1>8, <2>2, BecomeKeeps DEF Send_Confirm_Primary_Done, States
  <2>. QED
    BY <2>1, <2>2
<1>9. CASE AcceptActual(t)
  <2> DEFINE c == changeState(m, "Send_Confirm_Primary")
             n == [c EXCEPT !.actualPackage.sender = t, !.transmitting = TRUE]
  <2>1. c.actualPackage = m.actualPackage /\ c \in Manager
    BY <1>1 DEF States
  <2>2. n.actualPackage.id = m.actualPackage.id
    BY <1>0, <2>1 DEF Manager, Package
  <2>3. Return(n).actualPackage = n.actualPackage
    BY <2>1 DEF Return, Manager
  <2>4. Become(t, Return(n))
    BY <1>9 DEF AcceptActual
  <2>. QED
    BY <1>0, <2>2, <2>3, <2>4, BecomeKeeps
<1>10. CASE AcceptReceived(t)
  <2> DEFINE q == [m.receivedPackage EXCEPT !.sender = t]
             c == changeState(m, "Send_Confirm_Primary")
             n == [c EXCEPT !.receivedPackage = q, !.actualPackage = q, !.transmitting = TRUE]
  <2>1. q.kind = "text"
    BY <1>0, <1>10 DEF AcceptReceived, Sound, Package
  <2>2. n.actualPackage = q
    BY <1>1 DEF Manager, States
  <2>3. Return(n).actualPackage = n.actualPackage
    BY <1>1 DEF Return, Manager, States
  <2>4. Become(t, Return(n))
    BY <1>10 DEF AcceptReceived
  <2>. QED
    BY <1>0, <2>1, <2>2, <2>3, <2>4, BecomeKeeps
<1>. QED
  BY <1>2, <1>3, <1>4, <1>5, <1>6, <1>7, <1>8, <1>9, <1>10 DEF AfterDelay

\* The handlers that receive during an exchange write to receivedPackage only.
LEMMA ReceivingKeeps ==
    ASSUME PathInv, NEW t \in Towers, Receiving(t)
    PROVE  \A u \in Towers : Kept(u)
<1>0. lora[t] \in Manager /\ TypeOK
  BY DEF PathInv, TypeOK
<1>1. CASE Receive_Payload(t)
  <2>1. ~InExchange(lora[t]) /\ \E m : Become(t, m)
    BY <1>1 DEF Receive_Payload, InHandler, InExchange
  <2>. QED
    BY <1>0, <2>1, BecomeKeeps
<1> DEFINE h == Heard(t)
           p == h.receivedPackage
<1>2. h.actualPackage = lora[t].actualPackage
  BY <1>0 DEF Heard, Manager
<1>3. \A at : [h EXCEPT !.at = at].actualPackage = lora[t].actualPackage
  BY <1>0, <1>2 DEF Heard, Manager
<1>4. \A s \in States : changeState(h, s).actualPackage = lora[t].actualPackage
  BY <1>0, <1>2 DEF Heard, Manager, changeState
<1>5. ReceiveText(t, h).actualPackage = lora[t].actualPackage
  BY <1>0, <1>2 DEF Heard, Manager, ReceiveText
<1>6. ASSUME NEW s, NEW invalid, NEW otherwise,
             otherwise.actualPackage = lora[t].actualPackage,
             Receive(t, s, invalid, otherwise)
      PROVE  \A u \in Towers : Kept(u)
  <2> DEFINE n == IF isInfo(p) /\ iskeepAlive(p) THEN ReceiveText(t, h)
                  ELSE IF invalid THEN h ELSE otherwise
  <2>1. n.actualPackage = lora[t].actualPackage
    BY <1>2, <1>5, <1>6
  <2>2. Become(t, n)
    BY <1>6 DEF Receive
  <2>. QED
    BY <1>0, <2>1, <2>2, BecomeKeeps
<1>7. CASE Receive_Confirm_Primary(t)
  <2> DEFINE otherwise ==
               IF ~FromNext(t, p) \/ p.dest = t THEN h
               ELSE IF SamePayload(p, h.actualPackage) \/ PayloadIs(p, "OK")
                    THEN changeState(h, "Receive_Return")
               ELSE IF PayloadIs(p, "R") THEN changeState(h, "Send_Return") ELSE h
  <2>1. otherwise.actualPackage = lora[t].actualPackage
    BY <1>2, <1>4 DEF States
  <2>2. Receive(t, "Receive_Confirm_Primary", RefusesSensors(h, p) \/ PassesBack(t, h, p), otherwise)
    BY <1>7 DEF Receive_Confirm_Primary
  <2>. QED
    BY <1>6, <2>1, <2>2
<1>8. CASE Receive_Return(t)
  <2> DEFINE otherwise == IF FromNext(t, p) /\ PayloadIs(p, "R")
                          THEN [h EXCEPT !.at = "gotReturn"] ELSE h
  <2>1. otherwise.actualPackage = lora[t].actualPackage
    BY <1>2, <1>3
  <2>2. Receive(t, "Receive_Return", PassesBack(t, h, p), otherwise)
    BY <1>8 DEF Receive_Return
  <2>. QED
    BY <1>6, <2>1, <2>2
<1>9. CASE Receive_Return_Confirm(t)
  <2> DEFINE otherwise == IF FromPrevious(t, p) /\ PayloadIs(p, "R")
                          THEN [h EXCEPT !.at = "gotReturnConfirm"] ELSE h
  <2>1. otherwise.actualPackage = lora[t].actualPackage
    BY <1>2, <1>3
  <2>2. Receive(t, "Receive_Return_Confirm", PassesBack(t, h, p), otherwise)
    BY <1>9 DEF Receive_Return_Confirm
  <2>. QED
    BY <1>6, <2>1, <2>2
<1>. QED
  BY <1>1, <1>7, <1>8, <1>9 DEF Receiving

\* Whoever gives up, retransmits or succeeds keeps the package or sleeps.
LEMMA EndingKeeps ==
    ASSUME PathInv, NEW t \in Towers, Retransmit(t) \/ GiveUp(t) \/ Succeed(t)
    PROVE  \A u \in Towers : Kept(u)
<1>0. lora[t] \in Manager /\ TypeOK
  BY DEF PathInv, TypeOK
<1>1. CASE Retransmit(t)
  BY <1>0, <1>1, HelpersKeep, BecomeKeeps DEF Retransmit, RetransmitPayload, RetransmitReturn, States
<1>2. CASE GlobalTimeout(t) \/ Succeed(t)
  BY <1>0, <1>2, HelpersKeep, BecomeKeeps DEF GlobalTimeout, Succeed
<1>3. CASE BluetoothTimeout(t)
  <2> DEFINE m == [lora[t] EXCEPT !.keepAlive = FALSE]
  <2>1. m \in Manager /\ m.actualPackage = lora[t].actualPackage
    BY <1>0 DEF Manager
  <2>2. Become(t, Sleep(m))
    BY <1>3 DEF BluetoothTimeout
  <2>. QED
    BY <1>0, <2>1, <2>2, HelpersKeep, BecomeKeeps
<1>. QED
  BY <1>1, <1>2, <1>3 DEF GiveUp

\* A tower in the middle of an exchange never swaps the measurement it carries for
\* another one: sendPackage, the interrupt and the handlers of texts put a text in
\* its place or nothing (LoraManager.cpp:160-368, 376-386).
THEOREM KeepsCorrect == Spec => KeepsMeasurement
<1>1. PathInv /\ [Next]_vars => [\A t \in Towers : Kept(t)]_vars
  <2> SUFFICES ASSUME PathInv, Next PROVE \A u \in Towers : Kept(u)
    OBVIOUS
  <2>1. ASSUME NEW t \in Towers, LoRaThread(t) \/ GiveUp(t) \/ BluetoothThread(t) \/ Environment(t)
        PROVE  \A u \in Towers : Kept(u)
    BY <2>1, SendingKeeps, ReceivingKeeps, EndingKeeps, EnvironmentKeeps DEF LoRaThread
  <2>. QED
    BY <2>1 DEF Next
<1>. QED
  BY <1>1, PathInvariant, PTL DEF Spec, KeepsMeasurement, Kept
=============================================================================
