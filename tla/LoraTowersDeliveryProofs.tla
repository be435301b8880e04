----------------------- MODULE LoraTowersDeliveryProofs -----------------------
(***************************************************************************)
(* The server consumes a measurement once (ConsumedOnce), for every chain  *)
(* of towers, every number of measurements and every corrupted frame, as   *)
(* long as nobody has pressed a button or sent a text.                     *)
(*                                                                         *)
(* A retransmission is harmless while the tower that hears it still holds  *)
(* the measurement.  What has to be excluded is that tower t has let go of *)
(* it, listens again, and its neighbour t + 1 still has it to send.  Tower *)
(* t lets go in two ways: its timeout, which t + 1's precedes (OutlivedBy) *)
(* and the "R" of t + 1, which t + 1 sends when it no longer sends the     *)
(* payload.  Passed and Returned state the two; they are inductive because *)
(* t + 1 cannot take the measurement back: that is Passed one hop further  *)
(* up, and by PathUnbroken t + 1 had taken charge of it before t.          *)
(***************************************************************************)
EXTENDS LoraTowersPathProofs

USE ConstantsAssumption

\* Nobody has pressed a button or handed over a text so far.
Quiet == texts = 0 /\ presses = 0

---------------------------------------------------------------------------
(***************************************************************************)
(* The inductive invariant.                                                *)
(***************************************************************************)

\* A tower in an exchange whose sensors have been read has a measurement in hand.
Holding(m)  == InExchange(m) /\ m.at # "measuring"
Holds(m, i) == Holding(m) /\ m.actualPackage.id = i

\* It may yet put the payload of i on the air.
PayloadStates == {"Send_Payload", "Send_Confirm_Primary", "Receive_Confirm_Primary"}
MaySend(m, i) == Holds(m, i) /\ (m.at = "acceptActual" \/ m.state \in PayloadStates)

PayloadFrom(u, f, i) == f.kind = "sensors" /\ f.sender = u /\ f.id = i
ReturnFrom(u, f)     == f.kind = "R" /\ f.sender = u

\* A package of the exchange of a measurement: the payload, "OK", "R" or nothing.
OnItsWay(p) == p.kind # "text" /\ p.dest = Server /\ (p.kind = "blank" => p = Blank)

\* What Receive_Payload of tower t would take charge of.
Takes(t, p) == FromPrevious(t, p) /\ isInfo(p)

\* A delay belongs to the handler of the state, which nobody changes meanwhile.
DelayState(m) ==
    /\ m.at = "measuring" => m.state = "Send_Payload"
    /\ m.at = "sentPayload" => m.state = "Send_Payload"
    /\ m.at = "sentConfirm" => m.state = "Send_Confirm_Primary"
    /\ m.at = "sentReturn" => m.state = "Send_Return"
    /\ m.at = "acceptActual" => m.state = "Receive_Payload"
    /\ m.at = "gotReturn" => m.state = "Receive_Return"
    /\ m.at = "gotReturnConfirm" => m.state = "Receive_Return_Confirm"

\* Manager m of tower t knows nothing of texts.
Plain(t, m) ==
    /\ ~m.keepAlive /\ ~m.higher_order
    /\ m.bluetooth = "off" /\ m.wifi = "free"
    /\ m.at # "acceptReceived"
    /\ m.sender => t = MainTower
    /\ OnItsWay(m.receivedPackage)
    /\ m.at = Asleep => m = Off
    /\ DelayState(m)

\* A tower that listens for a payload holds none it would take, takes only what it
\* has not taken before, and names itself as the sender of what it has taken.
Waiting(acc, t, m) ==
    /\ m.at = Idle /\ m.state = "Receive_Payload" =>
           /\ ~m.transmitting /\ ~m.sender
           /\ m.receivedPackage = Blank
           /\ ~Takes(t, m.actualPackage)
    /\ m.at = "acceptActual" =>
           m.receivedPackage = Blank /\ m.actualPackage.id \notin acc[t]
    /\ Holding(m) => m.actualPackage.kind = "sensors"
    /\ Holding(m) /\ m.at # "acceptActual" => m.actualPackage.sender = t

\* What tower t has let go of, the next tower up has stopped sending.
Passed(t, i) ==
    (i \in accepted[t] /\ ~Holds(lora[t], i))
        => ~MaySend(lora[t + 1], i) /\ ~PayloadFrom(t + 1, rx[t], i)

\* A tower that holds a measurement and hears "R" from the next tower up may let go.
Returned(t, i) ==
    (/\ Holds(lora[t], i) /\ lora[t].at # "acceptActual"
     /\ \/ lora[t].at = "gotReturnConfirm"
        \/ ReturnFrom(t + 1, lora[t].receivedPackage)
        \/ ReturnFrom(t + 1, rx[t]))
      => ~MaySend(lora[t + 1], i)

ChainInv ==
    /\ \A t \in Towers : Plain(t, lora[t]) /\ Waiting(accepted, t, lora[t])
    /\ \A t \in Towers : rx[t] # NoFrame => Listening(t)
    /\ \A t \in Towers : rx[t] \in Package => OnItsWay(rx[t])
    /\ \A t \in Towers \ {MainTower} : \A i \in Ids : Passed(t, i) /\ Returned(t, i)

\* What has been taken charge of was measured before, what has been consumed was
\* taken charge of by the server, and not consumed yet when it confirms it.
LedgerInv ==
    /\ \A t \in Towers : accepted[t] \subseteq 1..measured
    /\ lora[MainTower].at = "measuring" => measured \in Measurements \ accepted[MainTower]
    /\ consumed \subseteq accepted[Server]
    /\ lora[Server].state = "Send_Confirm_Primary"
           => lora[Server].actualPackage.id \notin consumed
    /\ repeated = {}

OnceInv == PathInv /\ ChainInv /\ LedgerInv

---------------------------------------------------------------------------
(***************************************************************************)
(* The helpers of LoraManager without higher_order and keepAlive.          *)
(***************************************************************************)

\* changeState changes the state, the handler returns to exec, Sleep is deep sleep.
LEMMA PlainHelpers ==
    ASSUME NEW m \in Manager, ~m.higher_order, ~m.keepAlive, m.at # Asleep, NEW s \in States
    PROVE  /\ changeState(m, s) = [m EXCEPT !.state = s]
           /\ Return(changeState(m, s)) = [m EXCEPT !.at = Idle, !.state = s]
           /\ Sleep(m) = Off /\ Return(Sleep(m)) = Off
<1>1. changeState(m, s) = [m EXCEPT !.state = s]
  BY DEF changeState
<1>2. Sleep(m) = Off /\ Return(Off) = Off
  BY DEF Sleep, Return, Off
<1>3. [m EXCEPT !.state = s] \in Manager /\ [m EXCEPT !.state = s].at # Asleep
      /\ [m EXCEPT !.state = s].higher_order = FALSE
  BY DEF Manager
<1>4. Return([m EXCEPT !.state = s])
        = [[m EXCEPT !.state = s] EXCEPT !.at = Idle, !.higher_order = FALSE]
  BY <1>3 DEF Return
<1>5. [[m EXCEPT !.state = s] EXCEPT !.at = Idle, !.higher_order = FALSE]
        = [m EXCEPT !.at = Idle, !.state = s]
  BY <1>3 DEF Manager
<1>. QED
  BY <1>1, <1>2, <1>4, <1>5

\* A tower in deep sleep is plain, and so is one that has just booted.
LEMMA OffPlain ==
    ASSUME NEW t, NEW acc
    PROVE  /\ Plain(t, Off) /\ Waiting(acc, t, Off) /\ ~Holding(Off)
           /\ Booted \in Manager
           /\ Plain(t, Booted) /\ Booted.actualPackage = Blank
<1>1. Plain(t, Off) /\ Waiting(acc, t, Off) /\ ~Holding(Off)
  BY DEF Off, Plain, Waiting, Holding, InExchange, DelayState, OnItsWay, Blank, Server, Idle, Asleep
<1>2. Booted \in Manager
  BY OffType DEF Booted, Manager
<1>. QED
  BY <1>1, <1>2 DEF Booted, Off, Plain, DelayState, OnItsWay, Blank, Server, Idle, Asleep

\* What a tower has in hand and has accepted, it is known to have accepted.
LEMMA HeldAccepted ==
    ASSUME PathInv, ChainInv, NEW t \in Towers, NEW i, Holds(lora[t], i),
           lora[t].at # "acceptActual"
    PROVE  i \in accepted[t]
BY DEF PathInv, ChainInv, Waiting, Holds, Sound, VouchedBy

\* The path is unbroken for every id: nothing but measurements has been taken.
LEMMA TakenAbove ==
    ASSUME PathInv, LedgerInv, NEW t \in Towers \ {MainTower}
    PROVE  t + 1 \in Towers /\ accepted[t] \subseteq accepted[t + 1]
<1>1. t + 1 \in Towers
  BY DEF Towers
<1>2. measured \in 0..MaxMeasurements
  BY DEF PathInv, TypeOK
<1>3. accepted[t] \subseteq Measurements
  BY <1>2 DEF LedgerInv, Measurements
<1>. QED
  BY <1>1, <1>3 DEF PathInv, PathUnbroken

---------------------------------------------------------------------------
(***************************************************************************)
(* The shapes of a step that concerns one tower.                           *)
(***************************************************************************)

\* Tower t becomes n and its receive buffer is empty: it does not begin to send what
\* it had taken before, and lets go only of what the next tower up does not send.
LEMMA ChainStep ==
    ASSUME PathInv, ChainInv, LedgerInv, NEW t \in Towers, NEW n,
           Become(t, n), Drain(t),
           \A u \in Towers : u # t => accepted'[u] = accepted[u],
           Plain(t, n), Waiting(accepted', t, n),
           \A i \in accepted[t] : MaySend(n, i) => MaySend(lora[t], i),
           \A i \in accepted'[t] : ~Holds(n, i) =>
               /\ i \in accepted[t]
               /\ t # MainTower /\ Holds(lora[t], i) => ~MaySend(lora[t + 1], i),
           \A i \in Ids : (/\ t # MainTower /\ Holds(n, i) /\ n.at # "acceptActual"
                           /\ n.at = "gotReturnConfirm" \/ ReturnFrom(t + 1, n.receivedPackage))
                             => ~MaySend(lora[t + 1], i)
    PROVE  ChainInv'
<1>1. /\ \A u \in Towers : lora'[u] = IF u = t THEN n ELSE lora[u]
      /\ \A u \in Towers : rx'[u] = IF u = t THEN NoFrame ELSE rx[u]
  BY DEF Become, Drain, PathInv, TypeOK
<1>2. NoFrame \notin Package /\ NoFrame.kind \notin {"sensors", "R"}
  BY DEF NoFrame, Package, Kinds
<1>3. \A u \in Towers : Plain(u, lora'[u]) /\ Waiting(accepted', u, lora'[u])
  BY <1>1 DEF ChainInv, Waiting
<1>4. \A u \in Towers : /\ rx'[u] # NoFrame => Listening(u)'
                        /\ rx'[u] \in Package => OnItsWay(rx'[u])
  BY <1>1, <1>2 DEF ChainInv, Listening
<1>5. ASSUME NEW u \in Towers \ {MainTower}, NEW i \in Ids
      PROVE  Passed(u, i)' /\ Returned(u, i)'
  <2>0. u + 1 \in Towers /\ u # u + 1 /\ accepted[u] \subseteq accepted[u + 1]
    BY TakenAbove DEF Towers
  <2>1. Passed(u, i) /\ Returned(u, i)
    BY DEF ChainInv
  <2>2. CASE u # t /\ u + 1 # t
    <3>1. lora'[u] = lora[u] /\ lora'[u + 1] = lora[u + 1] /\ rx'[u] = rx[u]
          /\ accepted'[u] = accepted[u]
      BY <1>1, <2>0, <2>2
    <3>. QED
      BY <2>1, <3>1 DEF Passed, Returned
  <2>3. CASE u + 1 = t
    <3>1. lora'[u] = lora[u] /\ lora'[u + 1] = n /\ rx'[u] = rx[u] /\ accepted'[u] = accepted[u]
      BY <1>1, <2>0, <2>3
    <3>2. i \in accepted[u] /\ ~MaySend(lora[t], i) => ~MaySend(n, i)
      BY <2>0, <2>3
    <3>3. Passed(u, i)'
      BY <2>1, <2>3, <3>1, <3>2 DEF Passed
    <3>4. Holds(lora[u], i) /\ lora[u].at # "acceptActual" => i \in accepted[u]
      BY HeldAccepted
    <3>5. Returned(u, i)'
      BY <2>1, <2>3, <3>1, <3>2, <3>4 DEF Returned
    <3>. QED
      BY <3>3, <3>5
  <2>4. CASE u = t
    <3>1. lora'[u] = n /\ lora'[u + 1] = lora[u + 1] /\ rx'[u] = NoFrame
      BY <1>1, <2>0, <2>4
    <3>2. Passed(u, i)'
      BY <1>2, <2>1, <2>4, <3>1 DEF Passed, PayloadFrom
    <3>3. Returned(u, i)'
      BY <1>2, <2>4, <3>1 DEF Returned, ReturnFrom
    <3>. QED
      BY <3>2, <3>3
  <2>. QED
    BY <2>2, <2>3, <2>4
<1>. QED
  BY <1>3, <1>4, <1>5 DEF ChainInv

\* A tower that does not listen has an empty receive buffer.
LEMMA DeafDrains ==
    ASSUME PathInv, ChainInv, NEW t \in Towers, ~Listening(t) \/ rx[t] = NoFrame, UNCHANGED rx
    PROVE  Drain(t)
BY DEF ChainInv, Drain, PathInv, TypeOK

\* A tower that has nothing in hand and takes nothing.
LEMMA StaysOut ==
    ASSUME PathInv, ChainInv, LedgerInv, NEW t \in Towers, NEW n, Become(t, n), Drain(t),
           UNCHANGED accepted, Plain(t, n), Waiting(accepted, t, n),
           ~Holding(lora[t]), ~Holding(n)
    PROVE  ChainInv'
BY ChainStep DEF MaySend, Holds

\* A tower that gives up, or lets go because the return has passed.
LEMMA LetsGo ==
    ASSUME PathInv, ChainInv, LedgerInv, NEW t \in Towers, Become(t, Off), Drain(t),
           UNCHANGED accepted,
           t # MainTower => ~MaySend(lora[t + 1], lora[t].actualPackage.id)
    PROVE  ChainInv'
<1>1. Plain(t, Off) /\ Waiting(accepted', t, Off) /\ ~Holding(Off)
  BY OffPlain
<1>. QED
  BY <1>1, ChainStep DEF MaySend, Holds

\* A tower that goes on with its exchange and has, at most, read a frame.
LEMMA MovesOn ==
    ASSUME PathInv, ChainInv, LedgerInv, NEW t \in Towers, NEW n, Become(t, n), Drain(t),
           UNCHANGED accepted,
           Holding(lora[t]), lora[t].at # "acceptActual",
           Plain(t, n), Holding(n), n.at # "acceptActual",
           n.at = Idle => n.state # "Receive_Payload",
           n.actualPackage = lora[t].actualPackage,
           n.state \in PayloadStates => lora[t].state \in PayloadStates,
           \/ n.receivedPackage = lora[t].receivedPackage
           \/ n.receivedPackage = rx[t],
           n.at = "gotReturnConfirm" => ReturnFrom(t + 1, n.receivedPackage)
    PROVE  ChainInv'
<1>1. Waiting(accepted, t, n)
  BY DEF Waiting, ChainInv
<1>2. \A i : MaySend(n, i) => MaySend(lora[t], i)
  BY DEF MaySend, Holds
<1>3. \A i : Holds(n, i) <=> Holds(lora[t], i)
  BY DEF Holds
<1>4. \A i \in Ids : (/\ t # MainTower /\ Holds(n, i) /\ n.at # "acceptActual"
                      /\ n.at = "gotReturnConfirm" \/ ReturnFrom(t + 1, n.receivedPackage))
                        => ~MaySend(lora[t + 1], i)
  BY <1>3 DEF ChainInv, Returned
<1>. QED
  BY <1>1, <1>2, <1>3, <1>4, ChainStep

\* A transmission by a tower in the middle of its exchange: a payload it has to send,
\* or an "R" when it sends its payload no more.
LEMMA ChainTransmit ==
    ASSUME PathInv, ChainInv, LedgerInv, NEW t \in Towers, NEW p \in Package,
           NEW delay \in Delays \ {"measuring", "acceptActual", "acceptReceived", "gotReturnConfirm"},
           Transmit(t, p, delay),
           lora[t].at = Idle, lora[t].state # "Receive_Payload",
           DelayState([lora[t] EXCEPT !.at = delay]),
           OnItsWay(p), p.sender = t,
           p.kind = "sensors" => MaySend(lora[t], p.id),
           p.kind = "R" => lora[t].state \notin PayloadStates
    PROVE  ChainInv'
<1> DEFINE n == [lora[t] EXCEPT !.at = delay]
<1>1. /\ Become(t, n) /\ UNCHANGED accepted
      /\ \A u \in Towers : /\ rx'[u] \in IF u = t THEN {NoFrame} ELSE {rx[u], p, CrcError}
                           /\ u # t /\ rx'[u] # rx[u] => Listening(u)
  BY DEF Transmit, history
<1>2. \A u \in Towers : lora'[u] = IF u = t THEN n ELSE lora[u]
  BY <1>1 DEF Become, PathInv, TypeOK
<1>3. /\ NoFrame \notin Package /\ NoFrame.kind \notin {"sensors", "R"}
      /\ CrcError \notin Package /\ CrcError.kind \notin {"sensors", "R"}
  BY DEF NoFrame, CrcError, Package, Kinds
<1>4. /\ lora[t] \in Manager /\ n \in Manager
      /\ Plain(t, lora[t]) /\ Waiting(accepted, t, lora[t])
  BY DEF PathInv, TypeOK, ChainInv, Manager
<1>5. /\ n.at = delay /\ n.at \notin {Idle, Asleep} /\ n.state = lora[t].state
      /\ n.actualPackage = lora[t].actualPackage /\ n.receivedPackage = lora[t].receivedPackage
  BY <1>4 DEF Manager, Delays, Idle, Asleep
<1>6. Holding(lora[t]) /\ Holding(n)
  BY <1>5 DEF Holding, InExchange, Idle, Asleep
<1>7. Plain(t, n) /\ Waiting(accepted, t, n)
  <2>1. Plain(t, n)
    BY <1>4, <1>5 DEF Plain, Manager
  <2>. QED
    BY <2>1, <1>4, <1>5, <1>6 DEF Waiting, Idle
<1>8. \A u \in Towers : Plain(u, lora'[u]) /\ Waiting(accepted', u, lora'[u])
  BY <1>1, <1>2, <1>7 DEF ChainInv
<1>9. \A u \in Towers : /\ rx'[u] # NoFrame => Listening(u)'
                        /\ rx'[u] \in Package => OnItsWay(rx'[u])
  BY <1>1, <1>2, <1>3 DEF ChainInv, Listening
<1>10. \A i : (MaySend(n, i) <=> MaySend(lora[t], i)) /\ (Holds(n, i) <=> Holds(lora[t], i))
  BY <1>5, <1>6 DEF MaySend, Holds, Idle
<1>11. ASSUME NEW u \in Towers \ {MainTower}, NEW i \in Ids
       PROVE  Passed(u, i)' /\ Returned(u, i)'
  <2>0. u + 1 \in Towers /\ u # u + 1 /\ Passed(u, i) /\ Returned(u, i)
    BY TakenAbove DEF ChainInv, Towers
  <2>1. /\ MaySend(lora'[u + 1], i) <=> MaySend(lora[u + 1], i)
        /\ Holds(lora'[u], i) <=> Holds(lora[u], i)
    BY <1>2, <1>10, <2>0
  <2>2. accepted'[u] = accepted[u]
    BY <1>1
  <2>3. CASE u = t
    <3>1. rx'[u] = NoFrame
      BY <1>1, <2>3
    <3>2. Passed(u, i)'
      BY <1>3, <2>0, <2>1, <2>2, <3>1 DEF Passed, PayloadFrom
    <3>3. lora'[u].at # "gotReturnConfirm" /\ lora'[u].receivedPackage = lora[u].receivedPackage
          /\ lora[u].at # "acceptActual"
      BY <1>2, <1>5, <2>3 DEF Idle
    <3>4. Returned(u, i)'
      BY <1>3, <2>0, <2>1, <3>1, <3>3 DEF Returned, ReturnFrom
    <3>. QED
      BY <3>2, <3>4
  <2>4. CASE u # t
    <3>1. rx'[u] \in {rx[u], p, CrcError} /\ lora'[u] = lora[u]
      BY <1>1, <1>2, <2>4
    <3>2. PayloadFrom(u + 1, rx'[u], i)
            => PayloadFrom(u + 1, rx[u], i) \/ MaySend(lora[u + 1], i)
      BY <1>3, <3>1 DEF PayloadFrom
    <3>3. ReturnFrom(u + 1, rx'[u]) => ReturnFrom(u + 1, rx[u]) \/ ~MaySend(lora[u + 1], i)
      BY <1>3, <3>1 DEF ReturnFrom, MaySend, Idle
    <3>4. Passed(u, i)'
      BY <2>0, <2>1, <2>2, <3>2 DEF Passed
    <3>5. Returned(u, i)'
      BY <2>0, <2>1, <3>1, <3>3 DEF Returned
    <3>. QED
      BY <3>4, <3>5
  <2>. QED
    BY <2>3, <2>4
<1>. QED
  BY <1>8, <1>9, <1>11 DEF ChainInv

\* A step after which nothing new has been measured, taken charge of or consumed, and
\* the server is not about to consume anything it was not about to consume before.
LEMMA LedgerKept ==
    ASSUME PathInv, LedgerInv, NEW t \in Towers, NEW n, Become(t, n),
           UNCHANGED <<measured, accepted, consumed, repeated>>,
           n.at # "measuring",
           n.state = "Send_Confirm_Primary" =>
               /\ lora[t].state = "Send_Confirm_Primary"
               /\ n.actualPackage = lora[t].actualPackage
    PROVE  LedgerInv'
<1>1. \A u \in Towers : lora'[u] = IF u = t THEN n ELSE lora[u]
  BY DEF Become, PathInv, TypeOK
<1>2. Server \in Towers /\ MainTower \in Towers
  BY DEF Server, Towers
<1>. QED
  BY <1>1, <1>2 DEF LedgerInv

---------------------------------------------------------------------------
(***************************************************************************)
(* The steps.                                                              *)
(***************************************************************************)

\* As long as nobody presses a button or hands over a text, the environment does
\* nothing but wake towers by their timers.
LEMMA QuietEnvironment ==
    ASSUME PathInv, ChainInv, Quiet', ~LongMessages, NEW t \in Towers,
           Environment(t) \/ BluetoothThread(t)
    PROVE  WakeByTimer(t)
<1>1. lora[t].bluetooth = "off"
  BY DEF ChainInv, Plain
<1>2. texts \in Nat /\ presses \in Nat
  BY DEF PathInv, TypeOK
<1>3. ~WakeByButton(t) /\ ~ButtonPressed(t)
  BY <1>2 DEF WakeByButton, ButtonPressed, Quiet
<1>4. ~SendFromBluetooth(t) /\ ~BluetoothThread(t)
  BY <1>1 DEF SendFromBluetooth, BluetoothThread, BluetoothNotified, BluetoothOn, BluetoothOrders
<1>5. ~SendFromWifi(t) /\ ~WifiOrders(t)
  BY <1>2 DEF SendFromWifi, HandOver, WifiOrders, Quiet
<1>. QED
  BY <1>3, <1>4, <1>5 DEF Environment

\* A tower that wakes by its timer listens, or the main tower begins to measure.
LEMMA OnceWake ==
    ASSUME PathInv, ChainInv, LedgerInv, NEW t \in Towers, WakeByTimer(t)
    PROVE  ChainInv' /\ LedgerInv'
<1>1. lora[t].at = Asleep /\ ~Holding(lora[t]) /\ ~Listening(t)
  BY DEF WakeByTimer, Holding, InExchange, Listening, Idle, Asleep
<1>2. Drain(t) /\ UNCHANGED <<accepted, consumed, repeated>>
  BY <1>1, DeafDrains DEF WakeByTimer, history
<1>3. Booted \in Manager /\ Plain(t, Booted) /\ Booted.actualPackage = Blank
  BY OffPlain
<1>4. CASE t # MainTower
  <2> DEFINE n == receivePackage(Booted)
  <2>1. n = [Booted EXCEPT !.state = "Receive_Payload"]
    BY DEF receivePackage, changeState, Booted, Off
  <2>2. /\ n.at = Idle /\ n.state = "Receive_Payload" /\ n.actualPackage = Blank
        /\ ~n.transmitting /\ ~n.sender /\ n.receivedPackage = Blank
    BY <2>1 DEF Booted, Off
  <2>9. ~n.keepAlive /\ ~n.higher_order /\ n.bluetooth = "off" /\ n.wifi = "free"
    BY <2>1 DEF Booted, Off
  <2>3. Plain(t, n)
    <3>1. OnItsWay(Blank)
      BY DEF OnItsWay, Blank, Server
    <3> HIDE DEF n
    <3>. QED
      BY <2>2, <2>9, <3>1 DEF Plain, DelayState, Idle, Asleep
  <2>4. ~Holding(n) /\ ~Takes(t, Blank)
    BY <2>2 DEF Holding, InExchange, Takes, isInfo, Blank, Idle, Asleep
  <2>5. Waiting(accepted, t, n)
    BY <2>2, <2>4 DEF Waiting, Idle
  <2>6. Become(t, n) /\ UNCHANGED measured
    BY <1>4 DEF WakeByTimer
  <2>7. ChainInv'
    BY <1>1, <1>2, <2>3, <2>4, <2>5, <2>6, StaysOut
  <2>8. LedgerInv'
    BY <1>2, <2>2, <2>6, LedgerKept DEF Idle
  <2>. QED
    BY <2>7, <2>8
<1>5. CASE t = MainTower
  <2> DEFINE n == [Booted EXCEPT !.at = "measuring"]
  <2>1. n.at = "measuring" /\ n.state = "Send_Payload"
    BY <1>3 DEF Manager, Booted, Off
  <2>2. Plain(t, n)
    BY <1>3 DEF Plain, DelayState, Manager, Booted, Off, Idle, Asleep
  <2>3. ~Holding(n) /\ Waiting(accepted, t, n)
    BY <2>1 DEF Waiting, Holding, Idle
  <2>4. Become(t, n) /\ measured' = measured + 1 /\ measured < MaxMeasurements
    BY <1>5 DEF WakeByTimer
  <2>5. ChainInv'
    BY <1>1, <1>2, <2>2, <2>3, <2>4, StaysOut
  <2>6. /\ measured \in Nat /\ measured' \in Measurements
        /\ \A u \in Towers : accepted[u] \subseteq 1..measured
    BY <2>4 DEF PathInv, TypeOK, Measurements, LedgerInv
  <2>7. \A u \in Towers : accepted'[u] \subseteq 1..measured'
    BY <1>2, <2>4, <2>6
  <2>8. measured' \notin accepted'[MainTower]
    BY <1>2, <1>5, <2>4, <2>6
  <2>9. \A u \in Towers : lora'[u] = IF u = t THEN n ELSE lora[u]
    BY <2>4 DEF Become, PathInv, TypeOK
  <2>10. lora'[Server] = lora[Server]
    BY <1>5, <2>9 DEF Server, Towers
  <2>11. LedgerInv'
    BY <1>2, <2>6, <2>7, <2>8, <2>10 DEF LedgerInv
  <2>. QED
    BY <2>5, <2>11
<1>. QED
  BY <1>4, <1>5

\* The measurement that the main tower sends is new.
LEMMA OnceMeasurement ==
    ASSUME PathInv, ChainInv, LedgerInv, NEW t \in Towers, SendMeasurement(t)
    PROVE  ChainInv' /\ LedgerInv'
<1> DEFINE m == lora[t]
           p == NewPackage("sensors", Server, t, measured)
           n == [m EXCEPT !.at = Idle, !.state = "Send_Payload", !.actualPackage = p,
                          !.sender = TRUE, !.transmitting = TRUE]
<1>1. /\ t = MainTower /\ m.at = "measuring" /\ m \in Manager
      /\ Plain(t, m) /\ measured \in Measurements \ accepted[t]
  BY DEF SendMeasurement, PathInv, Sound, ChainInv, LedgerInv, TypeOK
<1>2. p.kind = "sensors" /\ p.sender = t /\ p.id = measured
  BY DEF NewPackage
<1>3. Return(sendPackage(m, p)) = n
  <2> DEFINE k == [m EXCEPT !.actualPackage = p, !.sender = TRUE, !.transmitting = TRUE]
  <2>1. sendPackage(m, p) = changeState(k, "Send_Payload")
    BY <1>2 DEF sendPackage, iskeepAlive
  <2>2. changeState(k, "Send_Payload") = [k EXCEPT !.state = "Send_Payload"]
    BY <1>1 DEF changeState, Manager, Plain
  <2>3. /\ [k EXCEPT !.state = "Send_Payload"].at = "measuring"
        /\ [k EXCEPT !.state = "Send_Payload"].higher_order = FALSE
    BY <1>1 DEF Manager, Plain
  <2>4. Return([k EXCEPT !.state = "Send_Payload"])
          = [[k EXCEPT !.state = "Send_Payload"] EXCEPT !.at = Idle, !.higher_order = FALSE]
    BY <2>3 DEF Return, Asleep
  <2>5. [[k EXCEPT !.state = "Send_Payload"] EXCEPT !.at = Idle, !.higher_order = FALSE] = n
    BY <1>1 DEF Manager, Plain
  <2>. QED
    BY <2>1, <2>2, <2>4, <2>5
<1>4. /\ Become(t, n) /\ Accept(t, measured) /\ UNCHANGED <<measured, consumed, repeated>>
      /\ UNCHANGED rx
  BY <1>3 DEF SendMeasurement, bounds
<1>5. Drain(t)
  BY <1>1, <1>4, DeafDrains DEF Listening, Idle
<1>6. \A u \in Towers : accepted'[u] = IF u = t THEN accepted[u] \cup {measured} ELSE accepted[u]
  BY <1>4 DEF Accept, PathInv, TypeOK
<1>7. /\ n.at = Idle /\ n.state = "Send_Payload" /\ n.actualPackage = p
      /\ n.receivedPackage = m.receivedPackage
  BY <1>1 DEF Manager
<1>8. Plain(t, n)
  BY <1>1 DEF Plain, DelayState, Manager, Idle, Asleep
<1>9. Holding(n) /\ ~Holding(m)
  BY <1>1, <1>7 DEF Holding, InExchange, Idle, Asleep
<1>10. Waiting(accepted', t, n)
  BY <1>2, <1>7 DEF Waiting, Idle
<1>11. ChainInv'
  <2>1. \A i : Holds(n, i) <=> i = measured
    BY <1>2, <1>7, <1>9 DEF Holds
  <2>2. \A i \in accepted[t] : ~MaySend(n, i)
    BY <1>1, <2>1 DEF MaySend
  <2>3. \A i \in accepted'[t] : ~Holds(n, i) => i \in accepted[t]
    BY <1>6, <2>1
  <2>. QED
    BY <1>1, <1>4, <1>5, <1>6, <1>8, <1>10, <2>2, <2>3, ChainStep
<1>12. LedgerInv'
  <2>1. \A u \in Towers : lora'[u] = IF u = t THEN n ELSE lora[u]
    BY <1>4 DEF Become, PathInv, TypeOK
  <2>2. lora'[Server] = lora[Server] /\ Server \in Towers /\ lora'[MainTower].at = Idle
    <3>1. MainTower \in Towers /\ Server \in Towers /\ MainTower # Server
      BY DEF Server, Towers
    <3>. QED
      BY <1>1, <1>7, <2>1, <3>1
  <2>3. measured \in 1..measured
    BY <1>1 DEF Measurements
  <2>4. /\ \A u \in Towers : accepted'[u] \subseteq 1..measured'
        /\ accepted'[Server] = accepted[Server]
    BY <1>1, <1>4, <1>6, <2>2, <2>3 DEF LedgerInv, Server
  <2>. QED
    BY <1>4, <2>2, <2>4 DEF LedgerInv, Idle
<1>. QED
  BY <1>11, <1>12

\* A tower takes charge of a measurement for the first time.
LEMMA OnceAccept ==
    ASSUME PathInv, ChainInv, LedgerInv, NEW t \in Towers, AcceptActual(t)
    PROVE  ChainInv' /\ LedgerInv'
<1> DEFINE m == lora[t]
           id == m.actualPackage.id
           q == [m.actualPackage EXCEPT !.sender = t]
           n == [m EXCEPT !.at = Idle, !.state = "Send_Confirm_Primary", !.actualPackage = q,
                          !.transmitting = TRUE]
<1>1. /\ m.at = "acceptActual" /\ m \in Manager /\ m.actualPackage \in Package
      /\ Plain(t, m) /\ Waiting(accepted, t, m) /\ Sound(accepted, t, m)
  BY DEF AcceptActual, PathInv, ChainInv, TypeOK, Manager
<1>2. /\ Holding(m) /\ m.actualPackage.kind = "sensors" /\ m.receivedPackage = Blank
      /\ id \notin accepted[t] /\ id \in accepted[t + 1] /\ m.actualPackage.sender = t + 1
  BY <1>1 DEF Holding, InExchange, Waiting, Sound, VouchedBy, Idle, Asleep
<1>3. q.kind = "sensors" /\ q.sender = t /\ q.id = id
  BY <1>1, <1>2 DEF Package
<1>4. Return([changeState(m, "Send_Confirm_Primary") EXCEPT
                !.actualPackage.sender = t, !.transmitting = TRUE]) = n
  <2> DEFINE k == [m EXCEPT !.state = "Send_Confirm_Primary", !.actualPackage = q,
                            !.transmitting = TRUE]
  <2>1. changeState(m, "Send_Confirm_Primary") = [m EXCEPT !.state = "Send_Confirm_Primary"]
    BY <1>1 DEF changeState, Plain
  <2>2. [changeState(m, "Send_Confirm_Primary") EXCEPT
            !.actualPackage.sender = t, !.transmitting = TRUE] = k
    BY <1>1, <2>1 DEF Manager
  <2>3. k.at = "acceptActual" /\ k.higher_order = FALSE
    BY <1>1 DEF Manager, Plain
  <2>4. Return(k) = [k EXCEPT !.at = Idle, !.higher_order = FALSE]
    BY <2>3 DEF Return, Asleep
  <2>5. [k EXCEPT !.at = Idle, !.higher_order = FALSE] = n
    BY <1>1 DEF Manager, Plain
  <2>. QED
    BY <2>2, <2>4, <2>5
<1>5. /\ Become(t, n) /\ Accept(t, id) /\ UNCHANGED <<rx, measured, consumed, repeated>>
  <2>1. [changeState(m, "Send_Confirm_Primary") EXCEPT
            !.actualPackage.sender = t, !.transmitting = TRUE].actualPackage.id = id
    BY <1>1 DEF changeState, Manager, Package
  <2>. QED
    BY <1>4, <2>1 DEF AcceptActual, bounds
<1>6. Drain(t)
  BY <1>1, <1>5, DeafDrains DEF Listening, Idle
<1>7. \A u \in Towers : accepted'[u] = IF u = t THEN accepted[u] \cup {id} ELSE accepted[u]
  BY <1>5 DEF Accept, PathInv, TypeOK
<1>8. /\ n.at = Idle /\ n.state = "Send_Confirm_Primary" /\ n.actualPackage = q
      /\ n.receivedPackage = Blank
  BY <1>1, <1>2 DEF Manager
<1>9. Plain(t, n) /\ Holding(n)
  <2>1. Plain(t, n)
    BY <1>1 DEF Plain, DelayState, Manager, Idle, Asleep
  <2>. QED
    BY <2>1, <1>8 DEF Holding, InExchange, Idle, Asleep
<1>10. Waiting(accepted', t, n)
  BY <1>3, <1>8 DEF Waiting, Idle
<1>11. \A i : Holds(n, i) <=> i = id
  BY <1>3, <1>8, <1>9 DEF Holds
<1>12. ~ReturnFrom(t + 1, Blank) /\ n.at # "gotReturnConfirm"
  BY <1>8 DEF ReturnFrom, Blank, Idle
<1>13. ChainInv'
  <2>1. \A i \in accepted[t] : ~MaySend(n, i)
    BY <1>2, <1>11 DEF MaySend
  <2>2. \A i \in accepted'[t] : ~Holds(n, i) => i \in accepted[t] /\ ~Holds(m, i)
    BY <1>7, <1>11 DEF Holds
  <2>. QED
    BY <1>5, <1>6, <1>7, <1>8, <1>9, <1>10, <1>12, <2>1, <2>2, ChainStep
<1>14. LedgerInv'
  <2>1. \A u \in Towers : lora'[u] = IF u = t THEN n ELSE lora[u]
    BY <1>5 DEF Become, PathInv, TypeOK
  <2>2. t + 1 \in Towers
    BY <1>1, <1>2 DEF Package
  <2>3. t # MainTower
    BY <2>2 DEF Towers
  <2>4. MainTower \in Towers /\ Server \in Towers
    BY DEF Server, Towers
  <2>5. id \in 1..measured
    BY <1>2, <2>2 DEF LedgerInv
  <2>6. t = Server => id \notin consumed
    BY <1>2 DEF LedgerInv
  <2>7. lora'[MainTower] = lora[MainTower] /\ accepted'[MainTower] = accepted[MainTower]
    BY <1>7, <2>1, <2>3, <2>4
  <2>8. /\ \A u \in Towers : accepted'[u] \subseteq 1..measured'
        /\ consumed' \subseteq accepted'[Server]
    BY <1>5, <1>7, <2>4, <2>5 DEF LedgerInv
  <2>9. lora'[Server].state = "Send_Confirm_Primary"
          => lora'[Server].actualPackage.id \notin consumed'
    BY <1>3, <1>5, <1>8, <2>1, <2>4, <2>6 DEF LedgerInv
  <2>. QED
    BY <1>5, <2>7, <2>8, <2>9 DEF LedgerInv
<1>. QED
  BY <1>13, <1>14

\* The three transmissions: a measurement goes out of a tower that may send it, an "R"
\* out of one that no longer may.
LEMMA OnceTransmit ==
    ASSUME PathInv, ChainInv, LedgerInv, NEW t \in Towers, Sending(t)
    PROVE  ChainInv' /\ LedgerInv'
<1> DEFINE m == lora[t]
           ok == NewPackage("OK", m.actualPackage.dest, t, NoId)
           r  == NewPackage("R", m.actualPackage.dest, t, NoId)
<1>1. /\ m.at = Idle /\ m \in Manager /\ m.actualPackage \in Package
      /\ m.state \in {"Send_Payload", "Send_Confirm_Primary", "Send_Return"}
      /\ Sound(accepted, t, m) /\ Waiting(accepted, t, m)
  BY DEF Sending, Send_Payload, Send_Confirm_Primary, Send_Return, InHandler,
         PathInv, ChainInv, TypeOK, Manager
<1>2. /\ Holding(m) /\ m.actualPackage.kind = "sensors" /\ m.actualPackage.dest = Server
      /\ m.actualPackage.sender = t
  BY <1>1 DEF Holding, InExchange, Waiting, Sound, VouchedBy, Idle, Asleep
<1>3. /\ ok \in Package /\ ok.kind = "OK" /\ ok.sender = t /\ OnItsWay(ok)
      /\ r \in Package /\ r.kind = "R" /\ r.sender = t /\ OnItsWay(r)
  <2>1. ok \in Package /\ r \in Package
    BY <1>1, NewPackageType, IdsType DEF Package, Kinds
  <2>. QED
    BY <1>2, <2>1 DEF NewPackage, OnItsWay
<1>4. \A d : [m EXCEPT !.at = d].at = d /\ [m EXCEPT !.at = d].state = m.state
             /\ [m EXCEPT !.at = d].actualPackage = m.actualPackage
  BY <1>1 DEF Manager
<1>5. CASE Send_Payload(t)
  <2>1. m.state = "Send_Payload" /\ Transmit(t, m.actualPackage, "sentPayload")
    BY <1>5 DEF Send_Payload, InHandler
  <2>2. MaySend(m, m.actualPackage.id) /\ OnItsWay(m.actualPackage)
    BY <1>2, <2>1 DEF MaySend, Holds, PayloadStates, OnItsWay
  <2>3. ChainInv'
    BY <1>1, <1>2, <1>4, <2>1, <2>2, ChainTransmit DEF Delays, DelayState
  <2>. QED
    BY <1>4, <2>1, <2>3, LedgerKept DEF Transmit, history
<1>6. CASE Send_Confirm_Primary(t)
  <2>1. m.state = "Send_Confirm_Primary" /\ Transmit(t, ok, "sentConfirm")
    BY <1>6 DEF Send_Confirm_Primary, InHandler
  <2>2. ChainInv'
    BY <1>1, <1>3, <1>4, <2>1, ChainTransmit DEF Delays, DelayState
  <2>. QED
    BY <1>4, <2>1, <2>2, LedgerKept DEF Transmit, history
<1>7. CASE Send_Return(t)
  <2>1. m.state = "Send_Return" /\ Transmit(t, r, "sentReturn")
    BY <1>7 DEF Send_Return, InHandler
  <2>2. ChainInv'
    BY <1>1, <1>3, <1>4, <2>1, ChainTransmit DEF Delays, DelayState, PayloadStates
  <2>. QED
    BY <1>4, <2>1, <2>2, LedgerKept DEF Transmit, history
<1>. QED
  BY <1>5, <1>6, <1>7 DEF Sending

\* The end of a delay that leads to another state of the same exchange.
LEMMA OnceReturns ==
    ASSUME PathInv, ChainInv, LedgerInv, NEW t \in Towers,
           lora[t].at \in {"sentPayload", "sentConfirm", "sentReturn", "gotReturn"},
           NEW s \in States \ {"Receive_Payload"},
           s \in PayloadStates => lora[t].state \in PayloadStates,
           Become(t, Return(changeState(lora[t], s))), UNCHANGED <<rx, accepted>>
    PROVE  ChainInv' /\ Return(changeState(lora[t], s)) = [lora[t] EXCEPT !.at = Idle, !.state = s]
<1> DEFINE m == lora[t]
           n == [m EXCEPT !.at = Idle, !.state = s]
<1>1. m \in Manager /\ Plain(t, m) /\ m.at # Asleep
  BY DEF PathInv, ChainInv, TypeOK, Asleep
<1>2. Return(changeState(m, s)) = n
  BY <1>1, PlainHelpers DEF Plain
<1>3. /\ n.at = Idle /\ n.state = s /\ n.actualPackage = m.actualPackage
      /\ n.receivedPackage = m.receivedPackage
  BY <1>1 DEF Manager
<1>4. Plain(t, n)
  BY <1>1 DEF Plain, DelayState, Manager, Idle, Asleep
<1>5. Holding(m) /\ Holding(n)
  BY <1>3 DEF Holding, InExchange, Idle, Asleep
<1>6. Drain(t)
  BY DeafDrains DEF Listening, Idle
<1>7. ChainInv'
  <2> HIDE DEF n
  <2>. QED
    BY <1>2, <1>3, <1>4, <1>5, <1>6, MovesOn DEF Idle
<1>. QED
  BY <1>2, <1>7

\* The ends of the delays.  consumeInfo is called for what has not been consumed; the
\* last return lets the measurement go when the next tower up has stopped sending it.
LEMMA OnceAfterDelay ==
    ASSUME PathInv, ChainInv, LedgerInv, NEW t \in Towers, AfterDelay(t)
    PROVE  ChainInv' /\ LedgerInv'
<1> DEFINE m == lora[t]
<1>1. /\ m \in Manager /\ Plain(t, m) /\ Waiting(accepted, t, m) /\ Sound(accepted, t, m)
      /\ m.actualPackage \in Package
  BY DEF PathInv, ChainInv, TypeOK, Manager
<1>2. \A s \in States : /\ [m EXCEPT !.at = Idle, !.state = s].at = Idle
                        /\ [m EXCEPT !.at = Idle, !.state = s].state = s
  BY <1>1 DEF Manager
<1>3. CASE Send_Payload_Done(t)
  <2>1. m.state = "Send_Payload"
    BY <1>1, <1>3 DEF Plain, DelayState, Send_Payload_Done
  <2> DEFINE s == "Receive_Confirm_Primary"
  <2>2. ChainInv' /\ Return(changeState(m, s)) = [m EXCEPT !.at = Idle, !.state = s]
    BY <1>3, <2>1, OnceReturns DEF Send_Payload_Done, States, PayloadStates, history
  <2>. QED
    BY <1>2, <1>3, <2>2, LedgerKept DEF Send_Payload_Done, States, bounds, history, Idle
<1>4. CASE Send_Return_Done(t)
  <2> DEFINE s == "Receive_Return_Confirm"
  <2>1. ChainInv' /\ Return(changeState(m, s)) = [m EXCEPT !.at = Idle, !.state = s]
    BY <1>4, OnceReturns DEF Send_Return_Done, States, PayloadStates, history
  <2>. QED
    BY <1>2, <1>4, <2>1, LedgerKept DEF Send_Return_Done, States, bounds, history, Idle
<1>5. CASE Receive_Return_Done(t)
  <2> DEFINE s == "Send_Return"
  <2>1. ChainInv' /\ Return(changeState(m, s)) = [m EXCEPT !.at = Idle, !.state = s]
    BY <1>5, OnceReturns DEF Receive_Return_Done, States, PayloadStates, history
  <2>. QED
    BY <1>2, <1>5, <2>1, LedgerKept DEF Receive_Return_Done, States, bounds, history, Idle
<1>6. CASE Receive_Return_Confirm_Done(t)
  <2>1. m.at = "gotReturnConfirm" /\ Holds(m, m.actualPackage.id)
    BY <1>6 DEF Receive_Return_Confirm_Done, Holds, Holding, InExchange, Idle, Asleep
  <2>2. Become(t, Off) /\ UNCHANGED <<rx, bounds, history>>
    BY <1>1, <1>6, <2>1, PlainHelpers
       DEF Receive_Return_Confirm_Done, Plain, States, Asleep
  <2>3. Drain(t)
    BY <2>1, <2>2, DeafDrains DEF Listening, Idle
  <2>4. t # MainTower => ~MaySend(lora[t + 1], m.actualPackage.id)
    BY <1>1, <2>1 DEF ChainInv, Returned, Package
  <2>5. ChainInv'
    BY <2>2, <2>3, <2>4, LetsGo DEF history
  <2>. QED
    BY <2>2, <2>5, LedgerKept DEF Off, Asleep, bounds, history
<1>7. CASE Send_Confirm_Primary_Done(t)
  <2>1. /\ m.at = "sentConfirm" /\ m.state = "Send_Confirm_Primary"
        /\ Holding(m) /\ m.actualPackage.kind = "sensors"
        /\ m.actualPackage.dest = Server /\ m.actualPackage.id \in accepted[t]
    BY <1>1, <1>7 DEF Send_Confirm_Primary_Done, Plain, DelayState, Holding, InExchange,
                      Waiting, Sound, VouchedBy, Idle, Asleep
  <2>2. CASE t # Server
    <3> DEFINE s == "Send_Payload"
    <3>1. Become(t, Return(changeState(m, s))) /\ UNCHANGED <<rx, bounds, history>>
      BY <1>7, <2>1, <2>2 DEF Send_Confirm_Primary_Done, history
    <3>2. ChainInv' /\ Return(changeState(m, s)) = [m EXCEPT !.at = Idle, !.state = s]
      BY <2>1, <3>1, OnceReturns DEF States, PayloadStates, history
    <3>. QED
      BY <1>2, <3>1, <3>2, LedgerKept DEF States, bounds, history, Idle
  <2>3. CASE t = Server
    <3> DEFINE s == "Send_Return"
               k == changeState(m, s)
    <3>1. k \in Manager /\ ~isText(m.actualPackage)
      BY <1>1, <2>1, ChangeStateType DEF States, isText
    <3>2. [k EXCEPT !.bluetooth_tower = k.bluetooth_tower] = k
      BY <3>1 DEF Manager
    <3>3. /\ Become(t, Return(k)) /\ UNCHANGED <<rx, measured, accepted>>
          /\ consumed' = consumed \cup {m.actualPackage.id}
          /\ repeated' = repeated \cup (consumed \cap {m.actualPackage.id})
      BY <1>7, <2>1, <2>3, <3>1, <3>2 DEF Send_Confirm_Primary_Done, bounds
    <3>4. ChainInv' /\ Return(k) = [m EXCEPT !.at = Idle, !.state = s]
      BY <2>1, <3>3, OnceReturns DEF States, PayloadStates
    <3>5. \A u \in Towers : lora'[u] = IF u = t THEN [m EXCEPT !.at = Idle, !.state = s]
                                                ELSE lora[u]
      BY <3>3, <3>4 DEF Become, PathInv, TypeOK
    <3>6. Server \in Towers /\ MainTower \in Towers /\ MainTower # Server
      BY DEF Server, Towers
    <3>7. lora'[Server].state = "Send_Return" /\ lora'[MainTower] = lora[MainTower]
      BY <1>2, <2>3, <3>5, <3>6 DEF States
    <3>8. LedgerInv'
      BY <2>1, <2>3, <3>3, <3>7 DEF LedgerInv
    <3>. QED
      BY <3>4, <3>8
  <2>. QED
    BY <2>2, <2>3
<1>8. ~AcceptReceived(t)
  BY <1>1 DEF AcceptReceived, Plain
<1>. QED
  BY <1>3, <1>4, <1>5, <1>6, <1>7, <1>8, OnceMeasurement, OnceAccept DEF AfterDelay

\* A tower that listens for a payload takes a measurement it has never taken charge of,
\* or ignores the frame.
LEMMA OnceReceivePayload ==
    ASSUME PathInv, ChainInv, LedgerInv, NEW t \in Towers, Receive_Payload(t)
    PROVE  ChainInv' /\ LedgerInv'
<1> DEFINE m == lora[t]
           p == setPackage(m.actualPackage, rx[t])
           k == [m EXCEPT !.actualPackage = p]
           a == [k EXCEPT !.keepAlive = @ \/ iskeepAlive(p), !.at = "acceptActual"]
           invalid == RefusesSensors(k, p) \/ k.transmitting \/ PassesBack(t, k, p)
<1>1. /\ m.at = Idle /\ m.state = "Receive_Payload" /\ rx[t] # NoFrame /\ m \in Manager
      /\ Plain(t, m) /\ Waiting(accepted, t, m)
  BY DEF Receive_Payload, InHandler, PathInv, ChainInv, TypeOK
<1>2. ~m.transmitting /\ ~m.sender /\ m.receivedPackage = Blank /\ ~Takes(t, m.actualPackage)
  BY <1>1 DEF Waiting
<1>3. Become(t, IF invalid \/ ~FromPrevious(t, p) \/ ~isInfo(p) THEN k ELSE a)
      /\ Drain(t) /\ UNCHANGED <<bounds, history>>
  BY DEF Receive_Payload
<1>4. /\ k.at = Idle /\ k.state = "Receive_Payload" /\ k.actualPackage = p
      /\ k.receivedPackage = Blank /\ k.keepAlive = m.keepAlive
      /\ k.transmitting = m.transmitting /\ k.sender = m.sender
  BY <1>1, <1>2 DEF Manager
<1>5. ~invalid
  BY <1>1, <1>2, <1>4 DEF Plain, RefusesSensors, PassesBack
<1>6. ~Holding(m) /\ ~Holding(k)
  BY <1>1, <1>4 DEF Holding, InExchange, Idle, Asleep
<1>7. Plain(t, k)
  BY <1>1, <1>4 DEF Plain, DelayState, Manager, Idle, Asleep
<1>8. CASE ~Takes(t, p)
  <2>1. Become(t, k)
    BY <1>3, <1>8 DEF Takes
  <2>2. Waiting(accepted, t, k)
    BY <1>2, <1>4, <1>6, <1>8 DEF Waiting, Idle
  <2>3. ChainInv'
    BY <1>3, <1>6, <1>7, <2>1, <2>2, StaysOut DEF history
  <2>. QED
    BY <1>3, <1>4, <2>1, <2>3, LedgerKept DEF Idle, bounds, history
<1>9. CASE Takes(t, p)
  <2>1. Become(t, a)
    BY <1>3, <1>5, <1>9 DEF Takes
  <2>2. p = rx[t] /\ p \in Package
    BY <1>1, <1>2, <1>9 DEF setPackage, PathInv, TypeOK
  <2>3. p.kind = "sensors" /\ p.dest = Server
    BY <1>9, <2>2 DEF ChainInv, OnItsWay, Takes, isInfo
  <2>4. p.sender = t + 1 /\ t \in Nat /\ t + 1 \in Towers
    BY <1>9, <2>2, <2>3 DEF Takes, FromPrevious, Package, Towers, Server
  <2>5. t \in Towers \ {MainTower} /\ p.id \in Ids
    BY <2>2, <2>4 DEF Towers, Package
  <2>6. p.id \notin accepted[t]
    BY <1>6, <2>2, <2>3, <2>4, <2>5 DEF ChainInv, Passed, PayloadFrom, Holds
  <2>7. /\ a.at = "acceptActual" /\ a.state = "Receive_Payload" /\ a.actualPackage = p
        /\ a.receivedPackage = Blank
    BY <1>1, <1>2 DEF Manager
  <2>8. Plain(t, a)
    <3>1. a.keepAlive = (m.keepAlive \/ iskeepAlive(p))
      BY <1>1 DEF Manager
    <3>2. ~a.keepAlive
      BY <1>1, <2>3, <3>1 DEF Plain, iskeepAlive
    <3>3. /\ a.higher_order = m.higher_order /\ a.bluetooth = m.bluetooth /\ a.wifi = m.wifi
          /\ a.sender = m.sender
      BY <1>1 DEF Manager
    <3> HIDE DEF a
    <3>. QED
      BY <1>1, <1>2, <2>7, <3>2, <3>3 DEF Plain, DelayState, Asleep
  <2>9. Holding(a) /\ Waiting(accepted, t, a)
    BY <2>3, <2>6, <2>7 DEF Waiting, Holding, InExchange, Idle, Asleep
  <2>10. \A i \in accepted[t] : ~MaySend(a, i)
    BY <2>6, <2>7 DEF MaySend, Holds
  <2>11. \A i : ~Holds(m, i)
    BY <1>6 DEF Holds
  <2>12. UNCHANGED <<measured, accepted, consumed, repeated>>
    BY <1>3 DEF bounds, history
  <2>13. ChainInv'
    <3> HIDE DEF a
    <3>. QED
      BY <1>3, <2>1, <2>7, <2>8, <2>9, <2>10, <2>11, <2>12, ChainStep
  <2>. QED
    BY <2>1, <2>7, <2>12, <2>13, LedgerKept
<1>. QED
  BY <1>8, <1>9

\* The other receiving handlers: the exchange goes on, and the last return is heard
\* from the next tower up.
LEMMA OnceReceive ==
    ASSUME PathInv, ChainInv, LedgerInv, NEW t \in Towers,
           NEW s \in {"Receive_Confirm_Primary", "Receive_Return", "Receive_Return_Confirm"},
           NEW invalid, NEW otherwise,
           \/ otherwise = Heard(t)
           \/ otherwise \in {changeState(Heard(t), "Receive_Return"),
                             changeState(Heard(t), "Send_Return")}
           \/ s = "Receive_Return" /\ otherwise = [Heard(t) EXCEPT !.at = "gotReturn"]
           \/ /\ s = "Receive_Return_Confirm"
              /\ FromPrevious(t, Heard(t).receivedPackage)
              /\ PayloadIs(Heard(t).receivedPackage, "R")
              /\ otherwise = [Heard(t) EXCEPT !.at = "gotReturnConfirm"],
           Receive(t, s, invalid, otherwise)
    PROVE  ChainInv' /\ LedgerInv'
<1> DEFINE m == lora[t]
           h == Heard(t)
           p == h.receivedPackage
           n == IF invalid THEN h ELSE otherwise
<1>1. /\ m.at = Idle /\ m.state = s /\ rx[t] # NoFrame /\ m \in Manager /\ Plain(t, m)
  BY DEF Receive, InHandler, PathInv, ChainInv, TypeOK
<1>2. /\ p = setPackage(m.receivedPackage, rx[t]) /\ p \in {m.receivedPackage, rx[t]}
      /\ p \in Package
  <2>1. m.receivedPackage \in Package /\ rx[t] \in Package \cup {NoFrame, CrcError}
    BY <1>1 DEF Manager, PathInv, TypeOK
  <2>. QED
    BY <1>1, <2>1, SetPackageType DEF Heard, Manager, setPackage
<1>3. OnItsWay(p)
  <2>1. p = m.receivedPackage \/ (p = rx[t] /\ rx[t] \in Package)
    BY <1>2
  <2>. QED
    BY <1>1, <2>1 DEF Plain, ChainInv
<1>4. /\ h \in Manager /\ h.at = Idle /\ h.state = s /\ h.actualPackage = m.actualPackage
      /\ h.sender = m.sender /\ h.keepAlive = m.keepAlive /\ h.higher_order = m.higher_order
      /\ h.bluetooth = m.bluetooth /\ h.wifi = m.wifi
  BY <1>1, <1>2 DEF Heard, Manager
<1>5. Become(t, n) /\ Drain(t) /\ UNCHANGED <<bounds, history>>
  BY <1>3 DEF Receive, OnItsWay, iskeepAlive
<1>6. \A r \in States : changeState(h, r) = [h EXCEPT !.state = r]
  BY <1>1, <1>4 DEF changeState, Plain
<1>7. ASSUME FromPrevious(t, p), PayloadIs(p, "R") PROVE ReturnFrom(t + 1, p)
  <2>1. p.dest = 0 /\ p.sender \in Towers /\ t \in Nat
    BY <1>2, <1>3 DEF OnItsWay, Server, Package, Towers
  <2>2. p.sender = t + 1
    BY <1>7, <2>1 DEF FromPrevious, Towers
  <2>3. p # Blank
    BY <2>1, <2>2 DEF Blank
  <2>. QED
    BY <1>3, <1>7, <2>2, <2>3 DEF OnItsWay, PayloadIs, ReturnFrom
<1>8. /\ n.receivedPackage = p /\ n.actualPackage = m.actualPackage
      /\ n.sender = m.sender /\ n.keepAlive = m.keepAlive /\ n.higher_order = m.higher_order
      /\ n.bluetooth = m.bluetooth /\ n.wifi = m.wifi
      /\ \/ n.at = Idle /\ n.state \in {s, "Receive_Return", "Send_Return"}
         \/ n.at = "gotReturn" /\ n.state = "Receive_Return"
         \/ /\ n.at = "gotReturnConfirm" /\ n.state = "Receive_Return_Confirm"
            /\ ReturnFrom(t + 1, p)
  BY <1>4, <1>6, <1>7 DEF Manager, States
<1> HIDE DEF n
<1>9. Plain(t, n)
  BY <1>1, <1>3, <1>8 DEF Plain, DelayState, Idle, Asleep
<1>10. Holding(m) /\ Holding(n)
  BY <1>1, <1>8 DEF Holding, InExchange, Idle, Asleep
<1>11. ChainInv'
  BY <1>1, <1>2, <1>5, <1>8, <1>9, <1>10, MovesOn DEF PayloadStates, Idle, history
<1>12. LedgerInv'
  BY <1>1, <1>5, <1>8, LedgerKept DEF Idle, bounds, history
<1>. QED
  BY <1>11, <1>12

\* The steps that read a frame: what may be heard is what ChainInv says is on the air.
LEMMA OnceReceiving ==
    ASSUME PathInv, ChainInv, LedgerInv, NEW t \in Towers, Receiving(t)
    PROVE  ChainInv' /\ LedgerInv'
<1> DEFINE m == Heard(t)
           p == m.receivedPackage
<1>1. CASE Receive_Confirm_Primary(t)
  <2> DEFINE otherwise ==
               IF ~FromNext(t, p) \/ p.dest = t THEN m
               ELSE IF SamePayload(p, m.actualPackage) \/ PayloadIs(p, "OK")
                    THEN changeState(m, "Receive_Return")
               ELSE IF PayloadIs(p, "R") THEN changeState(m, "Send_Return") ELSE m
  <2>1. Receive(t, "Receive_Confirm_Primary", RefusesSensors(m, p) \/ PassesBack(t, m, p), otherwise)
    BY <1>1 DEF Receive_Confirm_Primary
  <2>. QED
    BY <2>1, OnceReceive
<1>2. CASE Receive_Return(t)
  <2> DEFINE otherwise == IF FromNext(t, p) /\ PayloadIs(p, "R")
                          THEN [m EXCEPT !.at = "gotReturn"] ELSE m
  <2>1. Receive(t, "Receive_Return", PassesBack(t, m, p), otherwise)
    BY <1>2 DEF Receive_Return
  <2>. QED
    BY <2>1, OnceReceive
<1>3. CASE Receive_Return_Confirm(t)
  <2> DEFINE otherwise == IF FromPrevious(t, p) /\ PayloadIs(p, "R")
                          THEN [m EXCEPT !.at = "gotReturnConfirm"] ELSE m
  <2>1. Receive(t, "Receive_Return_Confirm", PassesBack(t, m, p), otherwise)
    BY <1>3 DEF Receive_Return_Confirm
  <2>. QED
    BY <2>1, OnceReceive
<1>. QED
  BY <1>1, <1>2, <1>3, OnceReceivePayload DEF Receiving

\* Whoever times out has outlived the next tower up; only the main tower succeeds.
LEMMA OnceEnding ==
    ASSUME PathInv, ChainInv, LedgerInv, NEW t \in Towers, Retransmit(t) \/ GiveUp(t) \/ Succeed(t)
    PROVE  ChainInv' /\ LedgerInv'
<1> DEFINE m == lora[t]
<1>1. m \in Manager /\ Plain(t, m) /\ Waiting(accepted, t, m)
  BY DEF PathInv, ChainInv, TypeOK
<1>2. ASSUME m.at = Idle, m.state \in {"Receive_Confirm_Primary", "Receive_Return_Confirm"},
             NEW s \in {"Send_Payload", "Send_Return"},
             s = "Send_Payload" => m.state = "Receive_Confirm_Primary",
             rx[t] = NoFrame, Become(t, changeState(m, s)), UNCHANGED <<rx, bounds, history>>
      PROVE  ChainInv' /\ LedgerInv'
  <2> DEFINE n == [m EXCEPT !.state = s]
  <2>1. changeState(m, s) = n
    BY <1>1 DEF changeState, Plain
  <2>2. /\ n.at = Idle /\ n.state = s /\ n.actualPackage = m.actualPackage
        /\ n.receivedPackage = m.receivedPackage
    BY <1>1, <1>2 DEF Manager
  <2>3. Plain(t, n)
    BY <1>1, <1>2 DEF Plain, DelayState, Manager, Idle, Asleep
  <2> HIDE DEF n
  <2>4. Holding(m) /\ Holding(n)
    BY <1>2, <2>2 DEF Holding, InExchange, Idle, Asleep
  <2>5. Drain(t)
    BY <1>2, DeafDrains
  <2>6. ChainInv'
    BY <1>2, <2>1, <2>2, <2>3, <2>4, <2>5, MovesOn DEF PayloadStates, Idle, history
  <2>. QED
    BY <1>2, <2>1, <2>2, <2>6, LedgerKept DEF Idle, bounds, history
<1>3. CASE RetransmitPayload(t)
  BY <1>2, <1>3 DEF RetransmitPayload, InHandler
<1>4. CASE RetransmitReturn(t)
  BY <1>2, <1>4 DEF RetransmitReturn, InHandler
<1>5. CASE GlobalTimeout(t)
  <2>1. /\ m.at = Idle /\ m.state # "Receive_Payload" /\ Drain(t) /\ UNCHANGED <<bounds, history>>
        /\ Become(t, Sleep(m)) /\ ~\E u \in Towers : OutlivedBy(u, t)
    BY <1>5 DEF GlobalTimeout
  <2>2. Become(t, Off)
    BY <1>1, <2>1, PlainHelpers DEF Plain, States, Idle, Asleep
  <2>3. t # MainTower => ~MaySend(lora[t + 1], m.actualPackage.id)
    <3> SUFFICES ASSUME t # MainTower, MaySend(lora[t + 1], m.actualPackage.id) PROVE FALSE
      OBVIOUS
    <3>1. t + 1 \in Towers /\ t + 1 > t
      BY DEF Towers
    <3>2. /\ Holding(lora[t + 1]) /\ ~lora[t + 1].keepAlive
          /\ lora[t + 1].actualPackage.kind = "sensors"
      BY <3>1 DEF MaySend, Holds, ChainInv, Plain, Waiting
    <3>3. OutlivedBy(t + 1, t)
      BY <3>1, <3>2 DEF OutlivedBy, MaySend, Holds, Holding
    <3>. QED
      BY <2>1, <3>1, <3>3
  <2>4. ChainInv'
    BY <2>1, <2>2, <2>3, LetsGo DEF history
  <2>. QED
    BY <2>1, <2>2, <2>4, LedgerKept DEF Off, Asleep, bounds, history
<1>6. CASE Succeed(t)
  <2>1. /\ m.at = Idle /\ m.sender /\ Drain(t) /\ Become(t, Sleep(m))
        /\ UNCHANGED <<measured, accepted, consumed, repeated>>
    BY <1>6 DEF Succeed, InHandler, bounds
  <2>2. Become(t, Off) /\ t = MainTower
    BY <1>1, <2>1, PlainHelpers DEF Plain, States, Idle, Asleep
  <2>3. ChainInv'
    BY <2>1, <2>2, LetsGo
  <2>. QED
    BY <2>1, <2>2, <2>3, LedgerKept DEF Off, Asleep
<1>7. ~BluetoothTimeout(t)
  BY <1>1 DEF BluetoothTimeout, Plain
<1>. QED
  BY <1>3, <1>4, <1>5, <1>6, <1>7 DEF Retransmit, GiveUp

---------------------------------------------------------------------------
(***************************************************************************)
(* The theorem.                                                            *)
(***************************************************************************)

\* Presses and texts are counted, never taken back.
LEMMA QuietBefore ==
    ASSUME TypeOK, [Next]_vars, Quiet'
    PROVE  Quiet
<1>1. texts \in Nat /\ presses \in Nat
  BY DEF TypeOK
<1>2. CASE UNCHANGED vars
  BY <1>2 DEF Quiet, vars, bounds
<1>3. ASSUME NEW t \in Towers, LoRaThread(t) \/ GiveUp(t) PROVE UNCHANGED <<texts, presses>>
  BY <1>3 DEF LoRaThread, Sending, Send_Payload, Send_Confirm_Primary, Send_Return, Transmit,
     AfterDelay, SendMeasurement, Send_Payload_Done, Send_Confirm_Primary_Done, Send_Return_Done,
     AcceptActual, AcceptReceived, Receive_Return_Done, Receive_Return_Confirm_Done,
     Receiving, Receive_Payload, Receive_Confirm_Primary, Receive_Return, Receive_Return_Confirm,
     Receive, Retransmit, RetransmitPayload, RetransmitReturn, Succeed, GiveUp, GlobalTimeout,
     BluetoothTimeout, bounds
<1>4. ASSUME NEW t \in Towers, BluetoothThread(t) \/ Environment(t)
      PROVE  texts' \in {texts, texts + 1} /\ presses' \in {presses, presses + 1}
  BY <1>4 DEF BluetoothThread, BluetoothNotified, BluetoothOn, BluetoothOrders, Environment,
     WakeByTimer, WakeByButton, ButtonPressed, SendFromBluetooth, WifiOrders, SendFromWifi,
     HandOver, bounds
<1>. QED
  BY <1>1, <1>2, <1>3, <1>4 DEF Next, Quiet

\* The invariant is inductive as long as everything is quiet.
LEMMA OnceInvariant ==
    ASSUME ~LongMessages
    PROVE  Spec => [](Quiet => ChainInv /\ LedgerInv)
<1> DEFINE Inv == Quiet => ChainInv /\ LedgerInv
<1>1. Init => Inv
  <2> SUFFICES ASSUME Init PROVE ChainInv /\ LedgerInv
    OBVIOUS
  <2>1. \A t \in Towers : /\ lora[t] = Off /\ rx[t] = NoFrame /\ accepted[t] = {}
    BY DEF Init
  <2>2. NoFrame \notin Package
    BY DEF NoFrame, Package, Kinds
  <2>3. \A t \in Towers : Plain(t, Off) /\ Waiting(accepted, t, Off)
    BY OffPlain
  <2>4. Server \in Towers /\ MainTower \in Towers
    BY DEF Server, Towers
  <2>5. ~Holding(Off) /\ Off.at # "measuring" /\ Off.state # "Send_Confirm_Primary"
    BY OffPlain DEF Off, Asleep
  <2>6. ChainInv
    BY <2>1, <2>2, <2>3, <2>5 DEF ChainInv, Passed, Returned, Holds
  <2>7. LedgerInv
    BY <2>1, <2>4, <2>5 DEF LedgerInv, Init
  <2>. QED
    BY <2>6, <2>7
<1>2. PathInv /\ Inv /\ [Next]_vars => Inv'
  <2> SUFFICES ASSUME PathInv, Inv, [Next]_vars, Quiet' PROVE ChainInv' /\ LedgerInv'
    OBVIOUS
  <2>1. ChainInv /\ LedgerInv
    BY QuietBefore DEF PathInv
  <2>2. ASSUME NEW t \in Towers, LoRaThread(t) \/ GiveUp(t) \/ BluetoothThread(t) \/ Environment(t)
        PROVE  ChainInv' /\ LedgerInv'
    BY <2>1, <2>2, OnceTransmit, OnceAfterDelay, OnceReceiving, OnceEnding, QuietEnvironment,
       OnceWake DEF LoRaThread
  <2>3. CASE UNCHANGED vars
    BY <2>1, <2>3 DEF ChainInv, LedgerInv, Passed, Returned, Listening, vars, bounds, history
  <2>. QED
    BY <2>2, <2>3 DEF Next
<1>. QED
  BY <1>1, <1>2, PathInvariant, PTL DEF Spec

\* However many frames are lost, repeated or corrupted and whoever times out and
\* reboots, the server of a chain of any length hands a measurement to consumeInfo
\* once, as long as no button has been pressed and no text handed over
\* (LoraManager.cpp:88-158, 173-189 and 320-349).
THEOREM ConsumedOnceCorrect ==
    ASSUME ~LongMessages
    PROVE  Spec => [](Quiet => ConsumedOnce)
<1>1. LedgerInv => ConsumedOnce
  BY DEF LedgerInv, ConsumedOnce
<1>. QED
  BY <1>1, OnceInvariant, PTL

---------------------------------------------------------------------------
(***************************************************************************)
(* One measurement over a radio that corrupts nothing.  "OK" and "R" carry *)
(* no identity, so that they are taken for the answer to whatever a tower  *)
(* has in hand; with a single measurement they can only mean that one, and *)
(* what they say of it stays true: their sender has taken charge of it,    *)
(* and "R" starts where consumeInfo has been called.                       *)
(***************************************************************************)
Lone == Quiet /\ measured <= 1 /\ crcErrors = 0

\* What manager m of tower t knows by its state: that the measurement is consumed, or
\* that the next tower down has it.
Wave(acc, cons, t, m) ==
    /\ m.state \in {"Send_Return", "Receive_Return_Confirm"} \/ m.at = "gotReturn"
           => 1 \in cons
    /\ m.state = "Receive_Return" /\ t # Server => 1 \in acc[t - 1]

\* What a frame says by being on the air.
Truthful(acc, cons, f) ==
    /\ f.kind \in {"sensors", "OK", "R"}
    /\ 1 \in acc[f.sender]
    /\ f.kind = "R" => 1 \in cons

WaveInv ==
    /\ \A t \in Towers : Wave(accepted, consumed, t, lora[t])
    /\ \A t \in Towers : rx[t] # NoFrame => rx[t] \in Package /\ Truthful(accepted, consumed, rx[t])
    /\ announced \subseteq consumed

\* The measurement a tower has in hand is the only one.
LEMMA LoneId ==
    ASSUME PathInv, ChainInv, LedgerInv, measured <= 1, NEW t \in Towers, Holding(lora[t])
    PROVE  /\ lora[t].actualPackage.id = 1
           /\ lora[t].at # "acceptActual" => 1 \in accepted[t]
<1>1. /\ lora[t].actualPackage \in Package /\ lora[t].actualPackage.sender \in Towers
      /\ Waiting(accepted, t, lora[t]) /\ Sound(accepted, t, lora[t])
  BY DEF PathInv, ChainInv, TypeOK, Manager, Package
<1>2. lora[t].actualPackage.id \in accepted[lora[t].actualPackage.sender]
  BY <1>1 DEF Waiting, Sound, VouchedBy
<1>3. measured \in Nat
  BY DEF PathInv, TypeOK
<1>4. lora[t].actualPackage.id = 1
  BY <1>1, <1>2, <1>3 DEF LedgerInv
<1>. QED
  BY <1>1, <1>2, <1>4 DEF Waiting

\* Tower t becomes n and fills no receive buffer.
LEMMA WaveStep ==
    ASSUME TypeOK, WaveInv, NEW t \in Towers, NEW n, Become(t, n), rx' = rx \/ Drain(t),
           \A u \in Towers : accepted[u] \subseteq accepted'[u],
           consumed \subseteq consumed', announced' \subseteq consumed',
           Wave(accepted, consumed', t, n)
    PROVE  WaveInv'
<1>1. /\ \A u \in Towers : lora'[u] = IF u = t THEN n ELSE lora[u]
      /\ \A u \in Towers : rx'[u] \in {rx[u], NoFrame}
  BY DEF Become, Drain, TypeOK
<1>2. ASSUME NEW u \in Towers PROVE Wave(accepted', consumed', u, lora'[u])
  <2>1. Wave(accepted, consumed', u, lora'[u])
    BY <1>1 DEF WaveInv, Wave
  <2>2. u # Server => u - 1 \in Towers
    BY DEF Towers, Server
  <2>. QED
    BY <2>1, <2>2 DEF Wave
<1>3. ASSUME NEW f \in Package, Truthful(accepted, consumed, f)
      PROVE  Truthful(accepted', consumed', f)
  BY <1>3 DEF Truthful, Package
<1>4. \A u \in Towers : rx'[u] # NoFrame =>
          rx'[u] \in Package /\ Truthful(accepted', consumed', rx'[u])
  BY <1>1, <1>3 DEF WaveInv
<1>. QED
  BY <1>2, <1>4 DEF WaveInv

\* A state that says nothing of the return, or the same state.
LEMMA WaveState ==
    ASSUME NEW acc, NEW cons, NEW t, NEW m, NEW n, Wave(acc, cons, t, m),
           n.at # "gotReturn",
           n.state \in {m.state, "Send_Payload", "Send_Confirm_Primary",
                        "Receive_Confirm_Primary", "Receive_Payload"}
    PROVE  Wave(acc, cons, t, n)
BY DEF Wave

\* What the helpers leave of the state and the place.
LEMMA HelperStates ==
    ASSUME NEW m \in Manager, NEW s \in States
    PROVE  /\ changeState(m, s) \in Manager /\ changeState(m, s).state \in {m.state, s}
           /\ changeState(m, s).at = m.at
           /\ Return(changeState(m, s)).state \in {m.state, s}
           /\ Return(changeState(m, s)).at \in {Idle, Asleep}
<1>1. changeState(m, s) \in Manager
  BY ChangeStateType
<1>2. changeState(m, s).state \in {m.state, s} /\ changeState(m, s).at = m.at
  BY DEF changeState, Manager
<1>3. \A k \in Manager : Return(k).state = k.state /\ Return(k).at \in {Idle, Asleep}
  BY DEF Return, Manager
<1>. QED
  BY <1>1, <1>2, <1>3

\* What is put on the air is true, and nothing is corrupted.
LEMMA WaveTransmit ==
    ASSUME TypeOK, WaveInv, crcErrors = 0, crcErrors' = 0,
           NEW t \in Towers, NEW p \in Package,
           NEW delay \in Delays \ {"gotReturn"},
           Transmit(t, p, delay), Truthful(accepted, consumed, p)
    PROVE  WaveInv'
<1> DEFINE n == [lora[t] EXCEPT !.at = delay]
           listeners == {u \in Towers \ {t} : Listening(u)}
<1>1. PICK heard \in SUBSET listeners : \E garbled \in SUBSET (listeners \ heard) :
        /\ crcErrors' = crcErrors + Cardinality(garbled)
        /\ rx' = [u \in Towers |-> IF u = t THEN NoFrame
                                   ELSE IF u \in heard THEN p
                                   ELSE IF u \in garbled THEN CrcError ELSE rx[u]]
  BY Zenon DEF Transmit
<1>2. PICK garbled \in SUBSET (listeners \ heard) :
        /\ crcErrors' = crcErrors + Cardinality(garbled)
        /\ rx' = [u \in Towers |-> IF u = t THEN NoFrame
                                   ELSE IF u \in heard THEN p
                                   ELSE IF u \in garbled THEN CrcError ELSE rx[u]]
  BY <1>1, Zenon
<1>3. garbled = {}
  <2>1. IsFiniteSet(garbled)
    BY <1>2, TowersFinite, FS_Subset
  <2>2. Cardinality(garbled) \in Nat
    BY <2>1, FS_CardinalityType
  <2>3. Cardinality(garbled) = 0
    BY <1>2, <2>2
  <2>. QED
    BY <2>1, <2>3, FS_EmptySet
<1>4. \A u \in Towers : rx'[u] \in {NoFrame, p, rx[u]}
  BY <1>2, <1>3
<1>5. Become(t, n) /\ UNCHANGED <<accepted, consumed, announced>>
  BY DEF Transmit, history
<1>6. lora[t] \in Manager
  BY DEF TypeOK
<1>7. n.at = delay /\ n.state = lora[t].state
  BY <1>6 DEF Manager
<1>8. Wave(accepted, consumed, t, n)
  <2>1. Wave(accepted, consumed, t, lora[t])
    BY DEF WaveInv
  <2> HIDE DEF n
  <2>. QED
    BY <1>7, <2>1, WaveState
<1>9. \A u \in Towers : lora'[u] = IF u = t THEN n ELSE lora[u]
  BY <1>5 DEF Become, TypeOK
<1>. QED
  BY <1>4, <1>5, <1>8, <1>9 DEF WaveInv

\* The sending steps and the ends of delays.
LEMMA WaveSending ==
    ASSUME PathInv, ChainInv, LedgerInv, WaveInv, measured <= 1,
           crcErrors = 0, crcErrors' = 0, NEW t \in Towers, Sending(t) \/ AfterDelay(t)
    PROVE  WaveInv'
<1> DEFINE m == lora[t]
           ok == NewPackage("OK", m.actualPackage.dest, t, NoId)
           r  == NewPackage("R", m.actualPackage.dest, t, NoId)
<1>1. /\ TypeOK /\ m \in Manager /\ m.actualPackage \in Package
      /\ Wave(accepted, consumed, t, m) /\ Plain(t, m) /\ announced \subseteq consumed
      /\ Sound(accepted, t, m) /\ Waiting(accepted, t, m)
  BY DEF PathInv, ChainInv, TypeOK, Manager, WaveInv
<1>2. CASE Sending(t)
  <2>1. /\ m.at = Idle
        /\ m.state \in {"Send_Payload", "Send_Confirm_Primary", "Send_Return"}
    BY <1>2 DEF Sending, Send_Payload, Send_Confirm_Primary, Send_Return, InHandler
  <2>2. /\ Holding(m) /\ m.actualPackage.kind = "sensors" /\ m.actualPackage.sender = t
        /\ 1 \in accepted[t]
    BY <1>1, <2>1, LoneId DEF Holding, InExchange, Waiting, Idle, Asleep
  <2>3. /\ ok \in Package /\ ok.kind = "OK" /\ ok.sender = t
        /\ r \in Package /\ r.kind = "R" /\ r.sender = t
    <3>1. ok \in Package /\ r \in Package
      BY <1>1, NewPackageType, IdsType DEF Package, Kinds
    <3>. QED
      BY <3>1 DEF NewPackage
  <2>4. CASE Send_Payload(t)
    BY <1>1, <2>2, <2>4, WaveTransmit DEF Send_Payload, Truthful, Delays
  <2>5. CASE Send_Confirm_Primary(t)
    BY <1>1, <2>2, <2>3, <2>5, WaveTransmit DEF Send_Confirm_Primary, Truthful, Delays
  <2>6. CASE Send_Return(t)
    <3>1. 1 \in consumed
      BY <1>1, <2>6 DEF Send_Return, InHandler, Wave
    <3>. QED
      BY <1>1, <2>2, <2>3, <2>6, <3>1, WaveTransmit DEF Send_Return, Truthful, Delays
  <2>. QED
    BY <1>2, <2>4, <2>5, <2>6 DEF Sending
<1>3. ASSUME NEW s \in States, Become(t, Return(changeState(m, s))), UNCHANGED rx,
             UNCHANGED <<accepted, announced>>, consumed \subseteq consumed',
             s \in {"Send_Payload", "Receive_Confirm_Primary"} \/ 1 \in consumed',
             s # "Receive_Return"
      PROVE  WaveInv'
  <2> DEFINE n == Return(changeState(m, s))
  <2>1. n.state \in {m.state, s} /\ n.at # "gotReturn"
    BY <1>1, HelperStates DEF Idle, Asleep
  <2>2. Wave(accepted, consumed', t, n)
    BY <1>1, <1>3, <2>1 DEF Wave
  <2>3. announced' \subseteq consumed' /\ \A u \in Towers : accepted[u] \subseteq accepted'[u]
    BY <1>1, <1>3
  <2>4. Become(t, n)
    BY <1>3
  <2> HIDE DEF n
  <2>. QED
    BY <1>1, <1>3, <2>2, <2>3, <2>4, WaveStep
<1>4. CASE Send_Payload_Done(t)
  BY <1>3, <1>4 DEF Send_Payload_Done, States, history
<1>5. CASE Send_Return_Done(t)
  <2>1. 1 \in consumed
    BY <1>1, <1>5 DEF Send_Return_Done, Plain, DelayState, Wave
  <2>. QED
    BY <1>3, <1>5, <2>1 DEF Send_Return_Done, States, history
<1>6. CASE Receive_Return_Done(t)
  <2>1. 1 \in consumed
    BY <1>1, <1>6 DEF Receive_Return_Done, Wave
  <2>. QED
    BY <1>3, <1>6, <2>1 DEF Receive_Return_Done, States, history
<1>7. CASE Receive_Return_Confirm_Done(t)
  <2>1. Become(t, Off) /\ UNCHANGED <<rx, history>>
    BY <1>1, <1>7, PlainHelpers DEF Receive_Return_Confirm_Done, Plain, States, Asleep
  <2>2. Wave(accepted, consumed', t, Off)
    BY DEF Wave, Off, Asleep
  <2>. QED
    BY <1>1, <2>1, <2>2, WaveStep DEF history
<1>8. CASE Send_Confirm_Primary_Done(t)
  <2>1. m.at = "sentConfirm"
    BY <1>8 DEF Send_Confirm_Primary_Done
  <2>2. m.actualPackage.id = 1 /\ m.actualPackage.kind = "sensors"
    BY <1>1, <2>1, LoneId DEF Holding, InExchange, Waiting, Idle, Asleep
  <2>3. CASE m.actualPackage.dest = t
    <3> DEFINE k == changeState(m, "Send_Return")
    <3>1. k \in Manager /\ ~isText(m.actualPackage)
      BY <1>1, <2>2, ChangeStateType DEF States, isText
    <3>2. [k EXCEPT !.bluetooth_tower = k.bluetooth_tower] = k
      BY <3>1 DEF Manager
    <3>3. /\ Become(t, Return(k)) /\ UNCHANGED <<rx, accepted, announced>>
          /\ consumed' = consumed \cup {1}
      BY <1>8, <2>2, <2>3, <3>1, <3>2 DEF Send_Confirm_Primary_Done
    <3>. QED
      BY <1>3, <3>3 DEF States
  <2>4. CASE m.actualPackage.dest # t
    BY <1>3, <1>8, <2>4 DEF Send_Confirm_Primary_Done, States
  <2>. QED
    BY <2>3, <2>4
<1>9. CASE SendMeasurement(t)
  <2> DEFINE p == NewPackage("sensors", Server, t, measured)
             n == Return(sendPackage(m, p))
  <2>1. p \in Package
    BY <1>1, NewPackageType DEF TypeOK, Ids, Measurements, NoId, Kinds, Towers, Server
  <2>2. sendPackage(m, p) \in Manager /\ sendPackage(m, p).state \in {m.state, "Send_Payload"}
    <3>1. sendPackage(m, p) \in Manager
      BY <1>1, <2>1, SendPackageType
    <3>. QED
      BY <1>1, <3>1 DEF sendPackage, changeState, Manager
  <2>3. n.state \in {m.state, "Send_Payload"} /\ n.at # "gotReturn"
    BY <2>2 DEF Return, Manager, Idle, Asleep
  <2>4. Become(t, n) /\ Accept(t, measured) /\ UNCHANGED <<rx, consumed, announced>>
    BY <1>9 DEF SendMeasurement
  <2> HIDE DEF n
  <2>5. Wave(accepted, consumed, t, n)
    BY <1>1, <2>3, WaveState
  <2>6. \A u \in Towers : accepted[u] \subseteq accepted'[u]
    BY <1>1, <2>4 DEF Accept, TypeOK
  <2>. QED
    BY <1>1, <2>4, <2>5, <2>6, WaveStep
<1>10. CASE AcceptActual(t)
  <2> DEFINE c == changeState(m, "Send_Confirm_Primary")
             k == [c EXCEPT !.actualPackage.sender = t, !.transmitting = TRUE]
             n == Return(k)
  <2>1. c \in Manager /\ c.state \in {m.state, "Send_Confirm_Primary"} /\ c.at = "acceptActual"
    BY <1>1, <1>10, HelperStates DEF States, AcceptActual
  <2>2. k.state = c.state /\ k.at = "acceptActual"
    BY <2>1 DEF Manager
  <2>3. n.state = k.state /\ n.at = Idle
    BY <2>1, <2>2 DEF Return, Manager, Idle, Asleep
  <2>4. Become(t, n) /\ Accept(t, k.actualPackage.id) /\ UNCHANGED <<rx, consumed, announced>>
    BY <1>10 DEF AcceptActual
  <2> HIDE DEF n, k
  <2>5. Wave(accepted, consumed, t, n)
    BY <1>1, <2>1, <2>2, <2>3, WaveState DEF Idle
  <2>6. \A u \in Towers : accepted[u] \subseteq accepted'[u]
    BY <1>1, <2>4 DEF Accept, TypeOK
  <2>. QED
    BY <1>1, <2>4, <2>5, <2>6, WaveStep
<1>11. ~AcceptReceived(t)
  BY <1>1 DEF AcceptReceived, Plain
<1>. QED
  BY <1>2, <1>4, <1>5, <1>6, <1>7, <1>8, <1>9, <1>10, <1>11 DEF AfterDelay

\* What is heard is true, so that what the handlers conclude from it is.
LEMMA WaveReceiving ==
    ASSUME PathInv, ChainInv, LedgerInv, WaveInv, NEW t \in Towers, Receiving(t)
    PROVE  WaveInv'
<1> DEFINE m == lora[t]
           h == Heard(t)
           p == h.receivedPackage
<1>1. /\ TypeOK /\ m \in Manager /\ Plain(t, m)
      /\ Wave(accepted, consumed, t, m) /\ announced \subseteq consumed
  BY DEF PathInv, ChainInv, TypeOK, WaveInv
<1>2. CASE Receive_Payload(t)
  <2> DEFINE q == setPackage(m.actualPackage, rx[t])
             k == [m EXCEPT !.actualPackage = q]
             a == [k EXCEPT !.keepAlive = @ \/ iskeepAlive(q), !.at = "acceptActual"]
  <2>1. /\ k.state = m.state /\ k.at = m.at /\ a.state = m.state /\ a.at = "acceptActual"
        /\ m.at = Idle
    BY <1>1, <1>2 DEF Manager, Receive_Payload, InHandler
  <2>2. Become(t, k) \/ Become(t, a)
    BY <1>2 DEF Receive_Payload
  <2>3. Drain(t) /\ UNCHANGED history
    BY <1>2 DEF Receive_Payload
  <2> HIDE DEF k, a
  <2>4. Wave(accepted, consumed, t, k) /\ Wave(accepted, consumed, t, a)
    BY <1>1, <2>1, WaveState DEF Idle
  <2>. QED
    BY <1>1, <2>2, <2>3, <2>4, WaveStep DEF history
<1>3. ASSUME rx[t] # NoFrame
      PROVE  /\ p = rx[t] /\ p \in Package /\ Truthful(accepted, consumed, p) /\ OnItsWay(p)
             /\ h \in Manager /\ h.at = m.at /\ h.state = m.state
  <2>1. rx[t] \in Package /\ Truthful(accepted, consumed, rx[t]) /\ OnItsWay(rx[t])
    BY <1>3 DEF WaveInv, ChainInv
  <2>2. CrcError \notin Package
    BY DEF CrcError, Package, Kinds
  <2>3. setPackage(m.receivedPackage, rx[t]) = rx[t]
    BY <2>1, <2>2 DEF setPackage
  <2>4. p = rx[t]
    BY <1>1, <2>3 DEF Heard, Manager
  <2>5. h \in Manager /\ h.at = m.at /\ h.state = m.state
    BY <1>1, <2>1, <2>3 DEF Heard, Manager
  <2>. QED
    BY <2>1, <2>4, <2>5
<1>4. ASSUME NEW s \in States, NEW invalid, NEW otherwise,
             rx[t] # NoFrame => Wave(accepted, consumed, t, otherwise),
             Receive(t, s, invalid, otherwise)
      PROVE  WaveInv'
  <2> DEFINE n == IF invalid THEN h ELSE otherwise
  <2>1. rx[t] # NoFrame /\ Drain(t) /\ UNCHANGED history /\ m.at = Idle
    BY <1>4 DEF Receive, InHandler
  <2>2. ~iskeepAlive(p)
    BY <1>3, <2>1 DEF OnItsWay, iskeepAlive
  <2>3. Become(t, n)
    BY <1>4, <2>2 DEF Receive
  <2>4. Wave(accepted, consumed, t, h)
    BY <1>1, <1>3, <2>1, WaveState DEF Idle
  <2>5. Wave(accepted, consumed, t, n)
    BY <1>4, <2>1, <2>4
  <2> HIDE DEF n
  <2>. QED
    BY <1>1, <2>1, <2>3, <2>5, WaveStep DEF history
<1>5. CASE Receive_Confirm_Primary(t)
  <2> DEFINE otherwise ==
               IF ~FromNext(t, p) \/ p.dest = t THEN h
               ELSE IF SamePayload(p, h.actualPackage) \/ PayloadIs(p, "OK")
                    THEN changeState(h, "Receive_Return")
               ELSE IF PayloadIs(p, "R") THEN changeState(h, "Send_Return") ELSE h
  <2>1. m.at = Idle /\ m.state = "Receive_Confirm_Primary"
        /\ Receive(t, "Receive_Confirm_Primary", RefusesSensors(h, p) \/ PassesBack(t, h, p), otherwise)
    BY <1>5 DEF Receive_Confirm_Primary, Receive, InHandler
  <2>2. ASSUME rx[t] # NoFrame PROVE Wave(accepted, consumed, t, otherwise)
    <3>1. /\ Truthful(accepted, consumed, p) /\ p \in Package /\ p.dest = Server
          /\ h \in Manager /\ h.at = Idle /\ h.state = "Receive_Confirm_Primary"
      BY <1>3, <2>1, <2>2 DEF OnItsWay
    <3>2. /\ changeState(h, "Receive_Return").at = Idle
          /\ changeState(h, "Receive_Return").state \in {"Receive_Confirm_Primary", "Receive_Return"}
          /\ changeState(h, "Send_Return").at = Idle
          /\ changeState(h, "Send_Return").state \in {"Receive_Confirm_Primary", "Send_Return"}
      BY <3>1, HelperStates DEF States
    <3>3. FromNext(t, p) /\ p.dest # t => 1 \in accepted[t - 1]
      BY <3>1 DEF FromNext, Truthful, Towers, Server
    <3>4. PayloadIs(p, "R") => 1 \in consumed
      BY <3>1 DEF PayloadIs, Truthful
    <3>5. Wave(accepted, consumed, t, h)
      BY <3>1 DEF Wave, Idle
    <3>6. FromNext(t, p) /\ p.dest # t => Wave(accepted, consumed, t, changeState(h, "Receive_Return"))
      BY <3>2, <3>3 DEF Wave, Idle
    <3>7. PayloadIs(p, "R") => Wave(accepted, consumed, t, changeState(h, "Send_Return"))
      BY <3>2, <3>4 DEF Wave, Idle
    <3>. QED
      BY <3>5, <3>6, <3>7
  <2> HIDE DEF otherwise
  <2>. QED
    BY <1>4, <2>1, <2>2 DEF States
<1>6. CASE Receive_Return(t)
  <2> DEFINE otherwise == IF FromNext(t, p) /\ PayloadIs(p, "R")
                          THEN [h EXCEPT !.at = "gotReturn"] ELSE h
  <2>1. m.at = Idle /\ m.state = "Receive_Return"
        /\ Receive(t, "Receive_Return", PassesBack(t, h, p), otherwise)
    BY <1>6 DEF Receive_Return, Receive, InHandler
  <2>2. ASSUME rx[t] # NoFrame PROVE Wave(accepted, consumed, t, otherwise)
    <3>1. Truthful(accepted, consumed, p) /\ h \in Manager /\ h.at = Idle /\ h.state = m.state
      BY <1>3, <2>1, <2>2
    <3>2. PayloadIs(p, "R") => 1 \in consumed
      BY <3>1 DEF PayloadIs, Truthful
    <3>3. [h EXCEPT !.at = "gotReturn"].state = m.state
      BY <3>1 DEF Manager
    <3>. QED
      BY <1>1, <3>1, <3>2, <3>3 DEF Wave, Idle
  <2> HIDE DEF otherwise
  <2>. QED
    BY <1>4, <2>1, <2>2 DEF States
<1>7. CASE Receive_Return_Confirm(t)
  <2> DEFINE otherwise == IF FromPrevious(t, p) /\ PayloadIs(p, "R")
                          THEN [h EXCEPT !.at = "gotReturnConfirm"] ELSE h
  <2>1. m.at = Idle /\ Receive(t, "Receive_Return_Confirm", PassesBack(t, h, p), otherwise)
    BY <1>7 DEF Receive_Return_Confirm, Receive, InHandler
  <2>2. ASSUME rx[t] # NoFrame PROVE Wave(accepted, consumed, t, otherwise)
    <3>1. h \in Manager /\ h.at = Idle /\ h.state = m.state
      BY <1>3, <2>1, <2>2
    <3>2. /\ [h EXCEPT !.at = "gotReturnConfirm"].state = m.state
          /\ [h EXCEPT !.at = "gotReturnConfirm"].at = "gotReturnConfirm"
      BY <3>1 DEF Manager
    <3>. QED
      BY <1>1, <3>1, <3>2 DEF Wave, Idle
  <2> HIDE DEF otherwise
  <2>. QED
    BY <1>4, <2>1, <2>2 DEF States
<1>. QED
  BY <1>2, <1>5, <1>6, <1>7 DEF Receiving

\* A retransmission repeats what is true; who sleeps knows nothing; the originator
\* succeeds when the measurement has been consumed.
LEMMA WaveEnding ==
    ASSUME PathInv, ChainInv, LedgerInv, WaveInv, measured <= 1,
           NEW t \in Towers, Retransmit(t) \/ GiveUp(t) \/ Succeed(t)
    PROVE  WaveInv'
<1> DEFINE m == lora[t]
<1>1. /\ TypeOK /\ m \in Manager /\ Plain(t, m)
      /\ Wave(accepted, consumed, t, m) /\ announced \subseteq consumed
  BY DEF PathInv, ChainInv, TypeOK, WaveInv
<1>2. CASE RetransmitPayload(t) \/ RetransmitReturn(t)
  <2>1. PICK s \in {"Send_Payload", "Send_Return"} :
          /\ Become(t, changeState(m, s)) /\ UNCHANGED <<rx, history>>
          /\ m.at = Idle /\ s = "Send_Return" => m.state = "Receive_Return_Confirm"
    BY <1>2 DEF RetransmitPayload, RetransmitReturn, InHandler
  <2>2. changeState(m, s).state \in {m.state, s} /\ changeState(m, s).at = Idle
    BY <1>1, <1>2, <2>1, HelperStates DEF States, RetransmitPayload, RetransmitReturn, InHandler
  <2>3. Wave(accepted, consumed, t, changeState(m, s))
    BY <1>1, <1>2, <2>1, <2>2 DEF Wave, Idle, RetransmitPayload, RetransmitReturn, InHandler
  <2>. QED
    BY <1>1, <2>1, <2>3, WaveStep DEF history
<1>3. Wave(accepted, consumed, t, Off)
  BY DEF Wave, Off, Asleep
<1>4. m.at = Idle => Sleep(m) = Off
  BY <1>1, PlainHelpers DEF Plain, States, Idle, Asleep
<1>5. CASE GlobalTimeout(t)
  <2>1. Become(t, Off) /\ Drain(t) /\ UNCHANGED history
    BY <1>4, <1>5 DEF GlobalTimeout
  <2>. QED
    BY <1>1, <1>3, <2>1, WaveStep DEF history
<1>6. CASE Succeed(t)
  <2>1. /\ m.at = Idle /\ m.state = "Receive_Return_Confirm" /\ Become(t, Off) /\ Drain(t)
        /\ announced' = announced \cup {m.actualPackage.id} /\ UNCHANGED <<accepted, consumed>>
    BY <1>4, <1>6 DEF Succeed, InHandler
  <2>2. m.actualPackage.id = 1
    BY <2>1, LoneId DEF Holding, InExchange, Idle, Asleep
  <2>3. announced' \subseteq consumed'
    BY <1>1, <2>1, <2>2 DEF Wave
  <2>. QED
    BY <1>1, <1>3, <2>1, <2>3, WaveStep
<1>7. ~BluetoothTimeout(t)
  BY <1>1 DEF BluetoothTimeout, Plain
<1>. QED
  BY <1>2, <1>5, <1>6, <1>7 DEF Retransmit, GiveUp

\* A tower that wakes knows nothing yet.
LEMMA WaveWake ==
    ASSUME PathInv, WaveInv, NEW t \in Towers, WakeByTimer(t)
    PROVE  WaveInv'
<1>1. TypeOK /\ announced \subseteq consumed
  BY DEF PathInv, WaveInv
<1>2. PICK n : /\ Become(t, n) /\ UNCHANGED <<rx, history>>
               /\ n.state \in {"Send_Payload", "Receive_Payload"} /\ n.at # "gotReturn"
  <2> DEFINE a == receivePackage(Booted)
             b == [Booted EXCEPT !.at = "measuring"]
  <2>1. /\ a.state = "Receive_Payload" /\ a.at = Idle
        /\ b.state = "Send_Payload" /\ b.at = "measuring"
    BY DEF receivePackage, changeState, Booted, Off
  <2>2. Become(t, a) \/ Become(t, b)
    BY DEF WakeByTimer
  <2>3. UNCHANGED <<rx, history>>
    BY DEF WakeByTimer
  <2> HIDE DEF a, b
  <2>. QED
    BY <2>1, <2>2, <2>3 DEF Idle
<1>3. Wave(accepted, consumed, t, n)
  BY <1>2 DEF Wave
<1>. QED
  BY <1>1, <1>2, <1>3, WaveStep DEF history

\* Measurements and corrupted frames are counted, never taken back.
LEMMA LoneBefore ==
    ASSUME TypeOK, [Next]_vars, Lone'
    PROVE  Lone
<1>1. measured \in Nat /\ crcErrors \in Nat
  BY DEF TypeOK
<1>2. ASSUME NEW t \in Towers, NEW p, NEW delay, Transmit(t, p, delay)
      PROVE  UNCHANGED measured /\ crcErrors' >= crcErrors
  <2>1. PICK heard \in SUBSET Towers : \E garbled \in SUBSET Towers :
            crcErrors' = crcErrors + Cardinality(garbled)
    BY <1>2 DEF Transmit
  <2>2. PICK garbled \in SUBSET Towers : crcErrors' = crcErrors + Cardinality(garbled)
    BY <2>1
  <2>3. Cardinality(garbled) \in Nat
    BY TowersFinite, FS_Subset, FS_CardinalityType
  <2>. QED
    BY <1>1, <1>2, <2>2, <2>3 DEF Transmit
<1>3. ASSUME NEW t \in Towers, LoRaThread(t) \/ GiveUp(t)
      PROVE  UNCHANGED measured /\ crcErrors' >= crcErrors
  <2>1. CASE Sending(t)
    BY <1>2, <2>1 DEF Sending, Send_Payload, Send_Confirm_Primary, Send_Return
  <2>2. CASE ~Sending(t)
    BY <1>1, <1>3, <2>2 DEF LoRaThread, AfterDelay, SendMeasurement, Send_Payload_Done,
       Send_Confirm_Primary_Done, Send_Return_Done, AcceptActual, AcceptReceived,
       Receive_Return_Done, Receive_Return_Confirm_Done, Receiving, Receive_Payload,
       Receive_Confirm_Primary, Receive_Return, Receive_Return_Confirm, Receive, Retransmit,
       RetransmitPayload, RetransmitReturn, Succeed, GiveUp, GlobalTimeout, BluetoothTimeout, bounds
  <2>. QED
    BY <2>1, <2>2
<1>4. ASSUME NEW t \in Towers, BluetoothThread(t) \/ Environment(t)
      PROVE  measured' \in {measured, measured + 1} /\ crcErrors' >= crcErrors
  BY <1>1, <1>4 DEF BluetoothThread, BluetoothNotified, BluetoothOn, BluetoothOrders, Environment,
     WakeByTimer, WakeByButton, ButtonPressed, SendFromBluetooth, WifiOrders, SendFromWifi,
     HandOver, bounds
<1>5. measured <= measured' /\ crcErrors <= crcErrors'
  <2>1. CASE UNCHANGED vars
    BY <1>1, <2>1 DEF vars, bounds
  <2>. QED
    BY <1>1, <1>3, <1>4, <2>1 DEF Next
<1>6. measured' \in Int /\ crcErrors' = 0 /\ measured' <= 1
  <2>1. crcErrors' = 0 /\ measured' <= 1
    BY DEF Lone
  <2>. QED
    BY <1>1, <1>3, <1>4, <2>1 DEF Next, vars, bounds
<1>. QED
  BY <1>1, <1>5, <1>6, QuietBefore DEF Lone

\* The invariant of the single measurement is inductive too.
LEMMA WaveInvariant ==
    ASSUME ~LongMessages
    PROVE  Spec => [](Lone => WaveInv)
<1> DEFINE Inv == Lone => WaveInv
           Once == Quiet => ChainInv /\ LedgerInv
<1>1. Init => Inv
  <2> SUFFICES ASSUME Init PROVE WaveInv
    OBVIOUS
  <2>1. \A t \in Towers : lora[t] = Off /\ rx[t] = NoFrame
    BY DEF Init
  <2>2. Off.state = "Send_Payload" /\ Off.at # "gotReturn"
    BY DEF Off, Asleep
  <2>. QED
    BY <2>1, <2>2 DEF WaveInv, Wave, Init
<1>2. PathInv /\ Once /\ Once' /\ Inv /\ [Next]_vars => Inv'
  <2> SUFFICES ASSUME PathInv, Once, Inv, [Next]_vars, Lone' PROVE WaveInv'
    OBVIOUS
  <2>1. /\ Lone /\ WaveInv /\ ChainInv /\ LedgerInv /\ Quiet' /\ measured <= 1
        /\ crcErrors = 0 /\ crcErrors' = 0
    BY LoneBefore DEF PathInv, Lone
  <2>2. ASSUME NEW t \in Towers, LoRaThread(t) \/ GiveUp(t) \/ BluetoothThread(t) \/ Environment(t)
        PROVE  WaveInv'
    BY <2>1, <2>2, WaveSending, WaveReceiving, WaveEnding, QuietEnvironment, WaveWake
       DEF LoRaThread
  <2>3. CASE UNCHANGED vars
    BY <2>1, <2>3 DEF WaveInv, vars, history
  <2>. QED
    BY <2>2, <2>3 DEF Next
<1>. QED
  BY <1>1, <1>2, PathInvariant, OnceInvariant, PTL DEF Spec

\* What the invariants say in a state in which one measurement has been taken.
LEMMA LoneStates ==
    ASSUME PathInv, ChainInv, LedgerInv, WaveInv, measured <= 1
    PROVE  CustodyPassedOn /\ ReturnMeansConsumed /\ SuccessMeansConsumed
<1>1. \A t \in Towers : lora[t] \in Manager /\ Plain(t, lora[t])
                        /\ Wave(accepted, consumed, t, lora[t])
  BY DEF PathInv, TypeOK, ChainInv, WaveInv
<1>2. ASSUME NEW t \in Towers \ {Server}, InHandler(t, "Receive_Return")
      PROVE  lora[t].actualPackage.id \in accepted[t - 1]
  <2>1. Holding(lora[t])
    BY <1>2 DEF InHandler, Holding, InExchange, Idle, Asleep
  <2>. QED
    BY <1>1, <1>2, <2>1, LoneId DEF Wave, InHandler
<1>3. ASSUME NEW t \in Towers, lora[t].at # Asleep,
             lora[t].state \in {"Send_Return", "Receive_Return_Confirm"}
      PROVE  lora[t].actualPackage.id \in consumed
  <2>1. Holding(lora[t])
    BY <1>1, <1>3 DEF Plain, DelayState, Holding, InExchange
  <2>. QED
    BY <1>1, <1>3, <2>1, LoneId DEF Wave
<1>. QED
  BY <1>2, <1>3 DEF CustodyPassedOn, ReturnMeansConsumed, SuccessMeansConsumed, WaveInv

\* As long as one measurement has been taken, no frame corrupted, no button pressed and
\* no text handed over: a tower stops retransmitting the measurement only when the
\* next tower down has taken charge of it (LoraManager.cpp:225-266), ...
THEOREM CustodyCorrect ==
    ASSUME ~LongMessages
    PROVE  Spec => [](Lone => CustodyPassedOn)
<1>1. PathInv /\ (Quiet => ChainInv /\ LedgerInv) /\ (Lone => WaveInv) => (Lone => CustodyPassedOn)
  BY LoneStates DEF Lone
<1>. QED
  BY <1>1, PathInvariant, OnceInvariant, WaveInvariant, PTL

\* ... only a tower that is past consumeInfo's call starts or passes on an "R"
\* (LoraManager.cpp:130-136 and 268-318), ...
THEOREM ReturnCorrect ==
    ASSUME ~LongMessages
    PROVE  Spec => [](Lone => ReturnMeansConsumed)
<1>1. PathInv /\ (Quiet => ChainInv /\ LedgerInv) /\ (Lone => WaveInv) => (Lone => ReturnMeansConsumed)
  BY LoneStates DEF Lone
<1>. QED
  BY <1>1, PathInvariant, OnceInvariant, WaveInvariant, PTL

\* ... and "Communication Successful" is true (LoraManager.cpp:312-316).
THEOREM SuccessCorrect ==
    ASSUME ~LongMessages
    PROVE  Spec => [](Lone => SuccessMeansConsumed)
<1>1. PathInv /\ (Quiet => ChainInv /\ LedgerInv) /\ (Lone => WaveInv) => (Lone => SuccessMeansConsumed)
  BY LoneStates DEF Lone
<1>. QED
  BY <1>1, PathInvariant, OnceInvariant, WaveInvariant, PTL

---------------------------------------------------------------------------
(***************************************************************************)
(* The refinement of MeasurementDelivery.                                  *)
(***************************************************************************)

\* Which steps are visible: one begins a measurement, one calls consumeInfo at the
\* server, one reports success; no other touches what MeasurementDelivery sees.
LEMMA VisibleSteps ==
    ASSUME PathInv, ChainInv, LedgerInv, Quiet', ~LongMessages, Next
    PROVE  \/ /\ measured < MaxMeasurements /\ measured' = measured + 1
              /\ UNCHANGED <<consumed, repeated, announced>>
           \/ \E i \in 1..measured : /\ i \notin consumed /\ consumed' = consumed \cup {i}
                                     /\ UNCHANGED <<measured, repeated, announced>>
           \/ \E t \in Towers : /\ Holding(lora[t])
                                /\ announced' = announced \cup {lora[t].actualPackage.id}
                                /\ UNCHANGED <<measured, consumed, repeated>>
           \/ UNCHANGED <<measured, consumed, repeated, announced>>
<1>1. PICK t \in Towers : LoRaThread(t) \/ GiveUp(t) \/ BluetoothThread(t) \/ Environment(t)
  BY DEF Next
<1>2. CASE BluetoothThread(t) \/ Environment(t)
  BY <1>2, QuietEnvironment DEF WakeByTimer, history
<1>3. CASE Send_Confirm_Primary_Done(t)
  <2> DEFINE m == lora[t]
             id == m.actualPackage.id
  <2>1. /\ Plain(t, m) /\ Waiting(accepted, t, m) /\ Sound(accepted, t, m)
    BY DEF PathInv, ChainInv
  <2>2. m.state = "Send_Confirm_Primary" /\ m.actualPackage.dest = Server /\ id \in accepted[t]
    BY <1>3, <2>1 DEF Send_Confirm_Primary_Done, Plain, DelayState, Waiting, Sound, VouchedBy,
                      Holding, InExchange, Idle, Asleep
  <2>3. id \in 1..measured
    BY <2>2 DEF LedgerInv
  <2>4. CASE t = Server
    <3>1. id \notin consumed
      BY <2>2, <2>4 DEF LedgerInv
    <3>2. /\ consumed' = consumed \cup {id} /\ repeated' = repeated \cup (consumed \cap {id})
          /\ UNCHANGED <<measured, announced>>
      BY <1>3, <2>2, <2>4 DEF Send_Confirm_Primary_Done, bounds
    <3>. QED
      BY <2>3, <3>1, <3>2
  <2>5. CASE t # Server
    BY <1>3, <2>2, <2>5 DEF Send_Confirm_Primary_Done, bounds
  <2>. QED
    BY <2>4, <2>5
<1>4. CASE Succeed(t)
  BY <1>4 DEF Succeed, InHandler, Holding, InExchange, Idle, Asleep, bounds
<1>5. CASE Sending(t)
  BY <1>5 DEF Sending, Send_Payload, Send_Confirm_Primary, Send_Return, Transmit, history
<1>6. CASE \/ SendMeasurement(t) \/ Send_Payload_Done(t) \/ Send_Return_Done(t)
           \/ AcceptActual(t) \/ AcceptReceived(t)
           \/ Receive_Return_Done(t) \/ Receive_Return_Confirm_Done(t)
           \/ Receiving(t) \/ Retransmit(t) \/ GiveUp(t)
  BY <1>6 DEF SendMeasurement, Send_Payload_Done, Send_Return_Done, AcceptActual, AcceptReceived,
     Receive_Return_Done, Receive_Return_Confirm_Done, Receiving, Receive_Payload,
     Receive_Confirm_Primary, Receive_Return, Receive_Return_Confirm, Receive, Retransmit,
     RetransmitPayload, RetransmitReturn, GiveUp, GlobalTimeout, BluetoothTimeout, bounds, history
<1>. QED
  BY <1>1, <1>2, <1>3, <1>4, <1>5, <1>6 DEF LoRaThread, AfterDelay

\* A chain of any length keeps what MeasurementDelivery promises of a single
\* measurement over a radio that corrupts nothing, however many frames are lost and
\* whoever times out: it is delivered at most once and reported successful only if
\* it has been delivered (LoraManager.cpp:130-136 and 312-316).
THEOREM DeliveryCorrect ==
    ASSUME ~LongMessages, MaxTexts = 0, MaxPresses = 0, MaxMeasurements <= 1, MaxCrcErrors = 0
    PROVE  Spec => DeliveryPromise
<1> DEFINE Inv == PathInv /\ ChainInv /\ LedgerInv /\ WaveInv
           seen == <<measured, Deliveries, announced \cap Measurements>>
<1>1. TypeOK => Lone
  BY DEF TypeOK, Lone, Quiet
<1>2. Lone => Quiet
  BY DEF Lone
<1>3. Spec => []Inv
  BY <1>1, <1>2, TypeCorrect, PathInvariant, OnceInvariant, WaveInvariant, PTL
<1>4. Init => Delivery!Init
  BY DEF Init, Delivery!Init, Deliveries, Measurements
<1>5. Inv /\ Inv' /\ [Next]_vars => [Delivery!Next]_seen
  <2> SUFFICES ASSUME Inv, Inv', Next PROVE Delivery!Next \/ UNCHANGED seen
    BY DEF vars, bounds, history, Deliveries
  <2>1. /\ TypeOK /\ repeated = {} /\ announced \subseteq consumed /\ Quiet'
        /\ measured \in 0..MaxMeasurements /\ repeated' = {} /\ announced' \subseteq consumed'
    <3>1. TypeOK /\ TypeOK'
      BY DEF PathInv
    <3>2. Quiet'
      BY <3>1 DEF TypeOK, Quiet
    <3>3. measured \in 0..MaxMeasurements
      BY <3>1 DEF TypeOK
    <3>. QED
      BY <3>1, <3>2, <3>3 DEF LedgerInv, WaveInv
  <2>2. CASE /\ measured < MaxMeasurements /\ measured' = measured + 1
             /\ UNCHANGED <<consumed, repeated, announced>>
    BY <2>2 DEF Delivery!Next, Delivery!Take, Deliveries
  <2>3. ASSUME NEW i \in 1..measured, i \notin consumed, consumed' = consumed \cup {i},
               UNCHANGED <<measured, repeated, announced>>
        PROVE  Delivery!Next
    <3>1. i \in Measurements
      BY <2>1 DEF Measurements
    <3>2. Deliveries[i] = 0 /\ Deliveries' = [Deliveries EXCEPT ![i] = 1]
      BY <2>1, <2>3, <3>1 DEF Deliveries
    <3>3. Delivery!Deliver(i)
      BY <2>1, <2>3, <3>1, <3>2 DEF Delivery!Deliver
    <3>. QED
      BY <3>1, <3>3 DEF Delivery!Next, Measurements
  <2>4. ASSUME NEW t \in Towers, Holding(lora[t]),
               announced' = announced \cup {lora[t].actualPackage.id},
               UNCHANGED <<measured, consumed, repeated>>
        PROVE  Delivery!Next \/ UNCHANGED seen
    <3> DEFINE i == lora[t].actualPackage.id
    <3>1. i = 1
      BY <2>1, <2>4, LoneId
    <3>2. i \in consumed
      BY <2>1, <2>4
    <3>3. 1 \in Measurements
      BY <2>1, <3>1, <3>2 DEF LedgerInv, Measurements, Towers, Server
    <3>4. Deliveries[1] = 1 /\ UNCHANGED <<measured, Deliveries>>
      BY <2>1, <2>4, <3>1, <3>2, <3>3 DEF Deliveries
    <3>5. CASE 1 \in announced
      BY <2>4, <3>1, <3>4, <3>5
    <3>6. CASE 1 \notin announced
      <4>1. (announced \cap Measurements)' = (announced \cap Measurements) \cup {1}
        BY <2>4, <3>1, <3>3 DEF Measurements
      <4>2. Delivery!Report(1)
        BY <3>4, <3>6, <4>1 DEF Delivery!Report
      <4>. QED
        BY <3>3, <4>2 DEF Delivery!Next, Measurements
    <3>. QED
      BY <3>5, <3>6
  <2>5. CASE UNCHANGED <<measured, consumed, repeated, announced>>
    BY <2>5 DEF Deliveries
  <2>. QED
    BY <2>1, <2>2, <2>3, <2>4, <2>5, VisibleSteps
<1>. QED
  BY <1>3, <1>4, <1>5, PTL DEF Spec, DeliveryPromise, Delivery!Spec
=============================================================================
