----------------------------- MODULE LoraPackages -----------------------------
(***************************************************************************)
(* Packages byte by byte (LoraPackage.cpp), and what becomes of the        *)
(* readings of a measurement on their way: converted by thread_LoRa on the *)
(* main tower, encapsulated, decapsulated and encapsulated again by every  *)
(* repeater, which puts its own battery in, and published by the server.   *)
(* Texts go through the same objects: a text leaves the readings of the    *)
(* package before it in place, and an empty text leaves all of it.         *)
(*                                                                         *)
(* The protocol (LoraTowers) is reduced to who has taken charge of a       *)
(* package: a tower in charge transmits it, any number of times, and any   *)
(* tower may hear it or miss it.                                           *)
(***************************************************************************)
EXTENDS Integers, Sequences

CONSTANTS
    MainTower,       \* TOWER_NUMBER of the main tower; the server is tower 0
    Battery,         \* repeater -> what measure_batt2 returns, in mV
    Sensed,          \* what the main tower's sensors may return
    TextKinds,       \* bound: what isText they are handed over with, of 1..3
    TextPayloads,    \* the texts handed over by the other threads, as bytes
    MaxMeasurements, \* bound: measurements
    MaxTexts         \* bound: texts

Server == 0
Towers == 0..MainTower
Repeaters == 1..(MainTower - 1)

\* What one and two bytes hold.
Byte  == 0..255
Short == 0..65535

ASSUME MainTowerAssumption == MainTower \in 1..255
ASSUME BatteryAssumption == Battery \in [Repeaters -> Short]
ASSUME SensedAssumption == Sensed \subseteq
    [sixteenths : Int, humidity : Int, soil : Int, rain : Int, wind : Int, battery : Int]
ASSUME TextAssumption == TextPayloads \subseteq Seq(Byte) /\ TextKinds \subseteq 1..3
ASSUME BoundAssumption == MaxMeasurements \in Nat /\ MaxTexts \in Nat

---------------------------------------------------------------------------
(***************************************************************************)
(* The readings.                                                           *)
(***************************************************************************)
\* Integer division and conversion of C: towards zero.
Quotient(a, b) == IF a >= 0 THEN a \div b ELSE -((-a) \div b)
Percentage(v)  == IF v > 100 THEN 100 ELSE IF v < 0 THEN 0 ELSE v

\* (int)readings[i]*10 drops the fraction of the degree before it multiplies.
temperature(sixteenths) == Quotient(sixteenths, 16) * 10

measure_wind(mv) == mv - 75

\* The sensors' values: sixteenths of a degree (DS18B20), per cent (DHT11) and mV.
Converted(s) ==
    [temperature   |-> temperature(s.sixteenths),
     air_humidity  |-> s.humidity,
     soil_humidity |-> Percentage(Quotient(-100 * (s.soil - 2172), 1183)),
     wind_speed    |-> Quotient(measure_wind(s.wind), 10),
     rain          |-> Percentage(Quotient(-100 * (s.rain - 3165), 1668)),
     battery1      |-> s.battery,
     battery2      |-> 0]

NoReadings == [temperature |-> 0, air_humidity |-> 0, soil_humidity |-> 0,
               wind_speed |-> 0, rain |-> 0, battery1 |-> 0, battery2 |-> 0]

---------------------------------------------------------------------------
(***************************************************************************)
(* LoraPackage.  An int is copied to the package as its two low bytes, and *)
(* read back as an unsigned number of two bytes.                           *)
(***************************************************************************)
Low(v)  == v % 256
High(v) == (v \div 256) % 256

Word(b, i) == b[i] + 256 * b[i + 1]

\* The fourteen bytes of the readings.
ReadingBytes(r) ==
    <<Low(r.temperature),   High(r.temperature),
      Low(r.air_humidity),  High(r.air_humidity),
      Low(r.soil_humidity), High(r.soil_humidity),
      Low(r.wind_speed),    High(r.wind_speed),
      Low(r.rain),          High(r.rain),
      Low(r.battery1),      High(r.battery1),
      Low(r.battery2),      High(r.battery2)>>

HeaderSize == 6
SumSize    == 2
SensorsSize(isText) == IF isText # 0 THEN 0 ELSE 14

\* Everything but the sum.
Contents(p) ==
    <<Low(p.destiny_number), Low(p.sender_number), p.isText, p.isInfo, p.iskeepAlive,
      Low(p.original_number)>>
    \o (IF p.isText # 0 THEN <<>> ELSE ReadingBytes(p.readings))
    \o p.payload

Sum(bytes) ==
    LET partial[n \in 0..Len(bytes)] == IF n = 0 THEN 0 ELSE partial[n - 1] + bytes[n]
    IN  partial[Len(bytes)] % 65536

\* Mutant: the sum runs over the bytes of the sum of the package before as well.
calculateSumOverAll(package) == Sum(package)

calculateSum(package) == Sum(SubSeq(package, 1, Len(package) - SumSize))

encapsulate(p) ==
    LET sum == Sum(Contents(p))
    IN  [p EXCEPT !.package = Contents(p) \o <<Low(sum), High(sum)>>]

\* Mutant: the readings are taken to be there whatever the kind of package.
PayloadStartAlways(isText) == HeaderSize + 14

PayloadStart(isText) == HeaderSize + SensorsSize(isText)

decapsulate(p) ==
    LET b == p.package
    IN  [destiny_number |-> b[1], sender_number |-> b[2], isText |-> b[3], isInfo |-> b[4],
         iskeepAlive |-> b[5], original_number |-> b[6],
         readings |-> IF b[3] # 0 THEN p.readings ELSE
             [temperature |-> Word(b, 7), air_humidity |-> Word(b, 9),
              soil_humidity |-> Word(b, 11), wind_speed |-> Word(b, 13),
              rain |-> Word(b, 15), battery1 |-> Word(b, 17), battery2 |-> Word(b, 19)],
         payload |-> SubSeq(b, PayloadStart(b[3]) + 1, Len(b) - SumSize),
         package |-> b]

\* A transmission of no bytes leaves the package as it is.
setPackage(p, bytes) == IF bytes = <<>> THEN p ELSE decapsulate([p EXCEPT !.package = bytes])

\* setPayload for the payload pay: an empty one is ignored.
setPayload(p, pay, destiny, sender, ka, info, txt, readings) ==
    IF pay = <<>> THEN p ELSE
    encapsulate([destiny_number |-> destiny, sender_number |-> sender, original_number |-> sender,
                 isText |-> txt, isInfo |-> info, iskeepAlive |-> ka, readings |-> readings,
                 payload |-> pay, package |-> <<>>])

setSenderNumber(p, t) == encapsulate([p EXCEPT !.sender_number = t])

\* Mutant: the main tower's battery is overwritten instead.
setBatteryOfMain(p, mv) == encapsulate([p EXCEPT !.readings.battery1 = mv])

setBattery2(p, mv) == encapsulate([p EXCEPT !.readings.battery2 = mv])

\* The zeroed object of a tower that has booted.
Blank == [destiny_number |-> 0, sender_number |-> 0, original_number |-> 0, isText |-> 0,
          isInfo |-> 0, iskeepAlive |-> 0, readings |-> NoReadings, payload |-> <<>>,
          package |-> <<>>]

---------------------------------------------------------------------------
VARIABLES
    actualPackage,  \* tower -> its LoraManager's actualPackage
    charge,         \* tower -> whether it is in charge of it, and how it came to be
    texts,          \* texts handed over so far
    measured,       \* history: the readings of the measurements taken
    written,        \* history: the texts handed over
    published,      \* history: what MQTTpublish has been called with
    delivered       \* history: the texts consumeInfo has been called for

vars == <<actualPackage, charge, texts, measured, written, published, delivered>>

Free(t) == charge[t] = "none"

Init ==
    /\ actualPackage = [t \in Towers |-> Blank]
    /\ charge = [t \in Towers |-> "none"]
    /\ texts = 0
    /\ measured = <<>> /\ published = {}
    /\ written = {} /\ delivered = {}

\* sendPackage, from thread_LoRa with the readings and the payload "T" (84), ...
Measure(s) ==
    /\ Free(MainTower) /\ Len(measured) < MaxMeasurements
    /\ measured' = Append(measured, Converted(s))
    /\ actualPackage' = [actualPackage EXCEPT ![MainTower] =
           setPayload(@, <<84>>, Server, MainTower, 0, 1, 0, Converted(s))]
    /\ charge' = [charge EXCEPT ![MainTower] = "sender"]
    /\ UNCHANGED <<texts, written, published, delivered>>

\* ... or from another thread with a text and no readings.
SendText(t, text, destiny, txt) ==
    /\ Free(t) /\ texts < MaxTexts
    /\ texts' = texts + 1 /\ written' = written \cup {text}
    /\ actualPackage' = [actualPackage EXCEPT ![t] =
           setPayload(@, text, destiny, t, 1, 1, txt, NoReadings)]
    /\ charge' = [charge EXCEPT ![t] = "sender"]
    /\ UNCHANGED <<measured, published, delivered>>

\* What a tower in charge of its actualPackage transmits: the package, "OK" or "R" (the
\* last two with their terminating zero, and with setPayload's default arguments).
Transmissions(u) ==
    {actualPackage[u].package} \cup
    {setPayload(Blank, pay, actualPackage[u].destiny_number, u, 0, 0, 1, NoReadings).package :
        pay \in {<<79, 75, 0>>, <<82, 0>>}}

\* The tests of Receive_Payload on the package it has just decapsulated.
FromNeighbour(p, t) ==
    \/ p.destiny_number <= t /\ p.sender_number = t + 1
    \/ p.destiny_number >= t /\ p.sender_number = t - 1
SumAgrees(p) == Word(p.package, Len(p.package) - 1) = calculateSum(p.package)

Acceptable(p, t) == FromNeighbour(p, t) /\ p.package # <<>> /\ SumAgrees(p) /\ p.isInfo # 0

\* The package t passes on: a repeater that has measured its battery puts it in.
Relayed(p, t) ==
    LET mv == IF t \in Repeaters THEN Battery[t] ELSE 0
    IN  setSenderNumber(IF p.isText = 0 /\ mv # 0 THEN setBattery2(p, mv) ELSE p, t)

\* Receive_Payload: t hears what u transmits, or nothing of it (a CRC error).  Whether t
\* refuses it for its session or for the direction (lines 167-170) is left open.
Receive_Payload(t, u) ==
    /\ Free(t) /\ ~Free(u)
    /\ \E bytes \in Transmissions(u) \cup {<<>>} :
           LET p == setPackage(actualPackage[t], bytes)
           IN  \/ actualPackage' = [actualPackage EXCEPT ![t] = p] /\ UNCHANGED charge
              \/ /\ Acceptable(p, t)
                 /\ actualPackage' = [actualPackage EXCEPT ![t] = Relayed(p, t)]
                 /\ charge' = [charge EXCEPT ![t] = "receiver"]
    /\ UNCHANGED <<texts, measured, written, published, delivered>>

\* The handlers that hear into receivedPackage while t is in charge: a text may take over,
\* without a look at its sum, from any tower that sends it in the right direction.
\* receivedPackage is decapsulated anew from each frame and keeps of those before only the
\* readings under a text: here those of any measurement, or none.
Directed(p, t) ==
    /\ ~(p.sender_number > t /\ p.destiny_number > t)
    /\ ~(p.sender_number < t /\ p.destiny_number < t)

TakeOver(t, u) ==
    /\ ~Free(t) /\ ~Free(u) /\ t # u
    /\ \E bytes \in Transmissions(u) \ {<<>>},
          left \in {NoReadings} \cup {measured[i] : i \in DOMAIN measured} :
           LET receivedPackage == setPackage([Blank EXCEPT !.readings = left], bytes)
           IN  /\ receivedPackage.isInfo # 0 /\ receivedPackage.iskeepAlive # 0
               /\ Directed(receivedPackage, t)
               /\ actualPackage' = [actualPackage EXCEPT ![t] = setSenderNumber(receivedPackage, t)]
    /\ charge' = [charge EXCEPT ![t] = "receiver"]
    /\ UNCHANGED <<texts, measured, written, published, delivered>>

\* consumeInfo at the destination, perhaps more than once.
consumeInfo(t) ==
    LET p == actualPackage[t]
    IN  /\ charge[t] = "receiver" /\ p.destiny_number = t
        /\ IF p.isText # 0
           THEN delivered' = delivered \cup {p.payload} /\ UNCHANGED published
           ELSE published' = published \cup {p.readings} /\ UNCHANGED delivered
        /\ UNCHANGED <<actualPackage, charge, texts, measured, written>>

\* The exchange is over, or given up; deep sleep, outside a session, forgets the package.
Sleep(t) ==
    /\ ~Free(t)
    /\ charge' = [charge EXCEPT ![t] = "none"]
    /\ \/ UNCHANGED actualPackage
       \/ actualPackage' = [actualPackage EXCEPT ![t] = Blank]
    /\ UNCHANGED <<texts, measured, written, published, delivered>>

Next ==
    \/ \E s \in Sensed : Measure(s)
    \/ \E t, d \in Towers, text \in TextPayloads, txt \in TextKinds :
           (t = Server) # (d = Server) /\ SendText(t, text, d, txt)
    \/ \E t, u \in Towers : Receive_Payload(t, u) \/ TakeOver(t, u)
    \/ \E t \in Towers : consumeInfo(t) \/ Sleep(t)

Spec == Init /\ [][Next]_vars

---------------------------------------------------------------------------
(***************************************************************************)
(* Properties.                                                             *)
(***************************************************************************)
\* The battery a package carries that was sent by tower s: that of the repeater nearest
\* to the server, among those it has passed that have measured theirs.
BatteryAt(s) ==
    LET known == {t \in Repeaters : t >= s /\ Battery[t] # 0}
    IN  IF known = {} THEN 0 ELSE Battery[CHOOSE t \in known : \A u \in known : t <= u]

\* What the server publishes is a measurement of the main tower, all seven numbers of the
\* same one, and the battery of the last repeater that has one: no conversion, copy or
\* text in between changes a number ("Temperature: %.1f C" at the main tower, main.cpp:105;
\* "TEMPERATURE: %.1f" at the server, LoraManager.cpp:528).
PublishedAsMeasured == \A r \in published : \E i \in DOMAIN measured :
    r = [measured[i] EXCEPT !.battery2 = BatteryAt(1)]

\* A text is handed to its receiver as it was handed over by its sender.
TextsIntact == delivered \subseteq written

\* No repeater, battery or earlier package makes a tower refuse a package that arrives as
\* it was sent: the sum in it is the sum the receiver calculates.
IntactIsAccepted == \A t \in Towers :
    actualPackage[t].package # <<>> => SumAgrees(actualPackage[t])
=============================================================================
