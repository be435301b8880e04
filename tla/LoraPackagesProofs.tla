-------------------------- MODULE LoraPackagesProofs --------------------------
(***************************************************************************)
(* What the server publishes, for every length of the chain, all readings, *)
(* batteries and texts.  A package in a tower is blank or its bytes agree  *)
(* with its fields (Coherent); decapsulating such bytes gives those fields *)
(* back, with what two bytes hold of the readings (RoundTrip); so the      *)
(* readings of every package with a measurement are, as far as two bytes   *)
(* hold them, those taken, but for the battery of the repeaters it has     *)
(* passed.  If they fit in two bytes this is PublishedAsMeasured.  And the *)
(* sum in such bytes is that of the bytes before it (SumsCorrect).         *)
(***************************************************************************)
EXTENDS LoraPackages, SequenceTheorems, WellFoundedInduction, TLAPS

Readings == [temperature : Int, air_humidity : Int, soil_humidity : Int,
             wind_speed : Int, rain : Int, battery1 : Int, battery2 : Int]
ShortReadings == [temperature : Short, air_humidity : Short, soil_humidity : Short,
                  wind_speed : Short, rain : Short, battery1 : Short, battery2 : Short]

\* What PublishedAsMeasured asks of the sensors: no negative and no too large number.
ReadingsFit == \A s \in Sensed : Converted(s) \in ShortReadings

\* What two bytes hold of a number, and fourteen of the readings.
Unsigned(v) == v % 65536
OnTheWire(r) ==
    [temperature |-> Unsigned(r.temperature), air_humidity |-> Unsigned(r.air_humidity),
     soil_humidity |-> Unsigned(r.soil_humidity), wind_speed |-> Unsigned(r.wind_speed),
     rain |-> Unsigned(r.rain), battery1 |-> Unsigned(r.battery1),
     battery2 |-> Unsigned(r.battery2)]

Bit  == 0..1
Kind == 0..3

Typed(p) ==
    /\ p = [destiny_number |-> p.destiny_number, sender_number |-> p.sender_number,
            original_number |-> p.original_number, isText |-> p.isText, isInfo |-> p.isInfo,
            iskeepAlive |-> p.iskeepAlive, readings |-> p.readings, payload |-> p.payload,
            package |-> p.package]
    /\ p.destiny_number \in Byte /\ p.sender_number \in Byte /\ p.original_number \in Byte
    /\ p.isText \in Kind /\ p.isInfo \in Bit /\ p.iskeepAlive \in Bit
    /\ p.readings \in Readings /\ p.payload \in Seq(Byte)

Coherent(p) == p = Blank \/ p = encapsulate(p)

---------------------------------------------------------------------------
LEMMA Constants ==
    /\ MainTower \in Nat /\ 1 <= MainTower /\ MainTower <= 255
    /\ \A t \in Repeaters : Battery[t] \in Short
<1>1. MainTower \in Nat /\ 1 <= MainTower /\ MainTower <= 255
    BY MainTowerAssumption
<1>2. \A t \in Repeaters : Battery[t] \in Short
    BY BatteryAssumption
<1> QED
    BY <1>1, <1>2

---------------------------------------------------------------------------
(***************************************************************************)
(* Bytes and sequences.                                                    *)
(***************************************************************************)
LEMMA Wide == Short \subseteq Int
BY DEF Short

LEMMA Remainder ==
    ASSUME NEW v \in Int
    PROVE  v % 65536 \in Short
BY SMTT(90) DEF Short

LEMMA NoRemainder ==
    ASSUME NEW v \in Short
    PROVE  v % 65536 = v
BY SMTT(90) DEF Short

\* Two bytes give back what they hold of a number: all of it, if it fits into them.
LEMMA TwoBytes ==
    ASSUME NEW v \in Int
    PROVE  /\ Low(v) \in Byte /\ High(v) \in Byte
           /\ Low(v) + 256 * High(v) = Unsigned(v)
           /\ Unsigned(v) \in Short
           /\ v \in Short => Unsigned(v) = v
           /\ Low(Unsigned(v)) = Low(v) /\ High(Unsigned(v)) = High(v)
<1>1. Low(v) \in Byte /\ High(v) \in Byte
    BY SMTT(60) DEF Low, High, Byte
<1>2. Low(v) + 256 * High(v) = Unsigned(v)
    BY SMTT(60) DEF Low, High, Unsigned
<1>3. Unsigned(v) \in Short /\ (v \in Short => Unsigned(v) = v)
    BY Remainder, NoRemainder DEF Unsigned
<1>4. Low(Unsigned(v)) = Low(v)
    BY SMTT(60) DEF Low, Unsigned
<1>5. High(Unsigned(v)) = High(v)
    BY SMTT(60) DEF High, Unsigned
<1> QED
    BY <1>1, <1>2, <1>3, <1>4, <1>5, Zenon

\* One byte gives back every number that fits into it.
LEMMA OneByte ==
    ASSUME NEW v \in Byte
    PROVE  Low(v) = v
BY DEF Byte, Low

\* What arrives of readings fits; it has the same bytes; and nothing more is lost.
LEMMA Wire ==
    ASSUME NEW r \in Readings
    PROVE  /\ OnTheWire(r) \in ShortReadings
           /\ ReadingBytes(OnTheWire(r)) = ReadingBytes(r)
           /\ OnTheWire(OnTheWire(r)) = OnTheWire(r)
           /\ r \in ShortReadings => OnTheWire(r) = r
           /\ \A b \in Short : OnTheWire([r EXCEPT !.battery2 = b]) =
                                  [OnTheWire(r) EXCEPT !.battery2 = b]
<1>1. /\ r.temperature \in Int /\ r.air_humidity \in Int /\ r.soil_humidity \in Int
      /\ r.wind_speed \in Int /\ r.rain \in Int /\ r.battery1 \in Int /\ r.battery2 \in Int
    BY DEF Readings
<1>2. \A v \in Int : Unsigned(v) \in Short
    BY TwoBytes
<1>3. \A v \in Short : v \in Int /\ Unsigned(v) = v
    <2>1. \A v \in Short : v \in Int
        BY Wide
    <2> QED
        BY <2>1, TwoBytes
<1>4. \A v \in Int : Low(Unsigned(v)) = Low(v) /\ High(Unsigned(v)) = High(v)
    BY TwoBytes
<1> DEFINE w == OnTheWire(r)
<1>5. w \in ShortReadings
    BY <1>1, <1>2 DEF OnTheWire, ShortReadings
<1>6. ReadingBytes(w) = ReadingBytes(r)
    BY <1>1, <1>4 DEF OnTheWire, ReadingBytes
<1>7. \A q \in ShortReadings : OnTheWire(q) = q
    BY <1>3 DEF OnTheWire, ShortReadings
<1>8. ASSUME NEW b \in Short
      PROVE  OnTheWire([r EXCEPT !.battery2 = b]) = [OnTheWire(r) EXCEPT !.battery2 = b]
    <2>1. [r EXCEPT !.battery2 = b] =
              [temperature |-> r.temperature, air_humidity |-> r.air_humidity,
               soil_humidity |-> r.soil_humidity, wind_speed |-> r.wind_speed,
               rain |-> r.rain, battery1 |-> r.battery1, battery2 |-> b]
        BY DEF Readings
    <2>2. Unsigned(b) = b
        BY <1>3
    <2> QED
        BY <2>1, <2>2 DEF OnTheWire
<1> QED
    BY <1>5, <1>6, <1>7, <1>8

LEMMA ShortAreReadings == ShortReadings \subseteq Readings
<1>1. Short \subseteq Int
    BY Wide
<1> QED
    BY <1>1 DEF ShortReadings, Readings

\* The readings a text is handed over with, and those of a measurement.
LEMMA NoReadingsFit == NoReadings \in ShortReadings /\ NoReadings \in Readings
<1>1. 0 \in Short
    BY DEF Short
<1>2. NoReadings \in ShortReadings
    BY <1>1 DEF NoReadings, ShortReadings
<1> QED
    BY <1>2, ShortAreReadings

LEMMA ConvertedAreReadings ==
    ASSUME NEW s \in Sensed
    PROVE  Converted(s) \in Readings /\ Converted(s).battery2 = 0
<1>1. /\ s.sixteenths \in Int /\ s.humidity \in Int /\ s.soil \in Int
      /\ s.rain \in Int /\ s.wind \in Int /\ s.battery \in Int
    BY SensedAssumption
<1>2. ASSUME NEW a \in Int, NEW b \in Nat, b > 0 PROVE Quotient(a, b) \in Int
    BY <1>2 DEF Quotient
<1>3. temperature(s.sixteenths) \in Int
    <2>1. Quotient(s.sixteenths, 16) \in Int
        BY <1>1, <1>2
    <2> QED
        BY <2>1 DEF temperature
<1>4. Quotient(measure_wind(s.wind), 10) \in Int
    <2>1. measure_wind(s.wind) \in Int
        BY <1>1 DEF measure_wind
    <2> QED
        BY <1>2, <2>1
<1>5. \A v \in Int : Percentage(v) \in Int
    BY DEF Percentage
<1>6. Percentage(Quotient(-100 * (s.soil - 2172), 1183)) \in Int
    <2>1. -100 * (s.soil - 2172) \in Int
        BY <1>1
    <2>2. Quotient(-100 * (s.soil - 2172), 1183) \in Int
        BY <1>2, <2>1
    <2> QED
        BY <1>5, <2>2
<1>7. Percentage(Quotient(-100 * (s.rain - 3165), 1668)) \in Int
    <2>1. -100 * (s.rain - 3165) \in Int
        BY <1>1
    <2>2. Quotient(-100 * (s.rain - 3165), 1668) \in Int
        BY <1>2, <2>1
    <2> QED
        BY <1>5, <2>2
<1> QED
    BY <1>1, <1>3, <1>4, <1>6, <1>7 DEF Converted, Readings

\* A sequence made of a front, a middle and an end.
LEMMA Joined ==
    ASSUME NEW S, NEW h \in Seq(S), NEW m \in Seq(S), NEW e \in Seq(S),
           NEW b, b = (h \o m) \o e
    PROVE  /\ Len(b) = Len(h) + Len(m) + Len(e)
           /\ \A i \in 1..Len(h) : b[i] = h[i]
           /\ SubSeq(b, Len(h) + 1, Len(h) + Len(m)) = m
<1>1. h \o m \in Seq(S) /\ Len(h \o m) = Len(h) + Len(m)
           /\ \A i \in 1..(Len(h) + Len(m)) :
                  (h \o m)[i] = IF i <= Len(h) THEN h[i] ELSE m[i - Len(h)]
    BY ConcatProperties
<1>2. b \in Seq(S) /\ Len(b) = Len(h) + Len(m) + Len(e)
           /\ \A i \in 1..(Len(h) + Len(m)) : b[i] = (h \o m)[i]
    BY <1>1, ConcatProperties, LenProperties
<1>3. Len(h) \in Nat /\ Len(m) \in Nat /\ Len(e) \in Nat
    BY LenProperties
<1>4. SubSeq(b, Len(h) + 1, Len(h) + Len(m)) = m
    <2> DEFINE s == SubSeq(b, Len(h) + 1, Len(h) + Len(m))
    <2>1. s = [i \in 1..Len(m) |-> b[i + Len(h)]]
        BY <1>2, <1>3
    <2>2. \A i \in 1..Len(m) : b[i + Len(h)] = m[i]
        BY <1>1, <1>2, <1>3
    <2>3. m = [i \in 1..Len(m) |-> m[i]]
        BY LenProperties
    <2> QED
        BY <2>1, <2>2, <2>3
<1> QED
    BY <1>1, <1>2, <1>3, <1>4
---------------------------------------------------------------------------
\* Where the parts of a package are.
LEMMA Parts ==
    ASSUME NEW S, NEW hd \in Seq(S), NEW sn \in Seq(S), NEW pay \in Seq(S), NEW e \in Seq(S),
           NEW b, b = ((hd \o sn) \o pay) \o e
    PROVE  /\ Len(b) = Len(hd) + Len(sn) + Len(pay) + Len(e)
           /\ \A i \in 1..Len(hd) : b[i] = hd[i]
           /\ \A i \in (Len(hd) + 1)..(Len(hd) + Len(sn)) : b[i] = sn[i - Len(hd)]
           /\ SubSeq(b, Len(hd) + Len(sn) + 1, Len(hd) + Len(sn) + Len(pay)) = pay
<1>1. /\ hd \o sn \in Seq(S) /\ Len(hd \o sn) = Len(hd) + Len(sn)
      /\ \A i \in 1..(Len(hd) + Len(sn)) :
             (hd \o sn)[i] = IF i <= Len(hd) THEN hd[i] ELSE sn[i - Len(hd)]
    BY ConcatProperties
<1>2. Len(hd) \in Nat /\ Len(sn) \in Nat /\ Len(pay) \in Nat /\ Len(e) \in Nat
    BY LenProperties
<1>3. /\ Len(b) = Len(hd \o sn) + Len(pay) + Len(e)
      /\ \A i \in 1..Len(hd \o sn) : b[i] = (hd \o sn)[i]
      /\ SubSeq(b, Len(hd \o sn) + 1, Len(hd \o sn) + Len(pay)) = pay
    BY <1>1, Joined
<1> QED
    BY <1>1, <1>2, <1>3

\* The fourteen bytes of the readings.
LEMMA FourteenBytes ==
    ASSUME NEW S, Byte \subseteq S, NEW r \in Readings
    PROVE  ReadingBytes(r) \in Seq(S) /\ Len(ReadingBytes(r)) = 14
<1>1. \A v \in Int : Low(v) \in Byte /\ High(v) \in Byte
    BY TwoBytes
<1>2. ReadingBytes(r) \in Seq(Byte) /\ Len(ReadingBytes(r)) = 14
    BY <1>1 DEF ReadingBytes, Readings
<1> QED
    BY <1>2, SeqMonotonic

---------------------------------------------------------------------------
(***************************************************************************)
(* encapsulate, and decapsulate of the bytes it makes.                     *)
(***************************************************************************)
Header(p) == <<p.destiny_number, p.sender_number, p.isText, p.isInfo, p.iskeepAlive,
               p.original_number>>
SensorBytes(p) == IF p.isText # 0 THEN <<>> ELSE ReadingBytes(p.readings)

\* The bytes before the payload are as many as decapsulate takes them for.
LEMMA FrontOfPackage ==
    ASSUME NEW p, Typed(p), NEW T, NEW e \in Seq(T), NEW b, b = Contents(p) \o e
    PROVE  /\ b # <<>>
           /\ \A i \in 1..6 : b[i] = Header(p)[i]
           /\ p.isText = 0 => \A i \in 7..20 : b[i] = ReadingBytes(p.readings)[i - 6]
           /\ SubSeq(b, PayloadStart(p.isText) + 1, Len(b) - Len(e)) = p.payload
<1>1. PICK S : S = Byte \cup T
    OBVIOUS
<1>2. Header(p) \in Seq(Byte) /\ Len(Header(p)) = 6
    BY DEF Header, Typed, Byte, Bit, Kind
<1>3. Header(p) \in Seq(S)
    BY <1>1, <1>2, SeqMonotonic
<1>4. SensorBytes(p) \in Seq(S)
    <2>1. CASE p.isText # 0
        BY <2>1, EmptySeq DEF SensorBytes
    <2>2. CASE p.isText = 0
        BY <1>1, <2>2, FourteenBytes DEF SensorBytes, Typed
    <2> QED
        BY <2>1, <2>2
<1>5. Len(SensorBytes(p)) = SensorsSize(p.isText)
    <2>1. CASE p.isText # 0
        BY <2>1, EmptySeq DEF SensorBytes, SensorsSize
    <2>2. CASE p.isText = 0
        BY <2>2, FourteenBytes DEF SensorBytes, SensorsSize, Typed
    <2> QED
        BY <2>1, <2>2
<1>6. p.payload \in Seq(S)
    BY <1>1, SeqMonotonic DEF Typed
<1>7. e \in Seq(S)
    BY <1>1, SeqMonotonic
<1>8. Contents(p) = (Header(p) \o SensorBytes(p)) \o p.payload
    BY OneByte DEF Contents, Header, SensorBytes, Typed
<1>9. PICK h, s, y \in Seq(S) : h = Header(p) /\ s = SensorBytes(p) /\ y = p.payload
    BY <1>3, <1>4, <1>6
<1>10. PICK c : c = ((h \o s) \o y) \o e
    OBVIOUS
<1>11. /\ Len(c) = Len(h) + Len(s) + Len(y) + Len(e)
       /\ \A i \in 1..Len(h) : c[i] = h[i]
       /\ \A i \in (Len(h) + 1)..(Len(h) + Len(s)) : c[i] = s[i - Len(h)]
       /\ SubSeq(c, Len(h) + Len(s) + 1, Len(h) + Len(s) + Len(y)) = y
    BY <1>7, <1>10, Parts, SMTT(30)
<1>12. Len(y) \in Nat /\ Len(e) \in Nat /\ Len(s) \in Nat
    BY LenProperties
<1>13. b = c
    BY <1>8, <1>9, <1>10
<1>14. Len(h) = 6 /\ Len(s) = SensorsSize(p.isText)
    BY <1>2, <1>5, <1>9
<1>15. \A i \in 1..6 : c[i] = h[i]
    BY <1>11, <1>14
<1>16. c # <<>>
    <2>1. Len(c) >= 6
        BY <1>11, <1>12, <1>14
    <2>2. c = <<>> => Len(c) = 0
        OBVIOUS
    <2> QED
        BY <2>1, <2>2
<1>17. ASSUME p.isText = 0
      PROVE  \A i \in 7..20 : c[i] = ReadingBytes(p.readings)[i - 6]
    <2>1. s = ReadingBytes(p.readings)
        BY <1>9, <1>17 DEF SensorBytes
    <2>2. Len(s) = 14
        BY <1>14, <1>17 DEF SensorsSize
    <2>3. \A i \in 7..20 : c[i] = s[i - 6]
        <3> SUFFICES ASSUME NEW i \in 7..20
                     PROVE  c[i] = s[i - 6]
            OBVIOUS
        <3>1. i \in (Len(h) + 1)..(Len(h) + Len(s)) /\ i - Len(h) = i - 6
            BY <1>14, <2>2
        <3>2. c[i] = s[i - Len(h)]
            BY <1>11, <3>1
        <3> QED
            BY <3>1, <3>2
    <2> QED
        BY <2>1, <2>3
<1>18. SubSeq(c, PayloadStart(p.isText) + 1, Len(c) - Len(e)) = y
    <2>1. Len(c) - Len(e) = Len(h) + Len(s) + Len(y)
        BY <1>11, <1>12, <1>14
    <2>2. PayloadStart(p.isText) = Len(h) + Len(s)
        BY <1>14 DEF PayloadStart, HeaderSize
    <2> QED
        BY <1>11, <2>1, <2>2
<1> QED
    BY <1>9, <1>13, <1>15, <1>16, <1>17, <1>18

\* What decapsulate makes of the bytes of q in package p: q, with p's readings if q is a text
\* and otherwise with what two bytes hold of each of q's.
LEMMA RoundTrip ==
    ASSUME NEW p, Typed(p), NEW q, Typed(q), q = encapsulate(q)
    PROVE  /\ q.package # <<>>
           /\ setPackage(p, q.package) =
                  [q EXCEPT !.readings = IF q.isText # 0 THEN p.readings ELSE OnTheWire(q.readings)]
<1>1. PICK T : \E e \in Seq(T) : Len(e) = 2 /\ q.package = Contents(q) \o e
    <2>1. PICK x, y : q.package = Contents(q) \o <<x, y>>
        BY DEF encapsulate, Typed
    <2>2. <<x, y>> \in Seq({x, y}) /\ Len(<<x, y>>) = 2
        OBVIOUS
    <2> QED
        BY <2>1, <2>2
<1> DEFINE b == q.package
<1>2. /\ b # <<>>
      /\ \A i \in 1..6 : b[i] = Header(q)[i]
      /\ q.isText = 0 => \A i \in 7..20 : b[i] = ReadingBytes(q.readings)[i - 6]
      /\ SubSeq(b, PayloadStart(q.isText) + 1, Len(b) - SumSize) = q.payload
    <2>1. PICK e \in Seq(T) : Len(e) = SumSize /\ b = Contents(q) \o e
        BY <1>1 DEF SumSize
    <2>2. /\ b # <<>>
          /\ \A i \in 1..6 : b[i] = Header(q)[i]
          /\ q.isText = 0 => \A i \in 7..20 : b[i] = ReadingBytes(q.readings)[i - 6]
          /\ SubSeq(b, PayloadStart(q.isText) + 1, Len(b) - Len(e)) = q.payload
        BY <2>1, FrontOfPackage
    <2> QED
        BY <2>1, <2>2
<1>3. /\ b[1] = q.destiny_number /\ b[2] = q.sender_number /\ b[3] = q.isText
      /\ b[4] = q.isInfo /\ b[5] = q.iskeepAlive /\ b[6] = q.original_number
    BY <1>2 DEF Header
<1>4. ASSUME q.isText = 0
      PROVE  [temperature |-> Word(b, 7), air_humidity |-> Word(b, 9),
              soil_humidity |-> Word(b, 11), wind_speed |-> Word(b, 13),
              rain |-> Word(b, 15), battery1 |-> Word(b, 17), battery2 |-> Word(b, 19)]
             = OnTheWire(q.readings)
    <2>1. /\ b[7] = Low(q.readings.temperature) /\ b[8] = High(q.readings.temperature)
          /\ b[9] = Low(q.readings.air_humidity) /\ b[10] = High(q.readings.air_humidity)
          /\ b[11] = Low(q.readings.soil_humidity) /\ b[12] = High(q.readings.soil_humidity)
          /\ b[13] = Low(q.readings.wind_speed) /\ b[14] = High(q.readings.wind_speed)
          /\ b[15] = Low(q.readings.rain) /\ b[16] = High(q.readings.rain)
          /\ b[17] = Low(q.readings.battery1) /\ b[18] = High(q.readings.battery1)
          /\ b[19] = Low(q.readings.battery2) /\ b[20] = High(q.readings.battery2)
        BY <1>2, <1>4 DEF ReadingBytes
    <2>2. q.readings \in Readings
        BY DEF Typed
    <2>3. \A i \in Nat, v \in Int : b[i] = Low(v) /\ b[i + 1] = High(v) => Word(b, i) = Unsigned(v)
        BY TwoBytes DEF Word
    <2>4. /\ Word(b, 7) = Unsigned(q.readings.temperature)
          /\ Word(b, 9) = Unsigned(q.readings.air_humidity)
          /\ Word(b, 11) = Unsigned(q.readings.soil_humidity)
          /\ Word(b, 13) = Unsigned(q.readings.wind_speed)
          /\ Word(b, 15) = Unsigned(q.readings.rain)
          /\ Word(b, 17) = Unsigned(q.readings.battery1)
          /\ Word(b, 19) = Unsigned(q.readings.battery2)
        <3>1. /\ q.readings.temperature \in Int /\ q.readings.air_humidity \in Int
              /\ q.readings.soil_humidity \in Int /\ q.readings.wind_speed \in Int
              /\ q.readings.rain \in Int /\ q.readings.battery1 \in Int
              /\ q.readings.battery2 \in Int
            BY <2>2 DEF Readings
        <3> HIDE DEF b
        <3> QED
            BY <2>1, <2>3, <3>1
    <2> QED
        BY <2>4 DEF OnTheWire
<1>5. setPackage(p, q.package) = decapsulate([p EXCEPT !.package = b])
    BY <1>1, <1>2 DEF setPackage
<1>6. decapsulate([p EXCEPT !.package = b]) =
          [destiny_number |-> b[1], sender_number |-> b[2], original_number |-> b[6],
           isText |-> b[3], isInfo |-> b[4], iskeepAlive |-> b[5],
           readings |-> IF b[3] # 0 THEN p.readings ELSE
              [temperature |-> Word(b, 7), air_humidity |-> Word(b, 9),
               soil_humidity |-> Word(b, 11), wind_speed |-> Word(b, 13),
               rain |-> Word(b, 15), battery1 |-> Word(b, 17), battery2 |-> Word(b, 19)],
           payload |-> SubSeq(b, PayloadStart(b[3]) + 1, Len(b) - SumSize),
           package |-> b]
    <2>1. [p EXCEPT !.package = b] =
              [destiny_number |-> p.destiny_number, sender_number |-> p.sender_number,
               original_number |-> p.original_number, isText |-> p.isText,
               isInfo |-> p.isInfo, iskeepAlive |-> p.iskeepAlive, readings |-> p.readings,
               payload |-> p.payload, package |-> b]
        BY DEF Typed
    <2>2. /\ [p EXCEPT !.package = b].package = b
          /\ [p EXCEPT !.package = b].readings = p.readings
        BY <2>1
    <2> QED
        BY <2>2, Zenon DEF decapsulate
<1>7. (IF b[3] # 0 THEN p.readings ELSE
              [temperature |-> Word(b, 7), air_humidity |-> Word(b, 9),
               soil_humidity |-> Word(b, 11), wind_speed |-> Word(b, 13),
               rain |-> Word(b, 15), battery1 |-> Word(b, 17), battery2 |-> Word(b, 19)])
      = (IF q.isText # 0 THEN p.readings ELSE OnTheWire(q.readings))
    BY <1>3, <1>4
<1>8. SubSeq(b, PayloadStart(b[3]) + 1, Len(b) - SumSize) = q.payload
    BY <1>2, <1>3
<1>9. setPackage(p, q.package) =
          [destiny_number |-> q.destiny_number, sender_number |-> q.sender_number,
           original_number |-> q.original_number, isText |-> q.isText,
           isInfo |-> q.isInfo, iskeepAlive |-> q.iskeepAlive,
           readings |-> IF q.isText # 0 THEN p.readings ELSE OnTheWire(q.readings),
           payload |-> q.payload, package |-> q.package]
    BY <1>3, <1>5, <1>6, <1>7, <1>8, Zenon
<1>10. [q EXCEPT !.readings = IF q.isText # 0 THEN p.readings ELSE OnTheWire(q.readings)] =
          [destiny_number |-> q.destiny_number, sender_number |-> q.sender_number,
           original_number |-> q.original_number, isText |-> q.isText,
           isInfo |-> q.isInfo, iskeepAlive |-> q.iskeepAlive,
           readings |-> IF q.isText # 0 THEN p.readings ELSE OnTheWire(q.readings),
           payload |-> q.payload, package |-> q.package]
    BY DEF Typed
<1> QED
    BY <1>2, <1>9, <1>10

\* The fields a package shows, whatever its bytes.
SameFields(p, q) ==
    /\ q.destiny_number = p.destiny_number /\ q.sender_number = p.sender_number
    /\ q.original_number = p.original_number /\ q.isText = p.isText
    /\ q.isInfo = p.isInfo /\ q.iskeepAlive = p.iskeepAlive
    /\ q.readings = p.readings /\ q.payload = p.payload

\* encapsulate keeps the fields, and makes the bytes agree with them.
LEMMA Encapsulated ==
    ASSUME NEW p, Typed(p)
    PROVE  /\ Typed(encapsulate(p)) /\ SameFields(p, encapsulate(p))
           /\ encapsulate(encapsulate(p)) = encapsulate(p)
<1> DEFINE x == Contents(p) \o <<Low(Sum(Contents(p))), High(Sum(Contents(p)))>>
           r == [destiny_number |-> p.destiny_number, sender_number |-> p.sender_number,
                 original_number |-> p.original_number, isText |-> p.isText,
                 isInfo |-> p.isInfo, iskeepAlive |-> p.iskeepAlive,
                 readings |-> p.readings, payload |-> p.payload, package |-> x]
<1>1. encapsulate(p) = [p EXCEPT !.package = x]
    BY DEF encapsulate
<1> HIDE DEF x
<1>2. encapsulate(p) = r
    BY <1>1 DEF Typed
<1>3. Typed(r) /\ SameFields(p, r)
    BY DEF Typed, SameFields
<1>4. Contents(r) = Contents(p)
    BY DEF Contents
<1>5. encapsulate(r) = [r EXCEPT !.package = x]
    BY <1>4 DEF encapsulate, x
<1>6. [r EXCEPT !.package = x] = r
    OBVIOUS
<1> QED
    BY <1>2, <1>3, <1>5, <1>6

\* A package whose bytes agree with its fields, with other readings: any if it is a text,
\* and otherwise such as have the same bytes.
LEMMA OtherReadings ==
    ASSUME NEW q, Typed(q), q = encapsulate(q), NEW r \in Readings,
           q.isText # 0 \/ ReadingBytes(r) = ReadingBytes(q.readings)
    PROVE  LET p == [q EXCEPT !.readings = r]
           IN  /\ Typed(p) /\ p = encapsulate(p) /\ p.readings = r
               /\ p.destiny_number = q.destiny_number /\ p.sender_number = q.sender_number
               /\ p.isText = q.isText /\ p.isInfo = q.isInfo /\ p.payload = q.payload
               /\ p.iskeepAlive = q.iskeepAlive
<1> DEFINE p == [destiny_number |-> q.destiny_number, sender_number |-> q.sender_number,
                 original_number |-> q.original_number, isText |-> q.isText,
                 isInfo |-> q.isInfo, iskeepAlive |-> q.iskeepAlive,
                 readings |-> r, payload |-> q.payload, package |-> q.package]
           x == Contents(q) \o <<Low(Sum(Contents(q))), High(Sum(Contents(q)))>>
<1>1. [q EXCEPT !.readings = r] = p
    BY DEF Typed
<1>2. Typed(p)
    BY DEF Typed
<1>3. Contents(p) = Contents(q)
    BY DEF Contents
<1>4. encapsulate(q) = [q EXCEPT !.package = x] /\ encapsulate(p) = [p EXCEPT !.package = x]
    BY <1>3 DEF encapsulate
<1>5. q.package = x
    <2>1. [q EXCEPT !.package = x].package = x
        BY DEF Typed
    <2> QED
        BY <1>4, <2>1, Zenon
<1>6. [p EXCEPT !.package = q.package] = p
    OBVIOUS
<1>7. p = encapsulate(p)
    BY <1>4, <1>5, <1>6, Zenon
<1> QED
    BY <1>1, <1>2, <1>7

\* What setPayload makes of a payload that is not empty.
LEMMA PayloadSet ==
    ASSUME NEW p, NEW pay \in Seq(Byte), pay # <<>>, NEW destiny \in Byte, NEW sender \in Byte,
           NEW ka \in Bit, NEW info \in Bit, NEW txt \in Kind, NEW r \in Readings
    PROVE  LET q == setPayload(p, pay, destiny, sender, ka, info, txt, r)
           IN  /\ Typed(q) /\ q = encapsulate(q)
               /\ q.destiny_number = destiny /\ q.sender_number = sender
               /\ q.isText = txt /\ q.isInfo = info /\ q.payload = pay /\ q.readings = r
               /\ q.iskeepAlive = ka
<1> DEFINE b == [destiny_number |-> destiny, sender_number |-> sender, original_number |-> sender,
                 isText |-> txt, isInfo |-> info, iskeepAlive |-> ka, readings |-> r,
                 payload |-> pay, package |-> <<>>]
<1>1. Typed(b)
    BY DEF Typed
<1>2. setPayload(p, pay, destiny, sender, ka, info, txt, r) = encapsulate(b)
    BY DEF setPayload
<1>3. /\ b.destiny_number = destiny /\ b.sender_number = sender
      /\ b.isText = txt /\ b.isInfo = info /\ b.payload = pay /\ b.readings = r
      /\ b.iskeepAlive = ka
    OBVIOUS
<1> HIDE DEF b
<1> QED
    BY <1>1, <1>2, <1>3, Encapsulated DEF SameFields

\* setSenderNumber changes nothing but the sender.
LEMMA SenderSet ==
    ASSUME NEW p, Typed(p), NEW t \in Towers
    PROVE  LET q == setSenderNumber(p, t)
           IN  /\ Typed(q) /\ q = encapsulate(q) /\ q.sender_number = t
               /\ q.destiny_number = p.destiny_number /\ q.iskeepAlive = p.iskeepAlive
               /\ q.isText = p.isText /\ q.isInfo = p.isInfo /\ q.payload = p.payload
               /\ q.readings = p.readings
<1> DEFINE c == [destiny_number |-> p.destiny_number, sender_number |-> t,
                 original_number |-> p.original_number, isText |-> p.isText,
                 isInfo |-> p.isInfo, iskeepAlive |-> p.iskeepAlive,
                 readings |-> p.readings, payload |-> p.payload, package |-> p.package]
<1>1. [p EXCEPT !.sender_number = t] = c
    BY DEF Typed
<1>2. t \in Byte
    BY Constants DEF Towers, Byte
<1>3. Typed(c)
    BY <1>2 DEF Typed
<1>4. setSenderNumber(p, t) = encapsulate(c)
    BY <1>1 DEF setSenderNumber
<1>5. /\ c.destiny_number = p.destiny_number /\ c.sender_number = t /\ c.isText = p.isText
      /\ c.isInfo = p.isInfo /\ c.payload = p.payload /\ c.readings = p.readings
      /\ c.iskeepAlive = p.iskeepAlive
    OBVIOUS
<1> HIDE DEF c
<1> QED
    BY <1>3, <1>4, <1>5, Encapsulated DEF SameFields

\* The package t passes on: with t for its sender and, if it has one, t's battery.
LEMMA RelayedOn ==
    ASSUME NEW p, Typed(p), NEW t \in Towers
    PROVE  LET q == Relayed(p, t)
           IN  /\ Typed(q) /\ q = encapsulate(q) /\ q.sender_number = t
               /\ q.destiny_number = p.destiny_number /\ q.iskeepAlive = p.iskeepAlive
               /\ q.isText = p.isText /\ q.isInfo = p.isInfo /\ q.payload = p.payload
               /\ q.readings = IF p.isText = 0 /\ t \in Repeaters /\ Battery[t] # 0
                               THEN [p.readings EXCEPT !.battery2 = Battery[t]] ELSE p.readings
<1> DEFINE r == IF p.isText = 0 /\ t \in Repeaters /\ Battery[t] # 0
                THEN [p.readings EXCEPT !.battery2 = Battery[t]] ELSE p.readings
           with == IF p.isText = 0 /\ t \in Repeaters /\ Battery[t] # 0
                   THEN setBattery2(p, Battery[t]) ELSE p
<1>1. Relayed(p, t) = setSenderNumber(with, t)
    BY DEF Relayed
<1>2. /\ Typed(with)
      /\ with.destiny_number = p.destiny_number /\ with.isText = p.isText
      /\ with.isInfo = p.isInfo /\ with.payload = p.payload /\ with.readings = r
      /\ with.iskeepAlive = p.iskeepAlive
    <2>1. CASE p.isText = 0 /\ t \in Repeaters /\ Battery[t] # 0
        <3> DEFINE b == [destiny_number |-> p.destiny_number, sender_number |-> p.sender_number,
                         original_number |-> p.original_number, isText |-> p.isText,
                         isInfo |-> p.isInfo, iskeepAlive |-> p.iskeepAlive,
                         readings |-> [p.readings EXCEPT !.battery2 = Battery[t]],
                         payload |-> p.payload, package |-> p.package]
        <3>1. [p EXCEPT !.readings.battery2 = Battery[t]] = b
            BY DEF Typed
        <3>2. [p.readings EXCEPT !.battery2 = Battery[t]] \in Readings
            <4>1. p.readings \in Readings /\ Battery[t] \in Int
                <5>1. Battery[t] \in Short
                    BY <2>1, Constants
                <5>2. Battery[t] \in Int
                    BY <5>1, Wide
                <5> QED
                    BY <5>2 DEF Typed
            <4> QED
                BY <4>1 DEF Readings
        <3>3. Typed(b)
            BY <3>2 DEF Typed
        <3>4. with = encapsulate(b)
            BY <2>1, <3>1 DEF setBattery2
        <3>5. /\ b.destiny_number = p.destiny_number /\ b.isText = p.isText
              /\ b.isInfo = p.isInfo /\ b.payload = p.payload /\ b.readings = r
              /\ b.iskeepAlive = p.iskeepAlive
            BY <2>1
        <3> HIDE DEF b, r, with
        <3> QED
            BY <3>3, <3>4, <3>5, Encapsulated DEF SameFields
    <2>2. CASE ~(p.isText = 0 /\ t \in Repeaters /\ Battery[t] # 0)
        BY <2>2
    <2> QED
        BY <2>1, <2>2
<1> HIDE DEF with
<1> QED
    BY <1>1, <1>2, SenderSet DEF r

---------------------------------------------------------------------------
(***************************************************************************)
(* The battery of the repeaters.                                           *)
(***************************************************************************)
LEMMA BatteryOfLast == BatteryAt(MainTower) = 0
BY Constants DEF BatteryAt, Repeaters

LEMMA BatteryOf ==
    ASSUME NEW t \in Repeaters, Battery[t] # 0
    PROVE  BatteryAt(t) = Battery[t]
<1> DEFINE known == {u \in Repeaters : u >= t /\ Battery[u] # 0}
<1>1. t \in known /\ \A u \in known : t <= u
    BY Constants DEF Repeaters
<1>2. \A x \in known : (\A u \in known : x <= u) => x = t
    BY <1>1, Constants DEF Repeaters
<1> DEFINE least == CHOOSE x \in known : \A u \in known : x <= u
<1>3. least \in known /\ \A u \in known : least <= u
    BY <1>1, Zenon
<1>4. least = t
    BY <1>2, <1>3, Zenon
<1> QED
    BY <1>1, <1>4, Zenon DEF BatteryAt

LEMMA BatteryOfNext ==
    ASSUME NEW t \in Nat, t \in Repeaters => Battery[t] = 0
    PROVE  BatteryAt(t) = BatteryAt(t + 1)
<1> DEFINE known(s) == {u \in Repeaters : u >= s /\ Battery[u] # 0}
<1>1. known(t) = known(t + 1)
    BY Constants DEF Repeaters
<1>2. \A s : BatteryAt(s) = IF known(s) = {} THEN 0
                            ELSE Battery[CHOOSE x \in known(s) : \A u \in known(s) : x <= u]
    BY DEF BatteryAt
<1> HIDE DEF known
<1> QED
    BY <1>1, <1>2

---------------------------------------------------------------------------
(***************************************************************************)
(* The inductive invariant.                                                *)
(***************************************************************************)
FromMeasurement(p) ==
    /\ p.destiny_number = Server /\ p.sender_number \in Towers /\ p.iskeepAlive = 0
    /\ \E i \in DOMAIN measured :
           OnTheWire(p.readings) =
               [OnTheWire(measured[i]) EXCEPT !.battery2 = BatteryAt(p.sender_number)]

\* A package with information has a measurement's readings, or a text somebody has written.
Genuine(p) ==
    p.isInfo # 0 => IF p.isText = 0 THEN FromMeasurement(p) ELSE p.payload \in written

Sound(p) == Typed(p) /\ Coherent(p) /\ Genuine(p)

\* A tower that has accepted a package has put its own number into it.
OwnNumber(t) ==
    charge[t] = "receiver" => actualPackage[t].sender_number = t /\ actualPackage[t].isInfo # 0

\* Only the main tower has readings that have not gone through two bytes.
Narrow(p)  == p.isText = 0 => p.readings \in ShortReadings
Arrived(t) == t # MainTower => Narrow(actualPackage[t])

\* What the server publishes is a measurement, as far as two bytes hold its numbers.
PublishedOnTheWire == \A r \in published : \E i \in DOMAIN measured :
    r = [OnTheWire(measured[i]) EXCEPT !.battery2 = BatteryAt(1)]

TypeInv ==
    /\ measured \in Seq(Readings)
    /\ ReadingsFit => measured \in Seq(ShortReadings)
    /\ charge \in [Towers -> {"none", "sender", "receiver"}]
    /\ actualPackage = [t \in Towers |-> actualPackage[t]]

IInv ==
    /\ TypeInv
    /\ \A t \in Towers : Sound(actualPackage[t])
    /\ \A t \in Towers : OwnNumber(t) /\ Arrived(t)
    /\ PublishedOnTheWire
    /\ TextsIntact

LEMMA BlankIsSound == Sound(Blank) /\ Narrow(Blank)
<1>2. <<>> \in Seq(Byte)
    BY EmptySeq
<1>3. Typed(Blank) /\ Narrow(Blank)
    BY NoReadingsFit, <1>2 DEF Typed, Narrow, Blank, Byte, Bit, Kind
<1>4. Genuine(Blank)
    BY DEF Genuine, Blank
<1> QED
    BY <1>3, <1>4 DEF Sound, Coherent

\* What becomes of an object into which any bytes that u may transmit are set.
LEMMA Heard ==
    ASSUME IInv, NEW old, Typed(old), NEW u \in Towers, NEW bytes \in Transmissions(u),
           bytes # <<>>
    PROVE  Sound(setPackage(old, bytes)) /\ Narrow(setPackage(old, bytes))
<1> DEFINE own == actualPackage[u]
<1>1. Sound(own)
    BY DEF IInv
<1>2. PICK q : Typed(q) /\ q = encapsulate(q) /\ Genuine(q) /\ bytes = q.package
    <2>1. CASE bytes = own.package
        <3>1. own # Blank
            BY <2>1 DEF Blank
        <3> HIDE DEF own
        <3> QED
            BY <1>1, <2>1, <3>1 DEF Sound, Coherent
    <2>2. CASE bytes # own.package
        <3> DEFINE q(pay) == setPayload(Blank, pay, own.destiny_number, u, 0, 0, 1, NoReadings)
        <3>1. \E pay \in {<<79, 75, 0>>, <<82, 0>>} : bytes = q(pay).package
            BY <2>2 DEF Transmissions
        <3>2. own.destiny_number \in Byte
            BY <1>1 DEF Sound, Typed
        <3>3. u \in Byte
            BY Constants DEF Towers, Byte
        <3>4. NoReadings \in Readings
            BY NoReadingsFit
        <3> HIDE DEF own
        <3>5. ASSUME NEW pay \in Seq(Byte), pay # <<>>
              PROVE  Typed(q(pay)) /\ q(pay) = encapsulate(q(pay)) /\ q(pay).isInfo = 0
            <4>1. 0 \in Bit /\ 1 \in Kind
                BY DEF Bit, Kind
            <4> QED
                BY <3>2, <3>3, <3>4, <3>5, <4>1, PayloadSet
        <3>6. \A pay \in {<<79, 75, 0>>, <<82, 0>>} : pay \in Seq(Byte) /\ pay # <<>>
            <4>1. <<79, 75, 0>> \in Seq(Byte) /\ <<82, 0>> \in Seq(Byte)
                BY DEF Byte
            <4>2. <<79, 75, 0>> # <<>> /\ <<82, 0>> # <<>>
                OBVIOUS
            <4> QED
                BY <4>1, <4>2, Zenon
        <3> HIDE DEF q
        <3>7. PICK pay \in Seq(Byte) : pay # <<>> /\ bytes = q(pay).package
            BY <3>1, <3>6, Zenon
        <3>8. Typed(q(pay)) /\ q(pay) = encapsulate(q(pay)) /\ Genuine(q(pay))
            BY <3>5, <3>7 DEF Genuine
        <3> QED
            BY <3>7, <3>8
    <2> QED
        BY <2>1, <2>2
<1>3. PICK r : r = IF q.isText # 0 THEN old.readings ELSE OnTheWire(q.readings)
    OBVIOUS
<1>4. q.package # <<>> /\ setPackage(old, bytes) = [q EXCEPT !.readings = r]
    BY <1>2, <1>3, RoundTrip, Zenon
<1>5. /\ old.readings \in Readings /\ q.readings \in Readings
      /\ OnTheWire(q.readings) \in ShortReadings
      /\ ReadingBytes(OnTheWire(q.readings)) = ReadingBytes(q.readings)
      /\ OnTheWire(OnTheWire(q.readings)) = OnTheWire(q.readings)
    <2>1. old.readings \in Readings /\ q.readings \in Readings
        BY <1>2 DEF Typed
    <2> QED
        BY <2>1, Wire
<1>6. r \in Readings /\ (q.isText # 0 \/ ReadingBytes(r) = ReadingBytes(q.readings))
    BY <1>3, <1>5, ShortAreReadings
<1> DEFINE p == [q EXCEPT !.readings = r]
<1>7. /\ Typed(p) /\ p = encapsulate(p) /\ p.readings = r
      /\ p.destiny_number = q.destiny_number /\ p.sender_number = q.sender_number
      /\ p.isText = q.isText /\ p.isInfo = q.isInfo /\ p.payload = q.payload
      /\ p.iskeepAlive = q.iskeepAlive
    BY <1>2, <1>6, OtherReadings
<1> HIDE DEF p
<1>8. Narrow(p)
    BY <1>3, <1>5, <1>7 DEF Narrow
<1>9. Genuine(p)
    <2>1. CASE q.isText # 0
        BY <1>2, <1>7, <2>1 DEF Genuine
    <2>2. CASE q.isText = 0
        <3>1. OnTheWire(p.readings) = OnTheWire(q.readings)
            BY <1>3, <1>5, <1>7, <2>2
        <3>2. FromMeasurement(q) => FromMeasurement(p)
            BY <1>7, <3>1 DEF FromMeasurement
        <3> QED
            BY <1>2, <1>7, <2>2, <3>2 DEF Genuine
    <2> QED
        BY <2>1, <2>2
<1> QED
    BY <1>4, <1>7, <1>8, <1>9 DEF Sound, Coherent, p

\* A tower that accepts a package with a measurement passes on the same measurement.
LEMMA PassedOn ==
    ASSUME TypeInv, NEW p, Sound(p), NEW t \in Towers, Acceptable(p, t)
    PROVE  /\ Sound(Relayed(p, t)) /\ Relayed(p, t).sender_number = t
           /\ Relayed(p, t).isInfo # 0
           /\ Narrow(p) => Narrow(Relayed(p, t))
<1> DEFINE q == Relayed(p, t)
<1>1. /\ Typed(q) /\ q = encapsulate(q) /\ q.sender_number = t
      /\ q.destiny_number = p.destiny_number /\ q.iskeepAlive = p.iskeepAlive
      /\ q.isText = p.isText /\ q.isInfo = p.isInfo /\ q.payload = p.payload
      /\ q.readings = IF p.isText = 0 /\ t \in Repeaters /\ Battery[t] # 0
                      THEN [p.readings EXCEPT !.battery2 = Battery[t]] ELSE p.readings
    BY RelayedOn DEF Sound
<1> HIDE DEF q
<1>2. p.isInfo # 0
    BY DEF Acceptable
<1>3. ASSUME p.isText # 0 PROVE Sound(q)
    BY <1>1, <1>2, <1>3 DEF Sound, Coherent, Genuine
<1>4. ASSUME p.isText = 0 PROVE Sound(q)
    <2>1. FromMeasurement(p)
        BY <1>2, <1>4 DEF Sound, Genuine
    <2>2. p.sender_number = t + 1 /\ t \in Nat
        <3>1. p.destiny_number = 0 /\ p.sender_number \in Nat
            BY <2>1, Constants DEF FromMeasurement, Server, Towers
        <3>2. t \in Nat
            BY Constants DEF Towers
        <3> QED
            BY <3>1, <3>2 DEF Acceptable, FromNeighbour
    <2>3. PICK i \in DOMAIN measured :
              OnTheWire(p.readings) = [OnTheWire(measured[i]) EXCEPT !.battery2 = BatteryAt(t + 1)]
        BY <2>1, <2>2 DEF FromMeasurement
    <2>4. measured[i] \in Readings /\ OnTheWire(measured[i]) \in ShortReadings
        <3>1. measured[i] \in Readings
            BY <2>3 DEF TypeInv
        <3> QED
            BY <3>1, Wire
    <2>5. OnTheWire(q.readings) = [OnTheWire(measured[i]) EXCEPT !.battery2 = BatteryAt(t)]
        <3>1. CASE t \in Repeaters /\ Battery[t] # 0
            <4>1. q.readings = [p.readings EXCEPT !.battery2 = Battery[t]]
                BY <1>1, <1>4, <3>1
            <4>2. p.readings \in Readings /\ Battery[t] \in Short
                BY <3>1, Constants DEF Sound, Typed
            <4>3. OnTheWire(q.readings) = [OnTheWire(p.readings) EXCEPT !.battery2 = Battery[t]]
                BY <4>1, <4>2, Wire
            <4>4. PICK w \in ShortReadings : w = OnTheWire(measured[i])
                BY <2>4
            <4>5. \A a, b : [[w EXCEPT !.battery2 = a] EXCEPT !.battery2 = b]
                           = [w EXCEPT !.battery2 = b]
                BY DEF ShortReadings
            <4>6. BatteryAt(t) = Battery[t]
                BY <3>1, BatteryOf
            <4> QED
                BY <2>3, <4>3, <4>4, <4>5, <4>6
        <3>2. CASE ~(t \in Repeaters /\ Battery[t] # 0)
            <4>1. BatteryAt(t) = BatteryAt(t + 1)
                BY <2>2, <3>2, BatteryOfNext
            <4>2. q.readings = p.readings
                BY <1>1, <3>2
            <4> QED
                BY <2>3, <4>1, <4>2
        <3> QED
            BY <3>1, <3>2
    <2>6. FromMeasurement(q)
        BY <1>1, <2>1, <2>3, <2>5 DEF FromMeasurement
    <2> QED
        BY <1>1, <1>2, <1>4, <2>6 DEF Sound, Coherent, Genuine
<1>5. Narrow(p) => Narrow(q)
    <2> SUFFICES ASSUME Narrow(p), p.isText = 0 PROVE q.readings \in ShortReadings
        BY <1>1 DEF Narrow
    <2>1. p.readings \in ShortReadings
        BY DEF Narrow
    <2>2. CASE t \in Repeaters /\ Battery[t] # 0
        <3>1. Battery[t] \in Short /\ q.readings = [p.readings EXCEPT !.battery2 = Battery[t]]
            BY <1>1, <2>2, Constants
        <3> QED
            BY <2>1, <3>1 DEF ShortReadings
    <2>3. CASE ~(t \in Repeaters /\ Battery[t] # 0)
        BY <1>1, <2>1, <2>3
    <2> QED
        BY <2>2, <2>3
<1> QED
    BY <1>1, <1>2, <1>3, <1>4, <1>5 DEF q

---------------------------------------------------------------------------
(***************************************************************************)
(* The initial states and the steps.                                       *)
(***************************************************************************)
LEMMA InitSound == Init => IInv
<1> SUFFICES ASSUME Init PROVE IInv
    OBVIOUS
<1>1. TypeInv
    <2>1. measured \in Seq(Readings) /\ measured \in Seq(ShortReadings)
        BY EmptySeq DEF Init
    <2> QED
        BY <2>1 DEF Init, TypeInv
<1>2. \A t \in Towers : Sound(actualPackage[t]) /\ OwnNumber(t) /\ Arrived(t)
    BY BlankIsSound DEF Init, OwnNumber, Arrived
<1>3. PublishedOnTheWire /\ TextsIntact
    BY DEF Init, PublishedOnTheWire, TextsIntact
<1> QED
    BY <1>1, <1>2, <1>3 DEF IInv

\* What has been measured and written stays; so does what is genuine.
LEMMA GenuineStays ==
    ASSUME written \subseteq written',
           \A i \in DOMAIN measured : i \in DOMAIN measured' /\ measured'[i] = measured[i]
    PROVE  /\ \A p : Sound(p) => Sound(p)'
           /\ PublishedOnTheWire /\ UNCHANGED published => PublishedOnTheWire'
           /\ TextsIntact /\ UNCHANGED delivered => TextsIntact'
<1>1. ASSUME NEW p, Sound(p) PROVE Sound(p)'
    <2>1. FromMeasurement(p) => FromMeasurement(p)'
        BY DEF FromMeasurement
    <2> QED
        BY <1>1, <2>1 DEF Sound, Genuine
<1>2. PublishedOnTheWire /\ UNCHANGED published => PublishedOnTheWire'
    BY DEF PublishedOnTheWire
<1>3. TextsIntact /\ UNCHANGED delivered => TextsIntact'
    BY DEF TextsIntact
<1> QED
    BY <1>1, <1>2, <1>3

\* The measurements taken after a step.
MeasuredTyped ==
    measured \in Seq(Readings) /\ (ReadingsFit => measured \in Seq(ShortReadings))

\* A step that puts the sound package p into one tower.
LEMMA OneTower ==
    ASSUME IInv, NEW t \in Towers, NEW p, NEW c \in {"none", "sender", "receiver"},
           actualPackage' = [actualPackage EXCEPT ![t] = p],
           charge' = [charge EXCEPT ![t] = c],
           MeasuredTyped',
           \A q : Sound(q) => Sound(q)',
           Sound(p)', c = "receiver" => p.sender_number = t /\ p.isInfo # 0,
           t # MainTower => Narrow(p),
           PublishedOnTheWire', TextsIntact'
    PROVE  IInv'
<1>1. TypeInv'
    BY DEF IInv, TypeInv, MeasuredTyped
<1>2. ASSUME NEW u \in Towers PROVE Sound(actualPackage[u])' /\ OwnNumber(u)' /\ Arrived(u)'
    <2>1. CASE u = t
        <3>1. actualPackage'[u] = p /\ charge'[u] = c
            BY <2>1 DEF IInv, TypeInv
        <3> QED
            BY <2>1, <3>1 DEF OwnNumber, Arrived
    <2>2. CASE u # t
        <3>1. actualPackage'[u] = actualPackage[u] /\ charge'[u] = charge[u]
            BY <2>2 DEF IInv, TypeInv
        <3>2. Sound(actualPackage[u]) /\ OwnNumber(u) /\ Arrived(u)
            BY DEF IInv
        <3> QED
            BY <3>1, <3>2 DEF OwnNumber, Arrived
    <2> QED
        BY <2>1, <2>2
<1> QED
    BY <1>1, <1>2 DEF IInv

LEMMA MeasureSound ==
    ASSUME IInv, NEW s \in Sensed, Measure(s)
    PROVE  IInv'
<1> DEFINE r == Converted(s)
<1>0. PICK p : p = setPayload(actualPackage[MainTower], <<84>>, Server, MainTower, 0, 1, 0, r)
    OBVIOUS
<1>1. r \in Readings /\ r.battery2 = 0 /\ (ReadingsFit => r \in ShortReadings)
    BY ConvertedAreReadings DEF ReadingsFit
<1>2. measured \in Seq(Readings) /\ (ReadingsFit => measured \in Seq(ShortReadings))
    BY DEF IInv, TypeInv
<1>3. measured' = Append(measured, r)
    BY DEF Measure
<1> HIDE DEF r
<1>4. [OnTheWire(r) EXCEPT !.battery2 = 0] = OnTheWire(r)
    <2>1. [r EXCEPT !.battery2 = 0] = r
        BY <1>1 DEF Readings
    <2>2. 0 \in Short
        BY DEF Short
    <2>3. OnTheWire([r EXCEPT !.battery2 = 0]) = [OnTheWire(r) EXCEPT !.battery2 = 0]
        BY <1>1, <2>2, Wire
    <2> QED
        BY <2>1, <2>3
<1>5. /\ MeasuredTyped'
      /\ \A i \in DOMAIN measured : i \in DOMAIN measured' /\ measured'[i] = measured[i]
      /\ Len(measured) + 1 \in DOMAIN measured' /\ measured'[Len(measured) + 1] = r
    <2>1. /\ measured' \in Seq(Readings)
          /\ \A i \in DOMAIN measured : i \in DOMAIN measured' /\ measured'[i] = measured[i]
          /\ Len(measured) + 1 \in DOMAIN measured' /\ measured'[Len(measured) + 1] = r
        BY <1>1, <1>2, <1>3, AppendProperties
    <2>2. ReadingsFit => measured' \in Seq(ShortReadings)
        BY <1>1, <1>2, <1>3, AppendProperties
    <2>3. ReadingsFit' = ReadingsFit
        BY DEF ReadingsFit
    <2> QED
        BY <2>1, <2>2, <2>3 DEF MeasuredTyped
<1>6. /\ actualPackage' = [actualPackage EXCEPT ![MainTower] = p]
      /\ charge' = [charge EXCEPT ![MainTower] = "sender"]
      /\ UNCHANGED <<written, published, delivered>>
    BY <1>0 DEF Measure, r
<1>7. /\ Typed(p) /\ p = encapsulate(p) /\ p.readings = r /\ p.iskeepAlive = 0
      /\ p.destiny_number = Server /\ p.sender_number = MainTower /\ p.isText = 0
    <2>1. <<84>> \in Seq(Byte) /\ <<84>> # <<>>
        BY DEF Byte
    <2>2. Server \in Byte /\ MainTower \in Byte /\ 0 \in Bit /\ 1 \in Bit /\ 0 \in Kind
        BY Constants DEF Server, Byte, Bit, Kind
    <2>3. ASSUME NEW pay \in Seq(Byte), pay # <<>>,
                 p = setPayload(actualPackage[MainTower], pay, Server, MainTower, 0, 1, 0, r)
          PROVE  /\ Typed(p) /\ p = encapsulate(p) /\ p.readings = r /\ p.iskeepAlive = 0
                 /\ p.destiny_number = Server /\ p.sender_number = MainTower /\ p.isText = 0
        BY <1>1, <2>2, <2>3, PayloadSet
    <2> QED
        BY <1>0, <2>1, <2>3
<1>8. Sound(p)'
    <2>1. MainTower \in Towers
        BY Constants DEF Towers
    <2>2. OnTheWire(p.readings) = [OnTheWire(measured'[Len(measured) + 1]) EXCEPT
                                      !.battery2 = BatteryAt(p.sender_number)]
        BY <1>4, <1>5, <1>7, BatteryOfLast
    <2>3. FromMeasurement(p)'
        BY <1>5, <1>7, <2>1, <2>2 DEF FromMeasurement
    <2> QED
        BY <1>7, <2>3 DEF Sound, Coherent, Genuine
<1>9. (\A q : Sound(q) => Sound(q)') /\ PublishedOnTheWire' /\ TextsIntact'
    BY <1>5, <1>6, GenuineStays DEF IInv
<1>10. MainTower \in Towers
    BY Constants DEF Towers
<1> QED
    BY <1>5, <1>6, <1>8, <1>9, <1>10, OneTower

LEMMA SendTextSound ==
    ASSUME IInv, NEW t \in Towers, NEW d \in Towers, NEW text \in TextPayloads,
           NEW txt \in TextKinds, SendText(t, text, d, txt)
    PROVE  IInv'
<1>0. PICK p : p = setPayload(actualPackage[t], text, d, t, 1, 1, txt, NoReadings)
    OBVIOUS
<1>1. /\ actualPackage' = [actualPackage EXCEPT ![t] = p]
      /\ charge' = [charge EXCEPT ![t] = "sender"]
      /\ written' = written \cup {text} /\ UNCHANGED <<measured, published, delivered>>
    BY <1>0 DEF SendText
<1>2. MeasuredTyped'
    BY <1>1 DEF IInv, TypeInv, MeasuredTyped, ReadingsFit
<1>3. (\A q : Sound(q) => Sound(q)') /\ PublishedOnTheWire' /\ TextsIntact'
    BY <1>1, GenuineStays DEF IInv
<1>4. Sound(p)' /\ (t # MainTower => Narrow(p))
    <2>1. CASE text = <<>>
        <3>1. p = actualPackage[t]
            BY <1>0, <2>1 DEF setPayload
        <3> QED
            BY <1>3, <3>1 DEF IInv, Arrived
    <2>2. CASE text # <<>>
        <3>1. text \in Seq(Byte)
            BY TextAssumption
        <3>2. txt \in Kind /\ txt # 0
            BY TextAssumption DEF Kind
        <3>3. t \in Byte /\ d \in Byte /\ 1 \in Bit
            BY Constants DEF Towers, Byte, Bit
        <3>4. NoReadings \in Readings
            BY NoReadingsFit
        <3>5. /\ Typed(p) /\ p = encapsulate(p)
              /\ p.isText = txt /\ p.payload = text
            BY <1>0, <2>2, <3>1, <3>2, <3>3, <3>4, PayloadSet
        <3> QED
            BY <1>1, <3>2, <3>5 DEF Sound, Coherent, Genuine, Narrow
    <2> QED
        BY <2>1, <2>2
<1> QED
    BY <1>1, <1>2, <1>3, <1>4, OneTower

LEMMA ReceiveSound ==
    ASSUME IInv, NEW t \in Towers, NEW u \in Towers, Receive_Payload(t, u)
    PROVE  IInv'
<1>1. UNCHANGED <<measured, written, published, delivered>>
    BY DEF Receive_Payload
<1>2. MeasuredTyped' /\ TypeInv
    BY <1>1 DEF IInv, TypeInv, MeasuredTyped, ReadingsFit
<1>3. (\A q : Sound(q) => Sound(q)') /\ PublishedOnTheWire' /\ TextsIntact'
    BY <1>1, GenuineStays DEF IInv
<1>4. PICK bytes \in Transmissions(u) \cup {<<>>} :
          LET p == setPackage(actualPackage[t], bytes)
          IN  \/ actualPackage' = [actualPackage EXCEPT ![t] = p] /\ UNCHANGED charge
              \/ /\ Acceptable(p, t)
                 /\ actualPackage' = [actualPackage EXCEPT ![t] = Relayed(p, t)]
                 /\ charge' = [charge EXCEPT ![t] = "receiver"]
    BY DEF Receive_Payload
<1>5. PICK p : p = setPackage(actualPackage[t], bytes)
    OBVIOUS
<1>6. Sound(p) /\ (t # MainTower => Narrow(p))
    <2>1. CASE bytes = <<>>
        <3>1. p = actualPackage[t]
            BY <1>5, <2>1 DEF setPackage
        <3> QED
            BY <3>1 DEF IInv, Arrived
    <2>2. CASE bytes # <<>>
        <3>1. Typed(actualPackage[t]) /\ bytes \in Transmissions(u)
            BY <2>2 DEF IInv, Sound
        <3> QED
            BY <1>5, <2>2, <3>1, Heard
    <2> QED
        BY <2>1, <2>2
<1>7. CASE actualPackage' = [actualPackage EXCEPT ![t] = p] /\ UNCHANGED charge
    <2>1. charge' = [charge EXCEPT ![t] = "none"]
        BY <1>2, <1>7 DEF Receive_Payload, Free, TypeInv
    <2> QED
        BY <1>2, <1>3, <1>6, <1>7, <2>1, OneTower
<1>8. CASE /\ Acceptable(p, t)
           /\ actualPackage' = [actualPackage EXCEPT ![t] = Relayed(p, t)]
           /\ charge' = [charge EXCEPT ![t] = "receiver"]
    <2>1. PICK q : q = Relayed(p, t)
        OBVIOUS
    <2>2. Sound(q) /\ q.sender_number = t /\ q.isInfo # 0 /\ (t # MainTower => Narrow(q))
        BY <1>2, <1>6, <1>8, <2>1, PassedOn
    <2> QED
        BY <1>2, <1>3, <1>8, <2>1, <2>2, OneTower
<1> QED
    BY <1>4, <1>5, <1>7, <1>8

\* Only texts take over: they alone are sent with keepAlive.
LEMMA TakeOverSound ==
    ASSUME IInv, NEW t \in Towers, NEW u \in Towers, TakeOver(t, u)
    PROVE  IInv'
<1>1. UNCHANGED <<measured, written, published, delivered>>
    BY DEF TakeOver
<1>2. MeasuredTyped' /\ TypeInv
    BY <1>1 DEF IInv, TypeInv, MeasuredTyped, ReadingsFit
<1>3. (\A q : Sound(q) => Sound(q)') /\ PublishedOnTheWire' /\ TextsIntact'
    BY <1>1, GenuineStays DEF IInv
<1>4. PICK bytes \in Transmissions(u) \ {<<>>},
           left \in {NoReadings} \cup {measured[i] : i \in DOMAIN measured} :
          LET p == setPackage([Blank EXCEPT !.readings = left], bytes)
          IN  /\ p.isInfo # 0 /\ p.iskeepAlive # 0
              /\ actualPackage' = [actualPackage EXCEPT ![t] = setSenderNumber(p, t)]
    BY DEF TakeOver
<1>5. PICK p : p = setPackage([Blank EXCEPT !.readings = left], bytes)
    OBVIOUS
<1>6. left \in Readings
    BY <1>2, NoReadingsFit DEF TypeInv
<1>7. Typed([Blank EXCEPT !.readings = left])
    <2>1. Typed(Blank)
        BY BlankIsSound DEF Sound
    <2> QED
        BY <1>6, <2>1 DEF Typed, Blank
<1>8. Sound(p)
    BY <1>4, <1>5, <1>7, Heard
<1>9. p.isInfo # 0 /\ p.isText # 0 /\ p.payload \in written
    BY <1>4, <1>5, <1>8 DEF Sound, Genuine, FromMeasurement
<1>10. PICK q : q = setSenderNumber(p, t)
    OBVIOUS
<1>11. /\ Typed(q) /\ q = encapsulate(q) /\ q.sender_number = t
       /\ q.isText = p.isText /\ q.isInfo = p.isInfo /\ q.payload = p.payload
    BY <1>8, <1>10, SenderSet DEF Sound
<1>12. Sound(q) /\ Narrow(q)
    BY <1>9, <1>11 DEF Sound, Coherent, Genuine, Narrow
<1>13. actualPackage' = [actualPackage EXCEPT ![t] = q]
       /\ charge' = [charge EXCEPT ![t] = "receiver"]
    BY <1>4, <1>5, <1>10 DEF TakeOver
<1> QED
    BY <1>2, <1>3, <1>9, <1>11, <1>12, <1>13, OneTower

LEMMA ConsumeSound ==
    ASSUME IInv, NEW t \in Towers, consumeInfo(t)
    PROVE  IInv'
<1> DEFINE p == actualPackage[t]
<1>1. Sound(p) /\ p.sender_number = t /\ p.isInfo # 0 /\ p.destiny_number = t /\ Arrived(t)
    BY DEF IInv, OwnNumber, consumeInfo
<1>2. UNCHANGED <<actualPackage, charge, measured, written>>
    BY DEF consumeInfo
<1>3. TypeInv' /\ \A u \in Towers : Sound(actualPackage[u])' /\ OwnNumber(u)' /\ Arrived(u)'
    BY <1>2 DEF IInv, TypeInv, ReadingsFit, Sound, Genuine, FromMeasurement, OwnNumber, Arrived
<1>4. CASE p.isText # 0
    <2>1. delivered' = delivered \cup {p.payload} /\ UNCHANGED published
        BY <1>4 DEF consumeInfo
    <2>2. p.payload \in written
        BY <1>1, <1>4 DEF Sound, Genuine
    <2>3. PublishedOnTheWire' /\ TextsIntact'
        BY <1>2, <2>1, <2>2 DEF IInv, PublishedOnTheWire, TextsIntact
    <2> QED
        BY <1>3, <2>3 DEF IInv
<1>5. CASE p.isText = 0
    <2>1. published' = published \cup {p.readings} /\ UNCHANGED delivered
        BY <1>5 DEF consumeInfo
    <2>2. FromMeasurement(p)
        BY <1>1, <1>5 DEF Sound, Genuine
    <2>3. p.sender_number = 0 /\ t # MainTower
        BY <1>1, <2>2, Constants DEF FromMeasurement, Server
    <2>4. BatteryAt(p.sender_number) = BatteryAt(1)
        <3>1. 0 \notin Repeaters
            BY Constants DEF Repeaters
        <3> QED
            BY <2>3, <3>1, BatteryOfNext
    <2>5. OnTheWire(p.readings) = p.readings
        <3>1. p.readings \in Readings /\ p.readings \in ShortReadings
            BY <1>1, <1>5, <2>3 DEF Sound, Typed, Arrived, Narrow
        <3> QED
            BY <3>1, Wire
    <2>6. \E i \in DOMAIN measured :
              p.readings = [OnTheWire(measured[i]) EXCEPT !.battery2 = BatteryAt(1)]
        BY <2>2, <2>4, <2>5 DEF FromMeasurement
    <2> HIDE DEF p
    <2>7. PublishedOnTheWire' /\ TextsIntact'
        BY <1>2, <2>1, <2>6 DEF IInv, PublishedOnTheWire, TextsIntact
    <2> QED
        BY <1>3, <2>7 DEF IInv
<1> QED
    BY <1>4, <1>5

LEMMA SleepSound ==
    ASSUME IInv, NEW t \in Towers, Sleep(t)
    PROVE  IInv'
<1>1. UNCHANGED <<measured, written, published, delivered>>
    BY DEF Sleep
<1>2. PICK p \in {actualPackage[t], Blank} : actualPackage' = [actualPackage EXCEPT ![t] = p]
    BY DEF Sleep, IInv, TypeInv
<1>3. Sound(p) /\ (t # MainTower => Narrow(p))
    BY BlankIsSound DEF IInv, Arrived
<1>4. MeasuredTyped'
    BY <1>1 DEF IInv, TypeInv, MeasuredTyped, ReadingsFit
<1>5. (\A q : Sound(q) => Sound(q)') /\ PublishedOnTheWire' /\ TextsIntact'
    BY <1>1, GenuineStays DEF IInv
<1>6. charge' = [charge EXCEPT ![t] = "none"]
    BY DEF Sleep
<1> QED
    BY <1>2, <1>3, <1>4, <1>5, <1>6, OneTower

---------------------------------------------------------------------------
THEOREM Invariance == Spec => []IInv
<1>1. IInv /\ [Next]_vars => IInv'
    <2> SUFFICES ASSUME IInv, [Next]_vars PROVE IInv'
        OBVIOUS
    <2>1. ASSUME NEW s \in Sensed, Measure(s) PROVE IInv'
        BY <2>1, MeasureSound
    <2>2. ASSUME NEW t \in Towers, NEW d \in Towers, NEW text \in TextPayloads,
                 NEW txt \in TextKinds, SendText(t, text, d, txt)
          PROVE  IInv'
        BY <2>2, SendTextSound
    <2>3. ASSUME NEW t \in Towers, NEW u \in Towers, Receive_Payload(t, u) PROVE IInv'
        BY <2>3, ReceiveSound
    <2>4. ASSUME NEW t \in Towers, NEW u \in Towers, TakeOver(t, u) PROVE IInv'
        BY <2>4, TakeOverSound
    <2>5. ASSUME NEW t \in Towers, consumeInfo(t) PROVE IInv'
        BY <2>5, ConsumeSound
    <2>6. ASSUME NEW t \in Towers, Sleep(t) PROVE IInv'
        BY <2>6, SleepSound
    <2>7. ASSUME UNCHANGED vars PROVE IInv'
        BY <2>7 DEF vars, IInv, TypeInv, ReadingsFit, Sound, Genuine, FromMeasurement, OwnNumber,
                    Arrived, PublishedOnTheWire, TextsIntact
    <2> QED
        BY <2>1, <2>2, <2>3, <2>4, <2>5, <2>6, <2>7 DEF Next
<1> QED
    BY <1>1, InitSound, PTL DEF Spec

\* Whatever the sensors return, below zero too, what the server publishes is one
\* measurement of the main tower, each number as far as two bytes hold it, with the battery
\* of the last repeater that has one (main.cpp:101-146, LoraPackage.cpp:15-118).
THEOREM OnTheWireCorrect == Spec => []PublishedOnTheWire
BY Invariance, PTL DEF IInv

\* So it is the measurement as it was taken, as long as the numbers thread_LoRa hands over
\* fit into two bytes.
THEOREM PublishedCorrect == ASSUME ReadingsFit PROVE Spec => []PublishedAsMeasured
<1>1. IInv => PublishedAsMeasured
    <2> SUFFICES ASSUME IInv, NEW r \in published
                 PROVE  \E i \in DOMAIN measured :
                            r = [measured[i] EXCEPT !.battery2 = BatteryAt(1)]
        BY DEF PublishedAsMeasured
    <2>1. PICK i \in DOMAIN measured :
              r = [OnTheWire(measured[i]) EXCEPT !.battery2 = BatteryAt(1)]
        BY DEF IInv, PublishedOnTheWire
    <2>2. measured[i] \in Readings /\ measured[i] \in ShortReadings
        BY <2>1 DEF IInv, TypeInv
    <2>3. OnTheWire(measured[i]) = measured[i]
        BY <2>2, Wire
    <2> QED
        BY <2>1, <2>3
<1> QED
    BY <1>1, Invariance, PTL

\* A text reaches consumeInfo with the bytes its sender has handed over (LoraPackage.cpp:133-156).
THEOREM TextsCorrect == Spec => []TextsIntact
BY Invariance, PTL DEF IInv

---------------------------------------------------------------------------
(***************************************************************************)
(* The sum.  It is defined by recursion on the bytes, so that there is     *)
(* such a function at all, and that its values are numbers, is shown by    *)
(* looking at the least length for which it would not be so.               *)
(***************************************************************************)
LEMMA Least ==
    ASSUME NEW T \in SUBSET Nat, T # {}
    PROVE  \E m \in T : \A j \in T : m <= j
<1>1. PICK m \in T : \A j \in T : <<j, m>> \notin OpToRel(<, Nat)
    BY NatLessThanWellFounded, WFMin
<1>2. \A j \in T : ~(j < m)
    BY <1>1 DEF OpToRel
<1> QED
    BY <1>2

LEMMA SumFits ==
    ASSUME NEW b \in Seq(Nat)
    PROVE  Sum(b) \in Short
<1> DEFINE L == Len(b)
           Sums(g, n) == g = [i \in 0..n |-> IF i = 0 THEN 0 ELSE g[i - 1] + b[i]]
           partial == CHOOSE g : Sums(g, L)
<1>1. L \in Nat /\ \A i \in 1..L : b[i] \in Nat
    BY LenProperties, ElementOfSeq
<1> HIDE DEF L
<1>2. \E g : Sums(g, L)
    <2> DEFINE bad == {n \in 0..L : ~ \E g : Sums(g, n)}
    <2> SUFFICES ASSUME bad # {} PROVE FALSE
        BY <1>1, SMTT(30)
    <2>1. PICK m \in bad : \A j \in bad : m <= j
        <3>1. bad \in SUBSET Nat
            BY <1>1
        <3> QED
            BY <3>1, Least
    <2>2. m \in 0..L /\ \A g : ~Sums(g, m)
        BY <2>1
    <2>3. CASE m = 0
        <3>1. Sums([i \in 0..0 |-> 0], 0)
            OBVIOUS
        <3> QED
            BY <2>2, <2>3, <3>1
    <2>4. CASE m # 0
        <3>1. m - 1 \in 0..L /\ m - 1 < m /\ m \in Nat
            BY <1>1, <2>2, <2>4
        <3>2. m - 1 \notin bad
            <4> HIDE DEF bad
            <4>1. m - 1 \in bad => m <= m - 1
                BY <2>1
            <4> QED
                BY <3>1, <4>1
        <3>3. PICK g : Sums(g, m - 1)
            BY <3>1, <3>2
        <3>4. \A i \in 0..m - 1 : g[i] = IF i = 0 THEN 0 ELSE g[i - 1] + b[i]
            BY <3>3
        <3> DEFINE h == [i \in 0..m |-> IF i = m THEN g[m - 1] + b[m] ELSE g[i]]
        <3>5. ASSUME NEW i \in 0..m PROVE h[i] = IF i = 0 THEN 0 ELSE h[i - 1] + b[i]
            <4>1. CASE i = m
                BY <2>4, <3>1, <4>1
            <4>2. CASE i # m /\ i # 0
                <5>1. i \in 0..m - 1 /\ i - 1 \in 0..m /\ i - 1 # m
                    BY <3>1, <4>2
                <5>2. h[i] = g[i] /\ h[i - 1] = g[i - 1]
                    BY <4>2, <5>1
                <5> QED
                    BY <3>4, <4>2, <5>1, <5>2
            <4>3. CASE i = 0
                BY <2>4, <3>1, <3>4, <4>3
            <4> QED
                BY <4>1, <4>2, <4>3
        <3>6. Sums(h, m)
            <4>1. h = [i \in 0..m |-> h[i]]
                OBVIOUS
            <4> HIDE DEF h
            <4> QED
                BY <3>5, <4>1
        <3> QED
            BY <2>2, <3>6
    <2> QED
        BY <2>3, <2>4
<1>3. Sums(partial, L)
    BY <1>2
<1>4. \A i \in 0..L : partial[i] = IF i = 0 THEN 0 ELSE partial[i - 1] + b[i]
    BY <1>3
<1> HIDE DEF partial
<1>5. \A n \in 0..L : partial[n] \in Nat
    <2> DEFINE bad == {n \in 0..L : partial[n] \notin Nat}
    <2> SUFFICES ASSUME bad # {} PROVE FALSE
        OBVIOUS
    <2>1. PICK m \in bad : \A j \in bad : m <= j
        <3>1. bad \in SUBSET Nat
            BY <1>1
        <3> QED
            BY <3>1, Least
    <2>2. m # 0
        BY <1>1, <1>4, <2>1
    <2>3. m \in 1..L /\ m - 1 \in 0..L /\ m - 1 < m
        BY <1>1, <2>1, <2>2
    <2>4. partial[m - 1] \in Nat
        BY <2>1, <2>3
    <2>5. partial[m] = partial[m - 1] + b[m]
        BY <1>4, <2>1, <2>2
    <2> QED
        BY <1>1, <2>1, <2>3, <2>4, <2>5
<1>6. Sum(b) = partial[L] % 65536
    BY DEF Sum, partial, L
<1>7. partial[L] \in Nat
    BY <1>1, <1>5
<1>8. ASSUME NEW v \in Nat PROVE v % 65536 \in Short
    BY Remainder
<1> QED
    BY <1>6, <1>7, <1>8

\* What encapsulate sums up are bytes.
LEMMA ContentsAreBytes ==
    ASSUME NEW p, Typed(p)
    PROVE  Contents(p) \in Seq(Byte)
<1>1. Header(p) \in Seq(Byte)
    BY DEF Header, Typed, Byte, Bit, Kind
<1>2. SensorBytes(p) \in Seq(Byte)
    <2>1. CASE p.isText # 0
        BY <2>1, EmptySeq DEF SensorBytes
    <2>2. CASE p.isText = 0
        BY <2>2, FourteenBytes DEF SensorBytes, Typed
    <2> QED
        BY <2>1, <2>2
<1>3. Contents(p) = (Header(p) \o SensorBytes(p)) \o p.payload
    BY OneByte DEF Contents, Header, SensorBytes, Typed
<1>4. Header(p) \o SensorBytes(p) \in Seq(Byte)
    BY <1>1, <1>2, ConcatProperties
<1> QED
    BY <1>3, <1>4, ConcatProperties DEF Typed

\* The receiver's sum over all bytes but the last two is the sum in these.
LEMMA SumOfEncapsulated ==
    ASSUME NEW p, Typed(p), p = encapsulate(p)
    PROVE  SumAgrees(p)
<1>1. PICK c, s : c = Contents(p) /\ s = Sum(c)
    OBVIOUS
<1>2. c \in Seq(Nat) /\ Len(c) \in Nat
    <2>1. Byte \subseteq Nat
        BY DEF Byte
    <2>2. c \in Seq(Nat)
        BY <1>1, <2>1, ContentsAreBytes, SeqMonotonic
    <2> QED
        BY <2>2, LenProperties
<1>3. s \in Short
    BY <1>1, <1>2, SumFits
<1>4. PICK x, y : x = Low(s) /\ y = High(s)
    OBVIOUS
<1>5. x \in Nat /\ y \in Nat
    <2>1. x \in Byte /\ y \in Byte
        BY <1>3, <1>4, Wide, TwoBytes
    <2> QED
        BY <2>1 DEF Byte
<1>6. PICK e : e = <<x, y>> /\ e \in Seq(Nat) /\ Len(e) = 2 /\ e[1] = x /\ e[2] = y
    <2>1. <<x, y>> \in Seq(Nat)
        BY <1>5
    <2>2. Len(<<x, y>>) = 2 /\ <<x, y>>[1] = x /\ <<x, y>>[2] = y
        OBVIOUS
    <2> QED
        BY <2>1, <2>2
<1>7. PICK b : b = c \o e
    OBVIOUS
<1>8. p.package = b
    <2>1. encapsulate(p) = [p EXCEPT !.package = b]
        BY <1>1, <1>4, <1>6, <1>7 DEF encapsulate
    <2> QED
        BY <2>1 DEF Typed
<1>9. /\ b \in Seq(Nat) /\ Len(b) = Len(c) + 2
      /\ b[Len(c) + 1] = x /\ b[Len(c) + 2] = y
      /\ \A i \in 1..Len(c) : b[i] = c[i]
    <2>1. /\ b \in Seq(Nat) /\ Len(b) = Len(c) + Len(e)
          /\ \A i \in 1..Len(c) + Len(e) : b[i] = IF i <= Len(c) THEN c[i] ELSE e[i - Len(c)]
        BY <1>2, <1>6, <1>7, ConcatProperties
    <2>2. b[Len(c) + 1] = e[1] /\ b[Len(c) + 2] = e[2]
        <3>1. PICK n \in Nat : n = Len(c)
            BY <1>2
        <3>2. /\ n + 1 \in 1..n + Len(e) /\ n + 2 \in 1..n + Len(e)
              /\ ~(n + 1 <= n) /\ ~(n + 2 <= n) /\ (n + 1) - n = 1 /\ (n + 2) - n = 2
            BY <1>6
        <3>3. b[n + 1] = e[(n + 1) - n] /\ b[n + 2] = e[(n + 2) - n]
            BY <2>1, <3>1, <3>2
        <3> QED
            BY <3>1, <3>2, <3>3
    <2> QED
        BY <1>2, <1>6, <2>1, <2>2
<1>10. SubSeq(b, 1, Len(b) - 2) = c
    <2>1. PICK d : d = SubSeq(b, 1, Len(c))
        OBVIOUS
    <2>2. \A i \in 1..Len(c) : b[i] \in Nat
        BY <1>2, <1>9, ElementOfSeq
    <2>3. /\ d \in Seq(Nat) /\ Len(d) = IF 1 <= Len(c) THEN Len(c) - 1 + 1 ELSE 0
          /\ \A i \in 1..Len(c) - 1 + 1 : d[i] = b[1 + i - 1]
        BY <1>2, <2>1, <2>2, SubSeqProperties
    <2>4. Len(d) = Len(c) /\ \A i \in 1..Len(c) : d[i] = c[i]
        BY <1>2, <1>9, <2>3
    <2>5. d = c
        BY <1>2, <2>3, <2>4, SeqEqual
    <2> QED
        BY <1>2, <1>9, <2>1, <2>5
<1>11. calculateSum(b) = s
    BY <1>1, <1>10 DEF calculateSum, SumSize
<1>12. Word(b, Len(b) - 1) = x + 256 * y
    <2>1. Len(b) - 1 = Len(c) + 1 /\ (Len(b) - 1) + 1 = Len(c) + 2
        BY <1>2, <1>9
    <2> QED
        BY <1>9, <2>1 DEF Word
<1>13. x + 256 * y = s
    <2>1. s \in Int
        BY <1>3, Wide
    <2> QED
        BY <1>3, <1>4, <2>1, TwoBytes
<1> QED
    BY <1>8, <1>11, <1>12, <1>13 DEF SumAgrees

\* Whatever a package has gone through, batteries and other packages in the same object
\* included, the sum in it is the one its receiver calculates (LoraPackage.cpp:199-207).
THEOREM SumsCorrect == Spec => []IntactIsAccepted
<1>1. IInv => IntactIsAccepted
    <2> SUFFICES ASSUME IInv, NEW t \in Towers, actualPackage[t].package # <<>>
                 PROVE  SumAgrees(actualPackage[t])
        BY DEF IntactIsAccepted
    <2>1. Typed(actualPackage[t]) /\ Coherent(actualPackage[t])
        BY DEF IInv, Sound
    <2>2. actualPackage[t] # Blank
        BY DEF Blank
    <2> QED
        BY <2>1, <2>2, SumOfEncapsulated DEF Coherent
<1> QED
    BY <1>1, Invariance, PTL
=============================================================================
