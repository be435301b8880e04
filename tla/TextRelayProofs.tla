--------------------------- MODULE TextRelayProofs ---------------------------
(***************************************************************************)
(* What the towers do with texts leaves the phones' side as PhoneInput     *)
(* describes it on its own: TextRelay implements PhoneSpec, and inherits   *)
(* LastTextRead from it.                                                   *)
(*                                                                         *)
(* MessageFits: without one of the recorded causes nothing is written past *)
(* the end of a message buffer, although no snprintf into it is bounded.   *)
(* The invariants behind it account for every character of the text that   *)
(* is being sent: what the destination has put together and what is on the *)
(* air make up exactly what has been cut off.                              *)
(*                                                                         *)
(* DownPromise: the replies are delivered complete, once and in order.     *)
(* The invariant (RepliesInv) is a queue per phone, spread over the buffer *)
(* of the incoming message, thread_Wifi and the air.                       *)
(*                                                                         *)
(* UpPromise: the texts are delivered, with their numbers.  The invariant  *)
(* (TextsInv) is a queue per phone again, over global_data, the reader and *)
(* the air, read off what the phone has written; and it says for which     *)
(* phone's next text the server's telephone and hello flag are right.      *)
(***************************************************************************)
EXTENDS TextRelay, PhoneInputProofs, FiniteSetTheorems

\* Every step of the towers is a step of the phones' side or leaves it alone.
LEMMA RelayStep == [Next]_vars => [PhoneNext]_phoneVars
<1> SUFFICES ASSUME [Next]_vars PROVE [PhoneNext]_phoneVars
    OBVIOUS
<1>1. ASSUME NEW p \in Phones, PhoneStep(p) PROVE PhoneNext
    BY <1>1 DEF PhoneStep, PhoneNext
<1>2. ASSUME NEW p \in Phones, HandOver(p) PROVE PhoneNext \/ UNCHANGED phoneVars
    <2>1. Sent(p) \/ UNCHANGED phoneVars
        BY <1>2 DEF HandOver
    <2> QED
        BY <2>1 DEF PhoneNext
<1>3. ASSUME NEW p \in Phones, ConsumeAtServer(p) \/ ConsumeAtTower(p) PROVE UNCHANGED phoneVars
    BY <1>3 DEF ConsumeAtServer, ConsumeAtTower
<1>4. ASSUME NEW t \in Towers, ExchangeEnds(t) PROVE UNCHANGED phoneVars
    BY <1>4 DEF ExchangeEnds
<1>5. ASSUME ReplyArrives PROVE UNCHANGED phoneVars
    BY <1>5 DEF ReplyArrives, MessageArrives
<1>6. ASSUME WifiThread PROVE UNCHANGED phoneVars
    BY <1>6 DEF WifiThread, WifiWakes, Extract, Aim, HandOverReply
<1>7. ASSUME UNCHANGED vars PROVE UNCHANGED phoneVars
    BY <1>7 DEF vars
<1> QED
    BY <1>1, <1>2, <1>3, <1>4, <1>5, <1>6, <1>7 DEF Next

\* thread_Bluetooth's loop, with its packages, polls and reads as the reader of PhoneInput
\* (main.cpp:185-227): TextRelay implements PhoneSpec.
THEOREM RelayImplementsPhones == Spec => PhoneSpec
<1>1. Init => PhoneInit
    BY DEF Init
<1> QED
    BY <1>1, RelayStep, PTL DEF Spec, PhoneSpec

\* No text a phone has completed is passed over by thread_Bluetooth while it hands packages
\* to LoraManager (BluetoothManager.cpp:51-81).
THEOREM RelayReadsLastText == Spec => []LastTextRead
BY RelayImplementsPhones, LastTextIsRead, PTL


---------------------------------------------------------------------------
(***************************************************************************)
(* Types.                                                                  *)
(***************************************************************************)
PhoneChar == {"letter", "number"} \X Phones \X Nat \X Nat
ReplyChar == {"reply", "nul"} \X Nat \X Nat \X Nat

\* A package with n's characters; one that says that more follow is full.
PackageOK(r, txts, chars, dests) ==
    \/ r = Silent
    \/ /\ r \in [txt : txts, payload : Seq(chars), dest : dests, consumed : BOOLEAN]
       /\ r.txt = 1 => Len(r.payload) = LoraBytes

RadioOK ==
    /\ radio = [t \in Towers |-> radio[t]]
    /\ \A p \in Phones : PackageOK(radio[p], 1..4, Chars(p), {Server})
    /\ PackageOK(radio[Server], {1, 3, 4}, ReplyChar, Towers)

MessageOK == /\ message = [t \in Towers |-> message[t]] /\ message[Server] \in Seq(PhoneChar)
             /\ \A p \in Phones : message[p] \in Seq(ReplyChar)

ServerOK(s) == /\ s = [telephone |-> s.telephone, hello |-> s.hello,
                       bluetooth_tower |-> s.bluetooth_tower, actual |-> s.actual,
                       received |-> s.received]
               /\ s.bluetooth_tower \in Towers /\ s.hello \in BOOLEAN

WifiOK ==
    /\ incoming \in [text : Seq(ReplyChar), received : BOOLEAN, to : Towers]
    /\ wifi \in [at : {"waiting", "woken", "aiming", "spinning"}, text : Seq(ReplyChar),
                 ind : Nat, dest : Towers, to : Towers]
    /\ wifi.ind <= Len(wifi.text)

\* A text is cut off only while thread_Bluetooth sends it, and not yet to its end.
CutOK == cut \in [Phones -> Nat] /\ \A p \in Phones : cut[p] > 0 =>
    reader[p].at = "send" /\ ~reader[p].telephone_set /\ cut[p] < Len(reader[p].data)

BoundsOK == /\ arrived \in 0..MaxReplies /\ malformed \in 0..MaxMalformed
            /\ lost \in 0..MaxLost /\ repeats \in 0..MaxRepeats

RelayTypes == RadioOK /\ MessageOK /\ ServerOK(server) /\ WifiOK /\ CutOK /\ BoundsOK

LEMMA Places == /\ Server \in Towers /\ Phones \subseteq Towers /\ Server \notin Phones
                /\ \A p \in Phones : p \in Nat
BY PhoneConstants DEF Server, Towers

\* What cutting a text gives.
LEMMA Pieces ==
    ASSUME NEW S, NEW text \in Seq(S), NEW ind \in 0..Len(text)
    PROVE  /\ Diff(text, ind) \in Nat /\ ind + Diff(text, ind) \in 0..Len(text)
           /\ Chunk(text, ind) \in Seq(S) /\ Len(Chunk(text, ind)) = Diff(text, ind)
           /\ Diff(text, ind) = (IF Len(text) - ind > LoraBytes THEN LoraBytes ELSE Len(text) - ind)
           /\ Cut(text, ind) = [txt |-> Cut(text, ind).txt, payload |-> Chunk(text, ind)]
           /\ Cut(text, ind).txt \in {1, 3, 4}
           /\ Cut(text, ind).txt = 1 <=> Len(text) > LoraBytes /\ Diff(text, ind) = LoraBytes
           /\ Cut(text, ind).txt = 4 <=> text = <<>>
<1>1. Len(text) \in Nat /\ LoraBytes \in Nat \ {0}
    BY LenProperties, RelayConstants
<1> DEFINE d == Diff(text, ind)
<1>2. /\ d \in Nat /\ ind + d \in 0..Len(text)
      /\ d = (IF Len(text) - ind > LoraBytes THEN LoraBytes ELSE Len(text) - ind)
    BY <1>1 DEF Diff
<1> HIDE DEF d
<1>3. SubSeq(text, ind + 1, ind + d) \in Seq(S) /\ Len(SubSeq(text, ind + 1, ind + d)) = d
    <2>1. ind + 1 \in 1..Len(text) + 1 /\ ind + d \in ind..Len(text)
        BY <1>1, <1>2
    <2> QED
        BY <1>1, <1>2, <2>1
<1>4. Chunk(text, ind) = SubSeq(text, ind + 1, ind + d)
    BY DEF Chunk, d
<1> DEFINE x == Cut(text, ind).txt
<1>5. x = (IF text = <<>> THEN 4 ELSE IF Len(text) > LoraBytes /\ d = LoraBytes THEN 1 ELSE 3)
    BY DEF Cut, Txt, d
<1>6. Cut(text, ind) = [txt |-> x, payload |-> Chunk(text, ind)]
    BY DEF Cut
<1> HIDE DEF x
<1>7. text = <<>> => Len(text) = 0
    OBVIOUS
<1>8. x \in {1, 3, 4} /\ (x = 1 <=> Len(text) > LoraBytes /\ d = LoraBytes)
    BY <1>1, <1>5, <1>7
<1>9. x = 4 <=> text = <<>>
    BY <1>5
<1> QED
    BY <1>2, <1>3, <1>4, <1>6, <1>8, <1>9 DEF d, x

LEMMA RelayTypesInit == Init => RelayTypes
<1> SUFFICES ASSUME Init PROVE RelayTypes
    OBVIOUS
<1>1. RadioOK
    BY Places DEF Init, RadioOK, PackageOK
<1>2. MessageOK
    BY Places DEF Init, MessageOK
<1>3. ServerOK(server)
    BY Places DEF Init, ServerOK, Started
<1>4. WifiOK
    BY Places DEF Init, WifiOK, NoMessage, Waiting
<1>5. CutOK
    BY DEF Init, CutOK
<1>6. BoundsOK
    BY RelayConstants DEF Init, BoundsOK
<1> QED
    BY <1>1, <1>2, <1>3, <1>4, <1>5, <1>6 DEF RelayTypes

\* The phones and the readers leave a text that is being sent alone, and a mishap is
\* never forgotten.
LEMMA PhoneStepKeeps ==
    ASSUME PhoneInv, BytesInv, NEW p \in Phones, PhoneStep(p), NEW q \in Phones
    PROVE  /\ reader[q].at = "send" => reader'[q] = reader[q]
           /\ mishaps'[q] = {} => mishaps[q] = {}
<1>1. reader = [k \in Phones |-> reader[k]] /\ mishaps = [k \in Phones |-> mishaps[k]]
    BY DEF PhoneInv, Functions, BytesInv
<1>2. CASE PhoneConnects(p) \/ PhoneBegins(p)
    BY <1>2 DEF PhoneConnects, PhoneBegins
<1>3. ASSUME reader' = reader, NEW what, Mishap(p, what)
      PROVE  reader'[q] = reader[q] /\ (mishaps'[q] = {} => mishaps[q] = {})
    BY <1>1, <1>3 DEF Mishap
<1>4. CASE PhoneWrites(p)
    <2>1. PICK frag, last : WriteEvent(p, frag, last)
        BY <1>4 DEF PhoneWrites
    <2>2. reader' = reader /\ \E what : Mishap(p, what)
        BY <2>1 DEF WriteEvent
    <2> QED
        BY <1>3, <2>2
<1>5. CASE PhoneLeaves(p) \/ PhoneCancels(p)
    BY <1>3, <1>5 DEF PhoneLeaves, PhoneCancels
<1>6. CASE Reading(p)
    <2>1. reader[p].at # "send" /\ (q # p => reader'[q] = reader[q])
        BY <1>1, <1>6 DEF Reading, Poll, Look, Copy, ReaderAt
    <2>2. mishaps'[q] = {} => mishaps[q] = {}
        <3>1. mishaps' = mishaps \/ \E what : Mishap(p, what)
            BY <1>6 DEF Reading, Poll, Look, Copy
        <3> QED
            BY <1>1, <3>1 DEF Mishap
    <2> QED
        BY <2>1, <2>2
<1> QED
    BY <1>2, <1>4, <1>5, <1>6 DEF PhoneStep, Phone


\* thread_Bluetooth hands over a number, one package; or the next package of a text.
HandsNumber(p, r) ==
    /\ reader[p].telephone_set /\ r.txt \in {2, 4}
    /\ r = [txt |-> r.txt, payload |-> reader[p].data, dest |-> Server, consumed |-> FALSE]
    /\ cut' = [cut EXCEPT ![p] = 0] /\ Sent(p)
    /\ r.txt = 4 => reader[p].data = <<>>
    /\ upTroubles' = upTroubles \cup When(reader[p].data = <<>>, "empty")

HandsText(p, r) ==
    LET text == reader[p].data
        next == cut[p] + Diff(text, cut[p])
    IN  /\ ~reader[p].telephone_set /\ r.txt = Cut(text, cut[p]).txt
        /\ r = [txt |-> r.txt, payload |-> Chunk(text, cut[p]), dest |-> Server,
                consumed |-> FALSE]
        /\ cut' = [cut EXCEPT ![p] = IF next = Len(text) THEN 0 ELSE next]
        /\ IF next = Len(text) THEN Sent(p) ELSE UNCHANGED phoneVars
        /\ upTroubles' = upTroubles \cup CutTroubles(text)

LEMMA HandOverFacts ==
    ASSUME PhoneInv, BytesInv, RelayTypes, NEW p \in Phones, HandOver(p)
    PROVE  /\ radio[p] = Silent /\ reader[p].at = "send" /\ reader[p].data \in Seq(Chars(p))
           /\ cut[p] \in 0..Len(reader[p].data) /\ upTroubles \subseteq upTroubles'
           /\ UNCHANGED <<message, server, relayBounds, replyVars, published, downTroubles>>
           /\ \E r : /\ radio' = [radio EXCEPT ![p] = r]
                     /\ HandsNumber(p, r) \/ HandsText(p, r)
                     /\ PackageOK(r, 1..4, Chars(p), {Server})
<1>1. PICK text, number, c : text = reader[p].data /\ number = reader[p].telephone_set /\ c = cut[p]
    OBVIOUS
<1>2. /\ text \in Seq(Chars(p)) /\ Len(text) \in Nat /\ number \in BOOLEAN
      /\ c \in 0..Len(text)
    <2>1. BytesOK(p)
        BY DEF BytesInv
    <2>2. text \in Seq(Chars(p)) /\ number \in BOOLEAN
        BY <1>1, <2>1 DEF BytesOK, ReaderBytes
    <2>3. Len(text) \in Nat
        BY <2>2, LenProperties
    <2> QED
        BY <1>1, <2>2, <2>3 DEF RelayTypes, CutOK
<1>3. /\ radio[p] = Silent /\ reader[p].at = "send" /\ upTroubles \subseteq upTroubles'
      /\ UNCHANGED <<message, server, relayBounds, replyVars, published, downTroubles>>
    <2>1. radio[p] = Silent
        BY DEF HandOver, Send
    <2>2. upTroubles \subseteq upTroubles'
        BY DEF HandOver, UpTrouble
    <2>3. UNCHANGED <<message, server, relayBounds, replyVars, published, downTroubles>>
        BY DEF HandOver
    <2> QED
        BY <2>1, <2>2, <2>3 DEF HandOver
<1>4. CASE number
    <2>1. PICK piece : /\ piece = [Cut(text, 0) EXCEPT !.payload = text,
                                                       !.txt = IF @ = 4 THEN 4 ELSE 2]
                       /\ Send(p, Server, piece)
        BY <1>1, <1>4 DEF HandOver
    <2>2. piece.txt \in {2, 4} /\ piece.payload = text /\ (piece.txt = 4 => text = <<>>)
        <3>1. /\ Cut(text, 0) = [txt |-> Cut(text, 0).txt, payload |-> Chunk(text, 0)]
              /\ Cut(text, 0).txt = 4 <=> text = <<>>
            BY <1>2, Pieces
        <3> QED
            BY <2>1, <3>1
    <2>3. PICK r : r = [txt |-> piece.txt, payload |-> piece.payload, dest |-> Server,
                        consumed |-> FALSE]
        OBVIOUS
    <2>4. radio' = [radio EXCEPT ![p] = r]
        BY <2>1, <2>3 DEF Send
    <2>5. PackageOK(r, 1..4, Chars(p), {Server})
        BY <1>2, <2>2, <2>3 DEF PackageOK
    <2>6. Sent(p) /\ cut' = [cut EXCEPT ![p] = NextCut(text, Len(text))]
        BY <1>1, <1>4 DEF HandOver
    <2>7. upTroubles' = upTroubles \cup When(text = <<>>, "empty")
        BY <1>1, <1>4 DEF HandOver, UpTrouble
    <2>8. HandsNumber(p, r)
        BY <1>1, <1>4, <2>2, <2>3, <2>6, <2>7 DEF HandsNumber, NextCut
    <2> QED
        BY <1>1, <1>2, <1>3, <2>4, <2>5, <2>8
<1>5. CASE ~number
    <2>1. Send(p, Server, Cut(text, c)) /\ upTroubles' = upTroubles \cup CutTroubles(text)
        BY <1>1, <1>5 DEF HandOver, UpTrouble
    <2>2. PICK x, y, d : x = Cut(text, c).txt /\ y = Chunk(text, c) /\ d = Diff(text, c)
        OBVIOUS
    <2>3. /\ Cut(text, c) = [txt |-> x, payload |-> y] /\ x \in {1, 3, 4} /\ y \in Seq(Chars(p))
          /\ Len(y) = d /\ (x = 1 => d = LoraBytes) /\ d \in Nat
        BY <1>2, <2>2, Pieces
    <2>4. PICK r : r = [txt |-> x, payload |-> y, dest |-> Server, consumed |-> FALSE]
        OBVIOUS
    <2>5. radio' = [radio EXCEPT ![p] = r]
        BY <2>1, <2>3, <2>4 DEF Send
    <2>6. PackageOK(r, 1..4, Chars(p), {Server})
        BY <2>3, <2>4 DEF PackageOK
    <2>7. /\ cut' = [cut EXCEPT ![p] = NextCut(text, c + d)]
          /\ IF c + d = Len(text) THEN Sent(p) ELSE UNCHANGED phoneVars
        BY <1>1, <1>5, <2>2 DEF HandOver
    <2>8. HandsText(p, r)
        BY <1>1, <1>5, <2>1, <2>2, <2>4, <2>7 DEF HandsText, NextCut
    <2> QED
        BY <1>1, <1>2, <1>3, <2>5, <2>6, <2>8
<1> QED
    BY <1>2, <1>4, <1>5

\* One tower's package changes.
LEMMA RadioStep ==
    ASSUME RadioOK, NEW t \in Towers, NEW r, radio' = [radio EXCEPT ![t] = r],
           t \in Phones => PackageOK(r, 1..4, Chars(t), {Server}),
           t = Server => PackageOK(r, {1, 3, 4}, ReplyChar, Towers)
    PROVE  RadioOK' /\ radio'[t] = r /\ \A q \in Towers : q # t => radio'[q] = radio[q]
<1>1. radio'[t] = r /\ \A q \in Towers : q # t => radio'[q] = radio[q]
    BY DEF RadioOK
<1>2. (radio = [q \in Towers |-> radio[q]])'
    BY DEF RadioOK
<1>3. \A q \in Phones : PackageOK(radio'[q], 1..4, Chars(q), {Server})
    BY <1>1, Places DEF RadioOK
<1>4. PackageOK(radio'[Server], {1, 3, 4}, ReplyChar, Towers)
    BY <1>1, Places DEF RadioOK
<1>5. RadioOK'
    BY <1>2, <1>3, <1>4 DEF RadioOK, PackageOK
<1> QED
    BY <1>1, <1>5

\* One tower's message changes.
LEMMA MessageStep ==
    ASSUME MessageOK, NEW t \in Towers, NEW m, message' = [message EXCEPT ![t] = m],
           t = Server => m \in Seq(PhoneChar), t \in Phones => m \in Seq(ReplyChar)
    PROVE  MessageOK' /\ message'[t] = m /\ \A q \in Towers : q # t => message'[q] = message[q]
<1>1. message'[t] = m /\ \A q \in Towers : q # t => message'[q] = message[q]
    BY DEF MessageOK
<1>2. (message = [q \in Towers |-> message[q]])'
    BY DEF MessageOK
<1>3. message'[Server] \in Seq(PhoneChar) /\ \A q \in Phones : message'[q] \in Seq(ReplyChar)
    BY <1>1, Places DEF MessageOK
<1> QED
    BY <1>1, <1>2, <1>3 DEF MessageOK

\* The text that is being sent stays as it is until the next package of it.
LEMMA CutStays ==
    ASSUME CutOK, cut' = cut, \A q \in Phones : reader[q].at = "send" => reader'[q] = reader[q]
    PROVE  CutOK'
BY DEF CutOK

LEMMA PhoneStepTypes ==
    ASSUME PhoneInv, BytesInv, RelayTypes, NEW p \in Phones, PhoneStep(p)
    PROVE  RelayTypes'
<1>1. UNCHANGED <<cut, radio, message, server, relayBounds, incoming, wifi>>
    BY DEF PhoneStep, replyVars
<1>2. CutOK'
    BY <1>1, PhoneStepKeeps, CutStays DEF RelayTypes
<1> QED
    BY <1>1, <1>2 DEF RelayTypes, RadioOK, MessageOK, ServerOK, WifiOK, BoundsOK, relayBounds

LEMMA HandOverTypes ==
    ASSUME PhoneInv, BytesInv, RelayTypes, NEW p \in Phones, HandOver(p)
    PROVE  RelayTypes'
<1>1. UNCHANGED <<message, server, relayBounds, incoming, wifi>>
    BY DEF HandOver, replyVars
<1>2. PICK r : /\ radio' = [radio EXCEPT ![p] = r]
               /\ HandsNumber(p, r) \/ HandsText(p, r)
               /\ PackageOK(r, 1..4, Chars(p), {Server})
    BY HandOverFacts
<1>3. RadioOK'
    BY <1>2, RadioStep, Places DEF RelayTypes
<1>4. CutOK'
    <2>1. reader = [k \in Phones |-> reader[k]] /\ cut \in [Phones -> Nat]
        BY DEF PhoneInv, Functions, RelayTypes, CutOK
    <2>2. PICK c : /\ cut' = [cut EXCEPT ![p] = c]
                   /\ \/ c = 0 /\ Sent(p)
                      \/ /\ c \in Nat /\ c < Len(reader[p].data) /\ ~reader[p].telephone_set
                         /\ UNCHANGED phoneVars
        <3>1. CASE HandsNumber(p, r)
            BY <3>1 DEF HandsNumber
        <3>2. CASE HandsText(p, r)
            <4>1. PICK d, n : d = Diff(reader[p].data, cut[p]) /\ n = cut[p] + d
                OBVIOUS
            <4>2. n \in 0..Len(reader[p].data) /\ Len(reader[p].data) \in Nat
                BY <4>1, HandOverFacts, Pieces, LenProperties
            <4>3. /\ cut' = [cut EXCEPT ![p] = IF n = Len(reader[p].data) THEN 0 ELSE n]
                  /\ IF n = Len(reader[p].data) THEN Sent(p) ELSE UNCHANGED phoneVars
                  /\ ~reader[p].telephone_set
                BY <3>2, <4>1 DEF HandsText
            <4>4. CASE n = Len(reader[p].data)
                <5>1. cut' = [cut EXCEPT ![p] = 0] /\ Sent(p)
                    BY <4>3, <4>4
                <5> QED
                    BY <5>1
            <4>5. CASE n # Len(reader[p].data)
                <5>1. cut' = [cut EXCEPT ![p] = n] /\ UNCHANGED phoneVars
                    BY <4>3, <4>5
                <5>2. n \in Nat /\ n < Len(reader[p].data)
                    BY <4>2, <4>5
                <5> QED
                    BY <4>3, <5>1, <5>2
            <4> QED
                BY <4>4, <4>5
        <3> QED
            BY <1>2, <3>1, <3>2
    <2>3. \A q \in Phones : q # p => reader'[q] = reader[q] /\ cut'[q] = cut[q]
        BY <2>1, <2>2 DEF Sent, phoneVars
    <2>4. c > 0 => reader'[p] = reader[p] /\ c < Len(reader[p].data) /\ ~reader[p].telephone_set
        BY <2>2 DEF phoneVars
    <2>5. reader[p].at = "send" /\ cut'[p] = c /\ c \in Nat
        BY <2>1, <2>2, HandOverFacts
    <2>6. cut' \in [Phones -> Nat]
        BY <2>1, <2>2, <2>5
    <2>7. \A q \in Phones : cut'[q] > 0 =>
              reader'[q].at = "send" /\ ~reader'[q].telephone_set /\ cut'[q] < Len(reader'[q].data)
        BY <2>3, <2>4, <2>5 DEF RelayTypes, CutOK
    <2> QED
        BY <2>6, <2>7 DEF CutOK
<1> QED
    BY <1>1, <1>3, <1>4 DEF RelayTypes, MessageOK, ServerOK, WifiOK, BoundsOK, relayBounds


LEMMA ConsumedPackage ==
    ASSUME NEW txts, NEW chars, NEW dests, NEW x, PackageOK(x, txts, chars, dests), x # Silent
    PROVE  PackageOK([x EXCEPT !.consumed = TRUE], txts, chars, dests) /\ x.txt \in txts
<1>1. /\ x \in [txt : txts, payload : Seq(chars), dest : dests, consumed : BOOLEAN]
      /\ x.txt = 1 => Len(x.payload) = LoraBytes
    BY DEF PackageOK
<1>2. PICK y : y = [x EXCEPT !.consumed = TRUE]
    OBVIOUS
<1>3. y \in [txt : txts, payload : Seq(chars), dest : dests, consumed : BOOLEAN]
    BY <1>1, <1>2
<1>4. y.txt = x.txt /\ y.payload = x.payload
    BY <1>1, <1>2
<1>5. PackageOK(y, txts, chars, dests)
    BY <1>1, <1>3, <1>4 DEF PackageOK
<1> QED
    BY <1>1, <1>2, <1>5

\* A package that reaches its destination stays on the air, consumed.
LEMMA ReachesFacts ==
    ASSUME RelayTypes, NEW t \in Towers, Reaches(t)
    PROVE  /\ radio[t] # Silent /\ radio[t].txt \in 1..3
           /\ radio' = [radio EXCEPT ![t] = [radio[t] EXCEPT !.consumed = TRUE]]
           /\ RadioOK' /\ BoundsOK'
<1>1. PICK x : x = radio[t]
    OBVIOUS
<1>2. /\ x # Silent /\ x.txt # 4 /\ radio' = [radio EXCEPT ![t] = [x EXCEPT !.consumed = TRUE]]
      /\ UNCHANGED <<arrived, malformed, lost>>
    BY <1>1 DEF Reaches
<1>3. PICK y : y = [x EXCEPT !.consumed = TRUE]
    OBVIOUS
<1>4. t \in Phones => PackageOK(x, 1..4, Chars(t), {Server})
    BY <1>1 DEF RelayTypes, RadioOK
<1>5. t = Server => PackageOK(x, {1, 3, 4}, ReplyChar, Towers)
    BY <1>1 DEF RelayTypes, RadioOK
<1>6. t \in Phones \/ t = Server
    BY DEF Towers
<1>7. t \in Phones => PackageOK(y, 1..4, Chars(t), {Server}) /\ x.txt \in 1..3
    <2>1. t \in Phones => PackageOK(y, 1..4, Chars(t), {Server}) /\ x.txt \in 1..4
        BY <1>2, <1>3, <1>4, ConsumedPackage
    <2> QED
        BY <1>2, <2>1
<1>8. t = Server => PackageOK(y, {1, 3, 4}, ReplyChar, Towers) /\ x.txt \in 1..3
    <2>1. t = Server => PackageOK(y, {1, 3, 4}, ReplyChar, Towers) /\ x.txt \in {1, 3, 4}
        BY <1>2, <1>3, <1>5, ConsumedPackage
    <2> QED
        BY <1>2, <2>1
<1>9. RadioOK'
    BY <1>2, <1>3, <1>7, <1>8, RadioStep DEF RelayTypes
<1>10. BoundsOK'
    <2>1. repeats' \in 0..MaxRepeats
        <3>1. x.consumed \in BOOLEAN
            BY <1>2, <1>4, <1>5, <1>6 DEF PackageOK
        <3>2. repeats' = (IF x.consumed THEN repeats + 1 ELSE repeats)
            BY <1>1 DEF Reaches
        <3>3. x.consumed => repeats < MaxRepeats
            BY <1>1 DEF Reaches
        <3> QED
            BY <3>1, <3>2, <3>3, RelayConstants DEF RelayTypes, BoundsOK
    <2> QED
        BY <1>2, <2>1 DEF RelayTypes, BoundsOK
<1> QED
    BY <1>1, <1>2, <1>6, <1>7, <1>8, <1>9, <1>10

\* consumeInfo on the server.
HearsNumber(p, s) ==
    /\ radio[p].txt = 2 /\ UNCHANGED <<message, published>>
    /\ server' = [s EXCEPT !.telephone = Digits(s.actual), !.hello = TRUE]
    /\ upTroubles' = upTroubles \cup Again(p)
           \cup When(Digits(s.actual) # Digits(radio[p].payload), "staleDigits")

LEMMA ConsumeServerFacts ==
    ASSUME RelayTypes, NEW p \in Phones, ConsumeAtServer(p)
    PROVE  /\ radio[p] # Silent
           /\ radio' = [radio EXCEPT ![p] = [radio[p] EXCEPT !.consumed = TRUE]]
           /\ UNCHANGED <<phoneVars, cut, replyVars, downTroubles>>
           /\ \E s : /\ ServerOK(s) /\ s.telephone = server.telephone /\ s.hello = server.hello
                     /\ HearsNumber(p, s) \/ ConsumeText(p, s)
<1>1. Reaches(p) /\ p \in Towers
    BY Places DEF ConsumeAtServer
<1>2. PICK s \in Decapsulated(radio[p].payload) : \E heard :
          /\ heard = [s EXCEPT !.bluetooth_tower = p]
          /\ ConsumeNumber(p, heard) \/ ConsumeText(p, heard)
    BY DEF ConsumeAtServer
<1>3. ServerOK(s) /\ s.telephone = server.telephone /\ s.hello = server.hello
    <2>1. ServerOK(server)
        BY DEF RelayTypes
    <2> QED
        BY <1>2, <2>1 DEF Decapsulated, ServerOK
<1>4. PICK heard : /\ heard = [s EXCEPT !.bluetooth_tower = p]
                   /\ ConsumeNumber(p, heard) \/ ConsumeText(p, heard)
    BY <1>2
<1>5. /\ ServerOK(heard) /\ heard.telephone = server.telephone
      /\ heard.hello = server.hello
    BY <1>1, <1>3, <1>4 DEF ServerOK
<1>6. ConsumeNumber(p, heard) => HearsNumber(p, heard)
    BY DEF ConsumeNumber, HearsNumber, UpTrouble
<1>7. UNCHANGED <<phoneVars, cut, replyVars, downTroubles>>
    BY DEF ConsumeAtServer
<1> QED
    BY <1>1, <1>4, <1>5, <1>6, <1>7, ReachesFacts

\* What is put together stays a sequence of characters.
LEMMA NextMessageOK ==
    ASSUME NEW S, NEW old \in Seq(S), NEW payload \in Seq(S), NEW txt
    PROVE  /\ old \o payload \in Seq(S) /\ Len(old \o payload) = Len(old) + Len(payload)
           /\ NextMessage(old \o payload, txt) \in Seq(S)
           /\ NextMessage(old \o payload, txt) = IF txt = 3 THEN <<>> ELSE old \o payload
BY ConcatProperties DEF NextMessage

LEMMA ConsumeServerTypes ==
    ASSUME RelayTypes, NEW p \in Phones, ConsumeAtServer(p)
    PROVE  RelayTypes'
<1>1. RadioOK' /\ BoundsOK' /\ radio[p].txt \in 1..3
    BY ReachesFacts, Places DEF ConsumeAtServer
<1>2. PICK s : /\ ServerOK(s) /\ s.telephone = server.telephone
               /\ HearsNumber(p, s) \/ ConsumeText(p, s)
    BY ConsumeServerFacts
<1>3. UNCHANGED <<reader, cut, incoming, wifi>>
    BY DEF ConsumeAtServer, phoneVars, replyVars
<1>4. CutOK' /\ WifiOK'
    BY <1>3 DEF RelayTypes, CutOK, WifiOK
<1>5. ServerOK(server')
    <2>1. CASE HearsNumber(p, s)
        BY <1>2, <2>1 DEF HearsNumber, ServerOK
    <2>2. CASE ConsumeText(p, s)
        <3>1. server' = [s EXCEPT !.hello = FALSE] \/ server' = s
            BY <2>2 DEF ConsumeText
        <3> QED
            BY <1>2, <3>1 DEF ServerOK
    <2> QED
        BY <1>2, <2>1, <2>2
<1>6. MessageOK'
    <2>1. CASE HearsNumber(p, s)
        BY <2>1 DEF HearsNumber, RelayTypes, MessageOK
    <2>2. CASE ConsumeText(p, s)
        <3>1. PICK old, payload : old = message[Server] /\ payload = radio[p].payload
            OBVIOUS
        <3>2. old \in Seq(PhoneChar) /\ payload \in Seq(PhoneChar)
            <4>1. payload \in Seq(Chars(p))
                <5>1. PackageOK(radio[p], 1..4, Chars(p), {Server}) /\ radio[p] # Silent
                    BY ConsumeServerFacts DEF RelayTypes, RadioOK
                <5> QED
                    BY <3>1, <5>1 DEF PackageOK
            <4>2. Chars(p) \subseteq PhoneChar
                BY DEF Chars, PhoneChar
            <4> QED
                BY <3>1, <4>1, <4>2, SeqMonotonic DEF RelayTypes, MessageOK
        <3>3. PICK new : new = NextMessage(old \o payload, radio[p].txt)
            OBVIOUS
        <3>4. new \in Seq(PhoneChar)
            BY <3>2, <3>3, NextMessageOK
        <3>5. message' = [message EXCEPT ![Server] = new]
            BY <2>2, <3>1, <3>3 DEF ConsumeText
        <3> QED
            BY <3>4, <3>5, Places DEF RelayTypes, MessageOK
    <2> QED
        BY <1>2, <2>1, <2>2
<1> QED
    BY <1>1, <1>4, <1>5, <1>6 DEF RelayTypes

LEMMA ConsumeTowerTypes ==
    ASSUME RelayTypes, NEW p \in Phones, ConsumeAtTower(p)
    PROVE  RelayTypes'
<1>1. RadioOK' /\ BoundsOK' /\ radio[Server] # Silent
    BY ReachesFacts, Places DEF ConsumeAtTower
<1>2. UNCHANGED <<reader, cut, server, incoming, wifi>>
    BY DEF ConsumeAtTower, phoneVars
<1>3. CutOK' /\ WifiOK' /\ ServerOK(server')
    BY <1>2 DEF RelayTypes, CutOK, WifiOK
<1>4. MessageOK'
    <2>1. PICK old, payload : old = message[p] /\ payload = radio[Server].payload
        OBVIOUS
    <2>2. old \in Seq(ReplyChar) /\ payload \in Seq(ReplyChar)
        BY <1>1, <2>1 DEF RelayTypes, RadioOK, PackageOK, MessageOK
    <2>3. PICK new : new = NextMessage(old \o payload, radio[Server].txt)
        OBVIOUS
    <2>4. new \in Seq(ReplyChar)
        BY <2>2, <2>3, NextMessageOK
    <2>5. message' = [message EXCEPT ![p] = new]
        BY <2>1, <2>3 DEF ConsumeAtTower
    <2> QED
        BY <2>4, <2>5, Places DEF RelayTypes, MessageOK
<1> QED
    BY <1>1, <1>3, <1>4 DEF RelayTypes

LEMMA EndsTypes ==
    ASSUME RelayTypes, NEW t \in Towers, ExchangeEnds(t)
    PROVE  RelayTypes' /\ radio'[t] = Silent /\ \A q \in Towers : q # t => radio'[q] = radio[q]
<1>1. /\ radio' = [radio EXCEPT ![t] = Silent]
      /\ UNCHANGED <<reader, cut, message, server, arrived, malformed, repeats, incoming, wifi>>
    BY DEF ExchangeEnds, phoneVars, replyVars
<1>2. RadioOK' /\ radio'[t] = Silent /\ \A q \in Towers : q # t => radio'[q] = radio[q]
    BY <1>1, RadioStep DEF RelayTypes, PackageOK
<1>3. lost' \in 0..MaxLost
    BY RelayConstants DEF ExchangeEnds, RelayTypes, BoundsOK
<1> QED
    BY <1>1, <1>2, <1>3 DEF RelayTypes, MessageOK, CutOK, WifiOK, BoundsOK


LEMMA ArrivesTypes ==
    ASSUME RelayTypes, NEW text \in Seq(ReplyChar), MessageArrives(text),
           text = Malformed => malformed < MaxMalformed
    PROVE  RelayTypes'
<1>1. UNCHANGED <<reader, cut, radio, message, server, lost, repeats, wifi>>
    BY DEF MessageArrives, phoneVars
<1>2. incoming' = [text |-> text, received |-> TRUE, to |-> server.bluetooth_tower]
    BY DEF MessageArrives
<1>3. WifiOK'
    BY <1>1, <1>2 DEF RelayTypes, WifiOK, ServerOK
<1>4. BoundsOK'
    BY <1>1, RelayConstants DEF MessageArrives, RelayTypes, BoundsOK
<1> QED
    BY <1>1, <1>3, <1>4 DEF RelayTypes, RadioOK, MessageOK, ServerOK, CutOK

\* What arrives: a reply, or something malformed.
LEMMA ReplyText ==
    ASSUME RelayTypes, ReplyArrives
    PROVE  \E text \in Seq(ReplyChar) : /\ MessageArrives(text)
                                        /\ text = Malformed => malformed < MaxMalformed
<1>1. arrived \in Nat /\ NUL \in ReplyChar
    BY RelayConstants DEF RelayTypes, BoundsOK, NUL, ReplyChar
<1>2. CASE \E n \in ReplyLengths : MessageArrives(Content("reply", Server, arrived + 1, n))
    <2>1. PICK n \in ReplyLengths : MessageArrives(Content("reply", Server, arrived + 1, n))
        BY <1>2
    <2>2. n \in Nat
        BY RelayConstants
    <2>3. PICK text : text = Content("reply", Server, arrived + 1, n)
        OBVIOUS
    <2>4. text = [k \in 1..n |-> <<"reply", Server, arrived + 1, k>>]
        BY <2>3 DEF Content
    <2>5. \A k \in 1..n : <<"reply", Server, arrived + 1, k>> \in ReplyChar
        BY <1>1 DEF ReplyChar, Server
    <2>6. text \in Seq(ReplyChar) /\ Len(text) = n
        BY <2>2, <2>4, <2>5, IsASeq
    <2>7. text # Malformed
        <3>1. text = Malformed => n = 1 /\ text[1] = NUL
            BY <2>6 DEF Malformed
        <3>2. n = 1 => text[1] # NUL
            BY <2>4 DEF NUL
        <3> QED
            BY <3>1, <3>2
    <2> QED
        BY <2>1, <2>3, <2>6, <2>7
<1>3. CASE malformed < MaxMalformed /\ MessageArrives(Malformed)
    <2>1. Malformed \in Seq(ReplyChar)
        BY <1>1 DEF Malformed
    <2> QED
        BY <1>3, <2>1
<1> QED
    BY <1>2, <1>3 DEF ReplyArrives

\* What Extract does to the server.
Restarts == /\ wifi' = Waiting /\ server' = Started /\ incoming' = NoMessage
            /\ message' = [message EXCEPT ![Server] = <<>>]
            /\ radio' = [radio EXCEPT ![Server] = Silent]
            /\ upTroubles' # {} /\ downTroubles' # {}

Aims == /\ wifi' = [at |-> "aiming", text |-> incoming.text, ind |-> 0, dest |-> Server,
                    to |-> incoming.to]
        /\ UNCHANGED <<radio, message, server, incoming, upTroubles, downTroubles>>

LEMMA ExtractFacts ==
    ASSUME Extract
    PROVE  /\ UNCHANGED <<phoneVars, cut, relayBounds, replied, notified, published>>
           /\ wifi.at = "woken"
           /\ Aims \/ Restarts
<1>1. CASE incoming.text # Malformed
    BY <1>1 DEF Extract, Aims, Waiting
<1>2. CASE incoming.text = Malformed
    BY <1>2 DEF Extract, Restarts, UpTrouble, DownTrouble
<1> QED
    BY <1>1, <1>2 DEF Extract

\* The package MQTTreceive hands over, and where it goes on.
HandsReply(r) ==
    LET next == wifi.ind + Diff(wifi.text, wifi.ind)
    IN  /\ r.txt = Cut(wifi.text, wifi.ind).txt
        /\ r = [txt |-> r.txt, payload |-> Chunk(wifi.text, wifi.ind), dest |-> wifi.dest,
                consumed |-> FALSE]
        /\ wifi' = IF next = Len(wifi.text) THEN Waiting
                   ELSE [wifi EXCEPT !.at = "aiming", !.ind = next]

LEMMA HandReplyFacts ==
    ASSUME RelayTypes, HandOverReply
    PROVE  /\ radio[Server] = Silent /\ wifi.at = "spinning"
           /\ UNCHANGED <<phoneVars, cut, message, server, relayBounds, incoming, replied, notified,
                          published, upTroubles>>
           /\ downTroubles' = downTroubles \cup CutTroubles(wifi.text)
                                  \cup When(wifi.dest # wifi.to, "retargeted")
           /\ \E r : /\ radio' = [radio EXCEPT ![Server] = r] /\ HandsReply(r)
                     /\ PackageOK(r, {1, 3, 4}, ReplyChar, Towers)
<1>1. PICK text, ind : text = wifi.text /\ ind = wifi.ind
    OBVIOUS
<1>2. text \in Seq(ReplyChar) /\ ind \in 0..Len(text) /\ wifi.dest \in Towers
    BY <1>1, LenProperties DEF RelayTypes, WifiOK
<1>3. PICK x, y, d : x = Cut(text, ind).txt /\ y = Chunk(text, ind) /\ d = Diff(text, ind)
    OBVIOUS
<1>4. /\ Cut(text, ind) = [txt |-> x, payload |-> y] /\ x \in {1, 3, 4}
      /\ y \in Seq(ReplyChar) /\ Len(y) = d /\ (x = 1 => d = LoraBytes) /\ d \in Nat
    BY <1>2, <1>3, Pieces
<1>5. PICK r : r = [txt |-> x, payload |-> y, dest |-> wifi.dest, consumed |-> FALSE]
    OBVIOUS
<1>6. PackageOK(r, {1, 3, 4}, ReplyChar, Towers)
    BY <1>2, <1>4, <1>5 DEF PackageOK
<1>7. Send(Server, wifi.dest, Cut(text, ind))
    BY <1>1 DEF HandOverReply
<1>8. radio[Server] = Silent /\ radio' = [radio EXCEPT ![Server] = r]
    BY <1>4, <1>5, <1>7 DEF Send
<1>9. wifi' = IF ind + d = Len(text) THEN Waiting ELSE [wifi EXCEPT !.at = "aiming", !.ind = ind + d]
    BY <1>1, <1>3 DEF HandOverReply
<1>10. HandsReply(r)
    BY <1>1, <1>3, <1>5, <1>9 DEF HandsReply
<1>11. downTroubles' = downTroubles \cup CutTroubles(wifi.text)
                                  \cup When(wifi.dest # wifi.to, "retargeted")
    BY DEF HandOverReply, DownTrouble
<1>12. /\ wifi.at = "spinning"
       /\ UNCHANGED <<phoneVars, cut, message, server, relayBounds, incoming, replied, notified,
                      published, upTroubles>>
    BY DEF HandOverReply
<1> QED
    BY <1>6, <1>8, <1>10, <1>11, <1>12

LEMMA WifiTypes ==
    ASSUME RelayTypes, WifiThread
    PROVE  RelayTypes'
<1>1. CASE WifiWakes \/ Aim
    <2>1. UNCHANGED <<reader, cut, radio, message, server, relayBounds>>
        BY <1>1 DEF WifiWakes, Aim, phoneVars
    <2>2. WifiOK'
        BY <1>1, Places DEF WifiWakes, Aim, RelayTypes, WifiOK, ServerOK
    <2> QED
        BY <2>1, <2>2 DEF RelayTypes, RadioOK, MessageOK, ServerOK, CutOK, BoundsOK, relayBounds
<1>2. CASE Extract
    <2>1. UNCHANGED <<reader, cut, arrived, malformed, lost, repeats>>
        BY <1>2, ExtractFacts DEF phoneVars, relayBounds
    <2>2. CutOK' /\ BoundsOK'
        BY <2>1 DEF RelayTypes, CutOK, BoundsOK
    <2>3. CASE Aims
        <3>1. WifiOK'
            BY <2>3, Places, LenProperties DEF Aims, RelayTypes, WifiOK
        <3> QED
            BY <2>2, <2>3, <3>1 DEF Aims, RelayTypes, RadioOK, MessageOK, ServerOK
    <2>4. CASE Restarts
        <3>1. RadioOK'
            BY <2>4, RadioStep, Places DEF Restarts, RelayTypes, PackageOK
        <3>2. MessageOK'
            <4>1. <<>> \in Seq(PhoneChar) /\ message' = [message EXCEPT ![Server] = <<>>]
                BY <2>4 DEF Restarts
            <4> QED
                BY <4>1, MessageStep, Places DEF RelayTypes
        <3>3. ServerOK(server') /\ WifiOK'
            BY <2>4, Places DEF Restarts, ServerOK, WifiOK, Started, Waiting, NoMessage
        <3> QED
            BY <2>2, <3>1, <3>2, <3>3 DEF RelayTypes
    <2> QED
        BY <1>2, <2>3, <2>4, ExtractFacts
<1>3. CASE HandOverReply
    <2>1. UNCHANGED <<reader, cut, message, server, arrived, malformed, lost, repeats, incoming>>
        BY <1>3, HandReplyFacts DEF phoneVars, relayBounds
    <2>2. PICK r : /\ radio' = [radio EXCEPT ![Server] = r] /\ HandsReply(r)
                   /\ PackageOK(r, {1, 3, 4}, ReplyChar, Towers)
        BY <1>3, HandReplyFacts
    <2>3. RadioOK'
        BY <2>2, RadioStep, Places DEF RelayTypes
    <2>4. WifiOK'
        <3>1. PICK n : n = wifi.ind + Diff(wifi.text, wifi.ind)
            OBVIOUS
        <3>2. n \in 0..Len(wifi.text) /\ Len(wifi.text) \in Nat
            BY <3>1, Pieces, LenProperties DEF RelayTypes, WifiOK
        <3>3. wifi' = Waiting \/ wifi' = [wifi EXCEPT !.at = "aiming", !.ind = n]
            BY <2>2, <3>1 DEF HandsReply
        <3>4. CASE wifi' = Waiting
            BY <2>1, <3>4, Places DEF WifiOK, Waiting, RelayTypes
        <3>5. CASE wifi' = [wifi EXCEPT !.at = "aiming", !.ind = n]
            <4>1. /\ wifi \in [at : {"waiting", "woken", "aiming", "spinning"},
                              text : Seq(ReplyChar), ind : Nat, dest : Towers, to : Towers]
                  /\ incoming' \in [text : Seq(ReplyChar), received : BOOLEAN, to : Towers]
                BY <2>1 DEF WifiOK, RelayTypes
            <4>2. n \in Nat /\ n <= Len(wifi.text)
                BY <3>2
            <4>3. /\ wifi' \in [at : {"waiting", "woken", "aiming", "spinning"},
                               text : Seq(ReplyChar), ind : Nat, dest : Towers, to : Towers]
                  /\ wifi'.ind = n /\ wifi'.text = wifi.text
                BY <3>5, <4>1, <4>2
            <4> QED
                BY <4>1, <4>2, <4>3 DEF WifiOK
        <3> QED
            BY <3>3, <3>4, <3>5
    <2> QED
        BY <2>1, <2>3, <2>4 DEF RelayTypes, MessageOK, CutOK, BoundsOK
<1> QED
    BY <1>1, <1>2, <1>3 DEF WifiThread

LEMMA RelayTypesStep == PhoneInv /\ BytesInv /\ RelayTypes /\ [Next]_vars => RelayTypes'
<1> SUFFICES ASSUME PhoneInv, BytesInv, RelayTypes, [Next]_vars PROVE RelayTypes'
    OBVIOUS
<1>1. ASSUME NEW p \in Phones, PhoneStep(p) PROVE RelayTypes'
    BY <1>1, PhoneStepTypes
<1>2. ASSUME NEW p \in Phones, HandOver(p) PROVE RelayTypes'
    BY <1>2, HandOverTypes
<1>3. ASSUME NEW p \in Phones, ConsumeAtServer(p) PROVE RelayTypes'
    BY <1>3, ConsumeServerTypes
<1>4. ASSUME NEW p \in Phones, ConsumeAtTower(p) PROVE RelayTypes'
    BY <1>4, ConsumeTowerTypes
<1>5. ASSUME NEW t \in Towers, ExchangeEnds(t) PROVE RelayTypes'
    BY <1>5, EndsTypes
<1>6. CASE ReplyArrives
    BY <1>6, ReplyText, ArrivesTypes
<1>7. CASE WifiThread
    BY <1>7, WifiTypes
<1>8. CASE UNCHANGED vars
    BY <1>8 DEF vars, phoneVars, replyVars, relayBounds, RelayTypes, RadioOK, MessageOK, ServerOK,
                WifiOK, CutOK, BoundsOK
<1> QED
    BY <1>1, <1>2, <1>3, <1>4, <1>5, <1>6, <1>7, <1>8 DEF Next

LEMMA RelayTypesInvariant == Spec => [](PhoneInv /\ BytesInv /\ RelayTypes)
<1>1. Spec => [](PhoneInv /\ BytesInv)
    BY RelayImplementsPhones, BytesInvariant, PTL
<1> QED
    BY <1>1, RelayTypesInit, RelayTypesStep, PTL DEF Spec

\* ind never passes the end of the text that is being cut, in thread_Bluetooth and in
\* MQTTreceive (main.cpp:209-221, WIFI.cpp:651-664), and nobody is sent a package by a
\* tower that does not exist.
THEOREM RelayTypeCorrect == Spec => []TypeOK
<1>1. Spec => []PhoneTypeOK
    BY RelayImplementsPhones, PhonesTypeCorrect, PTL
<1>2. BytesInv /\ RelayTypes /\ PhoneTypeOK => TypeOK
    <2> SUFFICES ASSUME BytesInv, RelayTypes, PhoneTypeOK PROVE TypeOK
        OBVIOUS
    <2>1. ASSUME NEW p \in Phones PROVE cut[p] \in 0..Len(reader[p].data)
        <3>1. Len(reader[p].data) \in Nat /\ cut[p] \in Nat
            BY LenProperties DEF BytesInv, BytesOK, ReaderBytes, RelayTypes, CutOK
        <3> QED
            BY <3>1 DEF RelayTypes, CutOK
    <2>2. ASSUME NEW t \in Towers, radio[t] # Silent
          PROVE  radio[t].txt \in 1..4 /\ radio[t].dest \in Towers /\ radio[t].consumed \in BOOLEAN
        <3>1. t \in Phones \/ t = Server
            BY DEF Towers
        <3> QED
            BY <2>2, <3>1, Places, SMTT(20) DEF RelayTypes, RadioOK, PackageOK
    <2>3. wifi.ind \in 0..Len(wifi.text)
        BY LenProperties DEF RelayTypes, WifiOK
    <2> QED
        BY <2>1, <2>2, <2>3 DEF TypeOK, RelayTypes, ServerOK, WifiOK, BoundsOK
<1> QED
    BY <1>1, <1>2, RelayTypesInvariant, PTL


---------------------------------------------------------------------------
(***************************************************************************)
(* Texts on their way up.                                                  *)
(***************************************************************************)
\* r is a package still to be consumed.
Carries(r, txt) == r.txt = txt /\ ~r.consumed

\* The characters of phone p in what the server puts together, m.
PartOf(m, p) == IF m # <<>> /\ m[1][2] = p THEN Len(m) ELSE 0

\* Only a text with a last package is cut.
Cuttable(text) == Len(text) > LoraBytes /\ Len(text) % LoraBytes # 0

\* Tower p sends package r, has cut c characters off text d, and the server holds m: what
\* has been cut off is what the server holds and what is on the air.  With the last package
\* on the air thread_Bluetooth has gone on to its next text.
UpOK(p, r, c, m, d) ==
    /\ c > 0 => Cuttable(d) /\ c % LoraBytes = 0
    /\ Carries(r, 1) => PartOf(m, p) + Len(r.payload) = c
    /\ Carries(r, 3) => PartOf(m, p) + Len(r.payload) < BufSize /\ c = 0
    /\ ~Carries(r, 1) /\ ~Carries(r, 3) => PartOf(m, p) = c
    /\ Carries(r, 2) => Len(r.payload) <= NumberDigits

PublishedOK(s) == /\ \E S : s \in Seq(S)
                  /\ \A i \in DOMAIN s : Len(s[i].text) < MessageSize

UpInv ==
    /\ published = [p \in Phones |-> published[p]]
    /\ Undisturbed =>
        /\ \A p \in Phones : UpOK(p, radio[p], cut[p], message[Server], reader[p].data)
        /\ \A p \in Phones : PublishedOK(published[p])
        /\ Len(server.telephone) <= NumberDigits

LEMMA Multiples ==
    ASSUME NEW L \in Nat \ {0}, NEW a \in Nat, a % L = 0
    PROVE  (a + L) % L = 0
<1>1. \E k \in Nat : a = L * k
    OBVIOUS
<1>2. PICK k \in Nat : a = L * k
    BY <1>1
<1>3. (L * k + L) % L = 0
    OBVIOUS
<1> QED
    BY <1>2, <1>3

\* The next package of a text without trouble: it is the last one exactly when it reaches
\* the end.
LEMMA NextPiece ==
    ASSUME NEW S, NEW text \in Seq(S), NEW c \in 0..Len(text), CutTroubles(text) = {},
           c > 0 => c < Len(text) /\ Cuttable(text) /\ c % LoraBytes = 0,
           NEW n, n = c + Diff(text, c)
    PROVE  /\ Cut(text, c).txt \in {1, 3} /\ n \in 0..Len(text)
           /\ Len(Chunk(text, c)) = n - c
           /\ Cut(text, c).txt = 1 => /\ n < Len(text) /\ n > 0 /\ n % LoraBytes = 0
                                      /\ Cuttable(text)
           /\ Cut(text, c).txt = 3 => n = Len(text)
<1>1. Len(text) \in Nat /\ LoraBytes \in Nat \ {0} /\ (Len(text) = 0 => text = <<>>)
    BY LenProperties, RelayConstants, EmptySeq
<1>2. text # <<>> /\ ~(Len(text) > LoraBytes /\ Len(text) % LoraBytes = 0)
    BY DEF CutTroubles, When
<1>3. PICK x, d : x = Cut(text, c).txt /\ d = Diff(text, c)
    OBVIOUS
<1>4. /\ d \in Nat /\ c + d \in 0..Len(text) /\ Len(Chunk(text, c)) = d
      /\ d = (IF Len(text) - c > LoraBytes THEN LoraBytes ELSE Len(text) - c)
      /\ x \in {1, 3, 4} /\ (x = 1 <=> Len(text) > LoraBytes /\ d = LoraBytes)
      /\ (x = 4 <=> text = <<>>)
    BY <1>3, Pieces
<1>5. x \in {1, 3} /\ n = c + d
    BY <1>2, <1>3, <1>4
<1>6. c % LoraBytes = 0
    BY <1>1
<1>7. ASSUME x = 1 PROVE n < Len(text) /\ n > 0 /\ n % LoraBytes = 0 /\ Cuttable(text)
    <2>1. Len(text) > LoraBytes /\ n = c + LoraBytes /\ n \in 0..Len(text)
        BY <1>4, <1>5, <1>7
    <2>2. n % LoraBytes = 0
        BY <1>1, <1>6, <2>1, Multiples
    <2>3. n # Len(text)
        BY <1>2, <2>1, <2>2
    <2> QED
        BY <1>1, <1>2, <2>1, <2>2, <2>3 DEF Cuttable
<1>8. ASSUME x = 3 PROVE n = Len(text)
    <2>1. ~(Len(text) > LoraBytes /\ d = LoraBytes)
        BY <1>4, <1>8
    <2>2. CASE Len(text) <= LoraBytes
        <3>1. c = 0
            BY <1>1, <2>2 DEF Cuttable
        <3> QED
            BY <1>1, <1>4, <1>5, <2>2, <3>1
    <2>3. CASE Len(text) > LoraBytes
        BY <1>1, <1>4, <1>5, <2>1, <2>3
    <2> QED
        BY <1>1, <2>2, <2>3
<1>9. Len(Chunk(text, c)) = n - c /\ n \in 0..Len(text)
    BY <1>1, <1>4, <1>5
<1>10. x = 1 => n < Len(text) /\ n > 0 /\ n % LoraBytes = 0 /\ Cuttable(text)
    BY <1>7
<1>11. x = 3 => n = Len(text)
    BY <1>8
<1> QED
    BY <1>3, <1>5, <1>9, <1>10, <1>11, Zenon

\* A number has no more digits than characters.
LEMMA DigitsShort ==
    ASSUME NEW S, NEW s \in Seq(S)
    PROVE  Len(Digits(s)) \in Nat /\ Len(Digits(s)) <= Len(s)
<1> DEFINE places == {i \in DOMAIN s : IsDigit(s[i])}
           Place(k) == CHOOSE i \in places : Cardinality({j \in places : j <= i}) = k
<1>1. Len(s) \in Nat /\ DOMAIN s = 1..Len(s)
    BY LenProperties
<1>2. IsFiniteSet(1..Len(s)) /\ Cardinality(1..Len(s)) = Len(s)
    BY <1>1, FS_Interval
<1>3. places \subseteq 1..Len(s)
    BY <1>1
<1>4. Cardinality(places) <= Len(s) /\ IsFiniteSet(places)
    BY <1>2, <1>3, FS_Subset
<1>5. Cardinality(places) \in Nat
    BY <1>4, FS_CardinalityType
<1>6. Digits(s) = [k \in 1..Cardinality(places) |-> s[Place(k)]]
    BY DEF Digits
<1> HIDE DEF places, Place
<1>7. Len([k \in 1..Cardinality(places) |-> s[Place(k)]]) = Cardinality(places)
    BY <1>5
<1> QED
    BY <1>4, <1>5, <1>6, <1>7

LEMMA UpInit == Init => UpInv
<1> SUFFICES ASSUME Init PROVE UpInv
    OBVIOUS
<1>1. published = [p \in Phones |-> <<>>] /\ Len(server.telephone) = 0
    BY DEF Init, Started
<1>2. ASSUME NEW p \in Phones PROVE UpOK(p, radio[p], cut[p], message[Server], reader[p].data)
    <2>1. radio[p] = Silent /\ cut[p] = 0 /\ message[Server] = <<>>
        BY Places DEF Init
    <2> QED
        BY <2>1 DEF UpOK, Carries, PartOf, Silent
<1>3. PublishedOK(<<>>)
    BY DEF PublishedOK
<1>4. published = [p \in Phones |-> published[p]] /\ \A p \in Phones : published[p] = <<>>
    BY <1>1
<1> QED
    BY <1>1, <1>2, <1>3, <1>4, PhoneConstants DEF UpInv

\* A step that leaves all this alone.
LEMMA UpKept ==
    ASSUME CutOK, UpInv, Undisturbed' => Undisturbed,
           \A q \in Phones : radio'[q] = radio[q] /\ (cut[q] > 0 => reader'[q] = reader[q]),
           cut' = cut, message'[Server] = message[Server], published' = published,
           server'.telephone = server.telephone
    PROVE  UpInv'
<1>1. (published = [p \in Phones |-> published[p]])'
    BY DEF UpInv
<1> SUFFICES ASSUME Undisturbed'
             PROVE  (/\ \A p \in Phones : UpOK(p, radio[p], cut[p], message[Server], reader[p].data)
                     /\ \A p \in Phones : PublishedOK(published[p])
                     /\ Len(server.telephone) <= NumberDigits)'
    BY <1>1 DEF UpInv
<1>2. ASSUME NEW p \in Phones
      PROVE  UpOK(p, radio'[p], cut'[p], message'[Server], reader'[p].data)
    <2>1. UpOK(p, radio[p], cut[p], message[Server], reader[p].data)
        BY DEF UpInv
    <2>2. CASE cut[p] > 0
        BY <2>1, <2>2
    <2>3. CASE ~(cut[p] > 0)
        BY <2>1, <2>3 DEF UpOK
    <2> QED
        BY <2>2, <2>3
<1>3. \A p \in Phones : PublishedOK(published'[p])
    BY DEF UpInv
<1>4. Len(server'.telephone) <= NumberDigits
    BY DEF UpInv
<1> QED
    BY <1>2, <1>3, <1>4

\* Nothing that has gone wrong is forgotten.
LEMMA Disturbances ==
    ASSUME mishaps' = mishaps, upTroubles \subseteq upTroubles'
    PROVE  Undisturbed' => Undisturbed /\ upTroubles' = {}
BY DEF Undisturbed


LEMMA PhoneStepUp ==
    ASSUME PhoneInv, BytesInv, RelayTypes, UpInv, NEW p \in Phones, PhoneStep(p)
    PROVE  UpInv'
<1>1. UNCHANGED <<cut, radio, message, server, published, upTroubles>>
    BY DEF PhoneStep
<1>2. Undisturbed' => Undisturbed
    BY <1>1, PhoneStepKeeps DEF Undisturbed
<1>3. \A q \in Phones : cut[q] > 0 => reader'[q] = reader[q]
    BY PhoneStepKeeps DEF RelayTypes, CutOK
<1> QED
    BY <1>1, <1>2, <1>3, UpKept DEF RelayTypes

LEMMA HandOverUp ==
    ASSUME PhoneInv, BytesInv, RelayTypes, UpInv, NEW p \in Phones, HandOver(p)
    PROVE  UpInv'
<1>1. PICK m, text, c : m = message[Server] /\ text = reader[p].data /\ c = cut[p]
    OBVIOUS
<1>2. /\ radio[p] = Silent /\ reader[p].at = "send" /\ text \in Seq(Chars(p))
      /\ c \in 0..Len(text) /\ upTroubles \subseteq upTroubles'
      /\ message'[Server] = m /\ server' = server /\ published' = published
    BY <1>1, HandOverFacts
<1>3. PICK r : /\ radio' = [radio EXCEPT ![p] = r]
               /\ HandsNumber(p, r) \/ HandsText(p, r)
               /\ PackageOK(r, 1..4, Chars(p), {Server})
    BY HandOverFacts
<1>4. radio'[p] = r /\ \A q \in Phones : q # p => radio'[q] = radio[q]
    BY <1>3, RadioStep, Places DEF RelayTypes
<1>5. PICK n : cut' = [cut EXCEPT ![p] = n] /\ (Sent(p) \/ UNCHANGED phoneVars)
    BY <1>3, Zenon DEF HandsNumber, HandsText
<1>6. /\ mishaps' = mishaps /\ cut'[p] = n
      /\ \A q \in Phones : q # p => cut'[q] = cut[q] /\ reader'[q] = reader[q]
    BY <1>5 DEF Sent, phoneVars, PhoneInv, Functions, RelayTypes, CutOK
<1>7. (published = [q \in Phones |-> published[q]])'
    BY <1>2 DEF UpInv
<1> SUFFICES ASSUME Undisturbed'
             PROVE  (/\ \A q \in Phones : UpOK(q, radio[q], cut[q], message[Server], reader[q].data)
                     /\ \A q \in Phones : PublishedOK(published[q])
                     /\ Len(server.telephone) <= NumberDigits)'
    BY <1>7 DEF UpInv
<1>8. Undisturbed /\ upTroubles' = {} /\ mishaps[p] = {}
    BY <1>2, <1>6, Disturbances DEF Undisturbed
<1>9. UpOK(p, Silent, c, m, text)
    BY <1>1, <1>2, <1>8 DEF UpInv
<1>10. PartOf(m, p) = c /\ (c > 0 => Cuttable(text) /\ c % LoraBytes = 0)
    BY <1>9 DEF UpOK, Carries, Silent
<1>11. /\ Len(text) < BufSize /\ Len(text) \in Nat
       /\ reader[p].telephone_set => Len(text) <= NumberDigits
    <2>1. ReaderBytes(p, reader[p], mishaps[p])
        BY DEF BytesInv, BytesOK
    <2> QED
        BY <1>1, <1>2, <1>8, <2>1, LenProperties DEF ReaderBytes
<1>12. /\ c > 0 => c < Len(text)
       /\ reader[p].telephone_set => c = 0
    BY <1>1, <1>2 DEF RelayTypes, CutOK
<1>13. UpOK(p, r, n, m, reader'[p].data)
    <2>1. CASE HandsNumber(p, r)
        <3>1. r.txt \in {2, 4} /\ r.payload = text /\ c = 0 /\ n = 0
            <4>1. r = [txt |-> r.txt, payload |-> text, dest |-> Server, consumed |-> FALSE]
                BY <1>1, <2>1 DEF HandsNumber
            <4>2. cut' = [cut EXCEPT ![p] = 0]
                BY <2>1 DEF HandsNumber
            <4>3. n = 0
                BY <1>6, <4>2 DEF RelayTypes, CutOK
            <4> QED
                BY <1>12, <2>1, <4>1, <4>3 DEF HandsNumber
        <3> QED
            BY <1>10, <1>11, <2>1, <3>1 DEF UpOK, Carries, HandsNumber
    <2>2. CASE HandsText(p, r)
        <3>1. PICK x, k, y : /\ x = Cut(text, c).txt /\ k = c + Diff(text, c)
                             /\ y = Chunk(text, c)
            OBVIOUS
        <3>2. /\ r.txt = x
              /\ r = [txt |-> r.txt, payload |-> y, dest |-> Server, consumed |-> FALSE]
              /\ cut' = [cut EXCEPT ![p] = IF k = Len(text) THEN 0 ELSE k]
              /\ IF k = Len(text) THEN Sent(p) ELSE UNCHANGED phoneVars
              /\ upTroubles' = upTroubles \cup CutTroubles(text)
            BY <1>1, <2>2, <3>1 DEF HandsText
        <3>3. r.txt = x /\ r.payload = y /\ r.consumed = FALSE
            BY <3>2
        <3>4. n = IF k = Len(text) THEN 0 ELSE k
            BY <1>6, <3>2 DEF RelayTypes, CutOK
        <3>5. CutTroubles(text) = {}
            BY <1>8, <3>2
        <3>6. /\ x \in {1, 3} /\ k \in 0..Len(text) /\ Len(y) = k - c
              /\ x = 1 => k < Len(text) /\ k > 0 /\ k % LoraBytes = 0 /\ Cuttable(text)
              /\ x = 3 => k = Len(text)
            BY <1>2, <1>10, <1>12, <3>1, <3>5, NextPiece
        <3>7. CASE x = 1
            <4>1. n = k /\ reader'[p].data = text
                BY <1>1, <1>11, <3>2, <3>4, <3>6, <3>7 DEF phoneVars
            <4>2. PartOf(m, p) + Len(r.payload) = n
                BY <1>2, <1>10, <1>11, <3>3, <3>6, <4>1
            <4> QED
                BY <3>3, <3>6, <3>7, <4>1, <4>2 DEF UpOK, Carries
        <3>8. CASE x = 3
            <4>1. n = 0 /\ k = Len(text)
                BY <3>4, <3>6, <3>8
            <4>2. PartOf(m, p) + Len(r.payload) < BufSize
                BY <1>2, <1>10, <1>11, <3>3, <3>6, <4>1
            <4> QED
                BY <3>3, <3>8, <4>1, <4>2 DEF UpOK, Carries
        <3> QED
            BY <3>6, <3>7, <3>8
    <2> QED
        BY <1>3, <2>1, <2>2
<1>14. ASSUME NEW q \in Phones
       PROVE  UpOK(q, radio'[q], cut'[q], message'[Server], reader'[q].data)
    <2>1. CASE q = p
        BY <1>2, <1>4, <1>6, <1>13, <2>1
    <2>2. CASE q # p
        <3>1. UpOK(q, radio[q], cut[q], m, reader[q].data)
            BY <1>1, <1>8 DEF UpInv
        <3> QED
            BY <1>2, <1>4, <1>6, <2>2, <3>1
    <2> QED
        BY <2>1, <2>2
<1> QED
    BY <1>2, <1>8, <1>14 DEF UpInv


\* A package that is consumed once more, or consumed at all, carries nothing any more.
LEMMA Consumed ==
    ASSUME RelayTypes, NEW t \in Towers, radio[t] # Silent,
           radio' = [radio EXCEPT ![t] = [radio[t] EXCEPT !.consumed = TRUE]]
    PROVE  /\ \A txt : ~Carries(radio'[t], txt)
           /\ \A q \in Towers : q # t => radio'[q] = radio[q]
<1>1. radio'[t] = [radio[t] EXCEPT !.consumed = TRUE] /\ \A q \in Towers : q # t => radio'[q] = radio[q]
    BY DEF RelayTypes, RadioOK
<1>2. \/ radio[t] \in [txt : 1..4, payload : Seq(Chars(t)), dest : {Server}, consumed : BOOLEAN]
      \/ radio[t] \in [txt : {1, 3, 4}, payload : Seq(ReplyChar), dest : Towers, consumed : BOOLEAN]
    BY DEF RelayTypes, RadioOK, PackageOK, Towers
<1>3. radio'[t].consumed = TRUE
    BY <1>1, <1>2
<1> QED
    BY <1>1, <1>3 DEF Carries

LEMMA AppendOK ==
    ASSUME NEW s, PublishedOK(s), NEW e, Len(e.text) < MessageSize
    PROVE  PublishedOK(Append(s, e))
<1>1. PICK S : s \in Seq(S)
    BY DEF PublishedOK
<1>2. PICK T : T = S \cup {e}
    OBVIOUS
<1>3. s \in Seq(T) /\ e \in T
    BY <1>1, <1>2, SeqMonotonic
<1>4. PICK n : n = Append(s, e)
    OBVIOUS
<1>5. /\ n \in Seq(T) /\ Len(n) = Len(s) + 1 /\ Len(s) \in Nat /\ n[Len(s) + 1] = e
      /\ \A i \in 1..Len(s) : n[i] = s[i]
      /\ DOMAIN n = 1..Len(n) /\ DOMAIN s = 1..Len(s)
    BY <1>3, <1>4, AppendProperties, LenProperties
<1>6. \A i \in DOMAIN n : Len(n[i].text) < MessageSize
    BY <1>5 DEF PublishedOK
<1> QED
    BY <1>4, <1>5, <1>6 DEF PublishedOK

\* consumeInfo adds one package's characters to the message: p's own, or it is noted.
HeardOK(p, s, x, m, text) ==
    /\ Undisturbed /\ ~x.consumed /\ x.txt \in {1, 3}
    /\ message'[Server] = NextMessage(text, x.txt)
    /\ published' = (IF x.txt = 3 THEN MQTTpublishText(p, text, s) ELSE published)
    /\ server' = (IF x.txt = 3 THEN [s EXCEPT !.hello = FALSE] ELSE s)
    /\ x.txt = 1 => Len(x.payload) = LoraBytes
    /\ Len(m) \in Nat /\ Len(x.payload) \in Nat /\ Len(text) = Len(m) + Len(x.payload)
    /\ m # <<>> => m[1][2] = p
    /\ text # <<>> => text[1][2] = p
    /\ \A i \in DOMAIN s.telephone : s.telephone[i][2] = p

LEMMA TextHeard ==
    ASSUME RelayTypes, NEW p \in Phones, ConsumeAtServer(p), NEW s, ConsumeText(p, s), Undisturbed'
    PROVE  HeardOK(p, s, radio[p], message[Server], message[Server] \o radio[p].payload)
<1>0. PICK x, m, text : x = radio[p] /\ m = message[Server] /\ text = m \o x.payload
    OBVIOUS
<1>1. /\ x # Silent /\ x.txt \in {1, 3}
      /\ message' = [message EXCEPT ![Server] = NextMessage(text, x.txt)]
      /\ published' = (IF x.txt = 3 THEN MQTTpublishText(p, text, s) ELSE published)
      /\ server' = (IF x.txt = 3 THEN [s EXCEPT !.hello = FALSE] ELSE s)
    BY <1>0, ConsumeServerFacts DEF ConsumeText
<1>2. PICK crossed : /\ crossed = \E ch \in {text[i] : i \in DOMAIN text} \cup
                                       {s.telephone[i] : i \in DOMAIN s.telephone} : ch[2] # p
                     /\ upTroubles' = upTroubles \cup (Again(p) \cup When(crossed, "crossed"))
    BY <1>0 DEF ConsumeText, UpTrouble
<1>3. Undisturbed /\ upTroubles' = {}
    <2>1. mishaps' = mishaps
        BY DEF ConsumeAtServer, phoneVars
    <2> QED
        BY <1>2, <2>1, Disturbances
<1>4. ~x.consumed /\ ~crossed
    BY <1>0, <1>2, <1>3 DEF Again, When
<1>5. /\ \A i \in DOMAIN text : text[i][2] = p
      /\ \A i \in DOMAIN s.telephone : s.telephone[i][2] = p
    BY <1>2, <1>4
<1>6. /\ m \in Seq(PhoneChar) /\ x.payload \in Seq(Chars(p))
      /\ x.txt = 1 => Len(x.payload) = LoraBytes
    <2>1. m \in Seq(PhoneChar) /\ PackageOK(x, 1..4, Chars(p), {Server})
        BY <1>0 DEF RelayTypes, MessageOK, RadioOK
    <2> QED
        BY <1>1, <2>1 DEF PackageOK
<1>7. /\ Len(m) \in Nat /\ Len(x.payload) \in Nat /\ Len(text) = Len(m) + Len(x.payload)
      /\ m # <<>> => m[1][2] = p
      /\ text # <<>> => text[1][2] = p
    <2>1. PICK y : y = x.payload
        OBVIOUS
    <2>2. /\ Len(m) \in Nat /\ Len(y) \in Nat /\ Len(text) = Len(m) + Len(y)
          /\ m # <<>> => m[1][2] = p
          /\ text # <<>> => text[1][2] = p
        <3>1. y \in Seq(PhoneChar) /\ text = m \o y
            <4>1. Chars(p) \subseteq PhoneChar
                BY DEF Chars, PhoneChar
            <4>2. y \in Seq(PhoneChar)
                BY <1>6, <2>1, <4>1, SeqMonotonic
            <4> QED
                BY <1>0, <2>1, <4>2
        <3>2. PICK a, b : a = Len(m) /\ b = Len(y)
            OBVIOUS
        <3>3. a \in Nat /\ b \in Nat /\ (m # <<>> => a > 0)
            BY <1>6, <3>1, <3>2, LenProperties, EmptySeq
        <3>4. /\ text \in Seq(PhoneChar) /\ Len(text) = a + b
              /\ \A i \in 1..a : text[i] = m[i]
            BY <1>6, <3>1, <3>2, <3>3, ConcatProperties
        <3>5. DOMAIN text = 1..(a + b) /\ (text # <<>> => a + b > 0)
            BY <3>3, <3>4, LenProperties, EmptySeq
        <3>6. text # <<>> => text[1][2] = p
            BY <1>5, <3>3, <3>5
        <3>7. m # <<>> => m[1][2] = p
            BY <1>5, <3>3, <3>4, <3>5
        <3> QED
            BY <3>2, <3>3, <3>4, <3>6, <3>7
    <2> QED
        BY <2>1, <2>2
<1>8. message'[Server] = NextMessage(text, x.txt)
    BY <1>1, Places DEF RelayTypes, MessageOK
<1> QED
    <2>1. HeardOK(p, s, x, m, text)
        BY <1>1, <1>3, <1>4, <1>5, <1>6, <1>7, <1>8, Zenon DEF HeardOK
    <2> QED
        BY <1>0, <2>1

LEMMA ConsumeTextUp ==
    ASSUME RelayTypes, UpInv, NEW p \in Phones, ConsumeAtServer(p), NEW s, ConsumeText(p, s),
           s.telephone = server.telephone, ServerOK(s), Undisturbed'
    PROVE  /\ \A q \in Phones : UpOK(q, radio'[q], cut[q], message'[Server], reader[q].data)
           /\ \A q \in Phones : PublishedOK(published'[q])
<1>1. PICK x, m, text : x = radio[p] /\ m = message[Server] /\ text = m \o x.payload
    OBVIOUS
<1>2. PICK c : c = cut[p]
    OBVIOUS
<1>3. /\ x # Silent /\ radio' = [radio EXCEPT ![p] = [radio[p] EXCEPT !.consumed = TRUE]]
    BY <1>1, ConsumeServerFacts
<1>4. /\ Undisturbed /\ ~x.consumed /\ x.txt \in {1, 3}
      /\ message'[Server] = NextMessage(text, x.txt)
      /\ published' = (IF x.txt = 3 THEN MQTTpublishText(p, text, s) ELSE published)
      /\ x.txt = 1 => Len(x.payload) = LoraBytes
      /\ Len(m) \in Nat /\ Len(x.payload) \in Nat /\ Len(text) = Len(m) + Len(x.payload)
      /\ m # <<>> => m[1][2] = p
      /\ text # <<>> => text[1][2] = p
    <2>1. HeardOK(p, s, x, m, text)
        BY <1>1, TextHeard
    <2> QED
        BY <2>1 DEF HeardOK
<1>5. PartOf(m, p) = Len(m) /\ \A q \in Phones : q # p => PartOf(m, q) = 0
    <2>1. Len(<<>>) = 0
        OBVIOUS
    <2> QED
        BY <1>4, <2>1 DEF PartOf
<1>6. PartOf(text, p) = Len(text) /\ \A q \in Phones : q # p => PartOf(text, q) = 0
    <2>1. Len(<<>>) = 0
        OBVIOUS
    <2> QED
        BY <1>4, <2>1 DEF PartOf
<1>7. UpOK(p, x, c, m, reader[p].data) /\ c \in Nat
    BY <1>1, <1>2, <1>4 DEF UpInv, RelayTypes, CutOK
<1>8. PICK new : new = NextMessage(text, x.txt)
    OBVIOUS
<1>9. message'[Server] = new
    BY <1>4, <1>8
<1>10. PartOf(new, p) = c /\ \A q \in Phones : q # p => PartOf(new, q) = 0
    <2>1. CASE x.txt = 1
        <3>1. new = text /\ PartOf(m, p) + Len(x.payload) = c
            BY <1>4, <1>7, <1>8, <2>1 DEF NextMessage, UpOK, Carries
        <3> QED
            BY <1>4, <1>5, <1>6, <3>1
    <2>2. CASE x.txt = 3
        <3>1. new = <<>> /\ c = 0
            BY <1>4, <1>7, <1>8, <2>2 DEF NextMessage, UpOK, Carries
        <3> QED
            BY <3>1 DEF PartOf
    <2> QED
        BY <1>3, <1>4, <2>1, <2>2
<1>11. /\ \A txt : ~Carries(radio'[p], txt)
       /\ \A q \in Phones : q # p => radio'[q] = radio[q]
    BY <1>1, <1>3, Consumed, Places
<1>12. ASSUME NEW q \in Phones
       PROVE  UpOK(q, radio'[q], cut[q], message'[Server], reader[q].data)
    <2>1. UpOK(q, radio[q], cut[q], m, reader[q].data)
        BY <1>1, <1>4 DEF UpInv
    <2>2. CASE q = p
        BY <1>2, <1>7, <1>9, <1>10, <1>11, <2>2 DEF UpOK
    <2>3. CASE q # p
        <3>1. PartOf(new, q) = PartOf(m, q) /\ radio'[q] = radio[q]
            BY <1>5, <1>10, <1>11, <2>3
        <3> QED
            BY <1>9, <2>1, <3>1 DEF UpOK
    <2> QED
        BY <2>2, <2>3
<1>13. ASSUME NEW q \in Phones PROVE PublishedOK(published'[q])
    <2>1. PublishedOK(published[q]) /\ published = [k \in Phones |-> published[k]]
        BY <1>4 DEF UpInv
    <2>2. CASE x.txt = 3 /\ q = p
        <3>1. PICK e : e = [text |-> text, number |-> s.telephone, hello |-> s.hello]
            OBVIOUS
        <3>2. published'[q] = Append(published[q], e)
            BY <1>3, <1>4, <2>1, <2>2, <3>1 DEF MQTTpublishText
        <3>3. Len(e.text) < MessageSize
            <4>1. PartOf(m, p) + Len(x.payload) < BufSize
                BY <1>4, <1>7, <2>2 DEF UpOK, Carries
            <4> QED
                BY <1>4, <1>5, <3>1, <4>1, PhoneConstants, RelayConstants
        <3> QED
            BY <2>1, <3>2, <3>3, AppendOK
    <2>3. CASE ~(x.txt = 3 /\ q = p)
        <3>1. published'[q] = published[q]
            BY <1>3, <1>4, <2>1, <2>3 DEF MQTTpublishText
        <3> QED
            BY <2>1, <3>1
    <2> QED
        BY <2>2, <2>3
<1> QED
    BY <1>12, <1>13


LEMMA ConsumeServerUp ==
    ASSUME PhoneInv, RelayTypes, UpInv, NEW p \in Phones, ConsumeAtServer(p)
    PROVE  UpInv'
<1>1. /\ radio[p] # Silent
      /\ radio' = [radio EXCEPT ![p] = [radio[p] EXCEPT !.consumed = TRUE]]
      /\ UNCHANGED <<mishaps, reader, cut>>
    BY ConsumeServerFacts DEF phoneVars
<1>2. PICK s : /\ ServerOK(s) /\ s.telephone = server.telephone
               /\ HearsNumber(p, s) \/ ConsumeText(p, s)
    BY ConsumeServerFacts
<1>3. upTroubles \subseteq upTroubles'
    BY <1>2 DEF HearsNumber, ConsumeText, UpTrouble
<1>4. (published = [q \in Phones |-> published[q]])'
    <2>1. published' = published \/ \E e : published' = [published EXCEPT ![p] = e]
        BY <1>2 DEF HearsNumber, ConsumeText, MQTTpublishText
    <2> QED
        BY <2>1 DEF UpInv
<1> SUFFICES ASSUME Undisturbed'
             PROVE  (/\ \A q \in Phones : UpOK(q, radio[q], cut[q], message[Server], reader[q].data)
                     /\ \A q \in Phones : PublishedOK(published[q])
                     /\ Len(server.telephone) <= NumberDigits)'
    BY <1>4 DEF UpInv
<1>5. Undisturbed /\ upTroubles' = {}
    BY <1>1, <1>3, Disturbances
<1>6. CASE HearsNumber(p, s)
    <2>1. /\ \A txt : ~Carries(radio'[p], txt)
          /\ \A q \in Phones : q # p => radio'[q] = radio[q]
        BY <1>1, Consumed, Places
    <2>2. radio[p].txt = 2 /\ message' = message /\ published' = published
        BY <1>6 DEF HearsNumber
    <2>3. ~radio[p].consumed /\ Digits(s.actual) = Digits(radio[p].payload)
        BY <1>5, <1>6 DEF HearsNumber, Again, When
    <2>4. UpOK(p, radio[p], cut[p], message[Server], reader[p].data)
        BY <1>5 DEF UpInv
    <2>5. UpOK(p, radio'[p], cut[p], message[Server], reader[p].data)
        <3>1. PartOf(message[Server], p) = cut[p]
            BY <2>2, <2>4 DEF UpOK, Carries
        <3> QED
            BY <2>1, <2>4, <3>1 DEF UpOK
    <2>6. \A q \in Phones : UpOK(q, radio'[q], cut'[q], message'[Server], reader'[q].data)
        BY <1>1, <1>5, <2>1, <2>2, <2>5 DEF UpInv
    <2>7. Len(Digits(radio[p].payload)) <= NumberDigits
        <3>1. Len(radio[p].payload) <= NumberDigits
            BY <2>2, <2>3, <2>4 DEF UpOK, Carries
        <3>2. radio[p].payload \in Seq(Chars(p))
            BY <1>1 DEF RelayTypes, RadioOK, PackageOK
        <3>3. NumberDigits \in Nat /\ Len(radio[p].payload) \in Nat
            BY <3>2, PhoneConstants, LenProperties
        <3> QED
            BY <3>1, <3>2, <3>3, DigitsShort
    <2>8. server'.telephone = Digits(s.actual)
        BY <1>2, <1>6 DEF HearsNumber, ServerOK
    <2> QED
        BY <1>5, <2>2, <2>3, <2>6, <2>7, <2>8 DEF UpInv
<1>7. CASE ConsumeText(p, s)
    <2>1. /\ \A q \in Phones : UpOK(q, radio'[q], cut[q], message'[Server], reader[q].data)
          /\ \A q \in Phones : PublishedOK(published'[q])
        BY <1>2, <1>7, ConsumeTextUp
    <2>2. server'.telephone = server.telephone
        <3>1. server' = [s EXCEPT !.hello = FALSE] \/ server' = s
            BY <1>7 DEF ConsumeText
        <3> QED
            BY <1>2, <3>1 DEF ServerOK
    <2> QED
        BY <1>1, <1>5, <2>1, <2>2 DEF UpInv
<1> QED
    BY <1>2, <1>6, <1>7

\* An exchange that ends without trouble has been consumed, or carried nothing.
LEMMA EndsUp ==
    ASSUME PhoneInv, RelayTypes, UpInv, NEW t \in Towers, ExchangeEnds(t)
    PROVE  UpInv'
<1>1. /\ radio[t] # Silent /\ radio'[t] = Silent
      /\ \A q \in Towers : q # t => radio'[q] = radio[q]
      /\ UNCHANGED <<mishaps, reader, cut, message, server, published>>
    BY EndsTypes DEF ExchangeEnds, phoneVars
<1>2. PICK unheard : unheard = (~radio[t].consumed /\ radio[t].txt # 4 /\ radio[t].dest # t)
    OBVIOUS
<1>3. CASE t = Server
    <2>1. upTroubles' = upTroubles
        BY <1>3 DEF ExchangeEnds
    <2>2. Undisturbed' => Undisturbed
        BY <1>1, <2>1, Disturbances
    <2> QED
        BY <1>1, <1>3, <2>2, UpKept, Places DEF RelayTypes
<1>4. CASE t \in Phones
    <2>1. upTroubles' = upTroubles \cup When(unheard, "lost")
        BY <1>2, <1>4, Places DEF ExchangeEnds, UpTrouble
    <2>2. (published = [q \in Phones |-> published[q]])'
        BY <1>1 DEF UpInv
    <2> SUFFICES ASSUME Undisturbed'
                 PROVE  (/\ \A q \in Phones :
                                UpOK(q, radio[q], cut[q], message[Server], reader[q].data)
                         /\ \A q \in Phones : PublishedOK(published[q])
                         /\ Len(server.telephone) <= NumberDigits)'
        BY <2>2 DEF UpInv
    <2>3. Undisturbed /\ upTroubles' = {}
        BY <1>1, <2>1, Disturbances
    <2>4. ~unheard
        BY <2>1, <2>3 DEF When
    <2>5. radio[t].consumed \/ radio[t].txt = 4
        BY <1>1, <1>2, <1>4, <2>4, Places DEF RelayTypes, RadioOK, PackageOK
    <2>6. UpOK(t, radio[t], cut[t], message[Server], reader[t].data)
        BY <1>4, <2>3 DEF UpInv
    <2>7. UpOK(t, Silent, cut[t], message[Server], reader[t].data)
        BY <2>5, <2>6 DEF UpOK, Carries, Silent
    <2>8. \A q \in Phones : UpOK(q, radio'[q], cut'[q], message'[Server], reader'[q].data)
        BY <1>1, <2>3, <2>7, Places DEF UpInv
    <2> QED
        BY <1>1, <2>3, <2>8 DEF UpInv
<1> QED
    BY <1>3, <1>4 DEF Towers

LEMMA UpStep == PhoneInv /\ BytesInv /\ RelayTypes /\ UpInv /\ [Next]_vars => UpInv'
<1> SUFFICES ASSUME PhoneInv, BytesInv, RelayTypes, UpInv, [Next]_vars PROVE UpInv'
    OBVIOUS
<1>1. ASSUME NEW p \in Phones, PhoneStep(p) PROVE UpInv'
    BY <1>1, PhoneStepUp
<1>2. ASSUME NEW p \in Phones, HandOver(p) PROVE UpInv'
    BY <1>2, HandOverUp
<1>3. ASSUME NEW p \in Phones, ConsumeAtServer(p) PROVE UpInv'
    BY <1>3, ConsumeServerUp
<1>4. ASSUME NEW t \in Towers, ExchangeEnds(t) PROVE UpInv'
    BY <1>4, EndsUp
<1>5. ASSUME UNCHANGED <<phoneVars, cut, server, published, upTroubles>>,
             message'[Server] = message[Server], \A q \in Phones : radio'[q] = radio[q]
      PROVE  UpInv'
    <2>1. Undisturbed' => Undisturbed
        BY <1>5, Disturbances DEF phoneVars
    <2> QED
        BY <1>5, <2>1, UpKept DEF phoneVars, RelayTypes
<1>6. ASSUME NEW p \in Phones, ConsumeAtTower(p) PROVE UpInv'
    <2>1. /\ UNCHANGED <<phoneVars, cut, server, published, upTroubles>>
          /\ message'[Server] = message[Server]
        BY <1>6, Places DEF ConsumeAtTower, RelayTypes, MessageOK
    <2>2. \A q \in Phones : radio'[q] = radio[q]
        <3>1. Reaches(Server)
            BY <1>6 DEF ConsumeAtTower
        <3> QED
            BY <3>1, ReachesFacts, Consumed, Places
    <2> QED
        BY <1>5, <2>1, <2>2
<1>7. CASE ReplyArrives
    BY <1>5, <1>7 DEF ReplyArrives, MessageArrives
<1>8. CASE WifiThread
    <2>1. CASE WifiWakes \/ Aim
        BY <1>5, <2>1 DEF WifiWakes, Aim
    <2>2. CASE Extract
        <3>1. CASE Aims
            BY <1>5, <2>2, <3>1, ExtractFacts DEF Aims
        <3>2. CASE Restarts
            <4>1. published' = published /\ ~Undisturbed'
                BY <2>2, <3>2, ExtractFacts DEF Restarts, Undisturbed
            <4> QED
                BY <4>1 DEF UpInv
        <3> QED
            BY <2>2, <3>1, <3>2, ExtractFacts
    <2>3. CASE HandOverReply
        <3>1. /\ UNCHANGED <<phoneVars, cut, message, server, published, upTroubles>>
              /\ \E r : radio' = [radio EXCEPT ![Server] = r]
            BY <2>3, HandReplyFacts
        <3>2. \A q \in Phones : radio'[q] = radio[q]
            BY <3>1, Places DEF RelayTypes, RadioOK
        <3> QED
            BY <1>5, <3>1, <3>2
    <2> QED
        BY <1>8, <2>1, <2>2, <2>3 DEF WifiThread
<1>9. CASE UNCHANGED vars
    BY <1>5, <1>9 DEF vars
<1> QED
    BY <1>1, <1>2, <1>3, <1>4, <1>6, <1>7, <1>8, <1>9 DEF Next


---------------------------------------------------------------------------
(***************************************************************************)
(* Replies on their way down.                                              *)
(***************************************************************************)
\* The server sends package r, MQTTreceive is at w, and the tower of phone p holds m: the
\* same account, kept by the tower that the reply is for; the others hold nothing.
DownOK(p, r, m, w) ==
    /\ Carries(r, 3) /\ r.dest = p => Len(m) + Len(r.payload) < MessageSize
    /\ Carries(r, 1) /\ r.dest = p => w.to = p /\ w.ind = Len(m) + Len(r.payload)
    /\ ~((Carries(r, 1) \/ Carries(r, 3)) /\ r.dest = p)
           => Len(m) = IF w.to = p THEN w.ind ELSE 0

ReplyOK(r, w, buffer) ==
    /\ Len(w.text) < MessageSize /\ Len(buffer.text) < MessageSize
    /\ w.ind > 0 => /\ w.at \in {"aiming", "spinning"} /\ w.ind < Len(w.text)
                    /\ Cuttable(w.text) /\ w.ind % LoraBytes = 0
    /\ Carries(r, 3) => w.ind = 0

NotifiedOK(s) == s \in Seq(Seq(ReplyChar)) /\ \A i \in DOMAIN s : Len(s[i]) < MessageSize

DownInv ==
    /\ notified = [p \in Phones |-> notified[p]]
    /\ downTroubles = {} =>
        /\ ReplyOK(radio[Server], wifi, incoming)
        /\ \A p \in Phones : DownOK(p, radio[Server], message[p], wifi)
        /\ \A p \in Phones : NotifiedOK(notified[p])

LEMMA DownInit == Init => DownInv
<1> SUFFICES ASSUME Init PROVE DownInv
    OBVIOUS
<1>1. /\ notified = [p \in Phones |-> <<>>] /\ radio[Server] = Silent /\ wifi = Waiting
      /\ incoming = NoMessage /\ \A p \in Phones : message[p] = <<>>
    BY Places DEF Init
<1>2. MessageSize \in Nat \ {0}
    BY PhoneConstants, RelayConstants
<1>3. ReplyOK(radio[Server], wifi, incoming)
    BY <1>1, <1>2 DEF ReplyOK, Carries, Silent, Waiting, NoMessage
<1>4. \A p \in Phones : DownOK(p, radio[Server], message[p], wifi)
    <2>1. Silent.txt = 0 /\ Waiting.ind = 0 /\ Len(<<>>) = 0
        BY DEF Silent, Waiting
    <2>2. \A p \in Phones : DownOK(p, Silent, <<>>, Waiting)
        BY <2>1 DEF DownOK, Carries
    <2> QED
        BY <1>1, <2>2
<1>5. NotifiedOK(<<>>)
    BY DEF NotifiedOK
<1>6. notified = [p \in Phones |-> notified[p]] /\ \A p \in Phones : notified[p] = <<>>
    BY <1>1
<1> QED
    BY <1>3, <1>4, <1>5, <1>6 DEF DownInv

\* A step that leaves all this alone.
LEMMA DownKept ==
    ASSUME DownInv, downTroubles \subseteq downTroubles', UNCHANGED <<wifi, incoming, notified>>,
           radio'[Server] = radio[Server], \A q \in Phones : message'[q] = message[q]
    PROVE  DownInv'
BY DEF DownInv

\* Where thread_Wifi is in MQTTreceive changes, or the text it works on.
LEMMA WifiMoves ==
    ASSUME RelayTypes, DownInv, downTroubles \subseteq downTroubles', UNCHANGED <<message, radio, notified>>,
           downTroubles' = {} => /\ ReplyOK(radio[Server], wifi', incoming')
                                 /\ \/ wifi'.ind = wifi.ind /\ wifi'.to = wifi.to
                                    \/ wifi'.ind = 0 /\ wifi.ind = 0
    PROVE  DownInv'
<1>1. (notified = [p \in Phones |-> notified[p]])'
    BY DEF DownInv
<1> SUFFICES ASSUME downTroubles' = {}
             PROVE  (/\ ReplyOK(radio[Server], wifi, incoming)
                     /\ \A p \in Phones : DownOK(p, radio[Server], message[p], wifi)
                     /\ \A p \in Phones : NotifiedOK(notified[p]))'
    BY <1>1 DEF DownInv
<1>2. downTroubles = {}
    OBVIOUS
<1>3. ASSUME NEW p \in Phones PROVE DownOK(p, radio[Server], message[p], wifi')
    <2>1. DownOK(p, radio[Server], message[p], wifi)
        BY <1>2 DEF DownInv
    <2>2. CASE wifi'.ind = wifi.ind /\ wifi'.to = wifi.to
        BY <2>1, <2>2 DEF DownOK
    <2>3. CASE wifi'.ind = 0 /\ wifi.ind = 0
        <3>1. PICK r, m : r = radio[Server] /\ m = message[p]
            OBVIOUS
        <3>2. Len(m) \in Nat /\ PackageOK(r, {1, 3, 4}, ReplyChar, Towers)
            BY <3>1, LenProperties DEF RelayTypes, MessageOK, RadioOK
        <3>3. ~Carries(r, 1) \/ r.dest # p
            <4>1. SUFFICES ASSUME Carries(r, 1), r.dest = p PROVE FALSE
                OBVIOUS
            <4>2. 0 = Len(m) + Len(r.payload)
                BY <2>1, <2>3, <3>1, <4>1 DEF DownOK
            <4>3. Len(r.payload) = LoraBytes
                BY <3>2, <4>1 DEF PackageOK, Carries, Silent
            <4> QED
                BY <3>2, <4>2, <4>3, RelayConstants
        <3>4. DownOK(p, r, m, wifi)
            BY <2>1, <3>1
        <3>5. DownOK(p, r, m, wifi')
            BY <2>3, <3>3, <3>4 DEF DownOK
        <3> QED
            BY <3>1, <3>5
    <2> QED
        BY <2>2, <2>3
<1>4. \A p \in Phones : NotifiedOK(notified[p])
    BY <1>2 DEF DownInv
<1> QED
    BY <1>3, <1>4

LEMMA ArrivesDown ==
    ASSUME RelayTypes, DownInv, NEW text \in Seq(ReplyChar), MessageArrives(text)
    PROVE  DownInv'
<1>1. /\ UNCHANGED <<message, radio, notified, wifi>> /\ incoming'.text = text
      /\ downTroubles' = downTroubles \cup (When(Len(text) >= MessageSize, "tooLong")
                            \cup When(incoming.received \/ wifi.at = "woken", "overwritten"))
    BY DEF MessageArrives, DownTrouble
<1>2. ASSUME downTroubles' = {} PROVE ReplyOK(radio[Server], wifi', incoming')
    <2>1. downTroubles = {} /\ ~(Len(text) >= MessageSize)
        BY <1>1, <1>2 DEF When
    <2>2. Len(text) < MessageSize
        BY <2>1, LenProperties, RelayConstants
    <2> QED
        BY <1>1, <2>1, <2>2 DEF ReplyOK, DownInv
<1> QED
    BY <1>1, <1>2, WifiMoves

LEMMA WakesDown ==
    ASSUME RelayTypes, DownInv, WifiWakes \/ Aim
    PROVE  DownInv'
<1>1. /\ UNCHANGED <<message, radio, notified, downTroubles>>
      /\ incoming'.text = incoming.text
      /\ wifi'.ind = wifi.ind /\ wifi'.to = wifi.to /\ wifi'.text = wifi.text
      /\ wifi.at \notin {"aiming", "spinning"} \/ wifi'.at = "spinning"
    BY DEF WifiWakes, Aim, RelayTypes, WifiOK
<1>2. ASSUME downTroubles' = {} PROVE ReplyOK(radio[Server], wifi', incoming')
    <2>1. ReplyOK(radio[Server], wifi, incoming)
        BY <1>1, <1>2 DEF DownInv
    <2> QED
        BY <1>1, <2>1 DEF ReplyOK
<1> QED
    BY <1>1, <1>2, WifiMoves

LEMMA ExtractDown ==
    ASSUME RelayTypes, DownInv, Extract
    PROVE  DownInv'
<1>1. CASE Restarts
    <2>1. notified' = notified /\ downTroubles' # {}
        BY <1>1, ExtractFacts DEF Restarts
    <2> QED
        BY <2>1 DEF DownInv
<1>2. CASE Aims
    <2>1. /\ UNCHANGED <<message, radio, notified, downTroubles, incoming>>
          /\ wifi'.ind = 0 /\ wifi'.text = incoming.text /\ wifi.at = "woken"
        BY <1>2, ExtractFacts DEF Aims
    <2>2. ASSUME downTroubles' = {}
          PROVE  ReplyOK(radio[Server], wifi', incoming') /\ wifi.ind = 0
        <3>1. ReplyOK(radio[Server], wifi, incoming) /\ wifi.ind \in Nat
            BY <2>1, <2>2 DEF DownInv, RelayTypes, WifiOK
        <3> QED
            BY <2>1, <3>1 DEF ReplyOK
    <2> QED
        BY <2>1, <2>2, WifiMoves
<1> QED
    BY <1>1, <1>2, ExtractFacts


LEMMA HandReplyDown ==
    ASSUME RelayTypes, DownInv, HandOverReply
    PROVE  DownInv'
<1>1. PICK text, c : text = wifi.text /\ c = wifi.ind
    OBVIOUS
<1>2. /\ radio[Server] = Silent /\ wifi.at = "spinning"
      /\ UNCHANGED <<message, incoming, notified>>
      /\ downTroubles' = downTroubles \cup CutTroubles(text)
                             \cup When(wifi.dest # wifi.to, "retargeted")
    BY <1>1, HandReplyFacts
<1>3. PICK r : /\ radio' = [radio EXCEPT ![Server] = r] /\ HandsReply(r)
               /\ PackageOK(r, {1, 3, 4}, ReplyChar, Towers)
    BY HandReplyFacts
<1>4. radio'[Server] = r
    BY <1>3, RadioStep, Places DEF RelayTypes
<1>5. (notified = [p \in Phones |-> notified[p]])'
    BY <1>2 DEF DownInv
<1> SUFFICES ASSUME downTroubles' = {}
             PROVE  (/\ ReplyOK(radio[Server], wifi, incoming)
                     /\ \A p \in Phones : DownOK(p, radio[Server], message[p], wifi)
                     /\ \A p \in Phones : NotifiedOK(notified[p]))'
    BY <1>5 DEF DownInv
<1>6. downTroubles = {} /\ CutTroubles(text) = {} /\ wifi.dest = wifi.to
    BY <1>2 DEF When
<1>7. text \in Seq(ReplyChar) /\ c \in 0..Len(text) /\ Len(text) \in Nat /\ c \in Nat
    BY <1>1, LenProperties DEF RelayTypes, WifiOK
<1>8. /\ Len(text) < MessageSize /\ Len(incoming.text) < MessageSize
      /\ c > 0 => c < Len(text) /\ Cuttable(text) /\ c % LoraBytes = 0
    BY <1>1, <1>6 DEF DownInv, ReplyOK
<1>9. PICK x, n, y : /\ x = Cut(text, c).txt /\ n = c + Diff(text, c) /\ y = Chunk(text, c)
    OBVIOUS
<1>10. /\ x \in {1, 3} /\ n \in 0..Len(text) /\ Len(y) = n - c
       /\ x = 1 => n < Len(text) /\ n > 0 /\ n % LoraBytes = 0 /\ Cuttable(text)
       /\ x = 3 => n = Len(text)
    BY <1>6, <1>7, <1>8, <1>9, NextPiece
<1>11. /\ r.txt = x /\ r = [txt |-> r.txt, payload |-> y, dest |-> wifi.dest, consumed |-> FALSE]
       /\ wifi' = IF n = Len(text) THEN Waiting ELSE [wifi EXCEPT !.at = "aiming", !.ind = n]
    BY <1>1, <1>3, <1>9 DEF HandsReply
<1>12. r.txt = x /\ r.payload = y /\ r.dest = wifi.to /\ r.consumed = FALSE
    BY <1>6, <1>11
<1>13. \A p \in Phones : Len(message[p]) = IF wifi.to = p THEN c ELSE 0
    <2>1. \A p \in Phones : DownOK(p, Silent, message[p], wifi)
        BY <1>2, <1>6 DEF DownInv
    <2> QED
        BY <1>1, <2>1 DEF DownOK, Carries, Silent
<1>14. CASE x = 1
    <2>1. wifi' = [wifi EXCEPT !.at = "aiming", !.ind = n]
        BY <1>7, <1>10, <1>11, <1>14
    <2>2. wifi'.at = "aiming" /\ wifi'.ind = n /\ wifi'.text = text /\ wifi'.to = wifi.to
        BY <1>1, <2>1 DEF RelayTypes, WifiOK
    <2>3. ReplyOK(r, wifi', incoming)
        BY <1>8, <1>10, <1>12, <1>14, <2>2 DEF ReplyOK, Carries
    <2>4. ASSUME NEW p \in Phones PROVE DownOK(p, r, message[p], wifi')
        <3>1. wifi.to = p => n = Len(message[p]) + Len(r.payload)
            BY <1>7, <1>10, <1>12, <1>13
        <3>2. wifi.to # p => Len(message[p]) = 0
            BY <1>13
        <3> QED
            BY <1>12, <1>14, <2>2, <3>1, <3>2 DEF DownOK, Carries
    <2>5. \A p \in Phones : NotifiedOK(notified[p])
        BY <1>6 DEF DownInv
    <2> QED
        BY <1>2, <1>4, <2>3, <2>4, <2>5
<1>15. CASE x = 3
    <2>1. wifi' = Waiting
        BY <1>10, <1>11, <1>15
    <2>2. wifi'.ind = 0 /\ wifi'.text = <<>> /\ wifi'.to = Server /\ wifi'.at = "waiting"
        BY <2>1 DEF Waiting
    <2>3. ReplyOK(r, wifi', incoming)
        BY <1>7, <1>8, <1>12, <2>2, RelayConstants DEF ReplyOK, Carries
    <2>4. ASSUME NEW p \in Phones PROVE DownOK(p, r, message[p], wifi')
        <3>1. wifi.to = p => Len(message[p]) + Len(r.payload) < MessageSize
            BY <1>7, <1>8, <1>10, <1>12, <1>13, <1>15
        <3>2. wifi.to # p => Len(message[p]) = 0
            BY <1>13
        <3> QED
            BY <1>12, <1>15, <2>2, <3>1, <3>2, Places DEF DownOK, Carries
    <2>5. \A p \in Phones : NotifiedOK(notified[p])
        BY <1>6 DEF DownInv
    <2> QED
        BY <1>2, <1>4, <2>3, <2>4, <2>5
<1> QED
    BY <1>10, <1>14, <1>15

LEMMA NotifiedMore ==
    ASSUME NEW s, NotifiedOK(s), NEW text \in Seq(ReplyChar), Len(text) < MessageSize
    PROVE  NotifiedOK(Append(s, text))
<1>1. PICK n : n = Append(s, text)
    OBVIOUS
<1>2. s \in Seq(Seq(ReplyChar))
    BY DEF NotifiedOK
<1>3. /\ n \in Seq(Seq(ReplyChar)) /\ Len(n) = Len(s) + 1 /\ Len(s) \in Nat
      /\ n[Len(s) + 1] = text /\ \A i \in 1..Len(s) : n[i] = s[i]
      /\ DOMAIN n = 1..Len(n) /\ DOMAIN s = 1..Len(s)
    BY <1>1, <1>2, AppendProperties, LenProperties
<1>4. ASSUME NEW i \in DOMAIN n PROVE Len(n[i]) < MessageSize
    <2>1. i = Len(s) + 1 \/ i \in DOMAIN s
        BY <1>3
    <2>2. i \in DOMAIN s => n[i] = s[i]
        BY <1>3
    <2> QED
        BY <1>3, <2>1, <2>2 DEF NotifiedOK
<1> QED
    BY <1>1, <1>3, <1>4 DEF NotifiedOK

LEMMA ConsumeTowerDown ==
    ASSUME RelayTypes, DownInv, NEW p \in Phones, ConsumeAtTower(p)
    PROVE  DownInv'
<1>1. PICK x, m, text, last : /\ x = radio[Server] /\ m = message[p] /\ text = m \o x.payload
                              /\ last = (x.txt = 3)
    OBVIOUS
<1>2. /\ x # Silent /\ x.txt \in 1..3
      /\ radio' = [radio EXCEPT ![Server] = [radio[Server] EXCEPT !.consumed = TRUE]]
    BY <1>1, ReachesFacts, Places DEF ConsumeAtTower
<1>3. /\ x.dest = p /\ UNCHANGED <<wifi, incoming>>
      /\ message' = [message EXCEPT ![p] = NextMessage(text, x.txt)]
      /\ notified' = (IF last THEN sendData(p, text) ELSE notified)
      /\ downTroubles' = downTroubles
             \cup (Again(Server) \cup When(last /\ ~gatt[p].connected, "phoneGone"))
    BY <1>1 DEF ConsumeAtTower, DownTrouble
<1>4. (notified = [q \in Phones |-> notified[q]])'
    BY <1>3 DEF DownInv, sendData
<1> SUFFICES ASSUME downTroubles' = {}
             PROVE  (/\ ReplyOK(radio[Server], wifi, incoming)
                     /\ \A q \in Phones : DownOK(q, radio[Server], message[q], wifi)
                     /\ \A q \in Phones : NotifiedOK(notified[q]))'
    BY <1>4 DEF DownInv
<1>5. downTroubles = {} /\ ~x.consumed
    BY <1>1, <1>3 DEF Again, When
<1>6. /\ m \in Seq(ReplyChar) /\ x.payload \in Seq(ReplyChar)
      /\ x.txt \in {1, 3}
    <2>1. PackageOK(x, {1, 3, 4}, ReplyChar, Towers) /\ m \in Seq(ReplyChar)
        BY <1>1 DEF RelayTypes, RadioOK, MessageOK
    <2> QED
        BY <1>2, <2>1 DEF PackageOK
<1>7. text \in Seq(ReplyChar) /\ Len(text) = Len(m) + Len(x.payload)
    BY <1>1, <1>6, ConcatProperties
<1>8. /\ \A txt : ~Carries(radio'[Server], txt)
    BY <1>1, <1>2, Consumed, Places
<1>9. ReplyOK(radio'[Server], wifi, incoming)
    BY <1>5, <1>8 DEF DownInv, ReplyOK
<1>10. PICK new : new = NextMessage(text, x.txt)
    OBVIOUS
<1>11. message'[p] = new /\ \A q \in Phones : q # p => message'[q] = message[q]
    BY <1>3, <1>10, Places DEF RelayTypes, MessageOK
<1>12. DownOK(p, x, m, wifi) /\ (Carries(x, 3) => wifi.ind = 0)
    BY <1>1, <1>5 DEF DownInv, ReplyOK
<1>13. Len(new) = IF wifi.to = p THEN wifi.ind ELSE 0
    <2>1. CASE x.txt = 1
        <3>1. new = text /\ wifi.to = p /\ wifi.ind = Len(m) + Len(x.payload)
            BY <1>3, <1>5, <1>10, <1>12, <2>1 DEF NextMessage, DownOK, Carries
        <3> QED
            BY <1>7, <3>1
    <2>2. CASE x.txt = 3
        <3>1. new = <<>> /\ wifi.ind = 0
            BY <1>5, <1>10, <1>12, <2>2 DEF NextMessage, Carries
        <3> QED
            BY <3>1
    <2> QED
        BY <1>6, <2>1, <2>2
<1>14. ASSUME NEW q \in Phones PROVE DownOK(q, radio'[Server], message'[q], wifi)
    <2>1. CASE q = p
        BY <1>8, <1>11, <1>13, <2>1 DEF DownOK
    <2>2. CASE q # p
        <3>1. DownOK(q, x, message[q], wifi)
            BY <1>1, <1>5 DEF DownInv
        <3>2. Len(message[q]) = IF wifi.to = q THEN wifi.ind ELSE 0
            BY <1>3, <2>2, <3>1 DEF DownOK
        <3> QED
            BY <1>8, <1>11, <2>2, <3>2 DEF DownOK
    <2> QED
        BY <2>1, <2>2
<1>15. ASSUME NEW q \in Phones PROVE NotifiedOK(notified'[q])
    <2>1. NotifiedOK(notified[q]) /\ notified = [k \in Phones |-> notified[k]]
        BY <1>5 DEF DownInv
    <2>2. notified'[q] = notified[q] \/ (last /\ notified'[q] = Append(notified[q], text))
        BY <1>3, <2>1 DEF sendData
    <2>3. CASE last
        <3>1. Len(text) < MessageSize
            BY <1>1, <1>3, <1>5, <1>7, <1>12, <2>3 DEF DownOK, Carries
        <3> QED
            BY <1>7, <2>1, <2>2, <3>1, NotifiedMore
    <2>4. CASE ~last
        BY <2>1, <2>2, <2>4
    <2> QED
        BY <2>3, <2>4
<1> QED
    BY <1>3, <1>9, <1>14, <1>15

LEMMA EndsDown ==
    ASSUME RelayTypes, DownInv, NEW t \in Towers, ExchangeEnds(t)
    PROVE  DownInv'
<1>1. /\ radio[t] # Silent /\ radio'[t] = Silent
      /\ \A q \in Towers : q # t => radio'[q] = radio[q]
      /\ UNCHANGED <<message, incoming, wifi, notified>>
    BY EndsTypes DEF ExchangeEnds, replyVars
<1>2. CASE t \in Phones
    <2>1. downTroubles' = downTroubles
        BY <1>2, Places DEF ExchangeEnds
    <2> QED
        BY <1>1, <1>2, <2>1, DownKept, Places
<1>3. CASE t = Server
    <2>1. PICK x, unheard : /\ x = radio[Server]
                            /\ unheard = (~x.consumed /\ x.txt # 4 /\ x.dest # Server)
        OBVIOUS
    <2>2. downTroubles' = downTroubles \cup When(unheard, "lost")
        BY <1>3, <2>1 DEF ExchangeEnds, DownTrouble
    <2>3. (notified = [p \in Phones |-> notified[p]])'
        BY <1>1 DEF DownInv
    <2> SUFFICES ASSUME downTroubles' = {}
                 PROVE  (/\ ReplyOK(radio[Server], wifi, incoming)
                         /\ \A p \in Phones : DownOK(p, radio[Server], message[p], wifi)
                         /\ \A p \in Phones : NotifiedOK(notified[p]))'
        BY <2>3 DEF DownInv
    <2>4. downTroubles = {} /\ ~unheard
        BY <2>2 DEF When
    <2>5. ReplyOK(Silent, wifi, incoming)
        BY <2>4 DEF DownInv, ReplyOK, Carries, Silent
    <2>6. ASSUME NEW p \in Phones PROVE DownOK(p, Silent, message[p], wifi)
        <3>1. DownOK(p, x, message[p], wifi)
            BY <2>1, <2>4 DEF DownInv
        <3>2. ~((Carries(x, 1) \/ Carries(x, 3)) /\ x.dest = p)
            <4>1. x.consumed \/ x.txt = 4 \/ x.dest = Server
                BY <2>1, <2>4
            <4> QED
                BY <4>1, Places DEF Carries
        <3>3. Len(message[p]) = IF wifi.to = p THEN wifi.ind ELSE 0
            BY <3>1, <3>2 DEF DownOK
        <3> QED
            BY <3>3 DEF DownOK, Carries, Silent
    <2>7. \A p \in Phones : NotifiedOK(notified[p])
        BY <2>4 DEF DownInv
    <2> QED
        BY <1>1, <1>3, <2>5, <2>6, <2>7
<1> QED
    BY <1>2, <1>3 DEF Towers


\* What the phones, thread_Bluetooth and the server's consumeInfo do concerns no reply.
LEMMA UpwardSteps ==
    ASSUME PhoneInv, BytesInv, RelayTypes, NEW p \in Phones,
           PhoneStep(p) \/ HandOver(p) \/ ConsumeAtServer(p)
    PROVE  /\ UNCHANGED <<replyVars, downTroubles>>
           /\ radio'[Server] = radio[Server] /\ \A q \in Phones : message'[q] = message[q]
<1>1. CASE PhoneStep(p)
    BY <1>1 DEF PhoneStep
<1>2. CASE HandOver(p)
    <2>1. /\ UNCHANGED <<message, replyVars, downTroubles>>
          /\ \E r : radio' = [radio EXCEPT ![p] = r]
        BY <1>2, HandOverFacts
    <2>2. radio'[Server] = radio[Server]
        BY <2>1, Places DEF RelayTypes, RadioOK
    <2> QED
        BY <2>1, <2>2
<1>3. CASE ConsumeAtServer(p)
    <2>1. /\ UNCHANGED <<replyVars, downTroubles>>
          /\ radio' = [radio EXCEPT ![p] = [radio[p] EXCEPT !.consumed = TRUE]]
        BY <1>3, ConsumeServerFacts
    <2>2. radio'[Server] = radio[Server]
        BY <2>1, Places DEF RelayTypes, RadioOK
    <2>3. message' = message \/ \E m : message' = [message EXCEPT ![Server] = m]
        BY <1>3, ConsumeServerFacts DEF HearsNumber, ConsumeText
    <2>4. \A q \in Phones : message'[q] = message[q]
        BY <2>3, Places DEF RelayTypes, MessageOK
    <2> QED
        BY <2>1, <2>2, <2>4
<1> QED
    BY <1>1, <1>2, <1>3

LEMMA DownStep == PhoneInv /\ BytesInv /\ RelayTypes /\ DownInv /\ [Next]_vars => DownInv'
<1> SUFFICES ASSUME PhoneInv, BytesInv, RelayTypes, DownInv, [Next]_vars PROVE DownInv'
    OBVIOUS
<1>1. ASSUME NEW p \in Phones, PhoneStep(p) \/ HandOver(p) \/ ConsumeAtServer(p) PROVE DownInv'
    BY <1>1, UpwardSteps, DownKept DEF replyVars
<1>2. ASSUME NEW p \in Phones, ConsumeAtTower(p) PROVE DownInv'
    BY <1>2, ConsumeTowerDown
<1>3. ASSUME NEW t \in Towers, ExchangeEnds(t) PROVE DownInv'
    BY <1>3, EndsDown
<1>4. CASE ReplyArrives
    BY <1>4, ReplyText, ArrivesDown
<1>5. CASE WifiThread
    BY <1>5, WakesDown, ExtractDown, HandReplyDown DEF WifiThread
<1>6. CASE UNCHANGED vars
    BY <1>6, DownKept DEF vars, replyVars
<1> QED
    BY <1>1, <1>2, <1>3, <1>4, <1>5, <1>6 DEF Next

---------------------------------------------------------------------------
\* The account of a text makes its message fit: what the server holds is a part of one
\* text that is still being sent, or has been sent to its end.
LEMMA HeldIsShort ==
    ASSUME PhoneInv, BytesInv, RelayTypes, UpInv, Undisturbed
    PROVE  Len(message[Server]) < MessageSize
<1>1. PICK m : m = message[Server]
    OBVIOUS
<1>2. m \in Seq(PhoneChar) /\ Len(m) \in Nat
    BY <1>1, LenProperties DEF RelayTypes, MessageOK
<1>3. BufSize \in Nat \ {0} /\ MessageSize \in Nat /\ BufSize <= MessageSize
    BY PhoneConstants, RelayConstants
<1>4. CASE m = <<>>
    BY <1>1, <1>3, <1>4
<1>5. CASE m # <<>>
    <2>1. m[1] \in PhoneChar
        BY <1>2, <1>5, EmptySeq, ElementOfSeq
    <2>2. PICK p \in Phones : m[1][2] = p
        BY <2>1 DEF PhoneChar
    <2>3. PartOf(m, p) = Len(m)
        BY <1>5, <2>2 DEF PartOf
    <2>4. PICK r, c, d : r = radio[p] /\ c = cut[p] /\ d = reader[p].data
        OBVIOUS
    <2>5. UpOK(p, r, c, m, d)
        BY <1>1, <2>4 DEF UpInv
    <2>6. c \in Nat /\ (c > 0 => c < Len(d))
        BY <2>4 DEF RelayTypes, CutOK
    <2>7. Len(d) < BufSize /\ Len(d) \in Nat
        <3>1. ReaderBytes(p, reader[p], mishaps[p]) /\ mishaps[p] = {}
            BY DEF BytesInv, BytesOK, Undisturbed
        <3> QED
            BY <2>4, <3>1, LenProperties DEF ReaderBytes
    <2>8. r = Silent \/ Len(r.payload) \in Nat
        <3>1. PackageOK(r, 1..4, Chars(p), {Server})
            BY <2>4 DEF RelayTypes, RadioOK
        <3> QED
            BY <3>1, LenProperties DEF PackageOK
    <2>9. Len(m) < BufSize
        <3>1. CASE Carries(r, 1)
            <4>1. Len(m) + Len(r.payload) = c /\ Len(r.payload) \in Nat
                BY <2>3, <2>5, <2>8, <3>1 DEF UpOK, Carries, Silent
            <4> QED
                BY <1>2, <2>6, <2>7, <4>1, <1>3
        <3>2. CASE Carries(r, 3)
            <4>1. Len(m) + Len(r.payload) < BufSize /\ Len(r.payload) \in Nat
                BY <2>3, <2>5, <2>8, <3>2 DEF UpOK, Carries, Silent
            <4> QED
                BY <1>2, <1>3, <4>1
        <3>3. CASE ~Carries(r, 1) /\ ~Carries(r, 3)
            <4>1. Len(m) = c
                BY <2>3, <2>5, <3>3 DEF UpOK
            <4> QED
                BY <1>2, <1>3, <2>6, <2>7, <4>1
        <3> QED
            BY <3>1, <3>2, <3>3
    <2> QED
        BY <1>1, <1>2, <1>3, <2>9
<1> QED
    BY <1>4, <1>5

LEMMA ReplyIsShort ==
    ASSUME RelayTypes, DownInv, downTroubles = {}, NEW p \in Phones
    PROVE  Len(message[p]) < MessageSize
<1>1. PICK r, m, w : r = radio[Server] /\ m = message[p] /\ w = wifi
    OBVIOUS
<1>2. DownOK(p, r, m, w) /\ ReplyOK(r, w, incoming)
    BY <1>1 DEF DownInv
<1>3. /\ Len(m) \in Nat /\ MessageSize \in Nat \ {0} /\ Len(w.text) \in Nat /\ w.ind \in Nat
      /\ r = Silent \/ Len(r.payload) \in Nat
    <2>1. m \in Seq(ReplyChar) /\ w.text \in Seq(ReplyChar) /\ w.ind \in Nat
        BY <1>1 DEF RelayTypes, MessageOK, WifiOK
    <2>2. PackageOK(r, {1, 3, 4}, ReplyChar, Towers)
        BY <1>1 DEF RelayTypes, RadioOK
    <2>3. r = Silent \/ Len(r.payload) \in Nat
        BY <2>2, LenProperties DEF PackageOK
    <2> QED
        BY <2>1, <2>3, LenProperties, PhoneConstants, RelayConstants
<1>4. Len(w.text) < MessageSize /\ (w.ind > 0 => w.ind < Len(w.text))
    BY <1>2 DEF ReplyOK
<1>5. CASE Carries(r, 1) /\ r.dest = p
    <2>1. w.ind = Len(m) + Len(r.payload) /\ Len(r.payload) \in Nat
        BY <1>2, <1>3, <1>5 DEF DownOK, Carries, Silent
    <2>2. Len(m) <= w.ind /\ w.ind < MessageSize
        BY <1>3, <1>4, <2>1
    <2> QED
        BY <1>1, <1>3, <2>2
<1>6. CASE Carries(r, 3) /\ r.dest = p
    <2>1. Len(m) + Len(r.payload) < MessageSize /\ Len(r.payload) \in Nat
        BY <1>2, <1>3, <1>6 DEF DownOK, Carries, Silent
    <2>2. Len(m) < MessageSize
        BY <1>3, <2>1
    <2> QED
        BY <1>1, <2>2
<1>7. CASE ~((Carries(r, 1) \/ Carries(r, 3)) /\ r.dest = p)
    <2>1. Len(m) = IF w.to = p THEN w.ind ELSE 0
        BY <1>2, <1>7 DEF DownOK
    <2> QED
        BY <1>1, <1>3, <1>4, <2>1
<1> QED
    BY <1>5, <1>6, <1>7

\* No write leaves a message buffer or the number's, on the server or on a phone's tower,
\* unless one of the recorded causes has occurred: snprintf to message + transmission and
\* formatPhoneNumber need no bound of their own without them (LoraManager.cpp:480-519).
THEOREM MessageFitsCorrect == Spec => []MessageFits
<1>1. PhoneInv /\ BytesInv /\ RelayTypes /\ UpInv /\ DownInv => MessageFits
    <2> SUFFICES ASSUME PhoneInv, BytesInv, RelayTypes, UpInv, DownInv PROVE MessageFits
        OBVIOUS
    <2>1. Undisturbed => Short({message[Server]} \cup UNION {
              {published[p][i].text : i \in DOMAIN published[p]} : p \in Phones})
        BY HeldIsShort DEF Short, UpInv, PublishedOK
    <2>2. Undisturbed => Len(server.telephone) <= NumberDigits
        BY DEF UpInv
    <2>3. downTroubles = {} => Short(UNION {
              {message[p]} \cup {notified[p][i] : i \in DOMAIN notified[p]} : p \in Phones})
        BY ReplyIsShort DEF Short, DownInv, NotifiedOK
    <2> QED
        BY <2>1, <2>2, <2>3 DEF MessageFits
<1>2. Spec => [](UpInv /\ DownInv)
    BY UpInit, DownInit, UpStep, DownStep, RelayTypesInvariant, PTL DEF Spec
<1> QED
    BY <1>1, <1>2, RelayTypesInvariant, PTL

---------------------------------------------------------------------------
(***************************************************************************)
(* Replies are delivered: what has arrived for a phone is what it was      *)
(* notified of, then, in this order, the reply whose last package is on    *)
(* the air, the one that MQTTreceive cuts, and the one in the buffer.      *)
(***************************************************************************)
One(yes) == IF yes THEN 1 ELSE 0

\* What has been sent is what was delivered, then x if a = 1, y if b = 1, and z if c = 1.
Account(sent, delivered, a, x, b, y, c, z) ==
    LET n == Len(delivered)
    IN  /\ Len(sent) = n + a + b + c
        /\ \A i \in 1..n : sent[i] = delivered[i]
        /\ a = 1 => sent[n + 1] = x
        /\ b = 1 => sent[n + a + 1] = y
        /\ c = 1 => sent[n + a + b + 1] = z

\* The last package of a reply is on its way to p; thread_Wifi has a reply for p to cut;
\* a reply for p waits in pcIncomingPublish.
OnAir(p, r)       == Carries(r, 3) /\ r.dest = p
InHand(p, w)      == w.at \in {"aiming", "spinning"} /\ w.to = p
InBuffer(p, w, b) == (b.received \/ w.at = "woken") /\ b.to = p /\ b.text # Malformed

\* What the tower has put together, with the package on its way, is what has been cut off.
Gathered(p, r, m, w) ==
    /\ Carries(r, 1) /\ r.dest = p => m \o r.payload = SubSeq(w.text, 1, w.ind)
    /\ ~(Carries(r, 1) /\ r.dest = p) /\ ~OnAir(p, r) /\ w.to = p => m = SubSeq(w.text, 1, w.ind)

RepliesOK(p, r, m, w, b, sent, delivered) ==
    /\ Gathered(p, r, m, w)
    /\ Account(sent, delivered, One(OnAir(p, r)), m \o r.payload, One(InHand(p, w)), w.text,
               One(InBuffer(p, w, b)), b.text)

RepliesInv ==
    /\ replied = [p \in Phones |-> replied[p]]
    /\ \A p \in Phones : replied[p] \in Seq(Seq(ReplyChar))
    /\ downTroubles = {} =>
        /\ wifi.at = "woken" => ~incoming.received
        /\ \A p \in Phones : RepliesOK(p, radio[Server], message[p], wifi, incoming,
                                       replied[p], notified[p])

LEMMA OneIs == \A yes \in BOOLEAN : One(yes) \in {0, 1} /\ (One(yes) = 1 <=> yes)
BY DEF One

\* The account goes on when a text arrives, and when the first one is delivered.
LEMMA AccountArrives ==
    ASSUME NEW S, NEW sent \in Seq(S), NEW delivered, Len(delivered) \in Nat, NEW text \in S,
           NEW a \in {0, 1}, NEW b \in {0, 1}, NEW x, NEW y, NEW z,
           Account(sent, delivered, a, x, b, y, 0, z)
    PROVE  Account(Append(sent, text), delivered, a, x, b, y, 1, text)
<1>1. PICK s, n : s = Append(sent, text) /\ n = Len(delivered)
    OBVIOUS
<1>2. /\ Len(s) = Len(sent) + 1 /\ s[Len(sent) + 1] = text
      /\ \A i \in 1..Len(sent) : s[i] = sent[i]
    BY <1>1, AppendProperties
<1>3. /\ Len(sent) = n + a + b /\ \A i \in 1..n : sent[i] = delivered[i]
      /\ a = 1 => sent[n + 1] = x
      /\ b = 1 => sent[n + a + 1] = y
    BY <1>1 DEF Account
<1>4. n \in Nat
    BY <1>1
<1>5. /\ Len(s) = n + a + b + 1 /\ \A i \in 1..n : s[i] = delivered[i]
      /\ s[n + a + b + 1] = text
    BY <1>2, <1>3, <1>4
<1>6. a = 1 => s[n + 1] = x
    BY <1>2, <1>3, <1>4
<1>7. b = 1 => s[n + a + 1] = y
    BY <1>2, <1>3, <1>4
<1> QED
    BY <1>1, <1>5, <1>6, <1>7 DEF Account

LEMMA AccountDelivers ==
    ASSUME NEW S, NEW sent \in Seq(S), NEW delivered \in Seq(S),
           NEW b \in {0, 1}, NEW c \in {0, 1}, NEW x \in S, NEW y, NEW z, NEW x2,
           Account(sent, delivered, 1, x, b, y, c, z)
    PROVE  /\ Len(delivered) < Len(sent) /\ x = sent[Len(delivered) + 1]
           /\ Account(sent, Append(delivered, x), 0, x2, b, y, c, z)
<1>1. PICK s, n : s = Append(delivered, x) /\ n = Len(delivered)
    OBVIOUS
<1>2. /\ Len(s) = n + 1 /\ s[n + 1] = x /\ n \in Nat /\ \A i \in 1..n : s[i] = delivered[i]
    BY <1>1, AppendProperties, LenProperties
<1>3. /\ Len(sent) = n + 1 + b + c /\ \A i \in 1..n : sent[i] = delivered[i]
      /\ sent[n + 1] = x
      /\ b = 1 => sent[n + 1 + 1] = y
      /\ c = 1 => sent[n + 1 + b + 1] = z
    BY <1>1 DEF Account
<1>4. \A i \in 1..n + 1 : sent[i] = s[i]
    BY <1>2, <1>3
<1>5. Len(sent) = (n + 1) + 0 + b + c /\ n < Len(sent)
    BY <1>2, <1>3
<1>6. /\ b = 1 => sent[(n + 1) + 0 + 1] = y
      /\ c = 1 => sent[(n + 1) + 0 + b + 1] = z
    BY <1>2, <1>3
<1>7. Account(sent, s, 0, x2, b, y, c, z)
    BY <1>2, <1>4, <1>5, <1>6 DEF Account
<1> QED
    BY <1>1, <1>3, <1>5, <1>7

\* The texts move up while nothing is delivered: z takes the place of y, or y that of x.
LEMMA AccountMoves ==
    ASSUME NEW sent, NEW delivered, Len(delivered) \in Nat,
           NEW a \in {0, 1}, NEW b \in {0, 1}, NEW c \in {0, 1}, NEW x, NEW y, NEW z, NEW t
    PROVE  /\ Account(sent, delivered, a, x, 0, t, c, z) => Account(sent, delivered, a, x, c, z, 0, t)
           /\ Account(sent, delivered, 0, t, b, y, c, z) => Account(sent, delivered, b, y, 0, t, c, z)
<1>1. PICK n : n = Len(delivered) /\ n \in Nat
    OBVIOUS
<1>2. Account(sent, delivered, a, x, 0, t, c, z) => Account(sent, delivered, a, x, c, z, 0, t)
    BY <1>1 DEF Account
<1>3. Account(sent, delivered, 0, t, b, y, c, z) => Account(sent, delivered, b, y, 0, t, c, z)
    BY <1>1 DEF Account
<1> QED
    BY <1>2, <1>3

LEMMA RepliesInit == Init => RepliesInv
<1> SUFFICES ASSUME Init PROVE RepliesInv
    OBVIOUS
<1>1. /\ replied = [p \in Phones |-> <<>>] /\ notified = [p \in Phones |-> <<>>]
      /\ radio[Server] = Silent /\ wifi = Waiting
      /\ incoming = NoMessage /\ \A p \in Phones : message[p] = <<>>
    BY Places DEF Init
<1>2. ASSUME NEW p \in Phones
      PROVE  RepliesOK(p, Silent, <<>>, Waiting, NoMessage, <<>>, <<>>)
    <2>1. ~Carries(Silent, 3) /\ ~Carries(Silent, 1)
        BY DEF Carries, Silent
    <2>2. ~InHand(p, Waiting) /\ ~InBuffer(p, Waiting, NoMessage) /\ Waiting.to # p
        BY Places DEF InHand, InBuffer, Waiting, NoMessage
    <2>3. ~OnAir(p, Silent) /\ Gathered(p, Silent, <<>>, Waiting)
        BY <2>1, <2>2 DEF OnAir, Gathered
    <2>4. One(OnAir(p, Silent)) = 0 /\ One(InHand(p, Waiting)) = 0 /\ One(InBuffer(p, Waiting, NoMessage)) = 0
        BY <2>2, <2>3 DEF One
    <2> QED
        BY <2>3, <2>4 DEF RepliesOK, Account
<1>3. Waiting.at # "woken"
    BY DEF Waiting
<1> QED
    BY <1>1, <1>2, <1>3 DEF RepliesInv

\* A step that leaves all this alone.
LEMMA RepliesKept ==
    ASSUME RepliesInv, downTroubles \subseteq downTroubles',
           UNCHANGED <<wifi, incoming, replied, notified>>,
           radio'[Server] = radio[Server], \A q \in Phones : message'[q] = message[q]
    PROVE  RepliesInv'
BY DEF RepliesInv

LEMMA ArrivesReplies ==
    ASSUME RelayTypes, DownInv, RepliesInv, NEW text \in Seq(ReplyChar), MessageArrives(text)
    PROVE  /\ RepliesInv'
           /\ \/ replied' = replied
              \/ server.bluetooth_tower \in Phones
                 /\ replied' = [replied EXCEPT ![server.bluetooth_tower] = Append(@, text)]
<1>1. PICK to : to = server.bluetooth_tower
    OBVIOUS
<1>2. /\ UNCHANGED <<message, radio, notified, wifi>>
      /\ incoming' = [text |-> text, received |-> TRUE, to |-> to]
      /\ replied' = IF to = Server \/ text = Malformed THEN replied
                    ELSE [replied EXCEPT ![to] = Append(@, text)]
      /\ downTroubles' = downTroubles \cup (When(Len(text) >= MessageSize, "tooLong")
                            \cup When(incoming.received \/ wifi.at = "woken", "overwritten"))
    BY <1>1 DEF MessageArrives, DownTrouble
<1>3. to \in Phones \/ to = Server
    BY <1>1 DEF RelayTypes, ServerOK, Towers
<1>4. PICK owed : owed = (to # Server /\ text # Malformed)
    OBVIOUS
<1>5. /\ owed => to \in Phones /\ replied' = [replied EXCEPT ![to] = Append(@, text)]
      /\ ~owed => replied' = replied
    BY <1>2, <1>3, <1>4
<1>6. /\ replied' = [p \in Phones |-> replied'[p]]
      /\ \A p \in Phones : replied'[p] = IF owed /\ p = to THEN Append(replied[p], text) ELSE replied[p]
    BY <1>5 DEF RepliesInv
<1>7. ASSUME NEW p \in Phones PROVE replied'[p] \in Seq(Seq(ReplyChar))
    <2>1. replied[p] \in Seq(Seq(ReplyChar))
        BY DEF RepliesInv
    <2>2. Append(replied[p], text) \in Seq(Seq(ReplyChar))
        BY <2>1, AppendProperties
    <2> QED
        BY <1>6, <2>1, <2>2
<1>8. ASSUME downTroubles' = {}
      PROVE  /\ wifi.at # "woken"
             /\ \A p \in Phones : RepliesOK(p, radio[Server], message[p], wifi, incoming',
                                            replied'[p], notified[p])
    <2>1. downTroubles = {} /\ ~incoming.received /\ wifi.at # "woken"
        BY <1>2, <1>8 DEF When
    <2>2. ASSUME NEW p \in Phones
          PROVE  RepliesOK(p, radio[Server], message[p], wifi, incoming', replied'[p], notified[p])
        <3>1. PICK r, m, a, b, sent, old : /\ r = radio[Server] /\ m = message[p]
                  /\ a = One(OnAir(p, r)) /\ b = One(InHand(p, wifi))
                  /\ sent = replied[p] /\ old = notified[p]
            OBVIOUS
        <3>2. RepliesOK(p, r, m, wifi, incoming, sent, old)
            BY <2>1, <3>1 DEF RepliesInv
        <3>3. a \in {0, 1} /\ b \in {0, 1}
            BY <3>1 DEF One
        <3>4. One(InBuffer(p, wifi, incoming)) = 0
            BY <2>1 DEF One, InBuffer
        <3>5. Gathered(p, r, m, wifi) /\ Account(sent, old, a, m \o r.payload, b, wifi.text, 0, incoming.text)
            BY <3>1, <3>2, <3>4 DEF RepliesOK
        <3>6. sent \in Seq(Seq(ReplyChar)) /\ Len(old) \in Nat
            BY <2>1, <3>1, LenProperties DEF RepliesInv, DownInv, NotifiedOK
        <3>7. incoming'.text = text /\ incoming'.to = to /\ incoming'.received = TRUE
            BY <1>2
        <3>8. CASE owed /\ p = to
            <4>1. One(InBuffer(p, wifi, incoming')) = 1
                BY <1>4, <3>7, <3>8 DEF One, InBuffer
            <4>2. Account(Append(sent, text), old, a, m \o r.payload, b, wifi.text, 1, text)
                BY <3>3, <3>5, <3>6, AccountArrives
            <4>3. replied'[p] = Append(sent, text)
                BY <1>6, <3>1, <3>8
            <4> QED
                BY <3>1, <3>5, <3>7, <4>1, <4>2, <4>3 DEF RepliesOK
        <3>9. CASE ~(owed /\ p = to)
            <4>1. ~InBuffer(p, wifi, incoming')
                BY <1>4, <3>7, <3>9, Places DEF InBuffer
            <4>2. One(InBuffer(p, wifi, incoming')) = 0
                BY <4>1 DEF One
            <4>3. Account(sent, old, a, m \o r.payload, b, wifi.text, 0, text)
                BY <3>5 DEF Account
            <4>4. replied'[p] = sent
                BY <1>6, <3>1, <3>9
            <4> QED
                BY <3>1, <3>5, <3>7, <4>2, <4>3, <4>4 DEF RepliesOK
        <3> QED
            BY <3>8, <3>9
    <2> QED
        BY <2>1, <2>2
<1>9. RepliesInv'
    BY <1>2, <1>6, <1>7, <1>8 DEF RepliesInv
<1> QED
    BY <1>1, <1>5, <1>9

\* MQTTreceive wakes up, aims, or takes the text out of the buffer.
LEMMA WifiReplies ==
    ASSUME RelayTypes, DownInv, RepliesInv, WifiWakes \/ Aim \/ Extract
    PROVE  RepliesInv'
<1>1. CASE WifiWakes
    <2>1. /\ UNCHANGED <<message, radio, notified, replied, downTroubles>>
          /\ wifi.at = "waiting" /\ incoming.received
          /\ incoming'.received = FALSE /\ incoming'.text = incoming.text /\ incoming'.to = incoming.to
          /\ wifi'.at = "woken" /\ wifi'.text = wifi.text /\ wifi'.to = wifi.to /\ wifi'.ind = wifi.ind
        BY <1>1 DEF WifiWakes, RelayTypes, WifiOK
    <2>2. ASSUME NEW p \in Phones, NEW r, NEW m, NEW sent, NEW old,
                 RepliesOK(p, r, m, wifi, incoming, sent, old)
          PROVE  RepliesOK(p, r, m, wifi', incoming', sent, old)
        <3>1. One(InHand(p, wifi')) = One(InHand(p, wifi))
            BY <2>1 DEF InHand, One
        <3>2. One(InBuffer(p, wifi', incoming')) = One(InBuffer(p, wifi, incoming))
            BY <2>1 DEF InBuffer, One
        <3>3. Gathered(p, r, m, wifi')
            BY <2>1, <2>2 DEF RepliesOK, Gathered
        <3> QED
            BY <2>1, <2>2, <3>1, <3>2, <3>3 DEF RepliesOK
    <2> QED
        BY <2>1, <2>2 DEF RepliesInv
<1>2. CASE Aim
    <2>1. /\ UNCHANGED <<message, radio, notified, replied, downTroubles, incoming>>
          /\ wifi.at = "aiming" /\ wifi'.at = "spinning"
          /\ wifi'.text = wifi.text /\ wifi'.to = wifi.to /\ wifi'.ind = wifi.ind
        BY <1>2 DEF Aim, RelayTypes, WifiOK
    <2>2. ASSUME NEW p \in Phones, NEW r, NEW m, NEW sent, NEW old,
                 RepliesOK(p, r, m, wifi, incoming, sent, old)
          PROVE  RepliesOK(p, r, m, wifi', incoming', sent, old)
        <3>1. One(InHand(p, wifi')) = One(InHand(p, wifi))
            BY <2>1 DEF InHand, One
        <3>2. One(InBuffer(p, wifi', incoming')) = One(InBuffer(p, wifi, incoming))
            BY <2>1 DEF InBuffer, One
        <3>3. Gathered(p, r, m, wifi')
            BY <2>1, <2>2 DEF RepliesOK, Gathered
        <3> QED
            BY <2>1, <2>2, <3>1, <3>2, <3>3 DEF RepliesOK
    <2> QED
        BY <2>1, <2>2 DEF RepliesInv
<1>3. CASE Extract
    <2>1. CASE Restarts
        <3>1. UNCHANGED <<notified, replied>> /\ downTroubles' # {}
            BY <2>1, <1>3, ExtractFacts DEF Restarts
        <3> QED
            BY <3>1 DEF RepliesInv
    <2>2. CASE Aims
        <3>1. /\ UNCHANGED <<message, radio, notified, replied, downTroubles, incoming>>
              /\ wifi.at = "woken" /\ wifi'.at = "aiming" /\ wifi'.ind = 0
              /\ wifi'.text = incoming.text /\ wifi'.to = incoming.to
            BY <2>2, <1>3, ExtractFacts DEF Aims
        <3>2. incoming.text # Malformed
            BY <1>3, <2>2 DEF Extract, Aims, Waiting
        <3>3. ASSUME NEW p \in Phones, downTroubles = {}
              PROVE  RepliesOK(p, radio[Server], message[p], wifi', incoming', replied[p], notified[p])
            <4>1. PICK r, m, a, c, sent, old : /\ r = radio[Server] /\ m = message[p]
                      /\ a = One(OnAir(p, r)) /\ c = One(InBuffer(p, wifi, incoming))
                      /\ sent = replied[p] /\ old = notified[p]
                OBVIOUS
            <4>2. RepliesOK(p, r, m, wifi, incoming, sent, old) /\ ~incoming.received
                BY <3>1, <3>3, <4>1 DEF RepliesInv
            <4>3. a \in {0, 1} /\ c \in {0, 1}
                BY <4>1 DEF One
            <4>4. One(InHand(p, wifi)) = 0
                BY <3>1 DEF One, InHand
            <4>5. One(InHand(p, wifi')) = c
                BY <3>1, <3>2, <4>1 DEF One, InHand, InBuffer
            <4>6. One(InBuffer(p, wifi', incoming')) = 0
                BY <3>1, <4>2 DEF One, InBuffer
            <4>7. Account(sent, old, a, m \o r.payload, 0, wifi.text, c, incoming.text)
                BY <4>1, <4>2, <4>4 DEF RepliesOK
            <4>8. Len(old) \in Nat
                BY <3>3, <4>1, LenProperties DEF DownInv, NotifiedOK
            <4>9. Account(sent, old, a, m \o r.payload, c, incoming.text, 0, incoming.text)
                <5>1. Account(sent, old, a, m \o r.payload, c, incoming.text, 0, wifi.text)
                    BY <4>3, <4>7, <4>8, AccountMoves
                <5> QED
                    BY <5>1 DEF Account
            <4>10. Gathered(p, r, m, wifi')
                <5>1. DownOK(p, r, m, wifi) /\ ReplyOK(r, wifi, incoming) /\ wifi.ind \in Nat
                    BY <3>3, <4>1 DEF DownInv, RelayTypes, WifiOK
                <5>2. wifi.ind = 0
                    BY <3>1, <5>1 DEF ReplyOK
                <5>3. /\ m \in Seq(ReplyChar) /\ Len(m) \in Nat
                      /\ r = Silent \/ Len(r.payload) \in Nat
                      /\ PackageOK(r, {1, 3, 4}, ReplyChar, Towers)
                    BY <4>1, LenProperties DEF RelayTypes, RadioOK, MessageOK, PackageOK
                <5>4. ~(Carries(r, 1) /\ r.dest = p)
                    <6>1. SUFFICES ASSUME Carries(r, 1), r.dest = p PROVE FALSE
                        OBVIOUS
                    <6>2. Len(r.payload) = LoraBytes /\ LoraBytes \in Nat \ {0}
                        BY <5>3, <6>1, RelayConstants DEF PackageOK, Carries, Silent
                    <6>3. 0 = Len(m) + Len(r.payload)
                        BY <5>1, <5>2, <6>1 DEF DownOK
                    <6> QED
                        BY <5>3, <6>2, <6>3
                <5>5. ~OnAir(p, r) => Len(m) = 0
                    BY <5>1, <5>2, <5>4 DEF DownOK, OnAir
                <5>6. SubSeq(wifi'.text, 1, wifi'.ind) = <<>>
                    BY <3>1, SubSeqEmpty
                <5> QED
                    BY <5>3, <5>4, <5>5, <5>6, EmptySeq DEF Gathered
            <4> QED
                BY <3>1, <4>1, <4>5, <4>6, <4>9, <4>10 DEF RepliesOK
        <3> QED
            BY <3>1, <3>3 DEF RepliesInv
    <2> QED
        BY <1>3, <2>1, <2>2, ExtractFacts
<1> QED
    BY <1>1, <1>2, <1>3

\* The next package of the reply in hand goes on the air; with the last one the reply
\* moves up.
LEMMA HandReplyReplies ==
    ASSUME RelayTypes, DownInv, RepliesInv, HandOverReply
    PROVE  RepliesInv'
<1>1. PICK text, c : text = wifi.text /\ c = wifi.ind
    OBVIOUS
<1>2. /\ radio[Server] = Silent /\ wifi.at = "spinning"
      /\ UNCHANGED <<message, incoming, notified, replied>>
      /\ downTroubles' = downTroubles \cup CutTroubles(text)
                             \cup When(wifi.dest # wifi.to, "retargeted")
    BY <1>1, HandReplyFacts
<1>3. PICK r : radio' = [radio EXCEPT ![Server] = r] /\ HandsReply(r)
               /\ PackageOK(r, {1, 3, 4}, ReplyChar, Towers)
    BY HandReplyFacts
<1>4. radio'[Server] = r
    BY <1>3, RadioStep, Places DEF RelayTypes
<1>5. /\ (replied = [p \in Phones |-> replied[p]])'
      /\ \A p \in Phones : replied'[p] \in Seq(Seq(ReplyChar))
    BY <1>2 DEF RepliesInv
<1> SUFFICES ASSUME downTroubles' = {}
             PROVE  (/\ wifi.at = "woken" => ~incoming.received
                     /\ \A p \in Phones : RepliesOK(p, radio[Server], message[p], wifi, incoming,
                                                    replied[p], notified[p]))'
    BY <1>5 DEF RepliesInv
<1>6. downTroubles = {} /\ CutTroubles(text) = {} /\ wifi.dest = wifi.to
    BY <1>2 DEF When
<1>7. text \in Seq(ReplyChar) /\ c \in 0..Len(text) /\ Len(text) \in Nat /\ c \in Nat
    BY <1>1, LenProperties DEF RelayTypes, WifiOK
<1>8. c > 0 => c < Len(text) /\ Cuttable(text) /\ c % LoraBytes = 0
    BY <1>1, <1>6 DEF DownInv, ReplyOK
<1>9. PICK x, n, y : /\ x = Cut(text, c).txt /\ n = c + Diff(text, c) /\ y = Chunk(text, c)
    OBVIOUS
<1>10. /\ x \in {1, 3} /\ n \in 0..Len(text) /\ n >= c
       /\ x = 1 => n < Len(text)
       /\ x = 3 => n = Len(text)
    <2>1. Diff(text, c) \in Nat
        BY <1>7, Pieces
    <2> QED
        BY <1>6, <1>7, <1>8, <1>9, <2>1, NextPiece
<1>11. /\ r.txt = x /\ r = [txt |-> r.txt, payload |-> y, dest |-> wifi.dest, consumed |-> FALSE]
       /\ wifi' = IF n = Len(text) THEN Waiting ELSE [wifi EXCEPT !.at = "aiming", !.ind = n]
    BY <1>1, <1>3, <1>9 DEF HandsReply
<1>12. r.txt = x /\ r.payload = y /\ r.dest = wifi.to /\ r.consumed = FALSE
    BY <1>6, <1>11
<1>13. SubSeq(text, 1, c) \o y = SubSeq(text, 1, n)
    <2>1. y = SubSeq(text, c + 1, n)
        BY <1>9 DEF Chunk
    <2>2. c \in 0..Len(text) /\ n \in c..Len(text) /\ 1 \in 1..Len(text) + 1
        BY <1>7, <1>10
    <2> QED
        BY <1>7, <2>1, <2>2, ConcatAdjacentSubSeq
<1>14. wifi'.at \in {"aiming", "waiting"}
    BY <1>11 DEF RelayTypes, WifiOK, Waiting
<1>15. ASSUME NEW p \in Phones
       PROVE  RepliesOK(p, r, message[p], wifi', incoming, replied[p], notified[p])
    <2>1. PICK m, b, d, sent, old : /\ m = message[p] /\ b = One(InHand(p, wifi))
              /\ d = One(InBuffer(p, wifi, incoming)) /\ sent = replied[p] /\ old = notified[p]
        OBVIOUS
    <2>2. RepliesOK(p, Silent, m, wifi, incoming, sent, old)
        BY <1>2, <1>6, <2>1 DEF RepliesInv
    <2>3. ~Carries(Silent, 1) /\ ~Carries(Silent, 3)
        BY DEF Carries, Silent
    <2>4. One(OnAir(p, Silent)) = 0
        BY <2>3 DEF One, OnAir
    <2>5. wifi.to = p => m = SubSeq(text, 1, c)
        BY <1>1, <2>2, <2>3 DEF RepliesOK, Gathered, OnAir
    <2>6. Account(sent, old, 0, m \o Silent.payload, b, text, d, incoming.text)
        BY <1>1, <2>1, <2>2, <2>4 DEF RepliesOK
    <2>7. b \in {0, 1} /\ d \in {0, 1}
        BY <2>1 DEF One
    <2>8. One(InBuffer(p, wifi', incoming)) = d
        BY <1>2, <1>14, <2>1 DEF One, InBuffer
    <2>9. CASE x = 1
        <3>1. wifi' = [wifi EXCEPT !.at = "aiming", !.ind = n]
            BY <1>7, <1>10, <1>11, <2>9
        <3>2. wifi'.at = "aiming" /\ wifi'.ind = n /\ wifi'.text = text /\ wifi'.to = wifi.to
            BY <1>1, <3>1 DEF RelayTypes, WifiOK
        <3>3. Carries(r, 1) /\ ~OnAir(p, r)
            BY <1>12, <2>9 DEF Carries, OnAir
        <3>4. One(OnAir(p, r)) = 0
            BY <3>3 DEF One
        <3>5. One(InHand(p, wifi')) = b
            BY <1>2, <2>1, <3>2 DEF One, InHand
        <3>6. Gathered(p, r, m, wifi')
            BY <1>12, <1>13, <2>5, <3>2, <3>3 DEF Gathered
        <3>7. Account(sent, old, 0, m \o r.payload, b, text, d, incoming.text)
            BY <2>6 DEF Account
        <3> QED
            BY <2>1, <2>8, <3>2, <3>4, <3>5, <3>6, <3>7 DEF RepliesOK
    <2>10. CASE x = 3
        <3>1. wifi' = Waiting
            BY <1>10, <1>11, <2>10
        <3>2. wifi'.at = "waiting" /\ wifi'.to = Server
            BY <3>1 DEF Waiting
        <3>3. OnAir(p, r) <=> wifi.to = p
            BY <1>12, <2>10 DEF Carries, OnAir
        <3>4. One(OnAir(p, r)) = b
            BY <1>2, <2>1, <3>3 DEF One, InHand
        <3>5. One(InHand(p, wifi')) = 0
            BY <3>2 DEF One, InHand
        <3>6. Gathered(p, r, m, wifi')
            BY <1>12, <2>10, <3>2, Places DEF Gathered, Carries
        <3>7. b = 1 => m \o y = text
            <4>1. b = 1 => wifi.to = p
                BY <2>1 DEF One, InHand
            <4>2. n = Len(text) /\ SubSeq(text, 1, Len(text)) = text
                BY <1>7, <1>10, <2>10, SubSeqFull
            <4> QED
                BY <1>13, <2>5, <4>1, <4>2
        <3>8. Len(old) \in Nat
            BY <1>6, <2>1, LenProperties DEF DownInv, NotifiedOK
        <3>9. Account(sent, old, b, text, 0, wifi'.text, d, incoming.text)
            <4>1. Account(sent, old, 0, m \o Silent.payload, b, text, d, incoming.text)
                      => Account(sent, old, b, text, 0, m \o Silent.payload, d, incoming.text)
                BY <2>7, <3>8, AccountMoves
            <4> QED
                BY <2>6, <4>1 DEF Account
        <3>10. Account(sent, old, b, m \o y, 0, wifi'.text, d, incoming.text)
            BY <3>7, <3>9 DEF Account
        <3> QED
            BY <1>12, <2>1, <2>8, <3>4, <3>5, <3>6, <3>10 DEF RepliesOK
    <2> QED
        BY <1>10, <2>1, <2>9, <2>10
<1>16. wifi'.at # "woken"
    BY <1>14
<1>17. (\A p \in Phones : RepliesOK(p, radio[Server], message[p], wifi, incoming,
                                    replied[p], notified[p]))'
    BY <1>2, <1>4, <1>15
<1> QED
    BY <1>16, <1>17

\* The tower consumes a package; with the last one the phone is notified of the reply that
\* has arrived for it first of those it has not had.
LEMMA ConsumeTowerReplies ==
    ASSUME RelayTypes, DownInv, RepliesInv, NEW p \in Phones, ConsumeAtTower(p)
    PROVE  /\ RepliesInv'
           /\ downTroubles' = {} => notified' = notified \/ Down!Deliver(p)
<1>1. PICK x, m, text, last : /\ x = radio[Server] /\ m = message[p] /\ text = m \o x.payload
                              /\ last = (x.txt = 3)
    OBVIOUS
<1>2. /\ x # Silent /\ x.txt \in 1..3
      /\ radio' = [radio EXCEPT ![Server] = [radio[Server] EXCEPT !.consumed = TRUE]]
    BY <1>1, ReachesFacts, Places DEF ConsumeAtTower
<1>3. /\ x.dest = p /\ UNCHANGED <<wifi, incoming, replied>>
      /\ message' = [message EXCEPT ![p] = NextMessage(text, x.txt)]
      /\ notified' = (IF last THEN sendData(p, text) ELSE notified)
      /\ downTroubles' = downTroubles
             \cup (Again(Server) \cup When(last /\ ~gatt[p].connected, "phoneGone"))
    BY <1>1 DEF ConsumeAtTower, DownTrouble
<1>4. /\ (replied = [q \in Phones |-> replied[q]])'
      /\ \A q \in Phones : replied'[q] \in Seq(Seq(ReplyChar))
    BY <1>3 DEF RepliesInv
<1> SUFFICES ASSUME downTroubles' = {}
             PROVE  /\ (/\ wifi.at = "woken" => ~incoming.received
                        /\ \A q \in Phones : RepliesOK(q, radio[Server], message[q], wifi, incoming,
                                                       replied[q], notified[q]))'
                    /\ notified' = notified \/ Down!Deliver(p)
    BY <1>4 DEF RepliesInv
<1>5. downTroubles = {} /\ ~x.consumed /\ (last => gatt[p].connected)
    BY <1>1, <1>3 DEF Again, When
<1>6. m \in Seq(ReplyChar) /\ x.payload \in Seq(ReplyChar) /\ x.txt \in {1, 3}
    <2>1. PackageOK(x, {1, 3, 4}, ReplyChar, Towers) /\ m \in Seq(ReplyChar)
        BY <1>1 DEF RelayTypes, RadioOK, MessageOK
    <2> QED
        BY <1>2, <2>1 DEF PackageOK
<1>7. text \in Seq(ReplyChar)
    BY <1>1, <1>6, ConcatProperties
<1>8. PICK y : y = radio'[Server]
    OBVIOUS
<1>9. ~Carries(y, 1) /\ ~Carries(y, 3) /\ \A q \in Phones : ~OnAir(q, y)
    BY <1>1, <1>2, <1>8, Consumed, Places DEF OnAir
<1>10. /\ message'[p] = (IF x.txt = 3 THEN <<>> ELSE text)
       /\ \A q \in Phones : q # p => message'[q] = message[q]
    <2>1. PICK new : new = NextMessage(text, x.txt)
        OBVIOUS
    <2>2. message'[p] = new /\ \A q \in Phones : q # p => message'[q] = message[q]
        BY <1>3, <2>1, Places DEF RelayTypes, MessageOK
    <2> QED
        BY <2>1, <2>2 DEF NextMessage
<1>11. notified' = IF last THEN [notified EXCEPT ![p] = Append(@, text)] ELSE notified
    BY <1>3, <1>5 DEF sendData
<1>12. notified = [q \in Phones |-> notified[q]] /\ \A q \in Phones : notified[q] \in Seq(Seq(ReplyChar))
    BY <1>5 DEF DownInv, NotifiedOK
<1>13. /\ notified'[p] = IF last THEN Append(notified[p], text) ELSE notified[p]
       /\ \A q \in Phones : q # p => notified'[q] = notified[q]
    BY <1>11, <1>12
<1>14. Carries(x, 3) => wifi.ind = 0
    BY <1>1, <1>5 DEF DownInv, ReplyOK
<1>15. PICK b, c, sent, old : /\ b = One(InHand(p, wifi)) /\ c = One(InBuffer(p, wifi, incoming))
                              /\ sent = replied[p] /\ old = notified[p]
    OBVIOUS
<1>16. RepliesOK(p, x, m, wifi, incoming, sent, old)
    BY <1>1, <1>5, <1>15 DEF RepliesInv
<1>17. b \in {0, 1} /\ c \in {0, 1}
    BY <1>15 DEF One
<1>18. One(OnAir(p, y)) = 0
    BY <1>9 DEF One
<1>19. ASSUME x.txt = 1
       PROVE  /\ RepliesOK(p, y, message'[p], wifi, incoming, sent, notified'[p])
              /\ notified' = notified \/ Down!Deliver(p)
    <2>1. Carries(x, 1) /\ ~OnAir(p, x) /\ ~last
        <3>1. x.txt # 3
            BY <1>19
        <3>2. ~last
            BY <1>1, <3>1
        <3> QED
            BY <1>5, <1>19, <3>1, <3>2 DEF Carries, OnAir
    <2>2. One(OnAir(p, x)) = 0
        BY <2>1 DEF One
    <2>3. Account(sent, old, 0, text, b, wifi.text, c, incoming.text)
        BY <1>1, <1>15, <1>16, <2>2 DEF RepliesOK
    <2>4. message'[p] = text /\ text = SubSeq(wifi.text, 1, wifi.ind)
        BY <1>1, <1>3, <1>10, <1>16, <1>19, <2>1 DEF RepliesOK, Gathered
    <2>5. Gathered(p, y, message'[p], wifi)
        BY <1>9, <2>4 DEF Gathered
    <2>6. Account(sent, old, 0, message'[p] \o y.payload, b, wifi.text, c, incoming.text)
        BY <2>3 DEF Account
    <2>7. RepliesOK(p, y, message'[p], wifi, incoming, sent, notified'[p])
        BY <1>13, <1>15, <1>18, <2>1, <2>5, <2>6 DEF RepliesOK
    <2>8. notified' = notified
        BY <1>11, <2>1
    <2> QED
        BY <2>7, <2>8
<1>20. ASSUME x.txt = 3
       PROVE  /\ RepliesOK(p, y, message'[p], wifi, incoming, sent, notified'[p])
              /\ notified' = notified \/ Down!Deliver(p)
    <2>1. Carries(x, 3) /\ OnAir(p, x) /\ last
        BY <1>1, <1>3, <1>5, <1>20 DEF Carries, OnAir
    <2>2. One(OnAir(p, x)) = 1
        BY <2>1 DEF One
    <2>3. Account(sent, old, 1, text, b, wifi.text, c, incoming.text)
        BY <1>1, <1>15, <1>16, <2>2 DEF RepliesOK
    <2>4. sent \in Seq(Seq(ReplyChar)) /\ old \in Seq(Seq(ReplyChar))
        BY <1>12, <1>15 DEF RepliesInv
    <2>5. /\ Len(old) < Len(sent) /\ text = sent[Len(old) + 1]
          /\ Account(sent, Append(old, text), 0, message'[p] \o y.payload, b, wifi.text, c, incoming.text)
        BY <1>7, <1>17, <2>3, <2>4, AccountDelivers
    <2>6. message'[p] = <<>> /\ wifi.ind = 0
        BY <1>10, <1>14, <1>20, <2>1
    <2>7. SubSeq(wifi.text, 1, 0) = <<>>
        BY SubSeqEmpty
    <2>8. Gathered(p, y, message'[p], wifi)
        BY <1>9, <2>6, <2>7 DEF Gathered
    <2>9. RepliesOK(p, y, message'[p], wifi, incoming, sent, notified'[p])
        BY <1>13, <1>15, <1>18, <2>1, <2>5, <2>8 DEF RepliesOK
    <2>10. Down!Deliver(p)
        <3>1. notified' = [notified EXCEPT ![p] = Append(@, text)]
            BY <1>11, <2>1
        <3>2. notified' = [notified EXCEPT ![p] = Append(@, replied[p][Len(@) + 1])]
            BY <1>15, <2>5, <3>1
        <3> QED
            BY <1>3, <1>15, <2>5, <3>2 DEF Down!Deliver
    <2> QED
        BY <2>9, <2>10
<1>21. /\ RepliesOK(p, y, message'[p], wifi, incoming, sent, notified'[p])
       /\ notified' = notified \/ Down!Deliver(p)
    BY <1>6, <1>19, <1>20
<1>22. ASSUME NEW q \in Phones, q # p
       PROVE  RepliesOK(q, y, message[q], wifi, incoming, replied[q], notified[q])
    <2>1. RepliesOK(q, x, message[q], wifi, incoming, replied[q], notified[q])
        BY <1>1, <1>5 DEF RepliesInv
    <2>2. x.dest # q
        BY <1>3, <1>22
    <2>3. ~OnAir(q, x) /\ ~OnAir(q, y)
        BY <1>9, <2>2 DEF OnAir
    <2>4. One(OnAir(q, x)) = 0 /\ One(OnAir(q, y)) = 0
        BY <2>3 DEF One
    <2>5. Gathered(q, y, message[q], wifi)
        BY <1>9, <2>1, <2>2, <2>3 DEF RepliesOK, Gathered
    <2>6. Account(replied[q], notified[q], 0, message[q] \o y.payload, One(InHand(q, wifi)),
                  wifi.text, One(InBuffer(q, wifi, incoming)), incoming.text)
        <3>1. Account(replied[q], notified[q], 0, message[q] \o x.payload, One(InHand(q, wifi)),
                      wifi.text, One(InBuffer(q, wifi, incoming)), incoming.text)
            BY <2>1, <2>4 DEF RepliesOK
        <3> QED
            BY <3>1 DEF Account
    <2> QED
        BY <2>4, <2>5, <2>6 DEF RepliesOK
<1>23. ASSUME NEW q \in Phones
       PROVE  RepliesOK(q, y, message'[q], wifi, incoming, replied[q], notified'[q])
    <2>1. CASE q = p
        BY <1>15, <1>21, <2>1
    <2>2. CASE q # p
        <3>1. message'[q] = message[q] /\ notified'[q] = notified[q]
            BY <1>10, <1>13, <2>2
        <3> QED
            BY <1>22, <2>2, <3>1
    <2> QED
        BY <2>1, <2>2
<1>24. (wifi.at = "woken" => ~incoming.received)'
    BY <1>3, <1>5 DEF RepliesInv
<1>25. (\A q \in Phones : RepliesOK(q, radio[Server], message[q], wifi, incoming,
                                    replied[q], notified[q]))'
    BY <1>3, <1>8, <1>23
<1> QED
    BY <1>21, <1>24, <1>25

LEMMA EndsReplies ==
    ASSUME RelayTypes, DownInv, RepliesInv, NEW t \in Towers, ExchangeEnds(t)
    PROVE  RepliesInv'
<1>1. /\ radio'[t] = Silent /\ \A q \in Towers : q # t => radio'[q] = radio[q]
      /\ UNCHANGED <<message, incoming, wifi, notified, replied>>
    BY EndsTypes DEF ExchangeEnds, replyVars
<1>2. CASE t \in Phones
    <2>1. downTroubles' = downTroubles
        BY <1>2, Places DEF ExchangeEnds
    <2> QED
        BY <1>1, <1>2, <2>1, RepliesKept, Places
<1>3. CASE t = Server
    <2>1. PICK x, unheard : /\ x = radio[Server]
                            /\ unheard = (~x.consumed /\ x.txt # 4 /\ x.dest # Server)
        OBVIOUS
    <2>2. downTroubles' = downTroubles \cup When(unheard, "lost")
        BY <1>3, <2>1 DEF ExchangeEnds, DownTrouble
    <2>3. /\ (replied = [p \in Phones |-> replied[p]])'
          /\ \A p \in Phones : replied'[p] \in Seq(Seq(ReplyChar))
        BY <1>1 DEF RepliesInv
    <2> SUFFICES ASSUME downTroubles' = {}
                 PROVE  (/\ wifi.at = "woken" => ~incoming.received
                         /\ \A p \in Phones : RepliesOK(p, radio[Server], message[p], wifi, incoming,
                                                        replied[p], notified[p]))'
        BY <2>3 DEF RepliesInv
    <2>4. downTroubles = {} /\ ~unheard
        BY <2>2 DEF When
    <2>5. x.consumed \/ x.txt = 4 \/ x.dest = Server
        BY <2>1, <2>4
    <2>6. ASSUME NEW p \in Phones
          PROVE  RepliesOK(p, Silent, message[p], wifi, incoming, replied[p], notified[p])
        <3>1. RepliesOK(p, x, message[p], wifi, incoming, replied[p], notified[p])
            BY <2>1, <2>4 DEF RepliesInv
        <3>2. ~(Carries(x, 1) /\ x.dest = p) /\ ~OnAir(p, x)
            BY <2>5, Places DEF Carries, OnAir
        <3>3. ~Carries(Silent, 1) /\ ~OnAir(p, Silent)
            BY DEF Carries, OnAir, Silent
        <3>4. One(OnAir(p, x)) = 0 /\ One(OnAir(p, Silent)) = 0
            BY <3>2, <3>3 DEF One
        <3>5. Gathered(p, Silent, message[p], wifi)
            BY <3>1, <3>2, <3>3 DEF RepliesOK, Gathered
        <3>6. Account(replied[p], notified[p], 0, message[p] \o Silent.payload, One(InHand(p, wifi)),
                      wifi.text, One(InBuffer(p, wifi, incoming)), incoming.text)
            <4>1. Account(replied[p], notified[p], 0, message[p] \o x.payload, One(InHand(p, wifi)),
                          wifi.text, One(InBuffer(p, wifi, incoming)), incoming.text)
                BY <3>1, <3>4 DEF RepliesOK
            <4> QED
                BY <4>1 DEF Account
        <3> QED
            BY <3>4, <3>5, <3>6 DEF RepliesOK
    <2>7. (wifi.at = "woken" => ~incoming.received)'
        BY <1>1, <2>4 DEF RepliesInv
    <2> QED
        BY <1>1, <1>3, <2>6, <2>7
<1> QED
    BY <1>2, <1>3 DEF Towers

LEMMA RepliesStep ==
    PhoneInv /\ BytesInv /\ RelayTypes /\ DownInv /\ RepliesInv /\ [Next]_vars => RepliesInv'
<1> SUFFICES ASSUME PhoneInv, BytesInv, RelayTypes, DownInv, RepliesInv, [Next]_vars
             PROVE  RepliesInv'
    OBVIOUS
<1>1. ASSUME NEW p \in Phones, PhoneStep(p) \/ HandOver(p) \/ ConsumeAtServer(p)
      PROVE  RepliesInv'
    BY <1>1, UpwardSteps, RepliesKept DEF replyVars
<1>2. ASSUME NEW p \in Phones, ConsumeAtTower(p) PROVE RepliesInv'
    BY <1>2, ConsumeTowerReplies
<1>3. ASSUME NEW t \in Towers, ExchangeEnds(t) PROVE RepliesInv'
    BY <1>3, EndsReplies
<1>4. CASE ReplyArrives
    BY <1>4, ReplyText, ArrivesReplies
<1>5. CASE WifiThread
    BY <1>5, WifiReplies, HandReplyReplies DEF WifiThread
<1>6. CASE UNCHANGED vars
    BY <1>6, RepliesKept DEF vars, replyVars
<1> QED
    BY <1>1, <1>2, <1>3, <1>4, <1>5, <1>6 DEF Next

LEMMA OneMoreReply ==
    ASSUME NEW s \in Seq(Seq(ReplyChar)), NEW text \in Seq(ReplyChar)
    PROVE  Down!OneMore(s, Append(s, text))
<1>1. PICK n : n = Append(s, text)
    OBVIOUS
<1>2. /\ n \in Seq(Seq(ReplyChar)) /\ Len(n) = Len(s) + 1 /\ Len(s) \in Nat
      /\ \A i \in 1..Len(s) : n[i] = s[i]
    BY <1>1, AppendProperties, LenProperties
<1>3. PICK u : u = SubSeq(n, 1, Len(s))
    OBVIOUS
<1>4. \A i \in 1..Len(s) : n[i] \in Seq(ReplyChar)
    BY <1>2, ElementOfSeq
<1>5. u \in Seq(Seq(ReplyChar)) /\ Len(u) = Len(s) /\ \A i \in 1..Len(s) : u[i] = s[i]
    <2>1. /\ u \in Seq(Seq(ReplyChar))
          /\ Len(u) = IF 1 <= Len(s) THEN Len(s) - 1 + 1 ELSE 0
          /\ \A i \in 1..Len(s) - 1 + 1 : u[i] = n[1 + i - 1]
        BY <1>2, <1>3, <1>4, SubSeqProperties
    <2> QED
        BY <1>2, <2>1
<1>6. u = s
    BY <1>5, SeqEqual
<1> QED
    BY <1>1, <1>2, <1>3, <1>6 DEF Down!OneMore

\* Without one of the recorded causes every phone is notified of the replies that arrived
\* for it, complete, once and in order: MQTTreceive's cutting, the tower's consumeInfo and
\* sendData implement TextDelivery (WIFI.cpp:636-668, LoraManager.cpp:460-519).
THEOREM RepliesDelivered == Spec => DownPromise
<1>1. Init => Down!Init
    BY DEF Init, Down!Init
<1>2. RelayTypes /\ DownInv /\ RepliesInv /\ PhoneInv /\ BytesInv /\ [Next]_vars
          => (downTroubles' = {} => [Down!Next]_<<replied, notified>>)
    <2> SUFFICES ASSUME PhoneInv, BytesInv, RelayTypes, DownInv, RepliesInv, [Next]_vars, downTroubles' = {}
                 PROVE  Down!Next \/ UNCHANGED <<replied, notified>>
        OBVIOUS
    <2>1. ASSUME NEW p \in Phones, PhoneStep(p) \/ HandOver(p) \/ ConsumeAtServer(p)
          PROVE  UNCHANGED <<replied, notified>>
        BY <2>1, UpwardSteps DEF replyVars
    <2>2. ASSUME NEW p \in Phones, ConsumeAtTower(p)
          PROVE  Down!Next \/ UNCHANGED <<replied, notified>>
        <3>1. replied' = replied
            BY <2>2 DEF ConsumeAtTower
        <3>2. notified' = notified \/ Down!Deliver(p)
            BY <2>2, ConsumeTowerReplies
        <3> QED
            BY <3>1, <3>2 DEF Down!Next
    <2>3. ASSUME NEW t \in Towers, ExchangeEnds(t) PROVE UNCHANGED <<replied, notified>>
        BY <2>3 DEF ExchangeEnds, replyVars
    <2>4. CASE ReplyArrives
        <3>1. PICK text \in Seq(ReplyChar) : MessageArrives(text)
            BY <2>4, ReplyText
        <3>2. PICK to : to = server.bluetooth_tower
            OBVIOUS
        <3>3. notified' = notified
            BY <3>1 DEF MessageArrives
        <3>4. CASE replied' = replied
            BY <3>3, <3>4
        <3>5. CASE to \in Phones /\ replied' = [replied EXCEPT ![to] = Append(@, text)]
            <4>1. replied = [p \in Phones |-> replied[p]] /\ replied[to] \in Seq(Seq(ReplyChar))
                BY <3>5 DEF RepliesInv
            <4>2. /\ replied'[to] = Append(replied[to], text)
                  /\ \A q \in Phones \ {to} : replied'[q] = replied[q]
                BY <3>5, <4>1
            <4>3. Down!OneMore(replied[to], replied'[to])
                BY <3>1, <4>1, <4>2, OneMoreReply
            <4>4. Down!Send(to)
                BY <3>3, <4>2, <4>3 DEF Down!Send
            <4> QED
                BY <3>5, <4>4 DEF Down!Next
        <3> QED
            BY <3>1, <3>2, <3>4, <3>5, ArrivesReplies
    <2>5. CASE WifiThread
        BY <2>5 DEF WifiThread, WifiWakes, Extract, Aim, HandOverReply
    <2>6. CASE UNCHANGED vars
        BY <2>6 DEF vars, replyVars
    <2> QED
        BY <2>1, <2>2, <2>3, <2>4, <2>5, <2>6 DEF Next
<1>3. Spec => [](RelayTypes /\ DownInv /\ RepliesInv /\ PhoneInv /\ BytesInv)
    BY DownInit, DownStep, RepliesInit, RepliesStep, RelayTypesInvariant, PTL DEF Spec
<1> QED
    BY <1>1, <1>2, <1>3, PTL DEF Spec, DownPromise


\* When every thread waits and nothing is on the air, no reply has been left behind (the
\* half of NothingLeftBehind that is about replies).
THEOREM NoReplyLeftBehind == Spec => [](Quiet /\ downTroubles = {} => notified = replied)
<1>1. RelayTypes /\ DownInv /\ RepliesInv /\ Quiet /\ downTroubles = {} => notified = replied
    <2> SUFFICES ASSUME DownInv, RepliesInv, Quiet, downTroubles = {} PROVE notified = replied
        OBVIOUS
    <2>1. radio[Server] = Silent /\ wifi.at = "waiting" /\ ~incoming.received
        BY Places DEF Quiet
    <2>2. ASSUME NEW p \in Phones PROVE notified[p] = replied[p]
        <3>1. PICK sent, old : sent = replied[p] /\ old = notified[p]
            OBVIOUS
        <3>2. sent \in Seq(Seq(ReplyChar)) /\ old \in Seq(Seq(ReplyChar))
            BY <3>1 DEF RepliesInv, DownInv, NotifiedOK
        <3>3. /\ One(OnAir(p, Silent)) = 0 /\ One(InHand(p, wifi)) = 0
              /\ One(InBuffer(p, wifi, incoming)) = 0
            BY <2>1 DEF One, OnAir, Carries, Silent, InHand, InBuffer
        <3>4. Account(sent, old, 0, message[p] \o Silent.payload, 0, wifi.text, 0, incoming.text)
            BY <2>1, <3>1, <3>3 DEF RepliesInv, RepliesOK
        <3>5. Len(old) \in Nat
            BY <3>2, LenProperties
        <3>6. Len(sent) = Len(old) /\ \A i \in 1..Len(old) : sent[i] = old[i]
            BY <3>4, <3>5 DEF Account
        <3> QED
            BY <3>1, <3>2, <3>6, SeqEqual
    <2> QED
        BY <2>2 DEF RepliesInv, DownInv
<1>2. Spec => [](RelayTypes /\ DownInv /\ RepliesInv)
    BY DownInit, DownStep, RepliesInit, RepliesStep, RelayTypesInvariant, PTL DEF Spec
<1> QED
    BY <1>1, <1>2, PTL


---------------------------------------------------------------------------
(***************************************************************************)
(* The texts among what a phone has written (Count, NumberBefore, Items).  *)
(***************************************************************************)
LEMMA TextsFinite == ASSUME NEW w, NEW i \in Nat PROVE IsFiniteSet({j \in 1..i : ~IsNumber(w[j])})
<1>1. IsFiniteSet(1..i)
    BY FS_Interval
<1> QED
    BY <1>1, FS_Subset

LEMMA CountType == ASSUME NEW w, NEW i \in Nat PROVE Count(w, i) \in Nat
BY TextsFinite, FS_CardinalityType DEF Count

LEMMA CountZero == ASSUME NEW w PROVE Count(w, 0) = 0
<1>1. {j \in 1..0 : ~IsNumber(w[j])} = {}
    OBVIOUS
<1> QED
    BY <1>1, FS_EmptySet DEF Count

LEMMA CountNext ==
    ASSUME NEW w, NEW i \in Nat
    PROVE  Count(w, i + 1) = Count(w, i) + One(~IsNumber(w[i + 1]))
<1>1. PICK S, T : /\ S = {j \in 1..i : ~IsNumber(w[j])} /\ T = {j \in 1..(i + 1) : ~IsNumber(w[j])}
    OBVIOUS
<1>2. i + 1 \notin S /\ 1..(i + 1) = 1..i \cup {i + 1}
    BY <1>1
<1>5. IsFiniteSet(S) /\ Cardinality(S) = Count(w, i) /\ Cardinality(T) = Count(w, i + 1)
      /\ Count(w, i) \in Nat
    BY <1>1, TextsFinite, FS_CardinalityType DEF Count
<1>3. CASE IsNumber(w[i + 1])
    <2>1. T = S
        BY <1>1, <1>2, <1>3
    <2> QED
        BY <1>3, <1>5, <2>1 DEF One
<1>4. CASE ~IsNumber(w[i + 1])
    <2>1. T = S \cup {i + 1}
        BY <1>1, <1>2, <1>4
    <2>2. Cardinality(T) = Cardinality(S) + 1
        BY <1>2, <1>5, <2>1, FS_AddElement
    <2> QED
        BY <1>4, <1>5, <2>2 DEF One
<1> QED
    BY <1>3, <1>4

\* Count never falls, and grows at every text.
LEMMA CountGrows ==
    ASSUME NEW w, NEW i \in Nat, NEW j \in Nat, i <= j
    PROVE  /\ Count(w, i) <= Count(w, j)
           /\ i < j /\ ~IsNumber(w[j]) => Count(w, i) < Count(w, j)
<1>1. ASSUME NEW n \in Nat, i <= n PROVE Count(w, i) <= Count(w, n)
    <2>1. PICK S, T : /\ S = {k \in 1..i : ~IsNumber(w[k])} /\ T = {k \in 1..n : ~IsNumber(w[k])}
        OBVIOUS
    <2>2. S \in SUBSET T
        BY <1>1, <2>1
    <2> QED
        BY <2>1, <2>2, TextsFinite, FS_Subset DEF Count
<1>2. ASSUME i < j, ~IsNumber(w[j]) PROVE Count(w, i) < Count(w, j)
    <2>1. PICK n \in Nat : j = n + 1
        BY <1>2
    <2>2. Count(w, i) <= Count(w, n)
        BY <1>1, <1>2, <2>1
    <2>3. Count(w, j) = Count(w, n) + 1
        BY <1>2, <2>1, CountNext DEF One
    <2>4. Count(w, i) \in Nat /\ Count(w, n) \in Nat
        BY <2>1, CountType
    <2> QED
        BY <2>2, <2>3, <2>4
<1> QED
    BY <1>1, <1>2

\* All of this depends on what was written until then only.
LEMMA CountPrefix ==
    ASSUME NEW v, NEW w, NEW i \in Nat, \A j \in 1..i : v[j] = w[j]
    PROVE  Count(v, i) = Count(w, i)
<1>1. {j \in 1..i : ~IsNumber(v[j])} = {j \in 1..i : ~IsNumber(w[j])}
    OBVIOUS
<1> QED
    BY <1>1 DEF Count

LEMMA NumberOf ==
    ASSUME NEW w, NEW i, NEW V, V = {j \in 1..(i - 1) : IsNumber(w[j])}
    PROVE  /\ V = {} => NumberBefore(w, i) = <<>>
           /\ V # {} => NumberBefore(w, i) = NumberIn(w[CHOOSE j \in V : \A k \in V : k <= j])
BY Zenon DEF NumberBefore

LEMMA NumberPrefix ==
    ASSUME NEW v, NEW w, NEW i \in Nat \ {0}, \A j \in 1..(i - 1) : v[j] = w[j]
    PROVE  NumberBefore(v, i) = NumberBefore(w, i)
<1>1. PICK V, W : /\ V = {j \in 1..(i - 1) : IsNumber(v[j])} /\ W = {j \in 1..(i - 1) : IsNumber(w[j])}
    OBVIOUS
<1>2. V = W
    BY <1>1
<1>3. CASE V = {}
    BY <1>1, <1>2, <1>3 DEF NumberBefore
<1>4. CASE V # {}
    <2>1. PICK k : k = CHOOSE j \in V : \A l \in V : l <= j
        OBVIOUS
    <2>2. \E m \in V : \A l \in V : l <= m
        <3>1. PICK T : T = {(i - 1) - l : l \in V}
            OBVIOUS
        <3>2. T \in SUBSET Nat /\ T # {}
            BY <1>1, <1>4, <3>1
        <3>3. PICK n \in T : \A t \in T : n <= t
            BY <3>2, Least
        <3>4. PICK m \in V : n = (i - 1) - m
            BY <3>1, <3>3
        <3>5. \A l \in V : n <= (i - 1) - l
            BY <3>1, <3>3
        <3>6. V \in SUBSET Nat
            BY <1>1
        <3>7. \A l \in V : l <= m
            BY <3>4, <3>5, <3>6
        <3> QED
            BY <3>7
    <2>3. k \in V
        BY <2>1, <2>2, Zenon
    <2>4. v[k] = w[k]
        BY <1>1, <2>3
    <2>5. NumberBefore(v, i) = NumberIn(v[k])
        <3>1. V = {j \in 1..(i - 1) : IsNumber(v[j])}
            BY <1>1
        <3>2. NumberBefore(v, i) = NumberIn(v[CHOOSE j \in V : \A l \in V : l <= j])
            BY ONLY <1>4, <3>1, NumberOf, Zenon
        <3> QED
            BY <2>1, <3>2
    <2>6. NumberBefore(w, i) = NumberIn(w[k])
        <3>1. V = {j \in 1..(i - 1) : IsNumber(w[j])}
            BY <1>1, <1>2
        <3>2. NumberBefore(w, i) = NumberIn(w[CHOOSE j \in V : \A l \in V : l <= j])
            BY ONLY <1>4, <3>1, NumberOf, Zenon
        <3> QED
            BY <2>1, <3>2
    <2> QED
        BY <2>4, <2>5, <2>6
<1> QED
    BY <1>3, <1>4

LEMMA ItemPrefix ==
    ASSUME NEW v, NEW w, NEW i \in Nat \ {0}, \A j \in 1..i : v[j] = w[j]
    PROVE  Item(v, i) = Item(w, i)
<1>1. NumberBefore(v, i) = NumberBefore(w, i) /\ v[i] = w[i]
    BY NumberPrefix
<1>2. i > 1 => v[i - 1] = w[i - 1]
    OBVIOUS
<1> QED
    BY <1>1, <1>2 DEF Item, First

\* The number written last before the next entry.
LEMMA NumberNext ==
    ASSUME NEW w, NEW i \in Nat \ {0}
    PROVE  /\ IsNumber(w[i]) => NumberBefore(w, i + 1) = NumberIn(w[i])
           /\ ~IsNumber(w[i]) => NumberBefore(w, i + 1) = NumberBefore(w, i)
<1>0. PICK n : n = i + 1
    OBVIOUS
<1>1. PICK V, W : /\ V = {j \in 1..(n - 1) : IsNumber(w[j])}
                  /\ W = {j \in 1..(i - 1) : IsNumber(w[j])}
    OBVIOUS
<1>2. 1..(n - 1) = 1..(i - 1) \cup {i}
    BY <1>0
<1>3. ASSUME IsNumber(w[i]) PROVE NumberBefore(w, i + 1) = NumberIn(w[i])
    <2>1. i \in V /\ \A j \in V : j <= i
        BY <1>1, <1>2, <1>3
    <2>2. \A k \in V : (\A j \in V : j <= k) => k = i
        BY <1>0, <1>1, <2>1
    <2>3. PICK k : k = CHOOSE j \in V : \A l \in V : l <= j
        OBVIOUS
    <2>4. k \in V /\ \A l \in V : l <= k
        BY <2>1, <2>3, Zenon
    <2>5. k = i
        BY <2>2, <2>4, Zenon
    <2>6. V # {}
        BY <2>1
    <2>7. NumberBefore(w, n) = NumberIn(w[k])
        BY <1>1, <2>3, <2>6, NumberOf, Zenon
    <2> QED
        BY <1>0, <2>5, <2>7
<1>4. ASSUME ~IsNumber(w[i]) PROVE NumberBefore(w, i + 1) = NumberBefore(w, i)
    <2>1. V = W
        BY <1>1, <1>2, <1>4
    <2> QED
        <3>1. CASE V = {}
            BY <1>0, <1>1, <2>1, <3>1, NumberOf
        <3>2. CASE V # {}
            <4>1. PICK x : x = CHOOSE j \in V : \A k \in V : k <= j
                OBVIOUS
            <4>2. x = CHOOSE j \in W : \A k \in W : k <= j
                BY <2>1, <4>1, Zenon
            <4>3. NumberBefore(w, n) = NumberIn(w[x])
                BY <1>1, <3>2, <4>1, NumberOf, Zenon
            <4>4. NumberBefore(w, i) = NumberIn(w[x])
                BY <1>1, <2>1, <3>2, <4>2, NumberOf, Zenon
            <4> QED
                BY <1>0, <4>3, <4>4
        <3> QED
            BY <3>1, <3>2
<1> QED
    BY <1>3, <1>4

LEMMA NumberFirst == ASSUME NEW w PROVE NumberBefore(w, 1) = <<>>
<1>1. {j \in 1..(1 - 1) : IsNumber(w[j])} = {}
    OBVIOUS
<1> QED
    BY <1>1 DEF NumberBefore

\* The k-th text is there, and is only one.
LEMMA ItemsAt ==
    ASSUME NEW w, Len(w) \in Nat
    PROVE  /\ \A k \in 1..Count(w, Len(w)) : \E i \in 1..Len(w) : ~IsNumber(w[i]) /\ Count(w, i) = k
           /\ \A i \in 1..Len(w) : ~IsNumber(w[i]) =>
                  Count(w, i) \in 1..Count(w, Len(w)) /\ Items(w)[Count(w, i)] = Item(w, i)
<1>1. ASSUME NEW k \in 1..Count(w, Len(w))
      PROVE  \E i \in 1..Len(w) : ~IsNumber(w[i]) /\ Count(w, i) = k
    <2>1. PICK T : T = {i \in 0..Len(w) : k <= Count(w, i)}
        OBVIOUS
    <2>2. T \in SUBSET Nat /\ T # {}
        <3>1. Len(w) \in T
            BY <2>1, CountType
        <3> QED
            BY <2>1, <3>1
    <2>3. PICK m \in T : \A j \in T : m <= j
        BY <2>2, Least
    <2>4. m \in 0..Len(w) /\ k <= Count(w, m) /\ Count(w, m) \in Nat
        BY <2>1, CountType
    <2>5. m # 0
        BY <2>4, CountZero
    <2>6. PICK n \in Nat : m = n + 1
        BY <2>4, <2>5
    <2>7. Count(w, n) < k
        <3>1. n \notin T
            BY <2>3, <2>6
        <3> QED
            BY <2>1, <2>4, <2>6, <3>1, CountType
    <2>8. Count(w, m) = Count(w, n) + One(~IsNumber(w[m])) /\ Count(w, n) \in Nat
        BY <2>6, CountNext, CountType
    <2>9. ~IsNumber(w[m]) /\ Count(w, m) = k
        BY <2>4, <2>7, <2>8 DEF One
    <2> QED
        BY <2>4, <2>5, <2>9
<1>2. ASSUME NEW i \in 1..Len(w), ~IsNumber(w[i])
      PROVE  Count(w, i) \in 1..Count(w, Len(w)) /\ Items(w)[Count(w, i)] = Item(w, i)
    <2>1. Count(w, i) \in 1..Count(w, Len(w))
        <3>1. Count(w, 0) < Count(w, i) /\ Count(w, i) <= Count(w, Len(w))
            BY <1>2, CountGrows
        <3> QED
            BY <3>1, CountType, CountZero
    <2>2. \A j \in 1..Len(w) : (~IsNumber(w[j]) /\ Count(w, j) = Count(w, i)) => j = i
        <3> SUFFICES ASSUME NEW j \in 1..Len(w), ~IsNumber(w[j]), Count(w, j) = Count(w, i), j # i
                     PROVE  FALSE
            OBVIOUS
        <3>1. Count(w, i) \in Nat
            BY CountType
        <3>2. i < j \/ j < i
            OBVIOUS
        <3> QED
            BY <1>2, <3>1, <3>2, CountGrows
    <2>3. TextAt(w, Count(w, i)) = i
        <3>1. PICK t : t = TextAt(w, Count(w, i))
            OBVIOUS
        <3>2. t \in 1..Len(w) /\ ~IsNumber(w[t]) /\ Count(w, t) = Count(w, i)
            BY <1>2, <3>1, Zenon DEF TextAt
        <3> QED
            BY <2>2, <3>1, <3>2
    <2> QED
        BY <2>1, <2>3 DEF Items
<1> QED
    BY <1>1, <1>2

\* A text written more is one item more; a number is none.
LEMMA ItemsAppend ==
    ASSUME NEW S, NEW w \in Seq(S), NEW x \in S, NEW v, v = Append(w, x)
    PROVE  /\ IsNumber(x) => Items(v) = Items(w)
           /\ ~IsNumber(x) => Up!OneMore(Items(w), Items(v))
<1>1. /\ v \in Seq(S) /\ Len(v) = Len(w) + 1 /\ Len(w) \in Nat /\ Len(v) \in Nat /\ v[Len(w) + 1] = x
      /\ \A i \in 1..Len(w) : v[i] = w[i]
    BY AppendProperties, LenProperties
<1>2. PICK n, m : n = Count(w, Len(w)) /\ m = Count(v, Len(v))
    OBVIOUS
<1>3. n \in Nat /\ m \in Nat /\ m = n + One(~IsNumber(x))
    <2>1. Count(v, Len(w)) = n
        BY <1>1, <1>2, CountPrefix
    <2>2. m = n + One(~IsNumber(x))
        BY <1>1, <1>2, <2>1, CountNext
    <2> QED
        BY <1>1, <1>2, <2>2, CountType
<1>4. ASSUME NEW k \in 1..n PROVE Items(v)[k] = Items(w)[k]
    <2>1. PICK i \in 1..Len(w) : ~IsNumber(w[i]) /\ Count(w, i) = k
        BY <1>1, <1>2, ItemsAt
    <2>2. Items(w)[k] = Item(w, i)
        BY <1>1, <2>1, ItemsAt
    <2>3. i \in 1..Len(v) /\ i \in Nat \ {0} /\ v[i] = w[i] /\ \A j \in 1..i : v[j] = w[j]
        BY <1>1
    <2>4. Count(v, i) = k
        BY <2>1, <2>3, CountPrefix
    <2>5. Items(v)[k] = Item(v, i)
        <3>1. ~IsNumber(v[i]) /\ Len(v) \in Nat
            BY <1>1, <2>1, <2>3, Zenon
        <3>2. Items(v)[Count(v, i)] = Item(v, i)
            BY <2>3, <3>1, ItemsAt
        <3> QED
            BY <2>4, <3>2
    <2>6. Item(v, i) = Item(w, i)
        BY <2>3, ItemPrefix
    <2> QED
        BY <2>2, <2>5, <2>6
<1>5. /\ Items(w) = [k \in 1..n |-> Items(w)[k]] /\ Len(Items(w)) = n
      /\ Items(v) = [k \in 1..m |-> Items(v)[k]] /\ Len(Items(v)) = m
    BY <1>2, <1>3 DEF Items
<1>6. CASE IsNumber(x)
    <2>1. m = n
        BY <1>3, <1>6 DEF One
    <2> QED
        BY <1>4, <1>5, <1>6, <2>1
<1>7. CASE ~IsNumber(x)
    <2>1. PICK a, b : a = Items(w) /\ b = Items(v)
        OBVIOUS
    <2>2. m = n + 1 /\ Len(a) = n /\ Len(b) = m /\ \A k \in 1..n : b[k] = a[k]
        BY <1>3, <1>4, <1>5, <1>7, <2>1 DEF One
    <2>3. a = [k \in 1..n |-> a[k]] /\ b = [k \in 1..m |-> b[k]]
        BY <1>5, <2>1
    <2>4. SubSeq(b, 1, n) = a
        <3>1. PICK T : T = {b[k] : k \in 1..m}
            OBVIOUS
        <3>2. b \in Seq(T) /\ n \in Nat /\ 0 + n <= Len(b)
            <4>1. \A k \in 1..m : b[k] \in T
                BY <3>1
            <4>2. [k \in 1..m |-> b[k]] \in Seq(T)
                BY <1>3, <4>1
            <4>3. b \in Seq(T)
                BY <2>3, <4>2, Zenon
            <4> QED
                BY <1>3, <2>2, <4>3
        <3>3. PICK u : u = SubSeq(b, 1, n)
            OBVIOUS
        <3>4. u = SubSeq(b, 0 + 1, 0 + n)
            BY <1>3, <3>3
        <3>5. u \in Seq(T) /\ Len(u) = n /\ \A j \in 1..n : u[j] = b[0 + j]
            BY <3>2, <3>4, Slice
        <3>6. u = [k \in 1..n |-> u[k]] /\ \A k \in 1..n : u[k] = a[k]
            BY <1>3, <2>2, <3>5
        <3> QED
            BY <2>3, <3>3, <3>6
    <2> QED
        BY <1>7, <2>1, <2>2, <2>4 DEF Up!OneMore
<1> QED
    BY <1>6, <1>7

---------------------------------------------------------------------------
(***************************************************************************)
(* Texts are delivered.  What a phone has written is a queue: what the     *)
(* server has handled, then what the last package on the air belongs to,   *)
(* what thread_Bluetooth holds, and what is announced.                     *)
(***************************************************************************)
Handed(g, r, s)     == Len(s) - One(Announced(g, r)) - One(r.at = "send")
Handled(g, r, s, a) == Handed(g, r, s) - One(Carries(a, 2) \/ Carries(a, 3))

\* What the server has put together for p: its characters are one phone's.
Part(m, p) == IF m # <<>> /\ m[1][2] = p THEN m ELSE <<>>

PublishedTo(s, d, pub) ==
    Len(pub) = Count(s, d) /\ \A i \in 1..d : ~IsNumber(s[i]) => pub[Count(s, i)] = Item(s, i)

\* The server's number is the one that goes with p's next text, unless it is another phone's.
Numbered(p, s, d, v) ==
    (\A i \in DOMAIN v.telephone : v.telephone[i][2] = p) =>
        v.telephone = NumberBefore(s, d + 1) /\ v.hello = First(s, d + 1)

\* Tower p sends package a, has cut c characters off data, and e is what the server has to
\* handle next.
Under(data, c, a, part, e) ==
    /\ Carries(a, 1) => part \o a.payload = SubSeq(data, 1, c)
    /\ Carries(a, 2) => IsNumber(e) /\ a.payload = Behind55(e)
    /\ Carries(a, 3) => ~IsNumber(e) /\ part \o a.payload = e
    /\ ~Carries(a, 1) /\ ~Carries(a, 3) => part = SubSeq(data, 1, c)

TextsOK(p, s, d, pub, v, data, c, a, m) ==
    /\ d \in Nat /\ PublishedTo(s, d, pub) /\ Numbered(p, s, d, v)
    /\ Under(data, c, a, Part(m, p), s[d + 1])

TextsInv == Undisturbed => \A p \in Phones :
    TextsOK(p, written[p], Handled(gatt[p], reader[p], written[p], radio[p]), published[p], server,
            reader[p].data, cut[p], radio[p], message[Server])

LEMMA HandedRange ==
    ASSUME NEW g, NEW r, NEW s, NEW a, Len(s) \in Nat
    PROVE  /\ Handed(g, r, s) \in Int /\ Handed(g, r, s) <= Len(s)
           /\ Handled(g, r, s, a) \in Int /\ Handled(g, r, s, a) <= Handed(g, r, s)
           /\ Carries(a, 2) \/ Carries(a, 3) => Handled(g, r, s, a) = Handed(g, r, s) - 1
           /\ ~(Carries(a, 2) \/ Carries(a, 3)) => Handled(g, r, s, a) = Handed(g, r, s)
<1>1. \A yes : One(yes) \in {0, 1}
    BY DEF One
<1>2. PICK x, y, z : /\ x = One(Announced(g, r)) /\ y = One(r.at = "send")
                     /\ z = One(Carries(a, 2) \/ Carries(a, 3))
    OBVIOUS
<1>3. x \in {0, 1} /\ y \in {0, 1} /\ z \in {0, 1}
    BY <1>1, <1>2
<1>4. Handed(g, r, s) = Len(s) - x - y /\ Handled(g, r, s, a) = Handed(g, r, s) - z
    BY <1>2 DEF Handed, Handled
<1>5. /\ Carries(a, 2) \/ Carries(a, 3) => z = 1
      /\ ~(Carries(a, 2) \/ Carries(a, 3)) => z = 0
    BY <1>2 DEF One
<1> QED
    BY <1>3, <1>4, <1>5

\* What thread_Bluetooth reads, or a phone completes, changes nothing on the way.
LEMMA TextsRead ==
    ASSUME NEW p, NEW s, NEW t, NEW d, NEW pub, NEW v, NEW data, NEW text, NEW c \in Nat, NEW a, NEW m,
           TextsOK(p, s, d, pub, v, data, c, a, m), Len(s) \in Nat, d <= Len(s),
           Carries(a, 2) \/ Carries(a, 3) => d < Len(s), Carries(a, 1) => c > 0,
           \A i \in 1..Len(s) : t[i] = s[i], c > 0 => text = data
    PROVE  TextsOK(p, t, d, pub, v, text, c, a, m)
<1>1. d \in Nat /\ \A i \in 1..d : t[i] = s[i]
    BY DEF TextsOK
<1>2. PublishedTo(t, d, pub)
    <2>1. PublishedTo(s, d, pub) /\ Count(t, d) = Count(s, d)
        BY <1>1, CountPrefix DEF TextsOK
    <2>2. ASSUME NEW i \in 1..d, ~IsNumber(t[i]) PROVE pub[Count(t, i)] = Item(t, i)
        <3>1. t[i] = s[i] /\ i \in Nat \ {0} /\ \A j \in 1..i : t[j] = s[j]
            BY <1>1
        <3>2. Count(t, i) = Count(s, i) /\ Item(t, i) = Item(s, i)
            BY <3>1, CountPrefix, ItemPrefix
        <3>3. ~IsNumber(s[i])
            BY <2>2, <3>1
        <3> QED
            BY <2>1, <3>2, <3>3 DEF PublishedTo
    <2> QED
        BY <2>1, <2>2 DEF PublishedTo
<1>3. Numbered(p, t, d, v)
    <2>1. PICK n : n = d + 1
        OBVIOUS
    <2>2. n \in Nat \ {0} /\ n - 1 = d /\ \A j \in 1..(n - 1) : t[j] = s[j]
        BY <1>1, <2>1
    <2>3. NumberBefore(t, n) = NumberBefore(s, n)
        BY <2>2, NumberPrefix
    <2>4. First(t, n) = First(s, n)
        <3>1. n > 1 => t[n - 1] = s[n - 1]
            BY <2>2
        <3> QED
            BY <3>1 DEF First
    <2> QED
        BY <2>1, <2>3, <2>4 DEF TextsOK, Numbered
<1>4. Under(text, c, a, Part(m, p), t[d + 1])
    <2>1. Under(data, c, a, Part(m, p), s[d + 1])
        BY DEF TextsOK
    <2>2. SubSeq(text, 1, c) = SubSeq(data, 1, c)
        <3>1. c = 0 => SubSeq(text, 1, c) = <<>> /\ SubSeq(data, 1, c) = <<>>
            BY SubSeqEmpty
        <3>2. c > 0 => SubSeq(text, 1, c) = SubSeq(data, 1, c)
            OBVIOUS
        <3> QED
            BY <3>1, <3>2
    <2>3. Carries(a, 2) \/ Carries(a, 3) => t[d + 1] = s[d + 1]
        BY <1>1
    <2> QED
        BY <2>1, <2>2, <2>3 DEF Under
<1> QED
    BY <1>1, <1>2, <1>3, <1>4 DEF TextsOK

\* A step of p's side changes nothing of another phone.
LEMMA OthersStay ==
    ASSUME PhoneInv, BytesInv, ReadInv, NEW p \in Phones, Phone(p) \/ Reading(p),
           NEW q \in Phones, q # p
    PROVE  gatt'[q] = gatt[q] /\ reader'[q] = reader[q] /\ written'[q] = written[q]
<1>1. /\ gatt = [k \in Phones |-> gatt[k]] /\ reader = [k \in Phones |-> reader[k]]
      /\ written = [k \in Phones |-> written[k]]
    BY DEF PhoneInv, Functions, ReadInv
<1>2. CASE PhoneConnects(p) \/ PhoneBegins(p)
    BY <1>1, <1>2 DEF PhoneConnects, PhoneBegins
<1>3. CASE PhoneLeaves(p) \/ PhoneCancels(p)
    BY <1>1, <1>3 DEF PhoneLeaves, PhoneCancels
<1>4. CASE PhoneWrites(p)
    <2>1. PICK frag, last : WriteEvent(p, frag, last)
        BY <1>4 DEF PhoneWrites
    <2>2. reader' = reader
        BY <2>1 DEF WriteEvent
    <2>3. \E t : written' = [written EXCEPT ![p] = t]
        <3>1. written = [written EXCEPT ![p] = written[p]]
            BY <1>1
        <3> QED
            BY <2>1, <3>1, Zenon DEF WriteEvent
    <2>4. \E h : gatt' = [gatt EXCEPT ![p] = h]
        <3>1. gatt = [gatt EXCEPT ![p] = gatt[p]]
            BY <1>1
        <3> QED
            BY <2>1, <3>1, Zenon DEF WriteEvent
    <2> QED
        BY <1>1, <2>2, <2>3, <2>4
<1>5. CASE Reading(p)
    BY <1>1, <1>5 DEF Reading, Poll, Look, Copy
<1> QED
    BY <1>2, <1>3, <1>4, <1>5 DEF Phone

\* The same has been handed over as before.
LEMMA HandedSame ==
    ASSUME NEW g, NEW r, NEW s, NEW h, NEW u,
           Announced(h, u) <=> Announced(g, r), u.at = "send" <=> r.at = "send"
    PROVE  Handed(h, u, s) = Handed(g, r, s)
BY DEF Handed, One

LEMMA WriteHands ==
    ASSUME PhoneInv, BytesInv, ReadInv, NEW p \in Phones, PhoneWrites(p), mishaps'[p] = {}
    PROVE  /\ Handed(gatt'[p], reader'[p], written'[p]) = Handed(gatt[p], reader[p], written[p])
           /\ \/ written'[p] = written[p]
              \/ \E text \in Seq(Chars(p)) : written'[p] = Append(written[p], text)
<1>1. PICK w, g, r, s : w = writing[p] /\ g = gatt[p] /\ r = reader[p] /\ s = written[p]
    OBVIOUS
<1>2. PICK frag, last :
          /\ WriteEvent(p, frag, last) /\ last \in BOOLEAN
          /\ last <=> frag[Len(frag)] = NUL
    BY <1>1, Fragment
<1>3. Fits(g, Len(frag)) /\ ~Announced(g, r) /\ reader' = reader
    <2>1. PICK m : m = mishaps[p] \cup (IF ~Fits(g, Len(frag)) THEN {"dropped"}
                                        ELSE IF g.new_data \/ r.at \in {"look", "copy"}
                                        THEN {"overtaken"} ELSE {})
        OBVIOUS
    <2>3. mishaps' = [mishaps EXCEPT ![p] = m]
        BY <1>1, <1>2, <2>1, Zenon DEF WriteEvent, Mishap
    <2>4. m = {}
        BY <2>3 DEF BytesInv
    <2>2. reader' = reader
        BY <1>2, Zenon DEF WriteEvent
    <2> QED
        <3>1. Fits(g, Len(frag)) /\ ~(g.new_data \/ r.at \in {"look", "copy"})
            BY <2>1, <2>4
        <3> QED
            BY <1>2, <2>2, <3>1, Zenon DEF Announced
<1>4. PICK h : h = gatt'[p]
    OBVIOUS
<1>5. h = Store(g, frag)
    <2>1. gatt' = [gatt EXCEPT ![p] = Store(g, frag)]
        <3>1. gatt' = IF Fits(g, Len(frag)) THEN [gatt EXCEPT ![p] = Store(g, frag)] ELSE gatt
            BY <1>1, <1>2, Zenon DEF WriteEvent
        <3> QED
            BY <1>3, <3>1
    <2> QED
        BY <1>4, <2>1 DEF PhoneInv, Functions
<1>6. h.new_data = last
    <2>1. /\ g = [connected |-> g.connected, global_data |-> g.global_data, position |-> g.position,
                  new_data |-> g.new_data]
          /\ g.new_data \in BOOLEAN
        BY <1>1 DEF PhoneInv, PhoneOK, GattOK
    <2>2. h.new_data = (g.new_data \/ frag[Len(frag)] = NUL)
        BY <1>5, <2>1 DEF Store
    <2>4. h.new_data <=> g.new_data \/ frag[Len(frag)] = NUL
        BY <2>2
    <2>5. ~g.new_data
        BY <1>3 DEF Announced
    <2>6. h.new_data \in BOOLEAN
        BY <2>2, Zenon
    <2>7. last <=> frag[Len(frag)] = NUL
        BY <1>2, Zenon
    <2>3. h.new_data \in BOOLEAN /\ (h.new_data <=> last)
        BY <2>4, <2>5, <2>6, <2>7, Zenon
    <2> QED
        BY <1>2, <2>3
<1>7. written'[p] = IF last THEN Append(s, SubSeq(w.bytes, 1, Len(w.bytes) - 1)) ELSE s
    <2>1. written' = IF last THEN [written EXCEPT ![p] = Append(s, SubSeq(w.bytes, 1, Len(w.bytes) - 1))]
                             ELSE written
        BY <1>1, <1>2, Zenon DEF WriteEvent
    <2>2. written = [k \in Phones |-> written[k]]
        BY DEF ReadInv
    <2> QED
        BY <1>1, <2>1, <2>2
<1>8. WrittenOK(p, w, s) /\ w # Nothing /\ reader'[p] = r
    BY <1>1, <1>3 DEF ReadInv, PhoneWrites
<1>9. CASE ~last
    <2>1. written'[p] = s /\ (Announced(h, r) <=> Announced(g, r))
        BY <1>3, <1>6, <1>7, <1>9 DEF Announced
    <2> QED
        BY <1>1, <1>4, <1>8, <2>1, HandedSame
<1>10. CASE last
    <2>1. PICK text, t : text = SubSeq(w.bytes, 1, Len(w.bytes) - 1) /\ t = Append(s, text)
        OBVIOUS
    <2>2. text \in Seq(Chars(p)) /\ s \in Seq(Seq(Chars(p)))
        BY <1>8, <2>1 DEF WrittenOK, Writes
    <2>3. Len(t) = Len(s) + 1 /\ Len(s) \in Nat
        BY <2>1, <2>2, AppendProperties, LenProperties
    <2>4. Announced(h, r) /\ ~Announced(g, r)
        BY <1>3, <1>6, <1>10 DEF Announced
    <2>5. One(Announced(h, r)) = 1 /\ One(Announced(g, r)) = 0 /\ One(r.at = "send") \in {0, 1}
        BY <2>4 DEF One
    <2>6. Handed(h, r, t) = Handed(g, r, s)
        BY <2>3, <2>5 DEF Handed
    <2>7. written'[p] = t
        BY <1>7, <1>10, <2>1
    <2> QED
        BY <1>1, <1>4, <1>8, <2>1, <2>2, <2>6, <2>7
<1> QED
    BY <1>2, <1>9, <1>10

LEMMA ReadingHands ==
    ASSUME PhoneInv, BytesInv, ReadInv, NEW p \in Phones, Reading(p), mishaps'[p] = {}
    PROVE  /\ Handed(gatt'[p], reader'[p], written'[p]) = Handed(gatt[p], reader[p], written[p])
           /\ written'[p] = written[p]
<1>1. PICK g, r, s : g = gatt[p] /\ r = reader[p] /\ s = written[p]
    OBVIOUS
<1>2. /\ gatt = [k \in Phones |-> gatt[k]] /\ reader = [k \in Phones |-> reader[k]]
      /\ mishaps = [k \in Phones |-> mishaps[k]]
    BY DEF PhoneInv, Functions, BytesInv
<1>3. /\ g = [connected |-> g.connected, global_data |-> g.global_data, position |-> g.position,
              new_data |-> g.new_data]
      /\ r = [at |-> r.at, telephone_set |-> r.telephone_set, data |-> r.data]
    BY <1>1 DEF PhoneInv, PhoneOK, GattOK, ReaderOK
<1>4. written'[p] = s
    BY <1>1 DEF Reading, Poll, Look, Copy
<1>5. PICK h, u : h = gatt'[p] /\ u = reader'[p]
    OBVIOUS
<1>6. CASE Poll(p)
    <2>1. h = [g EXCEPT !.new_data = FALSE] /\ u = [r EXCEPT !.at = "look"]
        BY <1>1, <1>2, <1>5, <1>6 DEF Poll
    <2>2. g.new_data /\ r.at = "poll" /\ u.at = "look"
        BY <1>1, <1>3, <1>6, <2>1 DEF Poll, ReaderAt
    <2>3. (Announced(h, u) <=> Announced(g, r)) /\ (u.at = "send" <=> r.at = "send")
        BY <2>2 DEF Announced
    <2> QED
        BY <1>1, <1>4, <1>5, <2>3, HandedSame
<1>7. CASE Look(p)
    <2>1. h = g /\ u.at = "copy" /\ r.at = "look"
        BY <1>1, <1>2, <1>3, <1>5, <1>7 DEF Look, ReaderAt
    <2>2. (Announced(h, u) <=> Announced(g, r)) /\ (u.at = "send" <=> r.at = "send")
        BY <2>1 DEF Announced
    <2> QED
        BY <1>1, <1>4, <1>5, <2>2, HandedSame
<1>8. CASE Copy(p)
    <2>1. h = g /\ u.at = "send" /\ r.at = "copy"
        BY <1>1, <1>2, <1>3, <1>5, <1>8 DEF Copy, ReaderAt
    <2>2. mishaps[p] = {}
        <3>1. \E m : mishaps' = [mishaps EXCEPT ![p] = @ \cup m]
            BY <1>8, Zenon DEF Copy, Mishap
        <3> QED
            BY <1>2, <3>1
    <2>3. ~g.new_data
        <3>1. ReadOK(writing[p], g, r, s)
            BY <1>1, <2>2 DEF ReadInv
        <3> QED
            BY <2>1, <3>1 DEF ReadOK, LookedOK
    <2>4. Announced(g, r) /\ ~Announced(h, u)
        BY <2>1, <2>3 DEF Announced
    <2>5. /\ One(Announced(g, r)) = 1 /\ One(Announced(h, u)) = 0
          /\ One(r.at = "send") = 0 /\ One(u.at = "send") = 1
        BY <2>1, <2>4 DEF One
    <2>6. Len(s) \in Nat
        BY <1>1, LenProperties DEF ReadInv, WrittenOK
    <2>7. Handed(h, u, s) = Handed(g, r, s)
        BY <2>5, <2>6 DEF Handed
    <2> QED
        BY <1>1, <1>4, <1>5, <2>7
<1> QED
    BY <1>6, <1>7, <1>8 DEF Reading

LEMMA PhoneHands ==
    ASSUME PhoneInv, BytesInv, ReadInv, NEW p \in Phones, Phone(p), mishaps'[p] = {}
    PROVE  /\ Handed(gatt'[p], reader'[p], written'[p]) = Handed(gatt[p], reader[p], written[p])
           /\ \/ written'[p] = written[p]
              \/ \E text \in Seq(Chars(p)) : written'[p] = Append(written[p], text)
<1>1. CASE PhoneWrites(p)
    BY <1>1, WriteHands
<1>2. CASE ~PhoneWrites(p)
    <2>1. UNCHANGED <<reader, written>>
        BY <1>2 DEF Phone, PhoneConnects, PhoneBegins, PhoneLeaves, PhoneCancels
    <2>2. gatt'[p].new_data = gatt[p].new_data
        <3>1. gatt = [k \in Phones |-> gatt[k]]
            BY DEF PhoneInv, Functions
        <3>2. gatt[p] = [connected |-> gatt[p].connected, global_data |-> gatt[p].global_data,
                         position |-> gatt[p].position, new_data |-> gatt[p].new_data]
            BY DEF PhoneInv, PhoneOK, GattOK
        <3>3. gatt' = gatt \/ \E x : gatt' = [gatt EXCEPT ![p].connected = x]
            BY <1>2 DEF Phone, PhoneConnects, PhoneBegins, PhoneLeaves, PhoneCancels
        <3> QED
            BY <3>1, <3>2, <3>3
    <2>3. Announced(gatt'[p], reader[p]) <=> Announced(gatt[p], reader[p])
        BY <2>2, Zenon DEF Announced
    <2>4. Handed(gatt'[p], reader[p], written[p]) = Handed(gatt[p], reader[p], written[p])
        BY <2>3, HandedSame
    <2> QED
        BY <2>1, <2>4
<1> QED
    BY <1>1, <1>2

\* With more of a text to follow, some of it has been cut off.
LEMMA CarriesCut ==
    ASSUME RelayTypes, UpInv, Undisturbed, NEW q \in Phones, Carries(radio[q], 1)
    PROVE  cut[q] > 0
<1>1. PICK r, m, n : r = radio[q] /\ m = message[Server] /\ n = PartOf(m, q)
    OBVIOUS
<1>2. UpOK(q, r, cut[q], m, reader[q].data) /\ Carries(r, 1)
    BY <1>1 DEF UpInv
<1>3. r.txt = 1 /\ Len(r.payload) = LoraBytes
    <2>1. PackageOK(r, 1..4, Chars(q), {Server}) /\ r # Silent
        BY <1>1, <1>2 DEF RelayTypes, RadioOK, Carries, Silent
    <2> QED
        BY <1>2, <2>1 DEF PackageOK, Carries
<1>4. n \in Nat
    <2>1. Len(m) \in Nat
        BY <1>1, LenProperties DEF RelayTypes, MessageOK
    <2> QED
        BY <1>1, <2>1 DEF PartOf
<1> QED
    BY <1>1, <1>2, <1>3, <1>4, RelayConstants DEF UpOK

LEMMA PhoneStepTexts ==
    ASSUME PhoneInv, BytesInv, RelayTypes, UpInv, ReadInv, TextsInv, NEW p \in Phones, PhoneStep(p)
    PROVE  TextsInv'
<1>1. UNCHANGED <<cut, radio, message, server, published, upTroubles>> /\ (Phone(p) \/ Reading(p))
    BY DEF PhoneStep
<1>2. Undisturbed' => Undisturbed
    BY <1>1, PhoneStepKeeps DEF Undisturbed
<1>3. ASSUME Undisturbed', NEW q \in Phones
      PROVE  TextsOK(q, written'[q], Handled(gatt'[q], reader'[q], written'[q], radio'[q]),
                     published'[q], server', reader'[q].data, cut'[q], radio'[q], message'[Server])
    <2>1. PICK g, r, s, a, c, h, u, t : /\ g = gatt[q] /\ r = reader[q] /\ s = written[q]
                                        /\ a = radio[q] /\ c = cut[q]
                                        /\ h = gatt'[q] /\ u = reader'[q] /\ t = written'[q]
        OBVIOUS
    <2>2. mishaps'[q] = {} /\ Undisturbed
        BY <1>2, <1>3 DEF Undisturbed
    <2>3. Handed(h, u, t) = Handed(g, r, s) /\ (t = s \/ \E x \in Seq(Chars(q)) : t = Append(s, x))
        <3>1. CASE q = p
            BY <1>1, <2>1, <2>2, <3>1, PhoneHands, ReadingHands
        <3>2. CASE q # p
            BY <1>1, <2>1, <3>2, OthersStay
        <3> QED
            BY <3>1, <3>2
    <2>4. PICK d : d = Handled(g, r, s, a)
        OBVIOUS
    <2>5. Handled(h, u, t, a) = d
        BY <2>3, <2>4 DEF Handled
    <2>6. s \in Seq(Seq(Chars(q))) /\ Len(s) \in Nat
        BY <2>1, LenProperties DEF ReadInv, WrittenOK
    <2>7. \A i \in 1..Len(s) : t[i] = s[i]
        <3>1. CASE t = s
            BY <3>1
        <3>2. CASE \E x \in Seq(Chars(q)) : t = Append(s, x)
            <4>1. PICK x \in Seq(Chars(q)) : t = Append(s, x)
                BY <3>2
            <4> QED
                BY <2>6, <4>1, AppendProperties
        <3> QED
            BY <2>3, <3>1, <3>2
    <2>8. d <= Len(s) /\ (Carries(a, 2) \/ Carries(a, 3) => d < Len(s))
        BY <2>4, <2>6, HandedRange
    <2>9. c \in Nat /\ (c > 0 => u.data = r.data) /\ (Carries(a, 1) => c > 0)
        <3>1. c > 0 => reader'[q] = reader[q]
            BY <2>1, PhoneStepKeeps DEF RelayTypes, CutOK
        <3> QED
            BY <2>1, <2>2, <3>1, CarriesCut DEF RelayTypes, CutOK
    <2>10. TextsOK(q, s, d, published[q], server, r.data, c, a, message[Server])
        BY <2>1, <2>2, <2>4 DEF TextsInv
    <2>11. TextsOK(q, t, d, published[q], server, u.data, c, a, message[Server])
        BY <2>6, <2>7, <2>8, <2>9, <2>10, TextsRead
    <2> QED
        BY <1>1, <2>1, <2>5, <2>11
<1> QED
    BY <1>3 DEF TextsInv

\* A step that leaves all this alone.
LEMMA TextsKept ==
    ASSUME TextsInv, Undisturbed' => Undisturbed,
           \A q \in Phones : radio'[q] = radio[q], UNCHANGED <<phoneVars, cut, published>>,
           message'[Server] = message[Server], server'.telephone = server.telephone,
           server'.hello = server.hello
    PROVE  TextsInv'
<1>1. UNCHANGED <<gatt, reader, written, cut, published>>
    BY DEF phoneVars
<1>2. \A q, s, d : Numbered(q, s, d, server) => Numbered(q, s, d, server')
    BY DEF Numbered
<1>3. ASSUME Undisturbed', NEW q \in Phones
      PROVE  TextsOK(q, written'[q], Handled(gatt'[q], reader'[q], written'[q], radio'[q]),
                     published'[q], server', reader'[q].data, cut'[q], radio'[q], message'[Server])
    <2>1. TextsOK(q, written[q], Handled(gatt[q], reader[q], written[q], radio[q]),
                  published[q], server, reader[q].data, cut[q], radio[q], message[Server])
        BY <1>3 DEF TextsInv
    <2> QED
        BY <1>1, <1>2, <2>1 DEF TextsOK
<1> QED
    BY <1>3 DEF TextsInv

\* The next text of a phone whose tower has one to send.
LEMMA HeldNext ==
    ASSUME PhoneInv, BytesInv, ReadInv, NEW p \in Phones, mishaps[p] = {}, reader[p].at = "send",
           NEW d, d = Handed(gatt[p], reader[p], written[p]), NEW e, e = written[p][d + 1]
    PROVE  /\ d \in Nat /\ d + 1 <= Len(written[p]) /\ Writes(p, e)
           /\ reader[p].telephone_set = IsNumber(e) /\ reader[p].data = Said(e)
<1>1. PICK g, r, s : g = gatt[p] /\ r = reader[p] /\ s = written[p]
    OBVIOUS
<1>2. HeldOK(g, r, s) /\ WrittenOK(p, writing[p], s) /\ g.new_data \in BOOLEAN
    BY <1>1 DEF ReadInv, ReadOK, PhoneInv, PhoneOK, GattOK
<1>3. Len(s) \in Nat
    BY <1>2, LenProperties DEF WrittenOK
<1>4. Announced(g, r) <=> g.new_data
    BY <1>1 DEF Announced
<1>5. HeldAt(g, s) = d + 1
    <2>1. d = Len(s) - One(Announced(g, r)) - 1
        BY <1>1 DEF Handed, One
    <2>2. CASE g.new_data
        <3>1. HeldAt(g, s) = Len(s) - 1 /\ One(Announced(g, r)) = 1
            BY <1>4, <2>2 DEF HeldAt, One
        <3> QED
            BY <1>3, <2>1, <3>1
    <2>3. CASE ~g.new_data
        <3>1. HeldAt(g, s) = Len(s) /\ One(Announced(g, r)) = 0
            BY <1>4, <2>3 DEF HeldAt, One
        <3> QED
            BY <1>3, <2>1, <3>1
    <2> QED
        BY <2>2, <2>3
<1>6. /\ HeldAt(g, s) > 0 /\ HeldAt(g, s) <= Len(s) /\ HeldAt(g, s) \in Int
      /\ r.telephone_set = IsNumber(s[HeldAt(g, s)]) /\ r.data = Said(s[HeldAt(g, s)])
    BY <1>1, <1>2, <1>3 DEF HeldOK, HeldAt
<1>7. HeldAt(g, s) \in 1..Len(s) /\ s[HeldAt(g, s)] = e
    BY <1>1, <1>3, <1>5, <1>6
<1>8. Writes(p, e)
    BY <1>2, <1>7 DEF WrittenOK
<1>9. d \in Nat /\ d + 1 <= Len(s)
    <2>1. d \in Int
        BY <1>1, <1>3, HandedRange
    <2> QED
        BY <1>3, <1>5, <1>6, <2>1
<1> QED
    BY <1>1, <1>6, <1>7, <1>8, <1>9

\* Once it is handed over thread_Bluetooth polls again.
LEMMA HandedSent ==
    ASSUME NEW g, NEW r, NEW u, NEW s, Len(s) \in Nat, r.at = "send", u.at = "poll"
    PROVE  Handed(g, u, s) = Handed(g, r, s) + 1
<1>1. Announced(g, u) <=> Announced(g, r)
    BY DEF Announced
<1>2. /\ One(Announced(g, u)) = One(Announced(g, r)) /\ One(Announced(g, r)) \in {0, 1}
      /\ One(r.at = "send") = 1 /\ One(u.at = "send") = 0
    BY <1>1 DEF One
<1> QED
    BY <1>2 DEF Handed

LEMMA HandOverTexts ==
    ASSUME PhoneInv, BytesInv, RelayTypes, UpInv, ReadInv, TextsInv, NEW p \in Phones, HandOver(p)
    PROVE  TextsInv'
<1>1. PICK g, u, s, m, text, c, d, e : /\ g = gatt[p] /\ u = reader[p] /\ s = written[p]
          /\ m = message[Server] /\ text = reader[p].data /\ c = cut[p]
          /\ d = Handed(g, u, s) /\ e = s[d + 1]
    OBVIOUS
<1>2. /\ radio[p] = Silent /\ u.at = "send" /\ text \in Seq(Chars(p))
      /\ c \in 0..Len(text) /\ upTroubles \subseteq upTroubles'
      /\ message'[Server] = m /\ server' = server /\ published' = published
    BY <1>1, HandOverFacts
<1>3. PICK r : /\ radio' = [radio EXCEPT ![p] = r]
               /\ HandsNumber(p, r) \/ HandsText(p, r)
               /\ PackageOK(r, 1..4, Chars(p), {Server})
    BY HandOverFacts
<1>4. radio'[p] = r /\ \A q \in Phones : q # p => radio'[q] = radio[q]
    BY <1>3, RadioStep, Places DEF RelayTypes
<1>5. PICK n : cut' = [cut EXCEPT ![p] = n] /\ (Sent(p) \/ UNCHANGED phoneVars)
    BY <1>3, Zenon DEF HandsNumber, HandsText
<1>6. /\ mishaps' = mishaps /\ cut'[p] = n /\ gatt' = gatt /\ written' = written
      /\ \A q \in Phones : q # p => cut'[q] = cut[q] /\ reader'[q] = reader[q]
    BY <1>5 DEF Sent, phoneVars, PhoneInv, Functions, RelayTypes, CutOK
<1>7. PICK v : v = reader'[p]
    OBVIOUS
<1>8. (Sent(p) => v.at = "poll" /\ v.data = text) /\ (UNCHANGED phoneVars => v = u)
    <2>1. reader = [k \in Phones |-> reader[k]] /\ ReaderOK(u)
        BY <1>1 DEF PhoneInv, Functions, PhoneOK
    <2> QED
        BY <1>1, <1>7, <2>1 DEF Sent, phoneVars, ReaderOK
<1> SUFFICES ASSUME Undisturbed'
             PROVE  \A q \in Phones :
                        TextsOK(q, written'[q], Handled(gatt'[q], reader'[q], written'[q], radio'[q]),
                                published'[q], server', reader'[q].data, cut'[q], radio'[q],
                                message'[Server])
    BY DEF TextsInv
<1>9. Undisturbed /\ upTroubles' = {} /\ mishaps[p] = {}
    BY <1>2, <1>6, Disturbances DEF Undisturbed
<1>10. /\ d \in Nat /\ d + 1 <= Len(s) /\ Writes(p, e)
       /\ u.telephone_set = IsNumber(e) /\ text = Said(e)
    BY <1>1, <1>2, <1>9, HeldNext
<1>11. Len(s) \in Nat /\ ~Carries(Silent, 1) /\ ~Carries(Silent, 2) /\ ~Carries(Silent, 3)
    BY <1>1, LenProperties DEF ReadInv, WrittenOK, Carries, Silent
<1>12. TextsOK(p, s, d, published[p], server, text, c, Silent, m)
    <2>1. Handled(g, u, s, Silent) = d
        BY <1>1, <1>11, HandedRange
    <2> QED
        BY <1>1, <1>2, <1>9, <2>1 DEF TextsInv
<1>13. Part(m, p) = SubSeq(text, 1, c)
    BY <1>11, <1>12 DEF TextsOK, Under
<1>14. c > 0 => c < Len(text) /\ Cuttable(text) /\ c % LoraBytes = 0
    <2>1. UpOK(p, Silent, c, m, text)
        BY <1>1, <1>2, <1>9 DEF UpInv
    <2>2. c > 0 => c < Len(text)
        BY <1>1 DEF RelayTypes, CutOK
    <2> QED
        BY <2>1, <2>2 DEF UpOK
<1>15. /\ Handled(g, v, s, r) = d /\ v.data = text
       /\ Under(text, n, r, Part(m, p), e)
    <2>1. CASE HandsNumber(p, r)
        <3>1. /\ r.txt \in {2, 4}
              /\ r.txt = 4 => text = <<>>
              /\ r = [txt |-> r.txt, payload |-> text, dest |-> Server, consumed |-> FALSE]
              /\ u.telephone_set /\ Sent(p) /\ cut' = [cut EXCEPT ![p] = 0]
            BY <1>1, <2>1 DEF HandsNumber
        <3>2. IsNumber(e) /\ text = Behind55(e) /\ Len(e) > 2
            BY <1>10, <3>1 DEF Said, Writes
        <3>3. text # <<>>
            <4>1. Len(e) \in Nat
                BY <1>10, LenProperties DEF Writes
            <4>2. Len(text) = Len(e) - 2
                BY <3>2, <4>1 DEF Behind55
            <4> QED
                BY <3>2, <4>1, <4>2
        <3>4. r.txt = 2 /\ r.payload = text /\ r.consumed = FALSE
            BY <3>1, <3>3
        <3>5. Carries(r, 2) /\ ~Carries(r, 1) /\ ~Carries(r, 3)
            BY <3>4 DEF Carries
        <3>6. v.at = "poll" /\ v.data = text
            BY <1>8, <3>1
        <3>7. Handled(g, v, s, r) = d
            <4>1. Handed(g, v, s) = d + 1
                BY <1>1, <1>2, <1>11, <3>6, HandedSent
            <4>2. Handled(g, v, s, r) = Handed(g, v, s) - 1
                BY <1>11, <3>5, HandedRange
            <4> QED
                BY <1>10, <4>1, <4>2
        <3>8. c = 0 /\ n = 0
            BY <1>1, <1>6, <3>1 DEF RelayTypes, CutOK
        <3>9. Under(text, n, r, Part(m, p), e)
            BY <1>13, <3>2, <3>4, <3>5, <3>8 DEF Under
        <3> QED
            BY <3>6, <3>7, <3>9
    <2>2. CASE HandsText(p, r)
        <3>1. PICK x, k, y : /\ x = Cut(text, c).txt /\ k = c + Diff(text, c)
                             /\ y = Chunk(text, c)
            OBVIOUS
        <3>2. /\ r.txt = x /\ ~u.telephone_set
              /\ r = [txt |-> r.txt, payload |-> y, dest |-> Server, consumed |-> FALSE]
              /\ cut' = [cut EXCEPT ![p] = IF k = Len(text) THEN 0 ELSE k]
              /\ IF k = Len(text) THEN Sent(p) ELSE UNCHANGED phoneVars
              /\ upTroubles' = upTroubles \cup CutTroubles(text)
            BY <1>1, <2>2, <3>1 DEF HandsText
        <3>3. r.txt = x /\ r.payload = y /\ r.consumed = FALSE
            BY <3>2
        <3>4. n = IF k = Len(text) THEN 0 ELSE k
            BY <1>6, <3>2 DEF RelayTypes, CutOK
        <3>5. CutTroubles(text) = {}
            BY <1>9, <3>2
        <3>6. /\ x \in {1, 3} /\ k \in 0..Len(text)
              /\ x = 1 => k < Len(text)
              /\ x = 3 => k = Len(text)
            BY <1>2, <1>14, <3>1, <3>5, NextPiece
        <3>7. k >= c /\ Len(text) \in Nat
            BY <1>2, <3>1, Pieces, LenProperties
        <3>8. Part(m, p) \o y = SubSeq(text, 1, k)
            <4>1. y = SubSeq(text, c + 1, k)
                BY <3>1 DEF Chunk
            <4>2. c \in 0..Len(text) /\ k \in c..Len(text) /\ 1 \in 1..Len(text) + 1
                BY <1>2, <3>6, <3>7
            <4>3. SubSeq(text, 1, c) \o y = SubSeq(text, 1, k)
                BY <1>2, <4>1, <4>2, ConcatAdjacentSubSeq
            <4> QED
                BY <1>13, <4>3
        <3>9. ~IsNumber(e) /\ text = e
            BY <1>10, <3>2 DEF Said
        <3>10. CASE x = 1
            <4>1. n = k /\ v = u /\ v.data = text
                BY <1>1, <1>8, <3>2, <3>4, <3>6, <3>7, <3>10
            <4>2. Carries(r, 1) /\ ~Carries(r, 2) /\ ~Carries(r, 3)
                BY <3>3, <3>10 DEF Carries
            <4>3. Handled(g, v, s, r) = d
                BY <1>1, <1>11, <4>1, <4>2, HandedRange
            <4>4. Under(text, n, r, Part(m, p), e)
                BY <3>3, <3>8, <4>1, <4>2 DEF Under
            <4> QED
                BY <4>1, <4>3, <4>4
        <3>11. CASE x = 3
            <4>1. n = 0 /\ k = Len(text) /\ v.at = "poll" /\ v.data = text
                BY <1>8, <3>2, <3>4, <3>6, <3>11
            <4>2. Carries(r, 3) /\ ~Carries(r, 1) /\ ~Carries(r, 2)
                BY <3>3, <3>11 DEF Carries
            <4>3. Handled(g, v, s, r) = d
                <5>1. Handed(g, v, s) = d + 1
                    BY <1>1, <1>2, <1>11, <4>1, HandedSent
                <5>2. Handled(g, v, s, r) = Handed(g, v, s) - 1
                    BY <1>11, <4>2, HandedRange
                <5> QED
                    BY <1>10, <5>1, <5>2
            <4>4. Part(m, p) \o y = e
                <5>1. SubSeq(text, 1, Len(text)) = text
                    BY <1>2, SubSeqFull
                <5> QED
                    BY <3>8, <3>9, <4>1, <5>1
            <4>5. Under(text, n, r, Part(m, p), e)
                BY <3>3, <3>9, <4>2, <4>4 DEF Under
            <4> QED
                BY <4>1, <4>3, <4>5
        <3> QED
            BY <3>6, <3>10, <3>11
    <2> QED
        BY <1>3, <2>1, <2>2
<1>16. ASSUME NEW q \in Phones
       PROVE  TextsOK(q, written[q], Handled(gatt[q], reader'[q], written[q], radio'[q]),
                      published[q], server, reader'[q].data, cut'[q], radio'[q], m)
    <2>1. CASE q = p
        <3>1. TextsOK(p, s, d, published[p], server, text, n, r, m)
            BY <1>1, <1>12, <1>15 DEF TextsOK
        <3> QED
            BY <1>1, <1>4, <1>6, <1>7, <1>15, <2>1, <3>1
    <2>2. CASE q # p
        <3>1. TextsOK(q, written[q], Handled(gatt[q], reader[q], written[q], radio[q]),
                      published[q], server, reader[q].data, cut[q], radio[q], m)
            BY <1>1, <1>9 DEF TextsInv
        <3> QED
            BY <1>4, <1>6, <2>2, <3>1
    <2> QED
        BY <2>1, <2>2
<1> QED
    BY <1>2, <1>6, <1>16

\* The digits of a number are its phone's, and there are some.
LEMMA NumberHeard ==
    ASSUME NEW p \in Phones, NEW e, Writes(p, e), IsNumber(e)
    PROVE  1 \in DOMAIN NumberIn(e) /\ NumberIn(e)[1][2] = p
<1>1. PICK b : b = Behind55(e)
    OBVIOUS
<1>2. e \in Seq(Chars(p)) /\ Len(e) > 2 /\ e[3][1] = "number" /\ Len(e) \in Nat
    BY LenProperties DEF Writes
<1>3. PICK n : n = Len(e) - 2
    OBVIOUS
<1>4. n \in Nat /\ n > 0 /\ b = [k \in 1..n |-> e[k + 2]]
    BY <1>1, <1>2, <1>3 DEF Behind55
<1>5. \A k \in 1..n : b[k] \in Chars(p)
    <2>1. \A k \in 1..n : k + 2 \in 1..Len(e)
        BY <1>2, <1>3
    <2> QED
        BY <1>2, <1>4, <2>1, ElementOfSeq
<1>6. DOMAIN b = 1..n /\ b[1] = e[3]
    BY <1>4
<1> DEFINE places == {i \in DOMAIN b : IsDigit(b[i])}
           Place(k) == CHOOSE i \in places : Cardinality({j \in places : j <= i}) = k
<1>8. 1 \in places /\ places \subseteq 1..n
    BY <1>2, <1>4, <1>6 DEF IsDigit
<1>13. Digits(b) = [k \in 1..Cardinality(places) |-> b[Place(k)]]
    BY DEF Digits
<1>7. Place(1) = CHOOSE i \in places : Cardinality({j \in places : j <= i}) = 1
    OBVIOUS
<1> HIDE DEF places, Place
<1>9. IsFiniteSet(places) /\ Cardinality(places) \in Nat /\ Cardinality(places) > 0
    <2>1. IsFiniteSet(places)
        <3>1. IsFiniteSet(1..n)
            BY <1>4, FS_Interval
        <3> QED
            BY <1>8, <3>1, FS_Subset
    <2>2. Cardinality(places) \in Nat /\ (Cardinality(places) = 0 <=> places = {})
        BY <2>1, FS_CardinalityType, FS_EmptySet
    <2> QED
        BY <1>8, <2>1, <2>2
<1>10. PICK i : i = Place(1)
    OBVIOUS
<1>11. i \in places
    <2>1. {j \in places : j <= 1} = {1}
        <3>1. \A j \in places : j \in Nat /\ j >= 1
            BY <1>4, <1>8
        <3>2. \A j \in places : j <= 1 <=> j = 1
            BY <3>1
        <3> QED
            BY <1>8, <3>2
    <2>2. Cardinality({j \in places : j <= 1}) = 1
        BY <2>1, FS_Singleton
    <2> QED
        BY <1>7, <1>8, <1>10, <2>2, Zenon
<1>14. 1 \in DOMAIN Digits(b) /\ Digits(b)[1] = b[i]
    BY <1>9, <1>10, <1>13
<1>15. b[i][2] = p
    BY <1>5, <1>8, <1>11 DEF Chars
<1> QED
    BY <1>1, <1>14, <1>15 DEF NumberIn

\* What is published after one more of what a phone wrote.
LEMMA PublishedNext ==
    ASSUME NEW s, NEW d \in Nat, NEW pub, PublishedTo(s, d, pub)
    PROVE  /\ IsNumber(s[d + 1]) => PublishedTo(s, d + 1, pub)
           /\ ~IsNumber(s[d + 1]) /\ (\E S : pub \in Seq(S)) =>
                  PublishedTo(s, d + 1, Append(pub, Item(s, d + 1)))
<1>1. PICK n : n = d + 1
    OBVIOUS
<1>2. n \in Nat /\ 1..n = 1..d \cup {n} /\ Count(s, n) = Count(s, d) + One(~IsNumber(s[n]))
      /\ Count(s, d) \in Nat /\ Len(pub) = Count(s, d)
    <2>1. Count(s, n) = Count(s, d) + One(~IsNumber(s[n]))
        BY <1>1, CountNext
    <2>2. n \in Nat /\ 1..n = 1..d \cup {n}
        BY <1>1
    <2> QED
        BY <2>1, <2>2, CountType DEF PublishedTo
<1>3. \A i \in 1..d : ~IsNumber(s[i]) => pub[Count(s, i)] = Item(s, i)
    BY DEF PublishedTo
<1>4. ASSUME IsNumber(s[n]) PROVE PublishedTo(s, n, pub)
    <2>1. Count(s, n) = Count(s, d)
        BY <1>2, <1>4 DEF One
    <2> QED
        BY <1>2, <1>3, <1>4, <2>1 DEF PublishedTo
<1>5. ASSUME ~IsNumber(s[n]), NEW S, pub \in Seq(S)
      PROVE  PublishedTo(s, n, Append(pub, Item(s, n)))
    <2>1. PICK x, v, T : x = Item(s, n) /\ v = Append(pub, x) /\ T = S \cup {x}
        OBVIOUS
    <2>2. pub \in Seq(T) /\ x \in T
        BY <1>5, <2>1, SeqMonotonic
    <2>3. Len(v) = Len(pub) + 1 /\ v[Len(pub) + 1] = x /\ \A k \in 1..Len(pub) : v[k] = pub[k]
        BY <2>1, <2>2, AppendProperties
    <2>4. Count(s, n) = Count(s, d) + 1
        BY <1>2, <1>5 DEF One
    <2>5. ASSUME NEW i \in 1..n, ~IsNumber(s[i]) PROVE v[Count(s, i)] = Item(s, i)
        <3>1. CASE i = n
            BY <1>2, <2>1, <2>3, <2>4, <3>1
        <3>2. CASE i # n
            <4>1. i \in 1..d /\ i \in Nat /\ 0 < i
                BY <1>1, <2>5, <3>2
            <4>2. Count(s, 0) < Count(s, i) /\ Count(s, i) <= Count(s, d)
                BY <2>5, <4>1, CountGrows
            <4>3. Count(s, i) \in 1..Len(pub)
                BY <1>2, <4>1, <4>2, CountType, CountZero
            <4> QED
                BY <1>3, <2>3, <2>5, <4>1, <4>3
        <3> QED
            BY <3>1, <3>2
    <2> QED
        BY <1>2, <2>1, <2>3, <2>4, <2>5 DEF PublishedTo
<1> QED
    BY <1>1, <1>4, <1>5

\* The server hears a number: it goes with the phone's next text.
LEMMA NumberedNext ==
    ASSUME NEW p \in Phones, NEW s, NEW d \in Nat, Writes(p, s[d + 1]), IsNumber(s[d + 1]),
           NEW v, v.telephone = NumberIn(s[d + 1]), v.hello = TRUE
    PROVE  /\ Numbered(p, s, d + 1, v)
           /\ \A q, t, n : q # p => Numbered(q, t, n, v)
<1>1. 1 \in DOMAIN v.telephone /\ v.telephone[1][2] = p
    BY NumberHeard
<1>2. PICK n : n = d + 1
    OBVIOUS
<1>3. n \in Nat \ {0} /\ n + 1 - 1 = n /\ n + 1 > 1
    BY <1>2
<1>4. NumberBefore(s, n + 1) = NumberIn(s[n])
    BY <1>2, <1>3, NumberNext
<1>5. First(s, n + 1) = TRUE
    <2>1. PICK k, j : k = n + 1 /\ j = k - 1
        OBVIOUS
    <2>2. k > 1 /\ IsNumber(s[j])
        BY <1>2, <1>3, <2>1
    <2>3. First(s, k) = (k > 1 /\ IsNumber(s[j]))
        BY <2>1, Zenon DEF First
    <2> QED
        BY <2>1, <2>2, <2>3
<1> QED
    BY <1>1, <1>2, <1>4, <1>5 DEF Numbered

\* The server hears a text: the number stays, and the next text is not the first.
LEMMA NumberedStays ==
    ASSUME NEW p \in Phones, NEW s, NEW d \in Nat, ~IsNumber(s[d + 1]),
           NEW u, Numbered(p, s, d, u), NEW v, v.telephone = u.telephone, v.hello = FALSE
    PROVE  Numbered(p, s, d + 1, v)
<1>1. PICK n, k : n = d + 1 /\ k = n + 1
    OBVIOUS
<1>2. n \in Nat \ {0} /\ k - 1 = n
    BY <1>1
<1>3. NumberBefore(s, k) = NumberBefore(s, n)
    BY <1>1, <1>2, NumberNext
<1>4. First(s, k) = FALSE
    <2>1. PICK j : j = k - 1
        OBVIOUS
    <2>2. ~IsNumber(s[j])
        BY <1>1, <1>2, <2>1
    <2>3. First(s, k) = (k > 1 /\ IsNumber(s[j]))
        BY <2>1, Zenon DEF First
    <2> QED
        BY <2>2, <2>3
<1>5. (\A i \in DOMAIN v.telephone : v.telephone[i][2] = p) => v.telephone = NumberBefore(s, n)
    BY <1>1 DEF Numbered
<1>6. (\A i \in DOMAIN v.telephone : v.telephone[i][2] = p)
          => v.telephone = NumberBefore(s, k) /\ v.hello = First(s, k)
    BY <1>3, <1>4, <1>5
<1> QED
    BY <1>1, <1>6, Zenon DEF Numbered

\* A text of another phone's does not change what goes with q's next text: with a number
\* just heard from q the two would have crossed.
LEMMA NumberedOther ==
    ASSUME NEW p \in Phones, NEW q \in Phones, q # p, NEW s, NEW d \in Nat,
           d > 0 => Writes(q, s[d]), NEW u, Numbered(q, s, d, u),
           \A i \in DOMAIN u.telephone : u.telephone[i][2] = p,
           NEW v, v.telephone = u.telephone, v.hello = FALSE
    PROVE  Numbered(q, s, d, v)
<1>1. PICK n : n = d + 1
    OBVIOUS
<1> SUFFICES ASSUME \A i \in DOMAIN v.telephone : v.telephone[i][2] = q
             PROVE  v.telephone = NumberBefore(s, n) /\ v.hello = First(s, n)
    BY <1>1, Zenon DEF Numbered
<1>2. v.telephone = NumberBefore(s, n) /\ \A i : i \notin DOMAIN v.telephone
    BY <1>1 DEF Numbered
<1>3. PICK j : j = n - 1
    OBVIOUS
<1>4. j = d /\ n > 0
    BY <1>1, <1>3
<1>5. ~(n > 1 /\ IsNumber(s[j]))
    <2> SUFFICES ASSUME n > 1, IsNumber(s[j]) PROVE FALSE
        OBVIOUS
    <2>1. d \in Nat \ {0} /\ IsNumber(s[d]) /\ Writes(q, s[d])
        BY <1>1, <1>4
    <2>2. NumberBefore(s, n) = NumberIn(s[d])
        BY <1>1, <2>1, NumberNext
    <2>3. 1 \in DOMAIN NumberIn(s[d])
        BY <2>1, NumberHeard
    <2> QED
        BY <1>2, <2>2, <2>3
<1>6. First(s, n) = (n > 1 /\ IsNumber(s[j]))
    BY <1>3, Zenon DEF First
<1> QED
    BY <1>2, <1>5, <1>6

\* The next text to be published is the next item.
LEMMA NextItem ==
    ASSUME NEW s, Len(s) \in Nat, NEW d \in Nat, d + 1 <= Len(s), ~IsNumber(s[d + 1]),
           NEW pub, PublishedTo(s, d, pub)
    PROVE  Len(pub) < Len(Items(s)) /\ Items(s)[Len(pub) + 1] = Item(s, d + 1)
<1>1. PICK n : n = d + 1
    OBVIOUS
<1>2. n \in 1..Len(s) /\ ~IsNumber(s[n])
    BY <1>1
<1>3. Count(s, n) = Len(pub) + 1 /\ Len(pub) \in Nat
    <2>1. Count(s, n) = Count(s, d) + One(~IsNumber(s[n])) /\ Count(s, d) \in Nat
        BY <1>1, CountNext, CountType
    <2>2. One(~IsNumber(s[n])) = 1
        BY <1>2 DEF One
    <2> QED
        BY <2>1, <2>2 DEF PublishedTo
<1>4. Count(s, n) \in 1..Count(s, Len(s)) /\ Items(s)[Count(s, n)] = Item(s, n)
    BY <1>2, ItemsAt
<1>5. Len(Items(s)) = Count(s, Len(s))
    BY CountType DEF Items
<1> QED
    BY <1>1, <1>3, <1>4, <1>5, CountType

\* Where phone q's texts stand.
LEMMA TextsAt ==
    ASSUME ReadInv, TextsInv, Undisturbed, NEW q \in Phones, NEW d,
           d = Handled(gatt[q], reader[q], written[q], radio[q])
    PROVE  /\ TextsOK(q, written[q], d, published[q], server, reader[q].data, cut[q], radio[q],
                      message[Server])
           /\ d \in Nat /\ d <= Len(written[q]) /\ Len(written[q]) \in Nat
           /\ Carries(radio[q], 2) \/ Carries(radio[q], 3) =>
                  d + 1 <= Len(written[q]) /\ Handed(gatt[q], reader[q], written[q]) = d + 1
           /\ ~(Carries(radio[q], 2) \/ Carries(radio[q], 3)) =>
                  Handed(gatt[q], reader[q], written[q]) = d
           /\ \A i \in 1..Len(written[q]) : Writes(q, written[q][i])
<1>1. WrittenOK(q, writing[q], written[q]) /\ Len(written[q]) \in Nat
    BY LenProperties DEF ReadInv, WrittenOK
<1>2. TextsOK(q, written[q], d, published[q], server, reader[q].data, cut[q], radio[q],
              message[Server])
    BY DEF TextsInv
<1>3. d \in Nat
    BY <1>2 DEF TextsOK
<1>4. PICK n : n = Handed(gatt[q], reader[q], written[q])
    OBVIOUS
<1>5. /\ n \in Int /\ n <= Len(written[q]) /\ d <= n
      /\ Carries(radio[q], 2) \/ Carries(radio[q], 3) => d = n - 1
      /\ ~(Carries(radio[q], 2) \/ Carries(radio[q], 3)) => d = n
    BY <1>1, <1>4, HandedRange
<1>6. /\ Carries(radio[q], 2) \/ Carries(radio[q], 3) => d + 1 <= Len(written[q]) /\ n = d + 1
      /\ ~(Carries(radio[q], 2) \/ Carries(radio[q], 3)) => n = d
    BY <1>1, <1>3, <1>5
<1>7. d <= Len(written[q])
    BY <1>1, <1>3, <1>5
<1> QED
    BY <1>1, <1>2, <1>3, <1>4, <1>6, <1>7 DEF WrittenOK

\* Nothing is on its way any more.
LEMMA HandledAll ==
    ASSUME NEW g, NEW r, NEW s, NEW a, \A txt : ~Carries(a, txt), Len(s) \in Nat
    PROVE  Handled(g, r, s, a) = Handed(g, r, s)
BY HandedRange

\* A package of p's has been consumed: the others' texts stand where they stood.
LEMMA OthersTexts ==
    ASSUME ReadInv, TextsInv, Undisturbed, NEW p \in Phones, NEW q \in Phones, q # p,
           NEW m, Part(m, q) = Part(message[Server], q), NEW v,
           \A s : \A d \in Nat :
               Numbered(q, s, d, server) /\ (d > 0 => Writes(q, s[d])) => Numbered(q, s, d, v)
    PROVE  TextsOK(q, written[q], Handled(gatt[q], reader[q], written[q], radio[q]), published[q], v,
                   reader[q].data, cut[q], radio[q], m)
<1>1. PICK s, d : s = written[q] /\ d = Handled(gatt[q], reader[q], s, radio[q])
    OBVIOUS
<1>2. /\ TextsOK(q, s, d, published[q], server, reader[q].data, cut[q], radio[q], message[Server])
      /\ d \in Nat /\ d <= Len(s) /\ Len(s) \in Nat /\ \A i \in 1..Len(s) : Writes(q, s[i])
    BY <1>1, TextsAt
<1>3. Numbered(q, s, d, v)
    <2>1. Numbered(q, s, d, server)
        BY <1>2 DEF TextsOK
    <2>2. d > 0 => Writes(q, s[d])
        BY <1>2
    <2> QED
        BY <1>2, <2>1, <2>2
<1>4. TextsOK(q, s, d, published[q], v, reader[q].data, cut[q], radio[q], m)
    BY <1>2, <1>3 DEF TextsOK
<1> QED
    BY <1>1, <1>4

\* The server hears a number.
LEMMA HearsNumberTexts ==
    ASSUME RelayTypes, ReadInv, TextsInv, NEW p \in Phones, ConsumeAtServer(p),
           NEW s, HearsNumber(p, s), ServerOK(s), Undisturbed'
    PROVE  \A q \in Phones :
               TextsOK(q, written[q], Handled(gatt[q], reader[q], written[q], radio'[q]), published'[q],
                       server', reader[q].data, cut[q], radio'[q], message'[Server])
<1>1. PICK x, m, w, d : /\ x = radio[p] /\ m = message[Server] /\ w = written[p]
                        /\ d = Handled(gatt[p], reader[p], w, x)
    OBVIOUS
<1>2. /\ x.txt = 2 /\ message' = message /\ published' = published
      /\ server' = [s EXCEPT !.telephone = Digits(s.actual), !.hello = TRUE]
      /\ upTroubles' = upTroubles \cup Again(p)
             \cup When(Digits(s.actual) # Digits(x.payload), "staleDigits")
    BY <1>1 DEF HearsNumber
<1>3. Undisturbed /\ upTroubles' = {}
    <2>1. mishaps' = mishaps
        BY ConsumeServerFacts DEF phoneVars
    <2> QED
        BY <1>2, <2>1, Disturbances
<1>4. ~x.consumed /\ Digits(s.actual) = Digits(x.payload)
    BY <1>1, <1>2, <1>3 DEF Again, When
<1>5. Carries(x, 2) /\ ~Carries(x, 1) /\ ~Carries(x, 3)
    BY <1>2, <1>4 DEF Carries
<1>6. /\ TextsOK(p, w, d, published[p], server, reader[p].data, cut[p], x, m)
      /\ d \in Nat /\ d + 1 <= Len(w) /\ Len(w) \in Nat
      /\ Handed(gatt[p], reader[p], w) = d + 1
      /\ \A i \in 1..Len(w) : Writes(p, w[i])
    BY <1>1, <1>3, <1>5, TextsAt
<1>7. PICK e, y : e = w[d + 1] /\ y = radio'[p]
    OBVIOUS
<1>8. IsNumber(e) /\ x.payload = Behind55(e) /\ Part(m, p) = SubSeq(reader[p].data, 1, cut[p])
    BY <1>5, <1>6, <1>7 DEF TextsOK, Under
<1>9. Writes(p, e)
    BY <1>6, <1>7
<1>10. server'.telephone = NumberIn(e) /\ server'.hello = TRUE
    <2>1. server'.telephone = Digits(s.actual) /\ server'.hello = TRUE
        BY <1>2 DEF ServerOK
    <2> QED
        BY <1>4, <1>8, <2>1 DEF NumberIn
<1>11. /\ Numbered(p, w, d + 1, server')
       /\ \A q, t, n : q # p => Numbered(q, t, n, server')
    BY <1>6, <1>7, <1>8, <1>9, <1>10, NumberedNext
<1>12. /\ \A txt : ~Carries(y, txt)
       /\ \A q \in Phones : q # p => radio'[q] = radio[q]
    BY <1>7, ConsumeServerFacts, Consumed, Places
<1>13. Handled(gatt[p], reader[p], w, y) = d + 1
    BY <1>6, <1>12, HandledAll
<1>14. TextsOK(p, w, d + 1, published[p], server', reader[p].data, cut[p], y, m)
    <2>1. PublishedTo(w, d + 1, published[p])
        BY <1>6, <1>7, <1>8, PublishedNext DEF TextsOK
    <2>2. PICK n, f : n = d + 1 /\ f = w[n + 1]
        OBVIOUS
    <2>3. Under(reader[p].data, cut[p], y, Part(m, p), f)
        BY <1>8, <1>12 DEF Under
    <2>4. n \in Nat
        BY <1>6, <2>2
    <2> QED
        BY <1>11, <2>1, <2>2, <2>3, <2>4 DEF TextsOK
<1>15. ASSUME NEW q \in Phones, q # p
       PROVE  TextsOK(q, written[q], Handled(gatt[q], reader[q], written[q], radio[q]), published[q],
                      server', reader[q].data, cut[q], radio[q], m)
    BY <1>1, <1>3, <1>11, <1>15, OthersTexts
<1> QED
    <2> SUFFICES ASSUME NEW q \in Phones
                 PROVE  TextsOK(q, written[q], Handled(gatt[q], reader[q], written[q], radio'[q]),
                                published[q], server', reader[q].data, cut[q], radio'[q], m)
        BY <1>1, <1>2
    <2>1. CASE q = p
        BY <1>1, <1>7, <1>13, <1>14, <2>1
    <2>2. CASE q # p
        BY <1>12, <1>15, <2>2
    <2> QED
        BY <2>1, <2>2

\* The server hears a text's package: the last one publishes the text.
LEMMA ConsumeTextTexts ==
    ASSUME RelayTypes, UpInv, ReadInv, TextsInv, NEW p \in Phones, ConsumeAtServer(p),
           NEW s, ConsumeText(p, s), ServerOK(s),
           s.telephone = server.telephone, s.hello = server.hello, Undisturbed'
    PROVE  /\ \A q \in Phones :
                  TextsOK(q, written[q], Handled(gatt[q], reader[q], written[q], radio'[q]),
                          published'[q], server', reader[q].data, cut[q], radio'[q], message'[Server])
           /\ published' = published \/ Up!Deliver(p)
<1>1. PICK x, m, text, w, d :
          /\ x = radio[p] /\ m = message[Server] /\ text = m \o x.payload /\ w = written[p]
          /\ d = Handled(gatt[p], reader[p], w, x)
    OBVIOUS
<1>2. HeardOK(p, s, x, m, text)
    BY <1>1, TextHeard
<1>3. /\ Undisturbed /\ ~x.consumed /\ x.txt \in {1, 3}
      /\ m # <<>> => m[1][2] = p
      /\ text # <<>> => text[1][2] = p
      /\ \A i \in DOMAIN server.telephone : server.telephone[i][2] = p
    BY <1>2 DEF HeardOK
<1>4. PICK new : new = NextMessage(text, x.txt)
    OBVIOUS
<1>5. message'[Server] = new
    BY <1>2, <1>4 DEF HeardOK
<1>6. /\ x.txt = 1 => published' = published /\ server' = s
      /\ x.txt = 3 => published' = MQTTpublishText(p, text, s) /\ server' = [s EXCEPT !.hello = FALSE]
    BY <1>2 DEF HeardOK
<1>7. /\ Part(m, p) = m /\ Part(text, p) = text
      /\ \A q : q # p => Part(m, q) = <<>> /\ Part(new, q) = <<>>
    <2>1. /\ Part(m, p) = m /\ Part(text, p) = text
          /\ \A q : q # p => Part(m, q) = <<>> /\ Part(text, q) = <<>>
        <3>1. Part(m, p) = m /\ \A q : q # p => Part(m, q) = <<>>
            BY <1>3 DEF Part
        <3>2. Part(text, p) = text /\ \A q : q # p => Part(text, q) = <<>>
            BY <1>3 DEF Part
        <3> QED
            BY <3>1, <3>2
    <2>2. \A q : Part(<<>>, q) = <<>>
        BY DEF Part
    <2>3. new = <<>> \/ new = text
        BY <1>4 DEF NextMessage
    <2> QED
        BY <2>1, <2>2, <2>3
<1>8. PICK y, pub, data, c : y = radio'[p] /\ pub = published[p] /\ data = reader[p].data /\ c = cut[p]
    OBVIOUS
<1>9. /\ \A txt : ~Carries(y, txt)
      /\ \A q \in Phones : q # p => radio'[q] = radio[q]
    BY <1>8, ConsumeServerFacts, Consumed, Places
<1>10. /\ TextsOK(p, w, d, pub, server, data, c, x, m)
       /\ d \in Nat /\ Len(w) \in Nat
       /\ Carries(x, 3) => d + 1 <= Len(w) /\ Handed(gatt[p], reader[p], w) = d + 1
       /\ ~(Carries(x, 2) \/ Carries(x, 3)) => Handed(gatt[p], reader[p], w) = d
    BY <1>1, <1>3, <1>8, TextsAt
<1>11. Handled(gatt[p], reader[p], w, y) = Handed(gatt[p], reader[p], w)
    BY <1>9, <1>10, HandledAll
<1>12. published = [q \in Phones |-> published[q]]
    BY DEF UpInv
<1>13. CASE x.txt = 1
    <2>1. Carries(x, 1) /\ ~Carries(x, 2) /\ ~Carries(x, 3)
        BY <1>3, <1>13 DEF Carries
    <2>2. new = text /\ published' = published /\ server' = s
        BY <1>4, <1>6, <1>13 DEF NextMessage
    <2>3. TextsOK(p, w, d, pub, server', data, c, y, new)
        <3>1. text = SubSeq(data, 1, c)
            BY <1>1, <1>7, <1>10, <2>1 DEF TextsOK, Under
        <3>2. Under(data, c, y, Part(new, p), w[d + 1])
            BY <1>7, <1>9, <2>2, <3>1 DEF Under
        <3>3. Numbered(p, w, d, s)
            BY <1>10 DEF TextsOK, Numbered
        <3> QED
            BY <1>10, <2>2, <3>2, <3>3 DEF TextsOK
    <2>4. ASSUME NEW q \in Phones, q # p
          PROVE  TextsOK(q, written[q], Handled(gatt[q], reader[q], written[q], radio[q]), published[q],
                         server', reader[q].data, cut[q], radio[q], new)
        <3>1. \A t, n : Numbered(q, t, n, server) => Numbered(q, t, n, server')
            BY <2>2 DEF Numbered
        <3>2. Part(new, q) = Part(message[Server], q)
            BY <1>1, <1>7, <2>4
        <3> QED
            BY <1>3, <2>4, <3>1, <3>2, OthersTexts
    <2>5. ASSUME NEW q \in Phones
          PROVE  TextsOK(q, written[q], Handled(gatt[q], reader[q], written[q], radio'[q]),
                         published'[q], server', reader[q].data, cut[q], radio'[q], message'[Server])
        <3>1. CASE q = p
            BY <1>1, <1>5, <1>8, <1>10, <1>11, <2>1, <2>2, <2>3, <3>1
        <3>2. CASE q # p
            BY <1>5, <1>9, <2>2, <2>4, <3>2
        <3> QED
            BY <3>1, <3>2
    <2> QED
        BY <2>2, <2>5
<1>14. CASE x.txt = 3
    <2>1. Carries(x, 3) /\ ~Carries(x, 1) /\ ~Carries(x, 2)
        BY <1>3, <1>14 DEF Carries
    <2>2. PICK v, item : v = server' /\ item = [text |-> text, number |-> s.telephone, hello |-> s.hello]
        OBVIOUS
    <2>3. /\ new = <<>> /\ v.telephone = server.telephone /\ v.hello = FALSE
          /\ published' = [published EXCEPT ![p] = Append(@, item)]
        <3>1. new = <<>> /\ published' = MQTTpublishText(p, text, s) /\ v = [s EXCEPT !.hello = FALSE]
            BY <1>4, <1>6, <1>14, <2>2 DEF NextMessage
        <3>2. v.telephone = server.telephone /\ v.hello = FALSE
            BY <3>1 DEF ServerOK
        <3> QED
            BY <2>2, <3>1, <3>2 DEF MQTTpublishText
    <2>4. published'[p] = Append(pub, item) /\ \A q \in Phones : q # p => published'[q] = published[q]
        BY <1>8, <1>12, <2>3
    <2>5. ~IsNumber(w[d + 1]) /\ text = w[d + 1]
        BY <1>1, <1>7, <1>10, <2>1 DEF TextsOK, Under
    <2>6. item = Item(w, d + 1)
        <3>1. Numbered(p, w, d, server)
            BY <1>10 DEF TextsOK
        <3>2. s.telephone = NumberBefore(w, d + 1) /\ s.hello = First(w, d + 1)
            BY <1>3, <3>1 DEF Numbered
        <3> QED
            BY <2>2, <2>5, <3>2 DEF Item
    <2>7. PublishedTo(w, d, pub) /\ \E S : pub \in Seq(S)
        BY <1>3, <1>8, <1>10 DEF TextsOK, UpInv, PublishedOK
    <2>8. TextsOK(p, w, d + 1, published'[p], v, data, c, y, new)
        <3>1. PublishedTo(w, d + 1, published'[p])
            BY <1>10, <2>4, <2>5, <2>6, <2>7, PublishedNext
        <3>2. Numbered(p, w, d + 1, v)
            BY <1>10, <2>3, <2>5, NumberedStays DEF TextsOK
        <3>3. c = 0
            <4>1. UpOK(p, x, c, m, data)
                BY <1>1, <1>3, <1>8 DEF UpInv
            <4> QED
                BY <2>1, <4>1 DEF UpOK
        <3>4. SubSeq(data, 1, 0) = <<>> /\ Part(new, p) = <<>>
            BY <2>3, SubSeqEmpty DEF Part
        <3>5. PICK n, f : n = d + 1 /\ f = w[n + 1]
            OBVIOUS
        <3>6. Under(data, c, y, Part(new, p), f)
            BY <1>9, <3>3, <3>4 DEF Under
        <3> QED
            BY <1>10, <3>1, <3>2, <3>5, <3>6 DEF TextsOK
    <2>9. ASSUME NEW q \in Phones, q # p
          PROVE  TextsOK(q, written[q], Handled(gatt[q], reader[q], written[q], radio[q]), published[q],
                         v, reader[q].data, cut[q], radio[q], new)
        <3>1. \A t : \A n \in Nat :
                  Numbered(q, t, n, server) /\ (n > 0 => Writes(q, t[n])) => Numbered(q, t, n, v)
            BY <1>3, <2>3, <2>9, NumberedOther
        <3>2. Part(new, q) = Part(message[Server], q)
            BY <1>1, <1>7, <2>9
        <3> QED
            BY <1>3, <2>9, <3>1, <3>2, OthersTexts
    <2>10. ASSUME NEW q \in Phones
           PROVE  TextsOK(q, written[q], Handled(gatt[q], reader[q], written[q], radio'[q]),
                          published'[q], server', reader[q].data, cut[q], radio'[q], message'[Server])
        <3>1. CASE q = p
            BY <1>1, <1>5, <1>8, <1>10, <1>11, <2>1, <2>2, <2>8, <3>1
        <3>2. CASE q # p
            BY <1>5, <1>9, <2>2, <2>4, <2>9, <3>2
        <3> QED
            BY <3>1, <3>2
    <2>11. Up!Deliver(p)
        <3>1. Len(pub) < Len(Items(w)) /\ Items(w)[Len(pub) + 1] = item
            BY <1>10, <2>1, <2>5, <2>6, <2>7, NextItem
        <3>2. Texts[p] = Items(w)
            BY <1>1 DEF Texts
        <3>3. published' = [published EXCEPT ![p] = Append(@, Texts[p][Len(@) + 1])]
            BY <1>8, <2>3, <3>1, <3>2
        <3>4. Texts' = Texts
            <4>1. written' = written
                BY ConsumeServerFacts DEF phoneVars
            <4> QED
                BY <4>1 DEF Texts
        <3> QED
            BY <1>8, <3>1, <3>2, <3>3, <3>4 DEF Up!Deliver
    <2> QED
        BY <2>10, <2>11
<1> QED
    BY <1>3, <1>13, <1>14

LEMMA ConsumeServerTexts ==
    ASSUME RelayTypes, UpInv, ReadInv, TextsInv, NEW p \in Phones, ConsumeAtServer(p)
    PROVE  /\ TextsInv'
           /\ Undisturbed' => published' = published \/ Up!Deliver(p)
<1>1. UNCHANGED <<gatt, reader, written, cut>>
    BY ConsumeServerFacts DEF phoneVars
<1>2. PICK s : /\ ServerOK(s) /\ s.telephone = server.telephone /\ s.hello = server.hello
               /\ HearsNumber(p, s) \/ ConsumeText(p, s)
    BY ConsumeServerFacts
<1>3. ASSUME Undisturbed'
      PROVE  /\ \A q \in Phones :
                    TextsOK(q, written[q], Handled(gatt[q], reader[q], written[q], radio'[q]),
                            published'[q], server', reader[q].data, cut[q], radio'[q], message'[Server])
             /\ published' = published \/ Up!Deliver(p)
    <2>1. CASE HearsNumber(p, s)
        <3>1. published' = published
            BY <2>1 DEF HearsNumber
        <3> QED
            BY <1>2, <1>3, <2>1, <3>1, HearsNumberTexts
    <2>2. CASE ConsumeText(p, s)
        BY <1>2, <1>3, <2>2, ConsumeTextTexts
    <2> QED
        BY <1>2, <2>1, <2>2
<1>4. TextsInv'
    BY <1>1, <1>3 DEF TextsInv
<1> QED
    BY <1>3, <1>4

\* An exchange that ends without trouble has been consumed, or carried nothing.
LEMMA EndsTexts ==
    ASSUME PhoneInv, RelayTypes, ReadInv, TextsInv, NEW t \in Towers, ExchangeEnds(t)
    PROVE  TextsInv'
<1>1. /\ radio[t] # Silent /\ radio'[t] = Silent
      /\ \A q \in Towers : q # t => radio'[q] = radio[q]
      /\ UNCHANGED <<phoneVars, cut, message, server, published>>
    BY EndsTypes DEF ExchangeEnds
<1>2. PICK unheard : unheard = (~radio[t].consumed /\ radio[t].txt # 4 /\ radio[t].dest # t)
    OBVIOUS
<1>3. CASE t = Server
    <2>1. upTroubles' = upTroubles
        BY <1>3 DEF ExchangeEnds
    <2>2. Undisturbed' => Undisturbed
        BY <1>1, <2>1, Disturbances DEF phoneVars
    <2> QED
        BY <1>1, <1>3, <2>2, TextsKept, Places
<1>4. CASE t \in Phones
    <2>1. upTroubles' = upTroubles \cup When(unheard, "lost")
        BY <1>2, <1>4, Places DEF ExchangeEnds, UpTrouble
    <2>2. UNCHANGED <<gatt, reader, written>>
        BY <1>1 DEF phoneVars
    <2> SUFFICES ASSUME Undisturbed'
                 PROVE  \A q \in Phones :
                            TextsOK(q, written[q], Handled(gatt[q], reader[q], written[q], radio'[q]),
                                    published[q], server, reader[q].data, cut[q], radio'[q],
                                    message[Server])
        BY <1>1, <2>2 DEF TextsInv
    <2>3. Undisturbed /\ upTroubles' = {}
        BY <1>1, <2>1, Disturbances DEF phoneVars
    <2>4. ~unheard
        BY <2>1, <2>3 DEF When
    <2>5. radio[t].consumed \/ radio[t].txt = 4
        BY <1>1, <1>2, <1>4, <2>4, Places DEF RelayTypes, RadioOK, PackageOK
    <2>6. PICK x, m, w, d : /\ x = radio[t] /\ m = message[Server] /\ w = written[t]
                            /\ d = Handled(gatt[t], reader[t], w, x)
        OBVIOUS
    <2>7. /\ ~Carries(x, 1) /\ ~Carries(x, 2) /\ ~Carries(x, 3)
          /\ \A txt : ~Carries(Silent, txt) \/ txt = 0
        BY <2>5, <2>6 DEF Carries, Silent
    <2>8. /\ TextsOK(t, w, d, published[t], server, reader[t].data, cut[t], x, m)
          /\ Len(w) \in Nat
        BY <1>4, <2>3, <2>6, TextsAt
    <2>9. Handled(gatt[t], reader[t], w, Silent) = d
        BY <2>6, <2>7, <2>8, HandedRange
    <2>10. TextsOK(t, w, d, published[t], server, reader[t].data, cut[t], Silent, m)
        BY <2>7, <2>8 DEF TextsOK, Under
    <2>11. ASSUME NEW q \in Phones
           PROVE  TextsOK(q, written[q], Handled(gatt[q], reader[q], written[q], radio'[q]),
                          published[q], server, reader[q].data, cut[q], radio'[q], message[Server])
        <3>1. CASE q = t
            BY <1>1, <2>6, <2>9, <2>10, <3>1
        <3>2. CASE q # t
            <4>1. radio'[q] = radio[q]
                BY <1>1, <3>2, Places
            <4> QED
                BY <2>3, <4>1 DEF TextsInv
        <3> QED
            BY <3>1, <3>2
    <2> QED
        BY <2>11
<1> QED
    BY <1>3, <1>4 DEF Towers

LEMMA TextsInit == Init => TextsInv
<1> SUFFICES ASSUME Init, NEW p \in Phones
             PROVE  TextsOK(p, written[p], Handled(gatt[p], reader[p], written[p], radio[p]),
                            published[p], server, reader[p].data, cut[p], radio[p], message[Server])
    BY DEF TextsInv
<1>1. /\ radio[p] = Silent /\ cut[p] = 0 /\ message[Server] = <<>> /\ published[p] = <<>>
      /\ server.telephone = <<>> /\ server.hello = FALSE
    BY Places DEF Init, Started
<1>2. written[p] = <<>> /\ reader[p].at = "poll" /\ gatt[p].new_data = FALSE
    BY DEF Init, PhoneInit
<1>3. PICK s, d : s = written[p] /\ d = Handled(gatt[p], reader[p], s, Silent)
    OBVIOUS
<1>4. Len(s) = 0 /\ ~Carries(Silent, 1) /\ ~Carries(Silent, 2) /\ ~Carries(Silent, 3)
    BY <1>2, <1>3 DEF Carries, Silent
<1>5. d = 0
    <2>1. ~Announced(gatt[p], reader[p])
        BY <1>2 DEF Announced
    <2>2. Handed(gatt[p], reader[p], s) = 0
        <3>1. One(Announced(gatt[p], reader[p])) = 0 /\ One(reader[p].at = "send") = 0
            BY <1>2, <2>1 DEF One
        <3> QED
            BY <1>4, <3>1 DEF Handed
    <2> QED
        BY <1>3, <1>4, <2>2, HandedRange
<1>6. PublishedTo(s, 0, <<>>)
    <2>1. Len(<<>>) = 0
        OBVIOUS
    <2> QED
        BY <2>1, CountZero DEF PublishedTo
<1>7. Numbered(p, s, 0, server)
    <2>1. NumberBefore(s, 0 + 1) = <<>>
        BY NumberFirst
    <2>2. First(s, 0 + 1) = FALSE
        BY DEF First
    <2> QED
        BY <1>1, <2>1, <2>2 DEF Numbered
<1>8. PICK e : e = s[0 + 1]
    OBVIOUS
<1>9. Under(reader[p].data, 0, Silent, Part(<<>>, p), e)
    <2>1. SubSeq(reader[p].data, 1, 0) = <<>> /\ Part(<<>>, p) = <<>>
        BY SubSeqEmpty DEF Part
    <2> QED
        BY <1>4, <2>1 DEF Under
<1>10. TextsOK(p, s, 0, <<>>, server, reader[p].data, 0, Silent, <<>>)
    BY <1>6, <1>7, <1>8, <1>9 DEF TextsOK
<1> QED
    BY <1>1, <1>3, <1>5, <1>10

LEMMA TextsStep ==
    PhoneInv /\ BytesInv /\ RelayTypes /\ UpInv /\ ReadInv /\ TextsInv /\ [Next]_vars => TextsInv'
<1> SUFFICES ASSUME PhoneInv, BytesInv, RelayTypes, UpInv, ReadInv, TextsInv, [Next]_vars
             PROVE  TextsInv'
    OBVIOUS
<1>1. ASSUME NEW p \in Phones, PhoneStep(p) PROVE TextsInv'
    BY <1>1, PhoneStepTexts
<1>2. ASSUME NEW p \in Phones, HandOver(p) PROVE TextsInv'
    BY <1>2, HandOverTexts
<1>3. ASSUME NEW p \in Phones, ConsumeAtServer(p) PROVE TextsInv'
    BY <1>3, ConsumeServerTexts
<1>4. ASSUME NEW t \in Towers, ExchangeEnds(t) PROVE TextsInv'
    BY <1>4, EndsTexts
<1>5. ASSUME UNCHANGED <<phoneVars, cut, server, published, upTroubles>>,
             message'[Server] = message[Server], \A q \in Phones : radio'[q] = radio[q]
      PROVE  TextsInv'
    <2>1. Undisturbed' => Undisturbed
        BY <1>5, Disturbances DEF phoneVars
    <2> QED
        BY <1>5, <2>1, TextsKept
<1>6. ASSUME NEW p \in Phones, ConsumeAtTower(p) PROVE TextsInv'
    <2>1. /\ UNCHANGED <<phoneVars, cut, server, published, upTroubles>>
          /\ message'[Server] = message[Server]
        BY <1>6, Places DEF ConsumeAtTower, RelayTypes, MessageOK
    <2>2. \A q \in Phones : radio'[q] = radio[q]
        <3>1. Reaches(Server)
            BY <1>6 DEF ConsumeAtTower
        <3> QED
            BY <3>1, ReachesFacts, Consumed, Places
    <2> QED
        BY <1>5, <2>1, <2>2
<1>7. CASE ReplyArrives
    BY <1>5, <1>7 DEF ReplyArrives, MessageArrives
<1>8. CASE WifiThread
    <2>1. CASE WifiWakes \/ Aim
        BY <1>5, <2>1 DEF WifiWakes, Aim
    <2>2. CASE Extract
        <3>1. CASE Aims
            BY <1>5, <2>2, <3>1, ExtractFacts DEF Aims
        <3>2. CASE Restarts
            <4>1. ~Undisturbed'
                BY <2>2, <3>2, ExtractFacts DEF Restarts, Undisturbed
            <4> QED
                BY <4>1 DEF TextsInv
        <3> QED
            BY <2>2, <3>1, <3>2, ExtractFacts
    <2>3. CASE HandOverReply
        <3>1. /\ UNCHANGED <<phoneVars, cut, message, server, published, upTroubles>>
              /\ \E r : radio' = [radio EXCEPT ![Server] = r]
            BY <2>3, HandReplyFacts
        <3>2. \A q \in Phones : radio'[q] = radio[q]
            BY <3>1, Places DEF RelayTypes, RadioOK
        <3> QED
            BY <1>5, <3>1, <3>2
    <2> QED
        BY <1>8, <2>1, <2>2, <2>3 DEF WifiThread
<1>9. CASE UNCHANGED vars
    BY <1>5, <1>9 DEF vars
<1> QED
    BY <1>1, <1>2, <1>3, <1>4, <1>6, <1>7, <1>8, <1>9 DEF Next

LEMMA TextsInvariant ==
    ASSUME NumberDigits < TelephoneBytes
    PROVE  Spec => [](PhoneInv /\ BytesInv /\ RelayTypes /\ UpInv /\ ReadInv /\ TextsInv)
<1>1. Init => UpInv /\ ReadInv /\ TextsInv
    BY UpInit, ReadInit, TextsInit DEF Init
<1>2. PhoneInv /\ BytesInv /\ ReadInv /\ [Next]_vars => ReadInv'
    BY ReadStep, RelayStep
<1> QED
    BY <1>1, <1>2, UpStep, TextsStep, RelayTypesInvariant, PTL DEF Spec

\* What a phone does with its texts: nothing, or one more of them.
LEMMA PhoneSends ==
    ASSUME PhoneInv, BytesInv, ReadInv, NEW p \in Phones, PhoneStep(p), mishaps'[p] = {}
    PROVE  Texts' = Texts \/ Up!Send(p)
<1>1. /\ published' = published /\ (Phone(p) \/ Reading(p))
      /\ \A q \in Phones : q # p => written'[q] = written[q]
    BY OthersStay DEF PhoneStep
<1>2. written'[p] = written[p] \/ \E x \in Seq(Chars(p)) : written'[p] = Append(written[p], x)
    BY <1>1, PhoneHands, ReadingHands
<1>3. /\ Texts = [q \in Phones |-> Items(written[q])]
      /\ Texts' = [q \in Phones |-> Items(written'[q])]
    BY DEF Texts
<1>4. CASE Items(written'[p]) = Items(written[p])
    BY <1>1, <1>3, <1>4
<1>5. CASE Up!OneMore(Items(written[p]), Items(written'[p]))
    BY <1>1, <1>3, <1>5 DEF Up!Send
<1>6. ASSUME NEW x \in Seq(Chars(p)), written'[p] = Append(written[p], x)
      PROVE  \/ Items(written'[p]) = Items(written[p])
             \/ Up!OneMore(Items(written[p]), Items(written'[p]))
    <2>1. PICK w, v : w = written[p] /\ v = written'[p]
        OBVIOUS
    <2>2. w \in Seq(Seq(Chars(p))) /\ v = Append(w, x)
        BY <1>6, <2>1 DEF ReadInv, WrittenOK
    <2> QED
        BY <2>1, <2>2, ItemsAppend
<1> QED
    BY <1>2, <1>4, <1>5, <1>6

LEMMA NoItems == Items(<<>>) = <<>>
<1>1. Count(<<>>, 0) = 0 /\ Len(<<>>) = 0
    BY CountZero
<1>2. Items(<<>>) = [k \in 1..0 |-> Item(<<>>, TextAt(<<>>, k))]
    BY <1>1 DEF Items
<1> QED
    BY <1>2

\* Without one of the recorded causes every text a phone has written is published complete,
\* once and in order, with the number the phone wrote last before it, and with the hello
\* message exactly when it wrote that number just before: what receiveData reads,
\* thread_Bluetooth's cutting, consumeInfo and MQTTpublishText implement TextDelivery
\* (BluetoothManager.cpp:45-75, main.cpp:185-227, LoraManager.cpp:460-519, WIFI.cpp:233-272).
THEOREM TextsDelivered == ASSUME NumberDigits < TelephoneBytes PROVE Spec => UpPromise
<1>1. Init => Up!Init
    <2> SUFFICES ASSUME Init PROVE Up!Init
        OBVIOUS
    <2>1. published = [p \in Phones |-> <<>>] /\ written = [p \in Phones |-> <<>>]
        BY DEF Init, PhoneInit
    <2>2. Texts = [p \in Phones |-> <<>>]
        BY <2>1, NoItems DEF Texts
    <2> QED
        BY <2>1, <2>2 DEF Up!Init
<1>2. PhoneInv /\ BytesInv /\ RelayTypes /\ UpInv /\ ReadInv /\ TextsInv /\ [Next]_vars
          => (Undisturbed' => [Up!Next]_<<Texts, published>>)
    <2> SUFFICES ASSUME PhoneInv, BytesInv, RelayTypes, UpInv, ReadInv, TextsInv, [Next]_vars,
                        Undisturbed'
                 PROVE  Up!Next \/ UNCHANGED <<Texts, published>>
        OBVIOUS
    <2>1. ASSUME NEW p \in Phones, PhoneStep(p) PROVE Up!Next \/ UNCHANGED <<Texts, published>>
        <3>1. mishaps'[p] = {} /\ published' = published
            BY <2>1 DEF Undisturbed, PhoneStep
        <3>2. Texts' = Texts \/ Up!Send(p)
            BY <2>1, <3>1, PhoneSends
        <3> QED
            BY <3>1, <3>2 DEF Up!Next
    <2>2. written' = written => Texts' = Texts
        BY DEF Texts
    <2>3. ASSUME NEW p \in Phones, HandOver(p) PROVE UNCHANGED <<Texts, published>>
        <3>1. written' = written /\ published' = published
            BY <2>3 DEF HandOver, Sent, phoneVars
        <3> QED
            BY <2>2, <3>1
    <2>4. ASSUME NEW p \in Phones, ConsumeAtServer(p) PROVE Up!Next \/ UNCHANGED <<Texts, published>>
        <3>1. written' = written
            BY <2>4 DEF ConsumeAtServer, phoneVars
        <3>2. published' = published \/ Up!Deliver(p)
            BY <2>4, ConsumeServerTexts
        <3> QED
            BY <2>2, <3>1, <3>2 DEF Up!Next
    <2>5. ASSUME UNCHANGED <<phoneVars, published>> PROVE UNCHANGED <<Texts, published>>
        BY <2>2, <2>5 DEF phoneVars
    <2>6. ASSUME NEW p \in Phones, ConsumeAtTower(p) PROVE UNCHANGED <<phoneVars, published>>
        BY <2>6 DEF ConsumeAtTower
    <2>7. ASSUME NEW t \in Towers, ExchangeEnds(t) PROVE UNCHANGED <<phoneVars, published>>
        BY <2>7 DEF ExchangeEnds
    <2>8. CASE ReplyArrives \/ WifiThread
        BY <2>5, <2>8 DEF ReplyArrives, MessageArrives, WifiThread, WifiWakes, Extract, Aim,
                          HandOverReply
    <2>9. CASE UNCHANGED vars
        BY <2>5, <2>9 DEF vars
    <2> QED
        BY <2>1, <2>3, <2>4, <2>5, <2>6, <2>7, <2>8, <2>9 DEF Next
<1>3. Spec => [](PhoneInv /\ BytesInv /\ RelayTypes /\ UpInv /\ ReadInv /\ TextsInv)
    BY TextsInvariant
<1> QED
    BY <1>1, <1>2, <1>3, PTL DEF Spec, UpPromise

\* When every thread waits and nothing is on the air, every text that was written is
\* published and every reply that arrived is notified, without one of the recorded causes:
\* no buffer of thread_Bluetooth, consumeInfo or MQTTreceive keeps part of one back
\* (main.cpp:185-227, LoraManager.cpp:460-519, WIFI.cpp:636-668).
THEOREM NothingIsLeftBehind ==
    ASSUME NumberDigits < TelephoneBytes PROVE Spec => []NothingLeftBehind
<1>1. PhoneInv /\ UpInv /\ ReadInv /\ TextsInv /\ Quiet /\ Undisturbed => published = Texts
    <2> SUFFICES ASSUME PhoneInv, UpInv, ReadInv, TextsInv, Quiet, Undisturbed
                 PROVE  published = Texts
        OBVIOUS
    <2>1. ASSUME NEW p \in Phones PROVE published[p] = Items(written[p])
        <3>1. PICK s, pub, d : /\ s = written[p] /\ pub = published[p]
                               /\ d = Handled(gatt[p], reader[p], s, radio[p])
            OBVIOUS
        <3>2. radio[p] = Silent /\ reader[p].at = "poll" /\ ~gatt[p].new_data
            BY Places DEF Quiet
        <3>3. ~Carries(radio[p], 2) /\ ~Carries(radio[p], 3)
            BY <3>2 DEF Carries, Silent
        <3>4. PublishedTo(s, d, pub) /\ Len(s) \in Nat /\ Handed(gatt[p], reader[p], s) = d
            BY <3>1, <3>3, TextsAt DEF TextsOK
        <3>5. One(Announced(gatt[p], reader[p])) = 0 /\ One(reader[p].at = "send") = 0
            BY <3>2 DEF One, Announced
        <3>6. d = Len(s)
            BY <3>4, <3>5 DEF Handed
        <3>7. PICK n : n = Count(s, Len(s))
            OBVIOUS
        <3>8. /\ n \in Nat /\ Len(pub) = n
              /\ \A i \in 1..Len(s) : ~IsNumber(s[i]) => pub[Count(s, i)] = Item(s, i)
            BY <3>4, <3>6, <3>7, CountType DEF PublishedTo
        <3>9. ASSUME NEW k \in 1..n PROVE pub[k] = Items(s)[k]
            <4>1. PICK i \in 1..Len(s) : ~IsNumber(s[i]) /\ Count(s, i) = k
                BY <3>4, <3>7, ItemsAt
            <4>2. Items(s)[k] = Item(s, i)
                BY <3>4, <4>1, ItemsAt
            <4> QED
                BY <3>8, <4>1, <4>2
        <3>10. Items(s) = [k \in 1..n |-> Items(s)[k]]
            BY <3>7 DEF Items
        <3>11. pub = [k \in 1..n |-> pub[k]]
            <4>1. PICK S : pub \in Seq(S)
                BY <3>1 DEF UpInv, PublishedOK
            <4> QED
                BY <3>8, <4>1
        <3> QED
            BY <3>1, <3>9, <3>10, <3>11
    <2>2. published = [p \in Phones |-> published[p]]
        BY DEF UpInv
    <2> QED
        BY <2>1, <2>2 DEF Texts
<1>2. Spec => [](PhoneInv /\ BytesInv /\ RelayTypes /\ UpInv /\ ReadInv /\ TextsInv)
    BY TextsInvariant
<1>3. PhoneInv /\ UpInv /\ ReadInv /\ TextsInv /\ (Quiet /\ downTroubles = {} => notified = replied)
          => NothingLeftBehind
    BY <1>1 DEF NothingLeftBehind
<1> QED
    BY <1>2, <1>3, NoReplyLeftBehind, PTL
=============================================================================
