------------------------------- MODULE TextRelay -------------------------------
(***************************************************************************)
(* Texts between the phones and the outside world: thread_Bluetooth cuts   *)
(* what a phone wrote into packages, the server's consumeInfo puts them    *)
(* together and publishes them with the sender's number; MQTTreceive cuts  *)
(* a reply into packages for the tower of the last text, whose consumeInfo *)
(* puts it together and notifies the phone.                                *)
(*                                                                         *)
(* The chain in between (LoraTowers) appears as what it does with one      *)
(* package: the destination consumes it, perhaps more than once, and the   *)
(* exchange ends, perhaps before that.  MQTT (ServerMqtt) appears as       *)
(* publications made and messages received.  Everything that can make a    *)
(* text arrive wrongly is recorded, as a cause, in upTroubles, downTroubles *)
(* or the phones' mishaps: the promises below say that there is no other.  *)
(***************************************************************************)
EXTENDS PhoneInput, FiniteSets

CONSTANTS
    LoraBytes,      \* LORA_BYTES
    MessageSize,    \* sizeof(LoraManager::message)
    DigitPlaces,    \* places of a text that hold digits
    ReplyLengths,   \* lengths of the replies
    MaxReplies,     \* bound: messages that arrive on SOS/IN
    MaxMalformed,   \* bound: those of them extractMessage finds no message in
    MaxLost,        \* bound: exchanges that end without their package consumed
    MaxRepeats      \* bound: packages consumed again

ASSUME RelayConstants ==
    /\ LoraBytes \in Nat \ {0} /\ MessageSize \in Nat /\ BufSize <= MessageSize
    /\ DigitPlaces \subseteq Nat /\ ReplyLengths \subseteq Nat
    /\ MaxReplies \in Nat /\ MaxMalformed \in Nat /\ MaxLost \in Nat /\ MaxRepeats \in Nat

Server == 0
Towers == Phones \cup {Server}

VARIABLES
    cut,           \* phone -> characters of reader's text already handed over
    radio,         \* tower -> the package its LoraManager sends, or Silent
    message,       \* tower -> LoraManager::message up to transmission
    server,        \* the server's telephone, hello flag, bluetooth_tower and payloads
    incoming,      \* the server's pcIncomingPublish and its event bit
    wifi,          \* where thread_Wifi is in MQTTreceive
    arrived, malformed, lost, repeats,  \* bounded counters
    published,     \* history: phone -> texts of its tower published
    replied,       \* history: phone -> replies that arrived for it
    notified,      \* history: phone -> replies it was notified of
    upTroubles,    \* history: what went wrong with texts
    downTroubles   \* history: what went wrong with replies

relayBounds == <<arrived, malformed, lost, repeats>>
replyVars   == <<incoming, wifi, replied, notified>>
vars == <<phoneVars, cut, radio, message, server, relayBounds, replyVars, published,
          upTroubles, downTroubles>>

Silent  == [txt |-> 0]
Waiting == [at |-> "waiting", text |-> <<>>, ind |-> 0, dest |-> Server, to |-> Server]
\* What extractMessage finds no message in.
Malformed == <<NUL>>
NoMessage == [text |-> <<>>, received |-> FALSE, to |-> Server]
Started == [telephone |-> <<>>, hello |-> FALSE, bluetooth_tower |-> Server,
            actual |-> <<>>, received |-> <<>>]

TypeOK ==
    /\ PhoneTypeOK
    /\ \A p \in Phones : cut[p] \in 0..Len(reader[p].data)
    /\ \A t \in Towers : radio[t] # Silent =>
           /\ radio[t].txt \in 1..4 /\ radio[t].dest \in Towers
           /\ radio[t].consumed \in BOOLEAN
    /\ server.bluetooth_tower \in Towers /\ server.hello \in BOOLEAN
    /\ wifi.at \in {"waiting", "woken", "aiming", "spinning"}
    /\ wifi.ind \in 0..Len(wifi.text) /\ wifi.dest \in Towers
    /\ arrived \in 0..MaxReplies /\ malformed \in 0..MaxMalformed
    /\ lost \in 0..MaxLost /\ repeats \in 0..MaxRepeats

Init ==
    /\ PhoneInit
    /\ cut = [p \in Phones |-> 0]
    /\ radio = [t \in Towers |-> Silent]
    /\ message = [t \in Towers |-> <<>>]
    /\ server = Started /\ incoming = NoMessage /\ wifi = Waiting
    /\ arrived = 0 /\ malformed = 0 /\ lost = 0 /\ repeats = 0
    /\ published = [p \in Phones |-> <<>>]
    /\ replied = [p \in Phones |-> <<>>] /\ notified = [p \in Phones |-> <<>>]
    /\ upTroubles = {} /\ downTroubles = {}

UpTrouble(causes)   == upTroubles' = upTroubles \cup causes
DownTrouble(causes) == downTroubles' = downTroubles \cup causes
When(condition, cause) == IF condition THEN {cause} ELSE {}

---------------------------------------------------------------------------
(***************************************************************************)
(* Cutting a text, the same loop in thread_Bluetooth and MQTTreceive: a    *)
(* package shorter than LORA_BYTES is the last one (txt 3), the others say *)
(* that more follow (txt 1).                                               *)
(***************************************************************************)
Diff(text, ind) == IF Len(text) - ind > LoraBytes THEN LoraBytes ELSE Len(text) - ind
Chunk(text, ind) == SubSeq(text, ind + 1, ind + Diff(text, ind))

\* Mutants: a full package is taken for the last one; the only package of a text may be
\* full and say that more follow.
TxtFullIsLast(text, ind) == IF Diff(text, ind) <= LoraBytes THEN 3 ELSE 1
TxtByPackageOnly(text, ind) == IF Diff(text, ind) = LoraBytes THEN 1 ELSE 3

Txt(text, ind) == IF Len(text) > LoraBytes /\ Diff(text, ind) = LoraBytes THEN 1 ELSE 3

\* A text whose length is a multiple of LORA_BYTES ends in a full package, txt 1.  An
\* empty text is ignored by setPayload: the package sent before goes out again, which is
\* not followed any further (txt 4).
Cut(text, ind) == [txt |-> IF text = <<>> THEN 4 ELSE Txt(text, ind), payload |-> Chunk(text, ind)]
CutTroubles(text) ==
    When(Len(text) > LoraBytes /\ Len(text) % LoraBytes = 0, "unfinished")
        \cup When(text = <<>>, "empty")

\* LoraManager::sendPackage once transmitting is clear.
Send(t, dest, piece) ==
    /\ radio[t] = Silent
    /\ radio' = [radio EXCEPT ![t] = [txt |-> piece.txt, payload |-> piece.payload,
                                      dest |-> dest, consumed |-> FALSE]]

\* Mutant: ind is not reset for the next text.
NextCutKept(text, ind) == ind

NextCut(text, ind) == IF ind = Len(text) THEN 0 ELSE ind

\* thread_Bluetooth: a number is one package (txt 2); after the last package of a text
\* the thread polls again.
HandOver(p) ==
    LET text == reader[p].data
        number == reader[p].telephone_set
        next == cut[p] + Diff(text, cut[p])
    IN  /\ reader[p].at = "send"
        /\ IF number
           THEN /\ Send(p, Server, [Cut(text, 0) EXCEPT !.payload = text,
                                                       !.txt = IF @ = 4 THEN 4 ELSE 2])
                /\ UpTrouble(When(text = <<>>, "empty"))
           ELSE /\ Send(p, Server, Cut(text, cut[p]))
                /\ UpTrouble(CutTroubles(text))
        /\ IF number \/ next = Len(text) THEN Sent(p) ELSE UNCHANGED phoneVars
        /\ cut' = [cut EXCEPT ![p] = NextCut(text, IF number THEN Len(text) ELSE next)]
        /\ UNCHANGED <<message, server, relayBounds, replyVars, published, downTroubles>>

---------------------------------------------------------------------------
(***************************************************************************)
(* consumeInfo on the server.                                              *)
(***************************************************************************)
IsDigit(c) == c[1] = "number" \/ (c[1] = "letter" /\ c[4] \in DigitPlaces)
Digits(s)  ==
    LET places == {i \in DOMAIN s : IsDigit(s[i])}
        Place(k) == CHOOSE i \in places : Cardinality({j \in places : j <= i}) = k
    IN  [k \in 1..Cardinality(places) |-> s[Place(k)]]

\* A package decapsulated over a longer one: the payload array keeps the rest of it, and
\* formatPhoneNumber reads on to its zero.
Over(old, new) == new \o SubSeq(old, Len(new) + 1, Len(old))

\* The package goes into actualPackage, or into receivedPackage, which then becomes the
\* actualPackage (Receive_Payload, or one of the other receiving handlers).
Decapsulated(payload) ==
    {[server EXCEPT !.actual = Over(server.actual, payload)],
     [server EXCEPT !.actual = Over(server.received, payload),
                    !.received = Over(server.received, payload)]}

\* Mutant: the message is not cleared after it has been published.
NextMessageKept(text, txt) == text

NextMessage(text, txt) == IF txt = 3 THEN <<>> ELSE text

\* A package reaches its destination; a second time when its exchange is repeated.
Reaches(t) ==
    /\ radio[t] # Silent /\ radio[t].txt # 4
    /\ radio[t].consumed => repeats < MaxRepeats
    /\ repeats' = IF radio[t].consumed THEN repeats + 1 ELSE repeats
    /\ radio' = [radio EXCEPT ![t].consumed = TRUE]
    /\ UNCHANGED <<arrived, malformed, lost>>
Again(t) == When(radio[t].consumed, "repeated")

ConsumeNumber(p, s) ==
    LET payload == radio[p].payload
    IN  /\ radio[p].txt = 2
        /\ server' = [s EXCEPT !.telephone = Digits(s.actual), !.hello = TRUE]
        /\ UpTrouble(Again(p) \cup When(Digits(s.actual) # Digits(payload), "staleDigits"))
        /\ UNCHANGED <<message, published>>

\* With the hello message before the text when the flag is set.
MQTTpublishText(p, text, s) == [published EXCEPT ![p] =
    Append(@, [text |-> text, number |-> s.telephone, hello |-> s.hello])]

\* snprintf to message + transmission; the last package publishes it (which clears the
\* hello flag) and resets message and transmission.
ConsumeText(p, s) ==
    LET text    == message[Server] \o radio[p].payload
        last    == radio[p].txt = 3
        crossed == \E c \in {text[i] : i \in DOMAIN text} \cup
                            {s.telephone[i] : i \in DOMAIN s.telephone} : c[2] # p
    IN  /\ radio[p].txt \in {1, 3}
        /\ message' = [message EXCEPT ![Server] = NextMessage(text, radio[p].txt)]
        /\ server' = IF last THEN [s EXCEPT !.hello = FALSE] ELSE s
        /\ published' = IF last THEN MQTTpublishText(p, text, s) ELSE published
        /\ UpTrouble(Again(p) \cup When(crossed, "crossed"))

ConsumeAtServer(p) ==
    /\ Reaches(p)
    /\ \E s \in Decapsulated(radio[p].payload) :
           LET heard == [s EXCEPT !.bluetooth_tower = p]
           IN  ConsumeNumber(p, heard) \/ ConsumeText(p, heard)
    /\ UNCHANGED <<phoneVars, cut, replyVars, downTroubles>>

\* The exchange of t's package has ended: transmitting is clear again.
ExchangeEnds(t) ==
    LET unheard == ~radio[t].consumed /\ radio[t].txt # 4 /\ radio[t].dest # t
    IN  /\ radio[t] # Silent
        /\ unheard => lost < MaxLost
        /\ lost' = IF unheard THEN lost + 1 ELSE lost
        /\ radio' = [radio EXCEPT ![t] = Silent]
        /\ IF t = Server THEN DownTrouble(When(unheard, "lost")) /\ UNCHANGED upTroubles
                         ELSE UpTrouble(When(unheard, "lost")) /\ UNCHANGED downTroubles
        /\ UNCHANGED <<phoneVars, cut, message, server, arrived, malformed, repeats, replyVars,
                       published>>

---------------------------------------------------------------------------
(***************************************************************************)
(* Replies: prvIncomingPublishCallback on the agent's task, MQTTreceive on *)
(* thread_Wifi.  A reply is meant for the phone whose text the server has  *)
(* consumed last when it arrives; or it is Malformed.                     *)
(***************************************************************************)
MessageArrives(text) ==
    LET to == server.bluetooth_tower
    IN  /\ arrived < MaxReplies /\ arrived' = arrived + 1
        /\ malformed' = IF text = Malformed THEN malformed + 1 ELSE malformed
        /\ incoming' = [text |-> text, received |-> TRUE, to |-> to]
        /\ replied' = IF to = Server \/ text = Malformed THEN replied
                      ELSE [replied EXCEPT ![to] = Append(@, text)]
        /\ DownTrouble(When(Len(text) >= MessageSize, "tooLong")
               \cup When(incoming.received \/ wifi.at = "woken", "overwritten"))
        /\ UNCHANGED <<phoneVars, cut, radio, message, server, lost, repeats, wifi, notified,
                       published, upTroubles>>

ReplyArrives ==
    \/ \E n \in ReplyLengths : MessageArrives(Content("reply", Server, arrived + 1, n))
    \/ malformed < MaxMalformed /\ MessageArrives(Malformed)

\* prvWaitForEvent returns and has cleared the bit.
WifiWakes ==
    /\ wifi.at = "waiting" /\ incoming.received
    /\ incoming' = [incoming EXCEPT !.received = FALSE]
    /\ wifi' = [wifi EXCEPT !.at = "woken"]
    /\ UNCHANGED <<phoneVars, cut, radio, message, server, relayBounds, replied, notified,
                   published, upTroubles, downTroubles>>

\* extractMessage copies the message out of the buffer; with none in it, strlen of its
\* null pointer restarts the server, which forgets everything.
Extract ==
    /\ wifi.at = "woken"
    /\ IF incoming.text # Malformed
       THEN /\ wifi' = [Waiting EXCEPT !.at = "aiming", !.text = incoming.text, !.to = incoming.to]
            /\ UNCHANGED <<radio, message, server, incoming, upTroubles, downTroubles>>
       ELSE /\ wifi' = Waiting /\ server' = Started /\ incoming' = NoMessage
            /\ message' = [message EXCEPT ![Server] = <<>>]
            /\ radio' = [radio EXCEPT ![Server] = Silent]
            /\ UpTrouble({"restarted"}) /\ DownTrouble({"restarted"})
    /\ UNCHANGED <<phoneVars, cut, relayBounds, replied, notified, published>>

\* getBluetoothTower() is an argument of each sendPackage, which then spins.
Aim ==
    /\ wifi.at = "aiming"
    /\ wifi' = [wifi EXCEPT !.at = "spinning", !.dest = server.bluetooth_tower]
    /\ UNCHANGED <<phoneVars, cut, radio, message, server, relayBounds, incoming, replied,
                   notified, published, upTroubles, downTroubles>>

HandOverReply ==
    LET next == wifi.ind + Diff(wifi.text, wifi.ind)
    IN  /\ wifi.at = "spinning"
        /\ Send(Server, wifi.dest, Cut(wifi.text, wifi.ind))
        /\ wifi' = IF next = Len(wifi.text) THEN Waiting ELSE [wifi EXCEPT !.at = "aiming", !.ind = next]
        /\ DownTrouble(CutTroubles(wifi.text) \cup When(wifi.dest # wifi.to, "retargeted"))
        /\ UNCHANGED <<phoneVars, cut, message, server, relayBounds, incoming, replied, notified,
                       published, upTroubles>>

\* Notifies whoever is connected.
sendData(p, text) ==
    IF gatt[p].connected THEN [notified EXCEPT ![p] = Append(@, text)] ELSE notified

\* consumeInfo on the phone's tower; the last package is followed by sendData.
ConsumeAtTower(p) ==
    LET text == message[p] \o radio[Server].payload
        last == radio[Server].txt = 3
    IN  /\ Reaches(Server) /\ radio[Server].dest = p
        /\ message' = [message EXCEPT ![p] = NextMessage(text, radio[Server].txt)]
        /\ notified' = IF last THEN sendData(p, text) ELSE notified
        /\ DownTrouble(Again(Server) \cup When(last /\ ~gatt[p].connected, "phoneGone"))
        /\ UNCHANGED <<phoneVars, cut, server, incoming, wifi, replied, published, upTroubles>>

---------------------------------------------------------------------------
PhoneStep(p) ==
    /\ Phone(p) \/ Reading(p)
    /\ UNCHANGED <<cut, radio, message, server, relayBounds, replyVars, published,
                   upTroubles, downTroubles>>

WifiThread == WifiWakes \/ Extract \/ Aim \/ HandOverReply

Next ==
    \/ \E p \in Phones : PhoneStep(p) \/ HandOver(p) \/ ConsumeAtServer(p) \/ ConsumeAtTower(p)
    \/ \E t \in Towers : ExchangeEnds(t)
    \/ ReplyArrives \/ WifiThread

Spec == Init /\ [][Next]_vars

---------------------------------------------------------------------------
(***************************************************************************)
(* Properties.                                                             *)
(***************************************************************************)
NumberIn(s) == Digits(Behind55(s))

\* The texts among what a phone has written, each with the number written last before it,
\* and whether it is the first text since (which is published with the hello message).
Count(w, i) == Cardinality({j \in 1..i : ~IsNumber(w[j])})
NumberBefore(w, i) ==
    LET numbers == {j \in 1..(i - 1) : IsNumber(w[j])}
    IN  IF numbers = {} THEN <<>>
        ELSE NumberIn(w[CHOOSE j \in numbers : \A k \in numbers : k <= j])
First(w, i) == i > 1 /\ IsNumber(w[i - 1])
Item(w, i) == [text |-> w[i], number |-> NumberBefore(w, i), hello |-> First(w, i)]

TextAt(w, k) == CHOOSE i \in 1..Len(w) : ~IsNumber(w[i]) /\ Count(w, i) = k
Items(w) == [k \in 1..Count(w, Len(w)) |-> Item(w, TextAt(w, k))]

Texts == [p \in Phones |-> Items(written[p])]
Undisturbed == upTroubles = {} /\ \A p \in Phones : mishaps[p] = {}

Up   == INSTANCE TextDelivery WITH Users <- Phones, sent <- Texts, delivered <- published
Down == INSTANCE TextDelivery WITH Users <- Phones, sent <- replied, delivered <- notified

\* As long as none of the listed causes has occurred, the towers implement TextDelivery
\* for the texts: each is published complete, once, in order, with the number of the
\* phone that wrote it and with the hello message exactly when it is the first.
UpPromise == Up!Init /\ [][Undisturbed' => [Up!Next]_<<Texts, published>>]_vars

\* The same for the replies.
DownPromise == Down!Init /\ [][downTroubles' = {} => [Down!Next]_<<replied, notified>>]_vars

\* Nothing is ever written past the end of a message buffer (snprintf to
\* message + transmission checks nothing) or of the number's 15 bytes without one of
\* those causes: neither what is put together so far nor what was handed on was too long.
Short(texts) == \A s \in texts : Len(s) < MessageSize
MessageFits ==
    /\ Undisturbed => Short({message[Server]} \cup UNION {
           {published[p][i].text : i \in DOMAIN published[p]} : p \in Phones})
    /\ Undisturbed => Len(server.telephone) <= NumberDigits
    /\ downTroubles = {} => Short(UNION {
           {message[p]} \cup {notified[p][i] : i \in DOMAIN notified[p]} : p \in Phones})

\* When every thread waits and nothing is on the air, nothing has been left behind: what
\* was written is published and what arrived is notified, without one of those causes.
Quiet ==
    /\ \A t \in Towers : radio[t] = Silent
    /\ \A p \in Phones : reader[p].at = "poll" /\ ~gatt[p].new_data
    /\ wifi.at = "waiting" /\ ~incoming.received
NothingLeftBehind == Quiet =>
    /\ Undisturbed => published = Texts
    /\ downTroubles = {} => notified = replied

\* A package that is not full, or the only one of its text, is the last of its text
\* ("Ultima transmissao!", LoraManager.cpp:506), and every text has a last one: the texts
\* are delivered whatever their length.
UpPromiseAnyLength ==
    [][(upTroubles' \subseteq {"unfinished"} /\ \A p \in Phones : mishaps'[p] = {})
          => [Up!Next]_<<Texts, published>>]_vars
=============================================================================
