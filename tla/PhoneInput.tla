------------------------------ MODULE PhoneInput ------------------------------
(***************************************************************************)
(* What a phone writes to a tower: the GATT server's callback puts the     *)
(* fragments of a text together in global_data (bluetooth.c), and          *)
(* thread_Bluetooth polls new_data, reads the buffer (BluetoothManager)    *)
(* and sends what it has read.  The two share global_data, position and    *)
(* new_data without a lock, so the callback runs between any two steps of  *)
(* the reader.                                                             *)
(*                                                                         *)
(* A phone writes a text and its terminating zero in fragments of at most  *)
(* Mtu bytes; plain and prepared writes are taken alike, at once, so the   *)
(* module has one kind.  A character is <<kind, phone, text, place>>.      *)
(***************************************************************************)
EXTENDS Integers, Sequences

CONSTANTS
    Phones,          \* the towers with a phone beside them
    BufferSize,      \* sizeof(global_data)
    BufSize,         \* sizeof(buf) in main.cpp
    TelephoneBytes,  \* sizeof(BluetoothManager::telephone) - 1
    NumberDigits,    \* digits that fit behind "+55" in LoraManager::telephone
    Mtu,             \* bytes of a fragment
    TextLengths,     \* lengths of the texts the phones write
    NumberLengths,   \* lengths of the numbers they write after "55"
    MaxTexts         \* bound: texts and numbers all phones begin

ASSUME PhoneConstants ==
    /\ Phones \subseteq Nat \ {0}
    /\ BufferSize \in Nat \ {0, 1} /\ BufSize \in Nat \ {0}
    /\ TelephoneBytes \in Nat \ {0} /\ NumberDigits \in 0..TelephoneBytes /\ Mtu \in Nat \ {0}
    /\ TextLengths \subseteq Nat /\ NumberLengths \subseteq Nat \ {0}
    /\ MaxTexts \in Nat

NUL == <<"nul", 0, 0, 0>>

\* The content of text n of phone p: letters, or "55" and a telephone number.
Content(kind, p, n, len) == [k \in 1..len |-> <<kind, p, n, k>>]
IsFive(c) == c[1] = "number" /\ c[4] \in {1, 2}

\* The C string in buffer b from index first, of max characters at the most.
CString(b, first, max) ==
    LET stops == {i \in first..BufferSize : i \in {BufferSize, first + max} \/ b[i] = NUL}
        end   == CHOOSE i \in stops : \A j \in stops : i <= j
    IN  [k \in 1..(end - first) |-> b[first + k - 1]]

StartsWith55(b) == IsFive(b[0]) /\ IsFive(b[1])

\* What receiveData takes from buffer b: the number behind "55", or the whole text.
Taken(b, telephone) ==
    IF telephone THEN CString(b, 2, TelephoneBytes) ELSE CString(b, 0, BufferSize)

VARIABLES
    begun,    \* texts and numbers all phones have begun so far
    writing,  \* phone -> the bytes of the text it writes and how many are written
    gatt,     \* phone -> the globals of bluetooth.c on its tower
    reader,   \* phone -> thread_Bluetooth and its BluetoothManager
    written,  \* history: phone -> texts it has written to the end
    latest,   \* history: phone -> global_data when a text was last completed
    mishaps   \* history: phone -> what has gone wrong with its texts

phoneVars == <<begun, writing, gatt, reader, written, latest, mishaps>>

Buffer  == 0..(BufferSize - 1)
Zeroed  == [i \in Buffer |-> NUL]
Nothing == [bytes |-> <<>>, done |-> 0]
Mishaps == {"overtaken", "abandoned", "dropped", "tooLong"}

\* thread_Bluetooth: between two polls, having cleared new_data, having seen whether
\* the text starts with "55", or with a text to send.
ReaderPcs == {"poll", "look", "copy", "send"}

PhoneTypeOK ==
    /\ begun \in 0..MaxTexts
    /\ \A p \in Phones :
        /\ gatt[p].connected \in BOOLEAN /\ gatt[p].new_data \in BOOLEAN
        /\ gatt[p].position \in 0..BufferSize
        /\ DOMAIN gatt[p].global_data = Buffer /\ DOMAIN latest[p] = Buffer
        /\ reader[p].at \in ReaderPcs /\ reader[p].telephone_set \in BOOLEAN
        /\ Len(reader[p].data) <= BufferSize
        /\ writing[p].done \in 0..Len(writing[p].bytes)
        /\ mishaps[p] \subseteq Mishaps

PhoneInit ==
    /\ begun = 0
    /\ writing = [p \in Phones |-> Nothing]
    /\ gatt = [p \in Phones |-> [connected |-> FALSE, global_data |-> Zeroed,
                                 position |-> 0, new_data |-> FALSE]]
    /\ reader = [p \in Phones |-> [at |-> "poll", telephone_set |-> FALSE, data |-> <<>>]]
    /\ written = [p \in Phones |-> <<>>]
    /\ latest = [p \in Phones |-> Zeroed]
    /\ mishaps = [p \in Phones |-> {}]

Mishap(p, what) == mishaps' = [mishaps EXCEPT ![p] = @ \cup what]

---------------------------------------------------------------------------
(***************************************************************************)
(* The phone, and gatts_profile_a_event_handler on its events.             *)
(***************************************************************************)
PhoneConnects(p) ==
    /\ ~gatt[p].connected
    /\ gatt' = [gatt EXCEPT ![p].connected = TRUE]
    /\ UNCHANGED <<begun, writing, reader, written, latest, mishaps>>

PhoneBegins(p) ==
    /\ gatt[p].connected /\ writing[p] = Nothing
    /\ begun < MaxTexts /\ begun' = begun + 1
    /\ \E text \in {Content("letter", p, begun', n) : n \in TextLengths}
                   \cup {Content("number", p, begun', n + 2) : n \in NumberLengths} :
           writing' = [writing EXCEPT ![p].bytes = Append(text, NUL)]
    /\ UNCHANGED <<gatt, reader, written, latest, mishaps>>

\* getString with room for the fragment.  The zero behind a text that fills the buffer
\* goes one past its end (index BufferSize), outside of what is modelled here.
Store(g, frag) ==
    LET end  == g.position + Len(frag)
        done == frag[Len(frag)] = NUL
    IN  [g EXCEPT !.global_data = [i \in Buffer |->
                      IF i \in g.position..(end - 1) THEN frag[i - g.position + 1]
                      ELSE IF i = end /\ done THEN NUL ELSE @[i]],
                  !.new_data = @ \/ done,
                  !.position = IF done THEN 0 ELSE end]

Fits(g, size) == g.position + size <= BufferSize

Further(w, size) == [w EXCEPT !.done = @ + size]

\* ESP_GATTS_WRITE_EVT: getString with a fragment, dropped if it does not fit.
WriteEvent(p, frag, last) ==
    LET bytes == writing[p].bytes
        fits  == Fits(gatt[p], Len(frag))
        stale == gatt[p].new_data \/ reader[p].at \in {"look", "copy"}
    IN  /\ writing' = [writing EXCEPT ![p] = IF last THEN Nothing ELSE Further(@, Len(frag))]
        /\ written' = IF last THEN [written EXCEPT ![p] = Append(@, SubSeq(bytes, 1, Len(bytes) - 1))] ELSE written
        /\ gatt' = IF fits THEN [gatt EXCEPT ![p] = Store(@, frag)] ELSE gatt
        /\ latest' = IF fits /\ last THEN [latest EXCEPT ![p] = gatt'[p].global_data] ELSE latest
        /\ Mishap(p, IF ~fits THEN {"dropped"} ELSE IF stale THEN {"overtaken"} ELSE {})
        /\ UNCHANGED <<begun, reader>>

\* The next fragment of the text that is being written, as long as the phone can make it.
PhoneWrites(p) ==
    LET left == Len(writing[p].bytes) - writing[p].done
        size == IF left > Mtu THEN Mtu ELSE left
        from == writing[p].done + 1
    IN  /\ writing[p] # Nothing
        /\ WriteEvent(p, SubSeq(writing[p].bytes, from, from + size - 1), size = left)

Abandoned(p) == IF writing[p].done > 0 THEN {"abandoned"} ELSE {}

\* ESP_GATTS_DISCONNECT_EVT: position stays where the phone has left it.
PhoneLeaves(p) ==
    /\ gatt[p].connected
    /\ gatt' = [gatt EXCEPT ![p].connected = FALSE]
    /\ writing' = [writing EXCEPT ![p] = Nothing]
    /\ Mishap(p, Abandoned(p))
    /\ UNCHANGED <<begun, reader, written, latest>>

\* ESP_GATTS_EXEC_WRITE_EVT with ESP_GATT_PREP_WRITE_CANCEL: the prepared fragments
\* stay in global_data.
PhoneCancels(p) ==
    /\ writing[p].done > 0
    /\ writing' = [writing EXCEPT ![p] = Nothing]
    /\ Mishap(p, Abandoned(p))
    /\ UNCHANGED <<begun, gatt, reader, written, latest>>

---------------------------------------------------------------------------
(***************************************************************************)
(* thread_Bluetooth: receiveData, dataReceived and the copy into buf.      *)
(***************************************************************************)
ReaderAt(p, pc) == reader[p].at = pc

Poll(p) ==
    /\ ReaderAt(p, "poll") /\ gatt[p].new_data
    /\ gatt' = [gatt EXCEPT ![p].new_data = FALSE]
    /\ reader' = [reader EXCEPT ![p].at = "look"]
    /\ UNCHANGED <<begun, writing, written, latest, mishaps>>

Look(p) ==
    /\ ReaderAt(p, "look")
    /\ reader' = [reader EXCEPT ![p].at = "copy", ![p].telephone_set = StartsWith55(gatt[p].global_data)]
    /\ UNCHANGED <<begun, writing, gatt, written, latest, mishaps>>

\* data becomes the telephone, or the whole text; sprintf copies it to buf.
Copy(p) ==
    LET data == Taken(gatt[p].global_data, reader[p].telephone_set)
    IN  /\ ReaderAt(p, "copy")
        /\ reader' = [reader EXCEPT ![p].at = "send", ![p].data = data]
        /\ Mishap(p, IF Len(data) >= BufSize \/ (reader[p].telephone_set /\ Len(data) > NumberDigits)
                     THEN {"tooLong"} ELSE {})
        /\ UNCHANGED <<begun, writing, gatt, written, latest>>

\* Mutant: new_data is cleared once the text has been sent.
SentClearing(p) ==
    /\ ReaderAt(p, "send")
    /\ reader' = [reader EXCEPT ![p].at = "poll", ![p].telephone_set = FALSE]
    /\ gatt' = [gatt EXCEPT ![p].new_data = FALSE]
    /\ UNCHANGED <<begun, writing, written, latest, mishaps>>

\* The last sendPackage of the text has returned; setTelephoneBool(false).
Sent(p) ==
    /\ ReaderAt(p, "send")
    /\ reader' = [reader EXCEPT ![p].at = "poll", ![p].telephone_set = FALSE]
    /\ UNCHANGED <<begun, writing, gatt, written, latest, mishaps>>

Phone(p) == PhoneConnects(p) \/ PhoneBegins(p) \/ PhoneWrites(p) \/ PhoneLeaves(p) \/ PhoneCancels(p)
Reading(p) == Poll(p) \/ Look(p) \/ Copy(p)

PhoneNext == \E p \in Phones : Phone(p) \/ Reading(p) \/ Sent(p)
PhoneSpec == PhoneInit /\ [][PhoneNext]_phoneVars

---------------------------------------------------------------------------
\* Of what a phone has written: whether it is a number, and the number.
IsNumber(s) == Len(s) >= 2 /\ IsFive(s[1]) /\ IsFive(s[2])
Behind55(s) == [k \in 1..(Len(s) - 2) |-> s[k + 2]]

\* With no text half written and none announced, what thread_Bluetooth has read last is
\* the text completed last: a text that arrives between the poll and the copy is not lost
\* (receiveData clears new_data before it reads the buffer, BluetoothManager.cpp:53-68).
LastTextRead == \A p \in Phones :
    (gatt[p].position = 0 /\ ~gatt[p].new_data /\ reader[p].at \in {"poll", "send"})
        => reader[p].data = Taken(latest[p], StartsWith55(latest[p]))
=============================================================================
