--------------------------- MODULE PhoneInputProofs ---------------------------
(***************************************************************************)
(* LastTextRead, for every number of phones, every size of the buffer and  *)
(* of the fragments and all texts.  What makes it hold is that receiveData *)
(* clears new_data before it looks at the buffer: from then on either the  *)
(* buffer stays the one of the text completed last, or a write has begun   *)
(* (position is not 0), or another text is announced (new_data).           *)
(*                                                                         *)
(* And the types: what the buffer and the reader hold is what the tower's  *)
(* own phone wrote (BytesInv), within the sizes of both.                   *)
(*                                                                         *)
(* And the order: what is read is the text written last, or the one before *)
(* while the next is announced already, and a text that begins with a      *)
(* number is read as that number (ReadsWhatWasWritten).                    *)
(***************************************************************************)
EXTENDS PhoneInput, SequenceTheorems, WellFoundedInduction, TLAPS

Char == {"letter", "number", "nul"} \X Nat \X Nat \X Nat

\* Only the last character of what a phone writes is the zero.
Ended(bytes) == /\ bytes \in Seq(Char) /\ Len(bytes) > 0
                /\ \A k \in 1..Len(bytes) : bytes[k] = NUL <=> k = Len(bytes)

WritingOK(w) ==
    \/ w = Nothing
    \/ /\ w = [bytes |-> w.bytes, done |-> w.done] /\ Ended(w.bytes)
       /\ w.done \in Nat /\ w.done < Len(w.bytes)

GattOK(g) ==
    /\ g = [connected |-> g.connected, global_data |-> g.global_data, position |-> g.position,
            new_data |-> g.new_data]
    /\ g.position \in Nat /\ g.new_data \in BOOLEAN

ReaderOK(r) == r = [at |-> r.at, telephone_set |-> r.telephone_set, data |-> r.data]

\* How far thread_Bluetooth has got with the text completed last, buffer b, with no other
\* text announced or begun.
InStep(g, r, b) ==
    /\ g.position = 0 => g.global_data = b
    /\ (r.at = "copy" /\ ~g.new_data /\ g.position = 0) => r.telephone_set = StartsWith55(b)
    /\ (r.at \in {"poll", "send"} /\ ~g.new_data /\ g.position = 0)
           => r.data = Taken(b, StartsWith55(b))

PhoneOK(p) == /\ WritingOK(writing[p]) /\ GattOK(gatt[p]) /\ ReaderOK(reader[p])
              /\ InStep(gatt[p], reader[p], latest[p])

Functions == /\ writing = [p \in Phones |-> writing[p]] /\ gatt = [p \in Phones |-> gatt[p]]
             /\ reader = [p \in Phones |-> reader[p]] /\ latest = [p \in Phones |-> latest[p]]

PhoneInv == begun \in Nat /\ Functions /\ \A p \in Phones : PhoneOK(p)

---------------------------------------------------------------------------
\* A text and its zero.
LEMMA TextEnded ==
    ASSUME NEW kind \in {"letter", "number"}, NEW p \in Nat, NEW n \in Nat, NEW len \in Nat
    PROVE  Ended(Append(Content(kind, p, n, len), NUL))
<1> DEFINE text == Content(kind, p, n, len)
<1>1. text = [k \in 1..len |-> <<kind, p, n, k>>]
    BY DEF Content
<1>2. \A k \in 1..len : <<kind, p, n, k>> \in Char /\ <<kind, p, n, k>> # NUL
    BY DEF Char, NUL
<1>3. text \in Seq(Char) /\ Len(text) = len /\ \A k \in 1..len : text[k] # NUL
    BY <1>1, <1>2
<1>4. NUL \in Char
    BY DEF Char, NUL
<1> HIDE DEF text
<1> DEFINE b == Append(text, NUL)
<1>5. /\ b \in Seq(Char) /\ Len(b) = len + 1
      /\ \A k \in 1..len : b[k] = text[k]
      /\ b[len + 1] = NUL
    BY <1>3, <1>4, AppendProperties
<1> HIDE DEF b
<1>6. Ended(b)
    BY <1>3, <1>5 DEF Ended
<1> QED
    BY <1>6 DEF b, text

\* A tower that has booted: nothing is read from a buffer of zeroes.
LEMMA Booted == <<>> = Taken(Zeroed, StartsWith55(Zeroed))
<1>1. BufferSize \in Nat /\ BufferSize > 1
    BY PhoneConstants
<1>2. Zeroed[0] = NUL /\ Zeroed[1] = NUL
    BY <1>1 DEF Zeroed, Buffer
<1>3. ~StartsWith55(Zeroed)
    BY <1>2 DEF StartsWith55, IsFive, NUL
<1> DEFINE stops == {i \in 0..BufferSize : i \in {BufferSize, 0 + BufferSize} \/ Zeroed[i] = NUL}
           end == CHOOSE i \in stops : \A j \in stops : i <= j
<1>4. 0 \in stops /\ \A j \in stops : 0 <= j
    BY <1>1, <1>2
<1>5. \A x \in stops : (\A j \in stops : x <= j) => x = 0
    BY <1>4
<1>6. end \in stops /\ \A j \in stops : end <= j
    BY <1>4, Zenon
<1>7. end = 0
    BY <1>5, <1>6, Zenon
<1>8. CString(Zeroed, 0, BufferSize) = [k \in 1..(end - 0) |-> Zeroed[0 + k - 1]]
    BY DEF CString
<1> HIDE DEF end
<1>9. [k \in 1..(end - 0) |-> Zeroed[0 + k - 1]] = <<>>
    BY <1>7
<1> QED
    BY <1>3, <1>8, <1>9 DEF Taken

---------------------------------------------------------------------------
(***************************************************************************)
(* The initial states and the steps.                                       *)
(***************************************************************************)
LEMMA PhoneInitOK == PhoneInit => PhoneInv
<1> SUFFICES ASSUME PhoneInit PROVE PhoneInv
    OBVIOUS
<1>1. begun \in Nat /\ Functions
    BY DEF PhoneInit, Functions
<1>2. ASSUME NEW p \in Phones PROVE PhoneOK(p)
    <2>1. /\ writing[p] = Nothing /\ latest[p] = Zeroed
          /\ gatt[p] = [connected |-> FALSE, global_data |-> Zeroed, position |-> 0,
                        new_data |-> FALSE]
          /\ reader[p] = [at |-> "poll", telephone_set |-> FALSE, data |-> <<>>]
        BY DEF PhoneInit
    <2>2. WritingOK(writing[p]) /\ GattOK(gatt[p]) /\ ReaderOK(reader[p])
        BY <2>1 DEF WritingOK, GattOK, ReaderOK
    <2>3. InStep(gatt[p], reader[p], latest[p])
        BY <2>1, Booted DEF InStep
    <2> QED
        BY <2>2, <2>3 DEF PhoneOK
<1> QED
    BY <1>1, <1>2 DEF PhoneInv

\* A step of one phone or of its reader.
LEMMA OnePhone ==
    ASSUME PhoneInv, NEW p \in Phones, NEW w, NEW g, NEW r, NEW b,
           begun' \in Nat,
           writing' = [writing EXCEPT ![p] = w], gatt' = [gatt EXCEPT ![p] = g],
           reader' = [reader EXCEPT ![p] = r], latest' = [latest EXCEPT ![p] = b],
           WritingOK(w), GattOK(g), ReaderOK(r), InStep(g, r, b)
    PROVE  PhoneInv'
<1>1. Functions'
    BY DEF PhoneInv, Functions
<1>2. ASSUME NEW q \in Phones PROVE PhoneOK(q)'
    <2>1. CASE q = p
        <3>1. writing'[q] = w /\ gatt'[q] = g /\ reader'[q] = r /\ latest'[q] = b
            BY <2>1 DEF PhoneInv, Functions
        <3> QED
            BY <3>1 DEF PhoneOK
    <2>2. CASE q # p
        <3>1. /\ writing'[q] = writing[q] /\ gatt'[q] = gatt[q]
              /\ reader'[q] = reader[q] /\ latest'[q] = latest[q]
            BY <2>2 DEF PhoneInv, Functions
        <3>2. PhoneOK(q)
            BY DEF PhoneInv
        <3> QED
            BY <3>1, <3>2 DEF PhoneOK
    <2> QED
        BY <2>1, <2>2
<1> QED
    BY <1>1, <1>2 DEF PhoneInv

\* A function that stays is the function with one value put where it was.
LEMMA Stays ==
    ASSUME PhoneInv, NEW p \in Phones
    PROVE  /\ writing = [writing EXCEPT ![p] = writing[p]]
           /\ gatt = [gatt EXCEPT ![p] = gatt[p]]
           /\ reader = [reader EXCEPT ![p] = reader[p]]
           /\ latest = [latest EXCEPT ![p] = latest[p]]
BY DEF PhoneInv, Functions

LEMMA ConnectsOK ==
    ASSUME PhoneInv, NEW p \in Phones, PhoneConnects(p)
    PROVE  PhoneInv'
<1>1. PICK g : g = [gatt[p] EXCEPT !.connected = TRUE]
    OBVIOUS
<1>2. PhoneOK(p) /\ begun \in Nat
    BY DEF PhoneInv
<1>3. GattOK(g) /\ InStep(g, reader[p], latest[p])
    BY <1>1, <1>2 DEF PhoneOK, GattOK, InStep
<1>4. gatt' = [gatt EXCEPT ![p] = g] /\ UNCHANGED <<begun, writing, reader, latest>>
    BY <1>1 DEF PhoneConnects
<1> QED
    BY <1>2, <1>3, <1>4, Stays, OnePhone DEF PhoneOK

LEMMA LeavesOK ==
    ASSUME PhoneInv, NEW p \in Phones, PhoneLeaves(p)
    PROVE  PhoneInv'
<1>1. PICK g : g = [gatt[p] EXCEPT !.connected = FALSE]
    OBVIOUS
<1>2. PhoneOK(p) /\ begun \in Nat
    BY DEF PhoneInv
<1>3. GattOK(g) /\ InStep(g, reader[p], latest[p])
    BY <1>1, <1>2 DEF PhoneOK, GattOK, InStep
<1>4. gatt' = [gatt EXCEPT ![p] = g] /\ writing' = [writing EXCEPT ![p] = Nothing]
      /\ UNCHANGED <<begun, reader, latest>>
    BY <1>1 DEF PhoneLeaves
<1>5. WritingOK(Nothing)
    BY DEF WritingOK
<1> QED
    BY <1>2, <1>3, <1>4, <1>5, Stays, OnePhone DEF PhoneOK

LEMMA CancelsOK ==
    ASSUME PhoneInv, NEW p \in Phones, PhoneCancels(p)
    PROVE  PhoneInv'
<1>1. PhoneOK(p) /\ begun \in Nat
    BY DEF PhoneInv
<1>2. writing' = [writing EXCEPT ![p] = Nothing] /\ UNCHANGED <<begun, gatt, reader, latest>>
    BY DEF PhoneCancels
<1>3. WritingOK(Nothing)
    BY DEF WritingOK
<1> QED
    BY <1>1, <1>2, <1>3, Stays, OnePhone DEF PhoneOK

LEMMA BeginsOK ==
    ASSUME PhoneInv, NEW p \in Phones, PhoneBegins(p)
    PROVE  PhoneInv'
<1>1. PhoneOK(p) /\ begun \in Nat
    BY DEF PhoneInv
<1>2. begun' = begun + 1 /\ UNCHANGED <<gatt, reader, latest>> /\ writing[p] = Nothing
    BY DEF PhoneBegins
<1>3. PICK text : /\ Ended(Append(text, NUL))
                  /\ writing' = [writing EXCEPT ![p].bytes = Append(text, NUL)]
    <2>1. p \in Nat /\ begun' \in Nat /\ TextLengths \subseteq Nat /\ NumberLengths \subseteq Nat
        BY <1>1, <1>2, PhoneConstants
    <2>2. PICK text \in {Content("letter", p, begun', n) : n \in TextLengths}
                   \cup {Content("number", p, begun', n + 2) : n \in NumberLengths} :
              writing' = [writing EXCEPT ![p].bytes = Append(text, NUL)]
        BY DEF PhoneBegins
    <2>3. \E kind \in {"letter", "number"}, n \in Nat : text = Content(kind, p, begun', n)
        BY <2>1, <2>2
    <2> QED
        BY <2>1, <2>2, <2>3, TextEnded
<1>4. PICK b : b = Append(text, NUL)
    OBVIOUS
<1>5. PICK w : w = [bytes |-> b, done |-> 0]
    OBVIOUS
<1>6. WritingOK(w)
    BY <1>3, <1>4, <1>5 DEF WritingOK, Ended
<1>7. writing' = [writing EXCEPT ![p] = w]
    <2>1. [Nothing EXCEPT !.bytes = b] = w
        BY <1>5 DEF Nothing
    <2> QED
        BY <1>2, <1>3, <1>4, <2>1
<1>8. PICK g, r, b2 : g = gatt[p] /\ r = reader[p] /\ b2 = latest[p]
    OBVIOUS
<1>9. /\ gatt' = [gatt EXCEPT ![p] = g] /\ reader' = [reader EXCEPT ![p] = r]
      /\ latest' = [latest EXCEPT ![p] = b2]
    BY <1>2, <1>8, Stays
<1>10. GattOK(g) /\ ReaderOK(r) /\ InStep(g, r, b2) /\ begun' \in Nat
    BY <1>1, <1>2, <1>8 DEF PhoneOK
<1> QED
    BY <1>6, <1>7, <1>9, <1>10, OnePhone

\* getString on the next fragment: the buffer is complete exactly when position is 0 again.
LEMMA WritesOK ==
    ASSUME PhoneInv, NEW p \in Phones, PhoneWrites(p)
    PROVE  PhoneInv'
<1>1. PICK w, g, r, b : w = writing[p] /\ g = gatt[p] /\ r = reader[p] /\ b = latest[p]
    OBVIOUS
<1>2. /\ WritingOK(w) /\ w # Nothing /\ GattOK(g) /\ ReaderOK(r) /\ InStep(g, r, b)
      /\ begun \in Nat
    BY <1>1 DEF PhoneInv, PhoneOK, PhoneWrites
<1>3. /\ Ended(w.bytes) /\ w.done \in Nat /\ w.done < Len(w.bytes) /\ Len(w.bytes) \in Nat
      /\ w = [bytes |-> w.bytes, done |-> w.done]
    BY <1>2, LenProperties DEF WritingOK, Ended
<1>4. PICK bytes, d : bytes = w.bytes /\ d = w.done
    OBVIOUS
<1>5. PICK left, size : left = Len(bytes) - d /\ size = IF left > Mtu THEN Mtu ELSE left
    OBVIOUS
<1>6. /\ size \in Nat \ {0} /\ left \in Nat /\ size <= left /\ d \in Nat
      /\ Len(bytes) \in Nat /\ left = Len(bytes) - d
    BY <1>3, <1>4, <1>5, PhoneConstants
<1>7. PICK frag, last : /\ frag = SubSeq(bytes, d + 1, d + 1 + size - 1) /\ last = (size = left)
                        /\ WriteEvent(p, frag, last)
    BY <1>1, <1>4, <1>5 DEF PhoneWrites
<1>8. (last <=> size = left) /\ Len(frag) = size /\ (frag[Len(frag)] = NUL <=> last)
    <2>1. /\ bytes \in Seq(Char) /\ \A k \in 1..Len(bytes) : bytes[k] = NUL <=> k = Len(bytes)
          /\ frag = SubSeq(bytes, d + 1, d + size)
        BY <1>3, <1>4, <1>6, <1>7 DEF Ended
    <2>2. Len(frag) = size /\ frag[size] = bytes[d + size]
        BY <1>6, <2>1
    <2>3. bytes[d + size] = NUL <=> size = left
        BY <1>6, <2>1
    <2>4. last <=> size = left
        BY <1>7, Zenon
    <2> QED
        BY <2>2, <2>3, <2>4
<1>9. PICK v : v = IF last THEN Nothing ELSE Further(w, Len(frag))
    OBVIOUS
<1>10. WritingOK(v)
    <2>1. CASE last
        BY <1>9, <2>1 DEF WritingOK
    <2>2. CASE ~last
        <3>1. v = [bytes |-> w.bytes, done |-> w.done + Len(frag)]
            BY <1>3, <1>8, <1>9, <2>2 DEF Further
        <3> QED
            BY <1>3, <1>4, <1>6, <1>8, <2>2, <3>1 DEF WritingOK
    <2> QED
        BY <2>1, <2>2
<1>11. /\ writing' = [writing EXCEPT ![p] = v]
       /\ gatt' = IF Fits(g, Len(frag)) THEN [gatt EXCEPT ![p] = Store(g, frag)] ELSE gatt
       /\ latest' = IF Fits(g, Len(frag)) /\ last THEN [latest EXCEPT ![p] = gatt'[p].global_data]
                    ELSE latest
       /\ UNCHANGED <<begun, reader>>
    <2>1. writing' = [writing EXCEPT ![p] = IF last THEN Nothing ELSE Further(writing[p], Len(frag))]
        BY <1>7 DEF WriteEvent
    <2>2. gatt' = IF Fits(gatt[p], Len(frag)) THEN [gatt EXCEPT ![p] = Store(gatt[p], frag)] ELSE gatt
        BY <1>7, Zenon DEF WriteEvent
    <2>3. latest' = IF Fits(gatt[p], Len(frag)) /\ last
                    THEN [latest EXCEPT ![p] = gatt'[p].global_data] ELSE latest
        BY <1>7, Zenon DEF WriteEvent
    <2>4. UNCHANGED <<begun, reader>>
        BY <1>7, Zenon DEF WriteEvent
    <2> QED
        BY <1>1, <1>9, <2>1, <2>2, <2>3, <2>4
<1>12. CASE ~Fits(g, Len(frag))
    <2>1. gatt' = gatt /\ latest' = latest
        BY <1>11, <1>12
    <2>2. /\ gatt' = [gatt EXCEPT ![p] = g] /\ latest' = [latest EXCEPT ![p] = b]
          /\ reader' = [reader EXCEPT ![p] = r]
        BY <1>1, <1>11, <2>1, Stays
    <2> QED
        BY <1>2, <1>10, <1>11, <2>2, OnePhone
<1>13. CASE Fits(g, Len(frag))
    <2>1. PICK h : h = Store(g, frag)
        OBVIOUS
    <2>2. /\ h.position = (IF last THEN 0 ELSE g.position + size)
          /\ h.new_data = (g.new_data \/ last)
          /\ h = [connected |-> h.connected, global_data |-> h.global_data,
                  position |-> h.position, new_data |-> h.new_data]
        BY <1>2, <1>8, <2>1 DEF Store, GattOK
    <2>3. GattOK(h)
        BY <1>2, <1>6, <2>2 DEF GattOK
    <2>4. gatt' = [gatt EXCEPT ![p] = h] /\ gatt'[p] = h
        BY <1>11, <1>13, <2>1 DEF PhoneInv, Functions
    <2>5. CASE last
        <3>1. latest' = [latest EXCEPT ![p] = h.global_data]
            BY <1>11, <1>13, <2>4, <2>5
        <3>2. PICK c : c = h.global_data
            OBVIOUS
        <3>3. InStep(h, r, c)
            BY <2>2, <2>5, <3>2 DEF InStep
        <3>4. latest' = [latest EXCEPT ![p] = c] /\ reader' = [reader EXCEPT ![p] = r]
            BY <1>1, <1>11, <3>1, <3>2, Stays
        <3> QED
            BY <1>2, <1>10, <1>11, <2>3, <2>4, <3>3, <3>4, OnePhone
    <2>6. CASE ~last
        <3>1. latest' = latest
            BY <1>11, <2>6
        <3>2. h.position # 0
            BY <1>2, <1>6, <2>2, <2>6 DEF GattOK
        <3>3. InStep(h, r, b)
            BY <3>2 DEF InStep
        <3>4. latest' = [latest EXCEPT ![p] = b] /\ reader' = [reader EXCEPT ![p] = r]
            BY <1>1, <1>11, <3>1, Stays
        <3> QED
            BY <1>2, <1>10, <1>11, <2>3, <2>4, <3>3, <3>4, OnePhone
    <2> QED
        BY <2>5, <2>6
<1> QED
    BY <1>12, <1>13

\* receiveData and what follows.
LEMMA PollOK ==
    ASSUME PhoneInv, NEW p \in Phones, Poll(p)
    PROVE  PhoneInv'
<1>1. PICK g, r : g = [gatt[p] EXCEPT !.new_data = FALSE] /\ r = [reader[p] EXCEPT !.at = "look"]
    OBVIOUS
<1>2. PhoneOK(p) /\ begun \in Nat
    BY DEF PhoneInv
<1>3. GattOK(g) /\ ReaderOK(r) /\ r.at = "look" /\ g.position = gatt[p].position
      /\ g.global_data = gatt[p].global_data
    BY <1>1, <1>2 DEF PhoneOK, GattOK, ReaderOK
<1>4. InStep(g, r, latest[p])
    BY <1>2, <1>3 DEF PhoneOK, InStep
<1>5. gatt' = [gatt EXCEPT ![p] = g] /\ reader' = [reader EXCEPT ![p] = r]
      /\ UNCHANGED <<begun, writing, latest>>
    BY <1>1 DEF Poll
<1> QED
    BY <1>2, <1>3, <1>4, <1>5, Stays, OnePhone DEF PhoneOK

LEMMA LookOK ==
    ASSUME PhoneInv, NEW p \in Phones, Look(p)
    PROVE  PhoneInv'
<1>1. PICK r : r = [at |-> "copy", telephone_set |-> StartsWith55(gatt[p].global_data),
                    data |-> reader[p].data]
    OBVIOUS
<1>2. PhoneOK(p) /\ begun \in Nat
    BY DEF PhoneInv
<1>3. ReaderOK(r) /\ InStep(gatt[p], r, latest[p])
    BY <1>1, <1>2 DEF PhoneOK, InStep, ReaderOK
<1>4. reader' = [reader EXCEPT ![p] = r] /\ UNCHANGED <<begun, writing, gatt, latest>>
    <2>1. reader' = [reader EXCEPT ![p].at = "copy",
                                   ![p].telephone_set = StartsWith55(gatt[p].global_data)]
        BY DEF Look
    <2>2. reader'[p] = r
        BY <1>1, <1>2, <2>1 DEF PhoneInv, Functions, PhoneOK, ReaderOK
    <2> QED
        BY <2>1, <2>2 DEF Look, PhoneInv, Functions
<1> QED
    BY <1>2, <1>3, <1>4, Stays, OnePhone DEF PhoneOK

LEMMA CopyOK ==
    ASSUME PhoneInv, NEW p \in Phones, Copy(p)
    PROVE  PhoneInv'
<1>1. PICK r : r = [at |-> "send", telephone_set |-> reader[p].telephone_set,
                    data |-> Taken(gatt[p].global_data, reader[p].telephone_set)]
    OBVIOUS
<1>2. PhoneOK(p) /\ begun \in Nat /\ reader[p].at = "copy"
    BY DEF PhoneInv, Copy, ReaderAt
<1>3. ReaderOK(r) /\ InStep(gatt[p], r, latest[p])
    BY <1>1, <1>2 DEF PhoneOK, InStep, ReaderOK
<1>4. reader' = [reader EXCEPT ![p] = r] /\ UNCHANGED <<begun, writing, gatt, latest>>
    <2>1. reader' = [reader EXCEPT ![p].at = "send",
                         ![p].data = Taken(gatt[p].global_data, reader[p].telephone_set)]
        BY DEF Copy
    <2>2. reader'[p] = r
        BY <1>1, <1>2, <2>1 DEF PhoneInv, Functions, PhoneOK, ReaderOK
    <2> QED
        BY <2>1, <2>2 DEF Copy, PhoneInv, Functions
<1> QED
    BY <1>2, <1>3, <1>4, Stays, OnePhone DEF PhoneOK

LEMMA SentOK ==
    ASSUME PhoneInv, NEW p \in Phones, Sent(p)
    PROVE  PhoneInv'
<1>1. PICK r : r = [at |-> "poll", telephone_set |-> FALSE, data |-> reader[p].data]
    OBVIOUS
<1>2. PhoneOK(p) /\ begun \in Nat /\ reader[p].at = "send"
    BY DEF PhoneInv, Sent, ReaderAt
<1>3. ReaderOK(r) /\ InStep(gatt[p], r, latest[p])
    BY <1>1, <1>2 DEF PhoneOK, InStep, ReaderOK
<1>4. reader' = [reader EXCEPT ![p] = r] /\ UNCHANGED <<begun, writing, gatt, latest>>
    <2>1. reader' = [reader EXCEPT ![p].at = "poll", ![p].telephone_set = FALSE]
        BY DEF Sent
    <2>2. reader'[p] = r
        BY <1>1, <1>2, <2>1 DEF PhoneInv, Functions, PhoneOK, ReaderOK
    <2> QED
        BY <2>1, <2>2 DEF Sent, PhoneInv, Functions
<1> QED
    BY <1>2, <1>3, <1>4, Stays, OnePhone DEF PhoneOK

---------------------------------------------------------------------------
LEMMA PhoneStepOK == PhoneInv /\ [PhoneNext]_phoneVars => PhoneInv'
<1> SUFFICES ASSUME PhoneInv, [PhoneNext]_phoneVars PROVE PhoneInv'
    OBVIOUS
<1>1. ASSUME NEW p \in Phones, Phone(p) PROVE PhoneInv'
    BY <1>1, ConnectsOK, BeginsOK, WritesOK, LeavesOK, CancelsOK DEF Phone
<1>2. ASSUME NEW p \in Phones, Reading(p) \/ Sent(p) PROVE PhoneInv'
    BY <1>2, PollOK, LookOK, CopyOK, SentOK DEF Reading
<1>3. ASSUME UNCHANGED phoneVars PROVE PhoneInv'
    BY <1>3 DEF phoneVars, PhoneInv, Functions, PhoneOK
<1> QED
    BY <1>1, <1>2, <1>3 DEF PhoneNext

\* With no text half written and none announced, thread_Bluetooth has read the text that
\* was completed last, whatever the interleaving with the GATT callback
\* (BluetoothManager.cpp:51-81, bluetooth.c:240-257).
THEOREM LastTextIsRead == PhoneSpec => []LastTextRead
<1>1. PhoneInv => LastTextRead
    BY DEF PhoneInv, PhoneOK, InStep, LastTextRead
<1> QED
    BY <1>1, PhoneInitOK, PhoneStepOK, PTL DEF PhoneSpec


---------------------------------------------------------------------------
(***************************************************************************)
(* Types, and what is said of the text in reader: it holds no zero, and a  *)
(* text too long for buf, or a number too long for telephone, is among the *)
(* mishaps.                                                                *)
(***************************************************************************)
Chars(p) == {"letter", "number"} \X {p} \X Nat \X Nat
Bytes(p) == Chars(p) \cup {NUL}

WritingBytes(p, w) == w.bytes \in Seq(Bytes(p)) /\ w.done \in 0..Len(w.bytes)

GattBytes(p, g) ==
    g \in [connected : BOOLEAN, global_data : [Buffer -> Bytes(p)], position : 0..BufferSize,
           new_data : BOOLEAN]

ReaderBytes(p, r, m) ==
    /\ r \in [at : ReaderPcs, telephone_set : BOOLEAN, data : Seq(Chars(p))]
    /\ Len(r.data) <= BufferSize
    /\ m = {} => /\ Len(r.data) < BufSize
                 /\ (r.at = "send" /\ r.telephone_set) => Len(r.data) <= NumberDigits

BytesOK(p) ==
    /\ WritingBytes(p, writing[p]) /\ GattBytes(p, gatt[p]) /\ latest[p] \in [Buffer -> Bytes(p)]
    /\ ReaderBytes(p, reader[p], mishaps[p]) /\ mishaps[p] \subseteq Mishaps

BytesInv == /\ begun \in 0..MaxTexts /\ mishaps = [p \in Phones |-> mishaps[p]]
            /\ \A p \in Phones : BytesOK(p)

\* Every set of numbers has a least one.
LEMMA Least ==
    ASSUME NEW T \in SUBSET Nat, T # {}
    PROVE  \E m \in T : \A j \in T : m <= j
<1>1. PICK m \in T : \A j \in T : <<j, m>> \notin OpToRel(<, Nat)
    BY NatLessThanWellFounded, WFMin
<1>2. \A j \in T : ~(j < m)
    BY <1>1 DEF OpToRel
<1> QED
    BY <1>2

\* A C string read from a phone's bytes: it ends within the buffer and holds no zero.
LEMMA CStringOK ==
    ASSUME NEW p \in Phones, NEW b \in [Buffer -> Bytes(p)], NEW first \in {0, 2}, NEW max \in Nat
    PROVE  CString(b, first, max) \in Seq(Chars(p)) /\ Len(CString(b, first, max)) <= BufferSize
<1> DEFINE stops == {i \in first..BufferSize : i \in {BufferSize, first + max} \/ b[i] = NUL}
           end == CHOOSE i \in stops : \A j \in stops : i <= j
<1>1. BufferSize \in Nat /\ BufferSize > 1
    BY PhoneConstants
<1>2. stops \in SUBSET Nat /\ stops # {}
    <2>1. BufferSize \in stops
        BY <1>1
    <2> QED
        BY <1>1, <2>1
<1>3. \E i \in stops : \A j \in stops : i <= j
    BY <1>2, Least
<1>4. end \in stops /\ \A j \in stops : end <= j
    BY <1>3, Zenon
<1>5. end \in first..BufferSize
    BY <1>4
<1>6. \A i \in first..(end - 1) : i \in Buffer /\ i \notin stops
    <2> HIDE DEF stops, end
    <2> QED
        BY <1>1, <1>4, <1>5 DEF Buffer
<1>7. \A i \in first..(end - 1) : b[i] \in Chars(p)
    <2>1. \A i \in first..(end - 1) : i \in Buffer /\ b[i] # NUL
        BY <1>1, <1>5, <1>6
    <2> QED
        BY <2>1 DEF Bytes
<1>8. CString(b, first, max) = [k \in 1..(end - first) |-> b[first + k - 1]]
    BY DEF CString
<1> HIDE DEF stops, end
<1> DEFINE n == end - first
           s == [k \in 1..n |-> b[first + k - 1]]
<1>9. n \in Nat /\ n <= BufferSize
    BY <1>1, <1>5
<1>10. \A k \in 1..n : b[first + k - 1] \in Chars(p)
    <2> SUFFICES ASSUME NEW k \in 1..n PROVE b[first + k - 1] \in Chars(p)
        OBVIOUS
    <2>1. first + k - 1 \in first..(end - 1)
        BY <1>5
    <2> QED
        BY <1>7, <2>1
<1> HIDE DEF n
<1>11. s \in Seq(Chars(p)) /\ Len(s) = n
    BY <1>9, <1>10, IsASeq
<1>12. CString(b, first, max) = s
    BY <1>8 DEF n
<1> QED
    BY <1>9, <1>11, <1>12

LEMMA TakenOK ==
    ASSUME NEW p \in Phones, NEW b \in [Buffer -> Bytes(p)], NEW telephone \in BOOLEAN
    PROVE  Taken(b, telephone) \in Seq(Chars(p)) /\ Len(Taken(b, telephone)) <= BufferSize
<1>1. BufferSize \in Nat /\ TelephoneBytes \in Nat
    BY PhoneConstants
<1>2. CASE telephone
    BY <1>1, <1>2, CStringOK DEF Taken
<1>3. CASE ~telephone
    BY <1>1, <1>3, CStringOK DEF Taken
<1> QED
    BY <1>2, <1>3

LEMMA BytesInit == PhoneInit => BytesInv
<1> SUFFICES ASSUME PhoneInit PROVE BytesInv
    OBVIOUS
<1>1. begun \in 0..MaxTexts /\ mishaps = [p \in Phones |-> mishaps[p]]
    BY PhoneConstants DEF PhoneInit
<1>2. ASSUME NEW p \in Phones PROVE BytesOK(p)
    <2>1. /\ writing[p] = Nothing /\ latest[p] = Zeroed /\ mishaps[p] = {}
          /\ gatt[p] = [connected |-> FALSE, global_data |-> Zeroed, position |-> 0,
                        new_data |-> FALSE]
          /\ reader[p] = [at |-> "poll", telephone_set |-> FALSE, data |-> <<>>]
        BY DEF PhoneInit
    <2>2. Zeroed \in [Buffer -> Bytes(p)]
        BY DEF Zeroed, Bytes
    <2>3. <<>> \in Seq(Bytes(p)) /\ <<>> \in Seq(Chars(p)) /\ Len(<<>>) = 0
        OBVIOUS
    <2>4. WritingBytes(p, writing[p])
        BY <2>1, <2>3 DEF WritingBytes, Nothing
    <2>5. GattBytes(p, gatt[p])
        BY <2>1, <2>2, PhoneConstants DEF GattBytes
    <2>6. ReaderBytes(p, reader[p], mishaps[p])
        BY <2>1, <2>3, PhoneConstants DEF ReaderBytes, ReaderPcs
    <2> QED
        BY <2>1, <2>2, <2>4, <2>5, <2>6 DEF BytesOK
<1> QED
    BY <1>1, <1>2 DEF BytesInv


\* A step of one phone or of its reader.
LEMMA OnePhoneBytes ==
    ASSUME PhoneInv, BytesInv, NEW p \in Phones, NEW w, NEW g, NEW r, NEW b, NEW m,
           begun' \in 0..MaxTexts,
           writing' = [writing EXCEPT ![p] = w], gatt' = [gatt EXCEPT ![p] = g],
           reader' = [reader EXCEPT ![p] = r], latest' = [latest EXCEPT ![p] = b],
           mishaps' = [mishaps EXCEPT ![p] = m],
           WritingBytes(p, w), GattBytes(p, g), b \in [Buffer -> Bytes(p)],
           ReaderBytes(p, r, m), m \subseteq Mishaps
    PROVE  BytesInv'
<1>1. (mishaps = [q \in Phones |-> mishaps[q]])'
    BY DEF BytesInv
<1>2. ASSUME NEW q \in Phones PROVE BytesOK(q)'
    <2>1. CASE q = p
        <3>1. writing'[q] = w /\ gatt'[q] = g /\ reader'[q] = r /\ latest'[q] = b
              /\ mishaps'[q] = m
            BY <2>1 DEF PhoneInv, Functions, BytesInv
        <3> QED
            BY <2>1, <3>1 DEF BytesOK
    <2>2. CASE q # p
        <3>1. /\ writing'[q] = writing[q] /\ gatt'[q] = gatt[q] /\ reader'[q] = reader[q]
              /\ latest'[q] = latest[q] /\ mishaps'[q] = mishaps[q]
            BY <2>2 DEF PhoneInv, Functions, BytesInv
        <3>2. BytesOK(q)
            BY DEF BytesInv
        <3> QED
            BY <3>1, <3>2 DEF BytesOK
    <2> QED
        BY <2>1, <2>2
<1> QED
    BY <1>1, <1>2 DEF BytesInv

\* What stays is the function with the same value put where it was.
LEMMA MishapsStay ==
    ASSUME BytesInv, NEW p \in Phones
    PROVE  mishaps = [mishaps EXCEPT ![p] = mishaps[p]]
BY DEF BytesInv

LEMMA ConnectsBytes ==
    ASSUME PhoneInv, BytesInv, NEW p \in Phones, PhoneConnects(p)
    PROVE  BytesInv'
<1>1. PICK g : g = [gatt[p] EXCEPT !.connected = TRUE]
    OBVIOUS
<1>2. BytesOK(p) /\ begun \in 0..MaxTexts
    BY DEF BytesInv
<1>3. GattBytes(p, g)
    BY <1>1, <1>2 DEF BytesOK, GattBytes
<1>4. gatt' = [gatt EXCEPT ![p] = g] /\ UNCHANGED <<begun, writing, reader, latest, mishaps>>
    BY <1>1 DEF PhoneConnects
<1> QED
    BY <1>2, <1>3, <1>4, Stays, MishapsStay, OnePhoneBytes DEF BytesOK

\* A mishap more does not weaken what is said of the reader.
LEMMA MishapAdds ==
    ASSUME NEW p, NEW r, NEW m, NEW what \in SUBSET Mishaps, ReaderBytes(p, r, m), m \subseteq Mishaps
    PROVE  ReaderBytes(p, r, m \cup what) /\ m \cup what \subseteq Mishaps
BY DEF ReaderBytes

LEMMA LeavesBytes ==
    ASSUME PhoneInv, BytesInv, NEW p \in Phones, PhoneLeaves(p)
    PROVE  BytesInv'
<1>1. PICK g, m : /\ g = [gatt[p] EXCEPT !.connected = FALSE]
                  /\ m = mishaps[p] \cup Abandoned(p)
    OBVIOUS
<1>2. BytesOK(p) /\ begun \in 0..MaxTexts
    BY DEF BytesInv
<1>3. GattBytes(p, g)
    BY <1>1, <1>2 DEF BytesOK, GattBytes
<1>4. ReaderBytes(p, reader[p], m) /\ m \subseteq Mishaps
    <2>1. Abandoned(p) \in SUBSET Mishaps
        BY DEF Abandoned, Mishaps
    <2> QED
        BY <1>1, <1>2, <2>1, MishapAdds DEF BytesOK
<1>5. /\ gatt' = [gatt EXCEPT ![p] = g] /\ writing' = [writing EXCEPT ![p] = Nothing]
      /\ mishaps' = [mishaps EXCEPT ![p] = m] /\ UNCHANGED <<begun, reader, latest>>
    BY <1>1 DEF PhoneLeaves, Mishap
<1>6. WritingBytes(p, Nothing)
    BY DEF WritingBytes, Nothing
<1> QED
    BY <1>2, <1>3, <1>4, <1>5, <1>6, Stays, OnePhoneBytes DEF BytesOK

LEMMA CancelsBytes ==
    ASSUME PhoneInv, BytesInv, NEW p \in Phones, PhoneCancels(p)
    PROVE  BytesInv'
<1>1. PICK m : m = mishaps[p] \cup Abandoned(p)
    OBVIOUS
<1>2. BytesOK(p) /\ begun \in 0..MaxTexts
    BY DEF BytesInv
<1>3. ReaderBytes(p, reader[p], m) /\ m \subseteq Mishaps
    <2>1. Abandoned(p) \in SUBSET Mishaps
        BY DEF Abandoned, Mishaps
    <2> QED
        BY <1>1, <1>2, <2>1, MishapAdds DEF BytesOK
<1>4. /\ writing' = [writing EXCEPT ![p] = Nothing]
      /\ mishaps' = [mishaps EXCEPT ![p] = m] /\ UNCHANGED <<begun, gatt, reader, latest>>
    BY <1>1 DEF PhoneCancels, Mishap
<1>5. WritingBytes(p, Nothing)
    BY DEF WritingBytes, Nothing
<1> QED
    BY <1>2, <1>3, <1>4, <1>5, Stays, OnePhoneBytes DEF BytesOK

\* The content of a text, of the phone's own characters.
LEMMA ContentChars ==
    ASSUME NEW p \in Phones, NEW kind \in {"letter", "number"}, NEW n \in Nat, NEW len \in Nat
    PROVE  Append(Content(kind, p, n, len), NUL) \in Seq(Bytes(p))
<1>1. \A k \in 1..len : <<kind, p, n, k>> \in Bytes(p)
    BY DEF Bytes, Chars
<1>2. Content(kind, p, n, len) \in Seq(Bytes(p))
    BY <1>1, IsASeq DEF Content
<1>3. NUL \in Bytes(p)
    BY DEF Bytes
<1> QED
    BY <1>2, <1>3, AppendProperties

LEMMA BeginsBytes ==
    ASSUME PhoneInv, BytesInv, NEW p \in Phones, PhoneBegins(p)
    PROVE  BytesInv'
<1>1. BytesOK(p) /\ begun \in 0..MaxTexts
    BY DEF BytesInv
<1>2. /\ begun' = begun + 1 /\ begun < MaxTexts /\ writing[p] = Nothing
      /\ UNCHANGED <<gatt, reader, latest, mishaps>>
    BY DEF PhoneBegins
<1>3. begun' \in 0..MaxTexts /\ begun' \in Nat
    BY <1>1, <1>2, PhoneConstants
<1>4. PICK text : /\ Append(text, NUL) \in Seq(Bytes(p))
                  /\ writing' = [writing EXCEPT ![p].bytes = Append(text, NUL)]
    <2>1. TextLengths \subseteq Nat /\ NumberLengths \subseteq Nat
        BY PhoneConstants
    <2>2. PICK text \in {Content("letter", p, begun', n) : n \in TextLengths}
                   \cup {Content("number", p, begun', n + 2) : n \in NumberLengths} :
              writing' = [writing EXCEPT ![p].bytes = Append(text, NUL)]
        BY DEF PhoneBegins
    <2>3. \E kind \in {"letter", "number"}, n \in Nat : text = Content(kind, p, begun', n)
        BY <2>1, <2>2
    <2> QED
        BY <1>3, <2>2, <2>3, ContentChars
<1>5. PICK b : b = Append(text, NUL)
    OBVIOUS
<1>6. PICK w : w = [bytes |-> b, done |-> 0]
    OBVIOUS
<1>7. WritingBytes(p, w)
    <2>1. b \in Seq(Bytes(p)) /\ Len(b) \in Nat
        BY <1>4, <1>5, LenProperties
    <2> QED
        BY <1>6, <2>1 DEF WritingBytes
<1>8. writing' = [writing EXCEPT ![p] = w]
    <2>1. [Nothing EXCEPT !.bytes = b] = w
        BY <1>6 DEF Nothing
    <2> QED
        BY <1>2, <1>4, <1>5, <2>1
<1> QED
    BY <1>1, <1>2, <1>3, <1>7, <1>8, Stays, MishapsStay, OnePhoneBytes DEF BytesOK


\* getString keeps the buffer one of the phone's bytes, and position within it.
LEMMA StoreBytes ==
    ASSUME NEW p \in Phones, NEW g, GattBytes(p, g), NEW frag \in Seq(Bytes(p)), Fits(g, Len(frag))
    PROVE  GattBytes(p, Store(g, frag))
<1> DEFINE end  == g.position + Len(frag)
           done == frag[Len(frag)] = NUL
           data == [i \in Buffer |->
                       IF i \in g.position..(end - 1) THEN frag[i - g.position + 1]
                       ELSE IF i = end /\ done THEN NUL ELSE g.global_data[i]]
<1>1. /\ Len(frag) \in Nat /\ BufferSize \in Nat /\ g.position \in 0..BufferSize
      /\ end \in 0..BufferSize
    BY LenProperties, PhoneConstants DEF GattBytes, Fits
<1>2. data \in [Buffer -> Bytes(p)]
    <2>1. ASSUME NEW i \in Buffer PROVE data[i] \in Bytes(p)
        <3>1. i \in Int
            BY <1>1 DEF Buffer
        <3>2. CASE i \in g.position..(end - 1)
            <4>1. i - g.position + 1 \in 1..Len(frag)
                BY <1>1, <3>1, <3>2
            <4>2. frag[i - g.position + 1] \in Bytes(p)
                BY <4>1, ElementOfSeq
            <4> QED
                BY <3>2, <4>2
        <3>3. CASE i \notin g.position..(end - 1)
            <4>1. g.global_data[i] \in Bytes(p) /\ NUL \in Bytes(p)
                BY DEF GattBytes, Bytes
            <4> QED
                BY <3>3, <4>1
        <3> QED
            BY <3>2, <3>3
    <2> QED
        BY <2>1
<1>3. Store(g, frag) = [g EXCEPT !.global_data = data, !.new_data = @ \/ done,
                                 !.position = IF done THEN 0 ELSE end]
    BY DEF Store
<1>4. done \in BOOLEAN
    OBVIOUS
<1> HIDE DEF data, done, end
<1>5. (IF done THEN 0 ELSE end) \in 0..BufferSize
    BY <1>1
<1>6. g.new_data \/ done \in BOOLEAN
    BY <1>4 DEF GattBytes
<1> QED
    BY <1>2, <1>3, <1>5, <1>6 DEF GattBytes

LEMMA WritesBytes ==
    ASSUME PhoneInv, BytesInv, NEW p \in Phones, PhoneWrites(p)
    PROVE  BytesInv'
<1>1. PICK w, g, m : w = writing[p] /\ g = gatt[p] /\ m = mishaps[p]
    OBVIOUS
<1>2. /\ WritingBytes(p, w) /\ GattBytes(p, g) /\ latest[p] \in [Buffer -> Bytes(p)]
      /\ ReaderBytes(p, reader[p], m) /\ m \subseteq Mishaps /\ begun \in 0..MaxTexts
    BY <1>1 DEF BytesInv, BytesOK
<1>3. w \in {Nothing} \/ w = [bytes |-> w.bytes, done |-> w.done]
    BY <1>1 DEF PhoneInv, PhoneOK, WritingOK
<1>4. PICK bytes, d : bytes = w.bytes /\ d = w.done
    OBVIOUS
<1>5. bytes \in Seq(Bytes(p)) /\ Len(bytes) \in Nat /\ d \in 0..Len(bytes)
    BY <1>2, <1>4, LenProperties DEF WritingBytes
<1>6. PICK left, size : left = Len(bytes) - d /\ size = IF left > Mtu THEN Mtu ELSE left
    OBVIOUS
<1>7. left \in Nat /\ size \in Nat /\ size <= left
    BY <1>5, <1>6, PhoneConstants
<1>8. PICK frag, last : /\ frag = SubSeq(bytes, d + 1, d + 1 + size - 1) /\ last = (size = left)
                        /\ WriteEvent(p, frag, last)
    BY <1>1, <1>4, <1>6 DEF PhoneWrites
<1>9. frag \in Seq(Bytes(p)) /\ Len(frag) = size
    <2>1. frag = SubSeq(bytes, d + 1, d + size)
        BY <1>5, <1>7, <1>8
    <2>2. d + 1 \in 1..Len(bytes) + 1 /\ d + size \in d..Len(bytes)
        BY <1>5, <1>6, <1>7
    <2> QED
        BY <1>5, <1>7, <2>1, <2>2
<1>10. PICK v : v = IF last THEN Nothing ELSE Further(w, Len(frag))
    OBVIOUS
<1>11. WritingBytes(p, v)
    <2>1. CASE last
        BY <1>10, <2>1 DEF WritingBytes, Nothing
    <2>2. CASE ~last
        <3>1. w = [bytes |-> bytes, done |-> d]
            BY <1>3, <1>4 DEF Nothing
        <3>2. v = [bytes |-> bytes, done |-> d + size]
            BY <1>9, <1>10, <2>2, <3>1 DEF Further
        <3> QED
            BY <1>5, <1>6, <1>7, <3>2 DEF WritingBytes
    <2> QED
        BY <2>1, <2>2
<1>12. PICK n : /\ mishaps' = [mishaps EXCEPT ![p] = n]
                /\ \E what \in SUBSET Mishaps : n = m \cup what
    <2>1. \E what \in SUBSET Mishaps : Mishap(p, what)
        BY <1>8 DEF WriteEvent, Mishaps
    <2>2. PICK what \in SUBSET Mishaps : Mishap(p, what)
        BY <2>1
    <2>3. mishaps' = [mishaps EXCEPT ![p] = m \cup what]
        BY <1>1, <2>2 DEF Mishap
    <2> QED
        BY <2>3
<1>13. ReaderBytes(p, reader[p], n) /\ n \subseteq Mishaps
    BY <1>2, <1>12, MishapAdds
<1>14. /\ writing' = [writing EXCEPT ![p] = v]
       /\ gatt' = IF Fits(g, Len(frag)) THEN [gatt EXCEPT ![p] = Store(g, frag)] ELSE gatt
       /\ latest' = IF Fits(g, Len(frag)) /\ last THEN [latest EXCEPT ![p] = gatt'[p].global_data]
                    ELSE latest
       /\ UNCHANGED <<begun, reader>>
    <2>1. writing' = [writing EXCEPT ![p] = IF last THEN Nothing ELSE Further(writing[p], Len(frag))]
        BY <1>8 DEF WriteEvent
    <2>2. gatt' = IF Fits(gatt[p], Len(frag)) THEN [gatt EXCEPT ![p] = Store(gatt[p], frag)] ELSE gatt
        BY <1>8, Zenon DEF WriteEvent
    <2>3. latest' = IF Fits(gatt[p], Len(frag)) /\ last
                    THEN [latest EXCEPT ![p] = gatt'[p].global_data] ELSE latest
        BY <1>8, Zenon DEF WriteEvent
    <2>4. UNCHANGED <<begun, reader>>
        BY <1>8, Zenon DEF WriteEvent
    <2> QED
        BY <1>1, <1>10, <2>1, <2>2, <2>3, <2>4
<1>15. PICK h : GattBytes(p, h) /\ gatt' = [gatt EXCEPT ![p] = h]
    <2>1. CASE Fits(g, Len(frag))
        BY <1>2, <1>9, <1>14, <2>1, StoreBytes
    <2>2. CASE ~Fits(g, Len(frag))
        BY <1>1, <1>2, <1>14, <2>2, Stays
    <2> QED
        BY <2>1, <2>2
<1>16. PICK b : b \in [Buffer -> Bytes(p)] /\ latest' = [latest EXCEPT ![p] = b]
    <2>1. gatt'[p] = h /\ h.global_data \in [Buffer -> Bytes(p)]
        BY <1>15 DEF PhoneInv, Functions, GattBytes
    <2>2. CASE Fits(g, Len(frag)) /\ last
        BY <1>14, <2>1, <2>2
    <2>3. CASE ~(Fits(g, Len(frag)) /\ last)
        BY <1>2, <1>14, <2>3, Stays
    <2> QED
        BY <2>2, <2>3
<1>17. PICK r : r = reader[p]
    OBVIOUS
<1>18. reader' = [reader EXCEPT ![p] = r] /\ ReaderBytes(p, r, n) /\ begun' \in 0..MaxTexts
    BY <1>2, <1>13, <1>14, <1>17, Stays
<1> QED
    BY <1>11, <1>12, <1>13, <1>14, <1>15, <1>16, <1>18, OnePhoneBytes


LEMMA PollBytes ==
    ASSUME PhoneInv, BytesInv, NEW p \in Phones, Poll(p)
    PROVE  BytesInv'
<1>1. PICK g, r : g = [gatt[p] EXCEPT !.new_data = FALSE] /\ r = [reader[p] EXCEPT !.at = "look"]
    OBVIOUS
<1>2. BytesOK(p) /\ begun \in 0..MaxTexts
    BY DEF BytesInv
<1>3. GattBytes(p, g) /\ ReaderBytes(p, r, mishaps[p])
    BY <1>1, <1>2 DEF BytesOK, GattBytes, ReaderBytes, ReaderPcs
<1>4. gatt' = [gatt EXCEPT ![p] = g] /\ reader' = [reader EXCEPT ![p] = r]
      /\ UNCHANGED <<begun, writing, latest, mishaps>>
    BY <1>1 DEF Poll
<1> QED
    BY <1>2, <1>3, <1>4, Stays, MishapsStay, OnePhoneBytes DEF BytesOK

LEMMA LookBytes ==
    ASSUME PhoneInv, BytesInv, NEW p \in Phones, Look(p)
    PROVE  BytesInv'
<1>1. PICK r : r = [at |-> "copy", telephone_set |-> StartsWith55(gatt[p].global_data),
                    data |-> reader[p].data]
    OBVIOUS
<1>2. BytesOK(p) /\ PhoneOK(p) /\ begun \in 0..MaxTexts
    BY DEF BytesInv, PhoneInv
<1>3. ReaderBytes(p, r, mishaps[p])
    <2>1. StartsWith55(gatt[p].global_data) \in BOOLEAN
        BY DEF StartsWith55, IsFive
    <2> QED
        BY <1>1, <1>2, <2>1 DEF BytesOK, ReaderBytes, ReaderPcs
<1>4. reader' = [reader EXCEPT ![p] = r] /\ UNCHANGED <<begun, writing, gatt, latest, mishaps>>
    <2>1. reader' = [reader EXCEPT ![p].at = "copy",
                                   ![p].telephone_set = StartsWith55(gatt[p].global_data)]
        BY DEF Look
    <2>2. reader'[p] = r
        BY <1>1, <1>2, <2>1 DEF PhoneInv, Functions, PhoneOK, ReaderOK
    <2> QED
        BY <2>1, <2>2 DEF Look, PhoneInv, Functions
<1> QED
    BY <1>2, <1>3, <1>4, Stays, MishapsStay, OnePhoneBytes DEF BytesOK

\* What is too long is noted when it is copied.
LEMMA CopyBytes ==
    ASSUME PhoneInv, BytesInv, NEW p \in Phones, Copy(p)
    PROVE  BytesInv'
<1>1. PICK data, tel : data = Taken(gatt[p].global_data, tel) /\ tel = reader[p].telephone_set
    OBVIOUS
<1>2. PICK r : r = [at |-> "send", telephone_set |-> tel, data |-> data]
    OBVIOUS
<1>3. PICK what : what = IF Len(data) >= BufSize \/ (tel /\ Len(data) > NumberDigits)
                         THEN {"tooLong"} ELSE {}
    OBVIOUS
<1>4. BytesOK(p) /\ PhoneOK(p) /\ begun \in 0..MaxTexts
    BY DEF BytesInv, PhoneInv
<1>5. tel \in BOOLEAN /\ data \in Seq(Chars(p)) /\ Len(data) <= BufferSize /\ Len(data) \in Nat
    <2>1. tel \in BOOLEAN /\ gatt[p].global_data \in [Buffer -> Bytes(p)]
        BY <1>1, <1>4 DEF BytesOK, ReaderBytes, GattBytes
    <2> QED
        BY <1>1, <2>1, TakenOK, LenProperties
<1>6. PICK m : m = mishaps[p] \cup what
    OBVIOUS
<1>7. m \subseteq Mishaps
    BY <1>3, <1>4, <1>6 DEF BytesOK, Mishaps
<1>8. m = {} => Len(data) < BufSize /\ (tel => Len(data) <= NumberDigits)
    <2>1. m = {} => ~(Len(data) >= BufSize \/ (tel /\ Len(data) > NumberDigits))
        BY <1>3, <1>6
    <2>2. BufSize \in Nat /\ NumberDigits \in Nat
        BY PhoneConstants
    <2>3. m = {} => Len(data) < BufSize
        BY <1>5, <2>1, <2>2
    <2>4. m = {} /\ tel => Len(data) <= NumberDigits
        BY <1>5, <2>1, <2>2
    <2> QED
        BY <2>3, <2>4
<1>9. ReaderBytes(p, r, m)
    BY <1>2, <1>5, <1>8 DEF ReaderBytes, ReaderPcs
<1>10. reader' = [reader EXCEPT ![p] = r] /\ UNCHANGED <<begun, writing, gatt, latest>>
    <2>1. reader' = [reader EXCEPT ![p].at = "send", ![p].data = data]
        BY <1>1 DEF Copy
    <2>2. reader'[p] = r
        BY <1>1, <1>2, <1>4, <2>1 DEF PhoneInv, Functions, PhoneOK, ReaderOK
    <2> QED
        BY <2>1, <2>2 DEF Copy, PhoneInv, Functions
<1>11. mishaps' = [mishaps EXCEPT ![p] = m]
    BY <1>1, <1>3, <1>6 DEF Copy, Mishap
<1> QED
    BY <1>4, <1>7, <1>9, <1>10, <1>11, Stays, OnePhoneBytes DEF BytesOK

LEMMA SentBytes ==
    ASSUME PhoneInv, BytesInv, NEW p \in Phones, Sent(p)
    PROVE  BytesInv'
<1>1. PICK r : r = [at |-> "poll", telephone_set |-> FALSE, data |-> reader[p].data]
    OBVIOUS
<1>2. BytesOK(p) /\ PhoneOK(p) /\ begun \in 0..MaxTexts
    BY DEF BytesInv, PhoneInv
<1>3. ReaderBytes(p, r, mishaps[p])
    BY <1>1, <1>2 DEF BytesOK, ReaderBytes, ReaderPcs
<1>4. reader' = [reader EXCEPT ![p] = r] /\ UNCHANGED <<begun, writing, gatt, latest, mishaps>>
    <2>1. reader' = [reader EXCEPT ![p].at = "poll", ![p].telephone_set = FALSE]
        BY DEF Sent
    <2>2. reader'[p] = r
        BY <1>1, <1>2, <2>1 DEF PhoneInv, Functions, PhoneOK, ReaderOK
    <2> QED
        BY <2>1, <2>2 DEF Sent, PhoneInv, Functions
<1> QED
    BY <1>2, <1>3, <1>4, Stays, MishapsStay, OnePhoneBytes DEF BytesOK

LEMMA BytesStep == PhoneInv /\ BytesInv /\ [PhoneNext]_phoneVars => BytesInv'
<1> SUFFICES ASSUME PhoneInv, BytesInv, [PhoneNext]_phoneVars PROVE BytesInv'
    OBVIOUS
<1>1. ASSUME NEW p \in Phones, Phone(p) PROVE BytesInv'
    BY <1>1, ConnectsBytes, BeginsBytes, WritesBytes, LeavesBytes, CancelsBytes DEF Phone
<1>2. ASSUME NEW p \in Phones, Reading(p) \/ Sent(p) PROVE BytesInv'
    BY <1>2, PollBytes, LookBytes, CopyBytes, SentBytes DEF Reading
<1>3. ASSUME UNCHANGED phoneVars PROVE BytesInv'
    BY <1>3 DEF phoneVars, BytesInv, BytesOK
<1> QED
    BY <1>1, <1>2, <1>3 DEF PhoneNext

LEMMA BytesInvariant == PhoneSpec => [](PhoneInv /\ BytesInv)
BY PhoneInitOK, PhoneStepOK, BytesInit, BytesStep, PTL DEF PhoneSpec

\* position never leaves global_data, and no text is longer than it: the GATT callback's
\* bound check (bluetooth.c:244) and receiveData's zero at the end (BluetoothManager.cpp:58)
\* are enough, whatever the phones write and whenever they leave or cancel.
THEOREM PhonesTypeCorrect == PhoneSpec => []PhoneTypeOK
<1>1. BytesInv => PhoneTypeOK
    <2> SUFFICES ASSUME BytesInv PROVE PhoneTypeOK
        OBVIOUS
    <2>1. ASSUME NEW p \in Phones
          PROVE  /\ gatt[p].connected \in BOOLEAN /\ gatt[p].new_data \in BOOLEAN
                 /\ gatt[p].position \in 0..BufferSize
                 /\ DOMAIN gatt[p].global_data = Buffer /\ DOMAIN latest[p] = Buffer
                 /\ reader[p].at \in ReaderPcs /\ reader[p].telephone_set \in BOOLEAN
                 /\ Len(reader[p].data) <= BufferSize
                 /\ writing[p].done \in 0..Len(writing[p].bytes)
                 /\ mishaps[p] \subseteq Mishaps
        <3>1. BytesOK(p)
            BY DEF BytesInv
        <3> QED
            BY <3>1 DEF BytesOK, GattBytes, ReaderBytes, WritingBytes
    <2> QED
        BY <2>1 DEF BytesInv, PhoneTypeOK
<1> QED
    BY <1>1, BytesInvariant, PTL

---------------------------------------------------------------------------
(***************************************************************************)
(* What is written is what is read.  As long as nothing has gone wrong     *)
(* with a phone's texts, the buffer holds the beginning of the text that   *)
(* is being written, or, from new_data to the copy, the text written last; *)
(* and the reader's data is that text, or the one before if another is     *)
(* announced already.  The number keeps its end only if what is too long   *)
(* for LoraManager::telephone is noticed before receiveData cuts it off    *)
(* (NumberDigits < TelephoneBytes: "+55" comes in front of it there, and   *)
(* both arrays have 15 bytes, BluetoothManager.h:13, LoraManager.h:45).    *)
(***************************************************************************)
Said(s) == IF IsNumber(s) THEN Behind55(s) ELSE s

\* A number is not only its "55".
Writes(p, s) == s \in Seq(Chars(p)) /\ (IsNumber(s) => Len(s) > 2 /\ s[3][1] = "number")

Holds(b, s) == Len(s) < BufferSize /\ b[Len(s)] = NUL /\ \A k \in 1..Len(s) : b[k - 1] = s[k]

Announced(g, r) == g.new_data \/ r.at \in {"look", "copy"}

\* Which of the texts written is the one at "send".
HeldAt(g, s) == IF g.new_data THEN Len(s) - 1 ELSE Len(s)

WriteOK(w, g, r) ==
    /\ g.position = w.done
    /\ w.done > 0 => ~Announced(g, r) /\ \A k \in 1..w.done : g.global_data[k - 1] = w.bytes[k]

LookedOK(g, r, s) ==
    /\ ~(g.new_data /\ r.at \in {"look", "copy"})
    /\ Announced(g, r) => Len(s) > 0 /\ Holds(g.global_data, s[Len(s)])
    /\ r.at = "copy" => r.telephone_set = IsNumber(s[Len(s)])

HeldOK(g, r, s) ==
    r.at = "send" => /\ HeldAt(g, s) > 0
                     /\ r.telephone_set = IsNumber(s[HeldAt(g, s)])
                     /\ r.data = Said(s[HeldAt(g, s)])

ReadOK(w, g, r, s) == WriteOK(w, g, r) /\ LookedOK(g, r, s) /\ HeldOK(g, r, s)

WrittenOK(p, w, s) ==
    /\ w # Nothing => Writes(p, SubSeq(w.bytes, 1, Len(w.bytes) - 1))
    /\ s \in Seq(Seq(Chars(p))) /\ \A i \in 1..Len(s) : Writes(p, s[i])

ReadInv ==
    /\ written = [p \in Phones |-> written[p]] /\ \A p \in Phones : WrittenOK(p, writing[p], written[p])
    /\ \A p \in Phones :
           mishaps[p] = {} => ReadOK(writing[p], gatt[p], reader[p], written[p])

\* A C string of a text in the buffer.
LEMMA HeldString ==
    ASSUME NEW p, NEW b, NEW s \in Seq(Chars(p)), Holds(b, s), NEW first \in {0, 2}, NEW max \in Nat,
           first <= Len(s), NEW n, n = IF Len(s) - first <= max THEN Len(s) - first ELSE max
    PROVE  CString(b, first, max) = [k \in 1..n |-> s[first + k]]
<1> DEFINE stops == {i \in first..BufferSize : i \in {BufferSize, first + max} \/ b[i] = NUL}
           end == CHOOSE i \in stops : \A j \in stops : i <= j
<1>1. BufferSize \in Nat /\ Len(s) \in Nat /\ Len(s) < BufferSize /\ n \in Nat
    BY PhoneConstants, LenProperties DEF Holds
<1>2. b[Len(s)] = NUL /\ \A k \in 1..Len(s) : b[k - 1] = s[k] /\ s[k] # NUL
    <2>1. ASSUME NEW k \in 1..Len(s) PROVE s[k] # NUL
        <3>1. s[k] \in Chars(p)
            BY ElementOfSeq
        <3> QED
            BY <3>1 DEF Chars, NUL
    <2> QED
        BY <2>1 DEF Holds
<1>3. first + n \in stops
    <2>1. CASE Len(s) - first <= max
        BY <1>1, <1>2, <2>1
    <2>2. CASE ~(Len(s) - first <= max)
        BY <1>1, <2>2
    <2> QED
        BY <2>1, <2>2
<1>4. \A j \in stops : first + n <= j
    <2> SUFFICES ASSUME NEW j \in first..BufferSize, j < first + n
                 PROVE  j \notin {BufferSize, first + max} /\ b[j] # NUL
        BY <1>1
    <2>1. j + 1 \in 1..Len(s) /\ j = (j + 1) - 1
        BY <1>1
    <2>2. b[j] # NUL
        BY <1>2, <2>1
    <2> QED
        BY <1>1, <2>2
<1>5. stops \subseteq Int
    BY <1>1
<1>6. \A x \in stops : (\A j \in stops : x <= j) => x = first + n
    <2> HIDE DEF stops
    <2> QED
        BY <1>1, <1>3, <1>4, <1>5
<1>7. end \in stops /\ \A j \in stops : end <= j
    BY <1>3, <1>4, Zenon
<1>8. end = first + n
    BY <1>6, <1>7, Zenon
<1>9. CString(b, first, max) = [k \in 1..(end - first) |-> b[first + k - 1]]
    BY DEF CString
<1> HIDE DEF end, stops
<1>10. CString(b, first, max) = [k \in 1..n |-> b[first + k - 1]]
    BY <1>1, <1>8, <1>9
<1>11. \A k \in 1..n : b[first + k - 1] = s[first + k]
    <2> SUFFICES ASSUME NEW k \in 1..n PROVE b[first + k - 1] = s[first + k]
        OBVIOUS
    <2>1. first + k \in 1..Len(s)
        BY <1>1
    <2> QED
        BY <1>2, <2>1
<1> QED
    BY <1>10, <1>11

LEMMA HeldStarts ==
    ASSUME NEW p, NEW b, NEW s \in Seq(Chars(p)), Holds(b, s)
    PROVE  StartsWith55(b) = IsNumber(s)
<1>1. Len(s) \in Nat /\ ~IsFive(NUL)
    BY LenProperties DEF IsFive, NUL
<1>2. CASE Len(s) = 0
    BY <1>1, <1>2 DEF Holds, StartsWith55, IsNumber
<1>3. CASE Len(s) = 1
    BY <1>1, <1>3 DEF Holds, StartsWith55, IsNumber
<1>4. CASE Len(s) >= 2
    <2>1. 1 \in 1..Len(s) /\ 2 \in 1..Len(s) /\ 1 - 1 = 0 /\ 2 - 1 = 1
        BY <1>1, <1>4
    <2>2. b[0] = s[1] /\ b[1] = s[2]
        BY <2>1 DEF Holds
    <2> QED
        BY <1>4, <2>2 DEF StartsWith55, IsNumber
<1>5. Len(s) \in Nat
    BY LenProperties
<1>6. \A n \in Nat : n = 0 \/ n = 1 \/ n >= 2
    OBVIOUS
<1> QED
    BY <1>2, <1>3, <1>4, <1>5, <1>6, Zenon

\* What receiveData takes is what was written, unless it is too long.
LEMMA HeldTaken ==
    ASSUME NumberDigits < TelephoneBytes, NEW p, NEW b, NEW s \in Seq(Chars(p)), Holds(b, s),
           IsNumber(s) => Len(Taken(b, TRUE)) <= NumberDigits
    PROVE  Taken(b, IsNumber(s)) = Said(s)
<1>1. /\ BufferSize \in Nat /\ TelephoneBytes \in Nat /\ NumberDigits \in Nat
      /\ Len(s) \in Nat /\ Len(s) < BufferSize
    BY PhoneConstants, LenProperties DEF Holds
<1>2. CASE ~IsNumber(s)
    <2>1. Taken(b, IsNumber(s)) = CString(b, 0, BufferSize)
        BY <1>2 DEF Taken
    <2>2. CString(b, 0, BufferSize) = [k \in 1..Len(s) |-> s[0 + k]]
        BY <1>1, HeldString
    <2>3. \A k \in 1..Len(s) : s[0 + k] = s[k]
        BY <1>1
    <2>4. [k \in 1..Len(s) |-> s[0 + k]] = [k \in 1..Len(s) |-> s[k]]
        BY <2>3
    <2>5. s = [k \in 1..Len(s) |-> s[k]]
        OBVIOUS
    <2> QED
        BY <1>2, <2>1, <2>2, <2>4, <2>5 DEF Said
<1>3. CASE IsNumber(s)
    <2>0. PICK n : n = IF Len(s) - 2 <= TelephoneBytes THEN Len(s) - 2 ELSE TelephoneBytes
        OBVIOUS
    <2>1. Taken(b, TRUE) = CString(b, 2, TelephoneBytes) /\ Len(s) >= 2
        BY <1>3 DEF Taken, IsNumber
    <2>2. CString(b, 2, TelephoneBytes) = [k \in 1..n |-> s[2 + k]]
        BY <1>1, <2>0, <2>1, HeldString
    <2>3. n \in Nat
        BY <1>1, <2>0, <2>1
    <2>4. Len([k \in 1..n |-> s[2 + k]]) = n
        BY <2>3
    <2>5. n <= NumberDigits
        BY <1>3, <2>1, <2>2, <2>4
    <2>6. n = Len(s) - 2
        BY <1>1, <2>0, <2>5
    <2>7. \A k \in 1..n : s[2 + k] = s[k + 2]
        BY <2>3
    <2>8. [k \in 1..n |-> s[2 + k]] = [k \in 1..n |-> s[k + 2]]
        BY <2>7
    <2> QED
        BY <1>3, <2>1, <2>2, <2>6, <2>8 DEF Said, Behind55
<1> QED
    BY <1>2, <1>3

\* A part of a sequence.
LEMMA Slice ==
    ASSUME NEW S, NEW s \in Seq(S), NEW a \in Nat, NEW n \in Nat, a + n <= Len(s)
    PROVE  /\ SubSeq(s, a + 1, a + n) \in Seq(S) /\ Len(SubSeq(s, a + 1, a + n)) = n
           /\ \A j \in 1..n : SubSeq(s, a + 1, a + n)[j] = s[a + j]
<1>1. \A i \in (a + 1)..(a + n) : s[i] \in S
    <2> SUFFICES ASSUME NEW i \in (a + 1)..(a + n) PROVE s[i] \in S
        OBVIOUS
    <2>1. i \in 1..Len(s)
        BY LenProperties
    <2> QED
        BY <2>1, ElementOfSeq
<1>2. PICK t : t = SubSeq(s, a + 1, a + n)
    OBVIOUS
<1>3. /\ t \in Seq(S) /\ Len(t) = IF a + 1 <= a + n THEN (a + n) - (a + 1) + 1 ELSE 0
      /\ \A i \in 1..((a + n) - (a + 1) + 1) : t[i] = s[(a + 1) + i - 1]
    BY <1>1, <1>2, SubSeqProperties
<1>4. (a + n) - (a + 1) + 1 = n /\ (a + 1 <= a + n <=> n # 0)
    OBVIOUS
<1>5. \A i \in 1..n : (a + 1) + i - 1 = a + i
    OBVIOUS
<1>6. t \in Seq(S) /\ Len(t) = n /\ \A j \in 1..n : t[j] = s[a + j]
    BY <1>3, <1>4, <1>5
<1> QED
    BY <1>2, <1>6

LEMMA ReadInit == PhoneInit => ReadInv
<1> SUFFICES ASSUME PhoneInit PROVE ReadInv
    OBVIOUS
<1>1. written = [p \in Phones |-> written[p]] /\ \A p \in Phones : written[p] = <<>>
    BY DEF PhoneInit
<1>2. ASSUME NEW p \in Phones PROVE WrittenOK(p, writing[p], written[p])
    <2>1. \A S : <<>> \in Seq(S) /\ Len(<<>>) = 0
        OBVIOUS
    <2>2. written[p] = <<>> /\ written[p] \in Seq(Seq(Chars(p))) /\ writing[p] = Nothing
        BY <1>1, <2>1 DEF PhoneInit
    <2> QED
        BY <2>1, <2>2 DEF WrittenOK
<1>3. ASSUME NEW p \in Phones PROVE ReadOK(writing[p], gatt[p], reader[p], written[p])
    <2>1. /\ writing[p] = Nothing
          /\ gatt[p] = [connected |-> FALSE, global_data |-> Zeroed, position |-> 0,
                        new_data |-> FALSE]
          /\ reader[p] = [at |-> "poll", telephone_set |-> FALSE, data |-> <<>>]
        BY DEF PhoneInit
    <2>2. ~Announced(gatt[p], reader[p])
        BY <2>1 DEF Announced
    <2>3. WriteOK(writing[p], gatt[p], reader[p])
        BY <2>1 DEF WriteOK, Nothing
    <2>4. LookedOK(gatt[p], reader[p], written[p])
        BY <2>1, <2>2 DEF LookedOK
    <2>5. HeldOK(gatt[p], reader[p], written[p])
        BY <2>1 DEF HeldOK
    <2> QED
        BY <2>3, <2>4, <2>5 DEF ReadOK
<1> QED
    BY <1>1, <1>2, <1>3 DEF ReadInv

\* A step of one phone or of its reader.
LEMMA OnePhoneRead ==
    ASSUME PhoneInv, BytesInv, ReadInv, NEW p \in Phones, NEW w, NEW g, NEW r, NEW s, NEW m,
           writing' = [writing EXCEPT ![p] = w], gatt' = [gatt EXCEPT ![p] = g],
           reader' = [reader EXCEPT ![p] = r], written' = [written EXCEPT ![p] = s],
           mishaps' = [mishaps EXCEPT ![p] = m],
           WrittenOK(p, w, s), m = {} => ReadOK(w, g, r, s)
    PROVE  ReadInv'
<1>1. (written = [q \in Phones |-> written[q]])'
    BY DEF ReadInv
<1>2. ASSUME NEW q \in Phones
      PROVE  /\ WrittenOK(q, writing[q], written[q])'
             /\ (mishaps[q] = {} => ReadOK(writing[q], gatt[q], reader[q], written[q]))'
    <2>1. CASE q = p
        <3>1. writing'[q] = w /\ gatt'[q] = g /\ reader'[q] = r /\ written'[q] = s
              /\ mishaps'[q] = m
            BY <2>1 DEF PhoneInv, Functions, BytesInv, ReadInv
        <3> QED
            BY <2>1, <3>1
    <2>2. CASE q # p
        <3>1. /\ writing'[q] = writing[q] /\ gatt'[q] = gatt[q] /\ reader'[q] = reader[q]
              /\ written'[q] = written[q] /\ mishaps'[q] = mishaps[q]
            BY <2>2 DEF PhoneInv, Functions, BytesInv, ReadInv
        <3>2. WrittenOK(q, writing[q], written[q])
            BY DEF ReadInv
        <3>3. mishaps[q] = {} => ReadOK(writing[q], gatt[q], reader[q], written[q])
            BY DEF ReadInv
        <3> QED
            BY <3>1, <3>2, <3>3
    <2> QED
        BY <2>1, <2>2
<1> QED
    BY <1>1, <1>2 DEF ReadInv

LEMMA WrittenStays ==
    ASSUME ReadInv, NEW p \in Phones
    PROVE  /\ written = [written EXCEPT ![p] = written[p]]
           /\ WrittenOK(p, writing[p], written[p]) /\ WrittenOK(p, Nothing, written[p])
BY DEF ReadInv, WrittenOK

\* A step of the phone only.
LEMMA OnlyWriting ==
    ASSUME PhoneInv, BytesInv, ReadInv, NEW p \in Phones, NEW w, NEW g, NEW m,
           writing' = [writing EXCEPT ![p] = w], gatt' = [gatt EXCEPT ![p] = g],
           mishaps' = [mishaps EXCEPT ![p] = m], UNCHANGED <<reader, written>>,
           WrittenOK(p, w, written[p]),
           m = {} => ReadOK(w, g, reader[p], written[p])
    PROVE  ReadInv'
<1>1. PICK r, s : r = reader[p] /\ s = written[p]
    OBVIOUS
<1>2. reader' = [reader EXCEPT ![p] = r]
    BY <1>1, Stays
<1>3. written' = [written EXCEPT ![p] = s] /\ WrittenOK(p, w, s)
    BY <1>1, WrittenStays
<1> QED
    BY <1>1, <1>2, <1>3, OnePhoneRead

LEMMA ConnectsRead ==
    ASSUME PhoneInv, BytesInv, ReadInv, NEW p \in Phones, PhoneConnects(p)
    PROVE  ReadInv'
<1>1. PICK g, g0 : g0 = gatt[p] /\ g = [g0 EXCEPT !.connected = TRUE]
    OBVIOUS
<1>2. /\ g.new_data = g0.new_data /\ g.global_data = g0.global_data /\ g.position = g0.position
    <2>1. g0 = [connected |-> g0.connected, global_data |-> g0.global_data,
                position |-> g0.position, new_data |-> g0.new_data]
        BY <1>1 DEF PhoneInv, PhoneOK, GattOK
    <2> QED
        BY <1>1, <2>1
<1>3. /\ gatt' = [gatt EXCEPT ![p] = g] /\ UNCHANGED <<writing, reader, written, mishaps>>
    BY <1>1 DEF PhoneConnects
<1>4. mishaps[p] = {} => ReadOK(writing[p], g0, reader[p], written[p])
    BY <1>1 DEF ReadInv
<1>5. mishaps[p] = {} => ReadOK(writing[p], g, reader[p], written[p])
    BY <1>2, <1>4 DEF ReadOK, WriteOK, LookedOK, HeldOK, HeldAt, Announced
<1>6. PICK w, m : w = writing[p] /\ m = mishaps[p]
    OBVIOUS
<1>7. writing' = [writing EXCEPT ![p] = w] /\ mishaps' = [mishaps EXCEPT ![p] = m]
    BY <1>3, <1>6, Stays, MishapsStay
<1> QED
    BY <1>3, <1>5, <1>6, <1>7, WrittenStays, WrittenStays, OnlyWriting

\* What is given up has not begun, or it is a mishap.
LEMMA NothingBegun ==
    ASSUME NEW p, NEW w, NEW g, NEW r, NEW s, ReadOK(w, g, r, s), w.done = 0
    PROVE  ReadOK(Nothing, g, r, s)
BY DEF ReadOK, WriteOK, Nothing

LEMMA NoneAbandoned ==
    ASSUME PhoneInv, NEW p \in Phones, Abandoned(p) = {}
    PROVE  writing[p].done = 0
<1>1. WritingOK(writing[p])
    BY DEF PhoneInv, PhoneOK
<1>2. writing[p].done \in Nat
    BY <1>1 DEF WritingOK, Nothing
<1> QED
    BY <1>2 DEF Abandoned

LEMMA LeavesRead ==
    ASSUME PhoneInv, BytesInv, ReadInv, NEW p \in Phones, PhoneLeaves(p)
    PROVE  ReadInv'
<1>1. PICK g, g0, m : /\ g0 = gatt[p] /\ g = [g0 EXCEPT !.connected = FALSE]
                      /\ m = mishaps[p] \cup Abandoned(p)
    OBVIOUS
<1>2. /\ g.new_data = g0.new_data /\ g.global_data = g0.global_data /\ g.position = g0.position
    <2>1. g0 = [connected |-> g0.connected, global_data |-> g0.global_data,
                position |-> g0.position, new_data |-> g0.new_data]
        BY <1>1 DEF PhoneInv, PhoneOK, GattOK
    <2> QED
        BY <1>1, <2>1
<1>3. /\ gatt' = [gatt EXCEPT ![p] = g] /\ writing' = [writing EXCEPT ![p] = Nothing]
      /\ mishaps' = [mishaps EXCEPT ![p] = m] /\ UNCHANGED <<reader, written>>
    BY <1>1 DEF PhoneLeaves, Mishap
<1>4. mishaps[p] = {} => ReadOK(writing[p], g0, reader[p], written[p])
    BY <1>1 DEF ReadInv
<1>5. m = {} => ReadOK(Nothing, g, reader[p], written[p])
    <2> SUFFICES ASSUME m = {} PROVE ReadOK(Nothing, g, reader[p], written[p])
        OBVIOUS
    <2>1. mishaps[p] = {} /\ Abandoned(p) = {}
        BY <1>1
    <2>2. ReadOK(writing[p], g, reader[p], written[p])
        BY <1>2, <1>4, <2>1 DEF ReadOK, WriteOK, LookedOK, HeldOK, HeldAt, Announced
    <2> QED
        BY <2>1, <2>2, NoneAbandoned, NothingBegun
<1> QED
    BY <1>3, <1>5, WrittenStays, WrittenStays, OnlyWriting

LEMMA CancelsRead ==
    ASSUME PhoneInv, BytesInv, ReadInv, NEW p \in Phones, PhoneCancels(p)
    PROVE  ReadInv'
<1>1. PICK m : m = mishaps[p] \cup Abandoned(p)
    OBVIOUS
<1>2. m # {}
    BY <1>1 DEF PhoneCancels, Abandoned
<1>3. /\ writing' = [writing EXCEPT ![p] = Nothing]
      /\ mishaps' = [mishaps EXCEPT ![p] = m] /\ UNCHANGED <<gatt, reader, written>>
    BY <1>1 DEF PhoneCancels, Mishap
<1> QED
    BY <1>2, <1>3, Stays, WrittenStays, OnlyWriting

\* A text or a number as a phone makes it.
LEMMA ContentWrites ==
    ASSUME NEW p \in Phones, NEW n \in Nat, NEW len \in Nat
    PROVE  /\ Writes(p, Content("letter", p, n, len))
           /\ len > 0 => Writes(p, Content("number", p, n, len + 2))
<1>1. ASSUME NEW kind \in {"letter", "number"}, NEW k \in Nat, NEW s, s = Content(kind, p, n, k)
      PROVE  s \in Seq(Chars(p)) /\ Len(s) = k /\ \A i \in 1..k : s[i][1] = kind
    <2>1. s = [i \in 1..k |-> <<kind, p, n, i>>]
        BY <1>1 DEF Content
    <2>2. \A i \in 1..k : <<kind, p, n, i>> \in Chars(p) /\ <<kind, p, n, i>>[1] = kind
        BY DEF Chars
    <2>3. s \in Seq(Chars(p)) /\ Len(s) = k
        BY <2>1, <2>2, IsASeq
    <2> QED
        BY <2>1, <2>2, <2>3
<1>2. Writes(p, Content("letter", p, n, len))
    <2>1. PICK s : s = Content("letter", p, n, len)
        OBVIOUS
    <2>2. s \in Seq(Chars(p)) /\ Len(s) = len /\ \A i \in 1..len : s[i][1] = "letter"
        BY <1>1, <2>1
    <2>3. ~IsNumber(s)
        BY <2>2 DEF IsNumber, IsFive
    <2> QED
        BY <2>1, <2>2, <2>3 DEF Writes
<1>3. ASSUME len > 0 PROVE Writes(p, Content("number", p, n, len + 2))
    <2>1. PICK s : s = Content("number", p, n, len + 2)
        OBVIOUS
    <2>2. s \in Seq(Chars(p)) /\ Len(s) = len + 2 /\ \A i \in 1..(len + 2) : s[i][1] = "number"
        BY <1>1, <2>1
    <2>3. Len(s) > 2 /\ s[3][1] = "number"
        BY <1>3, <2>2
    <2> QED
        BY <2>1, <2>2, <2>3 DEF Writes
<1> QED
    BY <1>2, <1>3

LEMMA NothingDone == ASSUME NEW b PROVE [Nothing EXCEPT !.bytes = b] = [bytes |-> b, done |-> 0]
BY DEF Nothing

LEMMA BeginsRead ==
    ASSUME PhoneInv, BytesInv, ReadInv, NEW p \in Phones, PhoneBegins(p)
    PROVE  ReadInv'
<1>1. /\ begun' = begun + 1 /\ begun \in Nat /\ writing[p] = Nothing
      /\ UNCHANGED <<gatt, reader, written, mishaps>>
    BY DEF PhoneBegins, PhoneInv
<1>2. PICK text : /\ Writes(p, text)
                  /\ writing' = [writing EXCEPT ![p].bytes = Append(text, NUL)]
    <2>1. TextLengths \subseteq Nat /\ NumberLengths \subseteq Nat \ {0} /\ begun' \in Nat
        BY <1>1, PhoneConstants
    <2>2. PICK text \in {Content("letter", p, begun', n) : n \in TextLengths}
                   \cup {Content("number", p, begun', n + 2) : n \in NumberLengths} :
              writing' = [writing EXCEPT ![p].bytes = Append(text, NUL)]
        BY DEF PhoneBegins
    <2>3. Writes(p, text)
        BY <2>1, <2>2, ContentWrites
    <2> QED
        BY <2>2, <2>3
<1>3. PICK b, w : b = Append(text, NUL) /\ w = [bytes |-> b, done |-> 0]
    OBVIOUS
<1>4. writing' = [writing EXCEPT ![p] = w]
    <2>1. [Nothing EXCEPT !.bytes = b] = w
        BY <1>3, NothingDone, Zenon
    <2> QED
        BY <1>1, <1>2, <1>3, <2>1
<1>5. SubSeq(b, 1, Len(b) - 1) = text
    <2>1. text \in Seq(Chars(p))
        BY <1>2 DEF Writes
    <2>2. text \in Seq(Bytes(p)) /\ NUL \in Bytes(p)
        BY <2>1 DEF Bytes
    <2> QED
        BY <1>3, <2>2
<1>6. mishaps[p] = {} => ReadOK(w, gatt[p], reader[p], written[p])
    <2> SUFFICES ASSUME mishaps[p] = {} PROVE ReadOK(w, gatt[p], reader[p], written[p])
        OBVIOUS
    <2>1. ReadOK(Nothing, gatt[p], reader[p], written[p])
        BY <1>1 DEF ReadInv
    <2>2. w.bytes = b /\ w.done = 0 /\ Nothing.done = 0
        BY <1>3 DEF Nothing
    <2>3. WriteOK(w, gatt[p], reader[p])
        <3>1. gatt[p].position = 0
            BY <2>1, <2>2 DEF ReadOK, WriteOK
        <3>2. ~(w.done > 0)
            BY <2>2
        <3> QED
            BY <2>2, <3>1, <3>2 DEF WriteOK
    <2> QED
        BY <2>1, <2>3 DEF ReadOK
<1>9. WrittenOK(p, w, written[p])
    BY <1>2, <1>3, <1>5, WrittenStays DEF WrittenOK
<1>7. PICK g, m : g = gatt[p] /\ m = mishaps[p]
    OBVIOUS
<1>8. gatt' = [gatt EXCEPT ![p] = g] /\ mishaps' = [mishaps EXCEPT ![p] = m]
    BY <1>1, <1>7, Stays, MishapsStay
<1> QED
    BY <1>1, <1>4, <1>6, <1>7, <1>8, <1>9, OnlyWriting

\* getString puts the fragment behind what is there.
LEMMA StoreHolds ==
    ASSUME NEW g, NEW p, GattBytes(p, g), NEW bytes, NEW size \in Nat \ {0}, NEW frag,
           Fits(g, size), \A k \in 1..g.position : g.global_data[k - 1] = bytes[k],
           Len(frag) = size, \A j \in 1..size : frag[j] = bytes[g.position + j]
    PROVE  \A k \in 1..(g.position + size) : Store(g, frag).global_data[k - 1] = bytes[k]
<1>1. /\ g.position \in Nat /\ BufferSize \in Nat /\ g.position + size <= BufferSize
    BY PhoneConstants DEF GattBytes, Fits
<1> DEFINE end  == g.position + Len(frag)
           done == frag[Len(frag)] = NUL
           data == [i \in Buffer |->
                       IF i \in g.position..(end - 1) THEN frag[i - g.position + 1]
                       ELSE IF i = end /\ done THEN NUL ELSE g.global_data[i]]
<1>2. Store(g, frag) = [g EXCEPT !.global_data = data, !.new_data = @ \/ done,
                                 !.position = IF done THEN 0 ELSE end]
    BY DEF Store
<1>3. Store(g, frag).global_data = data
    <2>1. g = [connected |-> g.connected, global_data |-> g.global_data, position |-> g.position,
               new_data |-> g.new_data]
        BY DEF GattBytes
    <2> HIDE DEF data, done, end
    <2> QED
        BY <1>2, <2>1
<1>5. end = g.position + size
    OBVIOUS
<1> HIDE DEF end, done
<1>6. \A i \in Buffer : i \in g.position..(end - 1) => data[i] = frag[i - g.position + 1]
    OBVIOUS
<1>7. \A i \in Buffer : i < g.position => data[i] = g.global_data[i]
    BY <1>1, <1>5 DEF Buffer
<1> HIDE DEF data
<1>4. ASSUME NEW k \in 1..(g.position + size) PROVE data[k - 1] = bytes[k]
    <2>1. k - 1 \in Buffer /\ k \in Nat
        BY <1>1 DEF Buffer
    <2>2. CASE k <= g.position
        <3>2. data[k - 1] = g.global_data[k - 1]
            BY <1>1, <1>7, <2>1, <2>2
        <3>3. k \in 1..g.position
            BY <1>1, <2>1, <2>2
        <3> QED
            BY <3>2, <3>3
    <2>3. CASE k > g.position
        <3>1. k - 1 \in g.position..(end - 1)
            BY <1>1, <1>5, <2>1, <2>3
        <3>2. data[k - 1] = frag[(k - 1) - g.position + 1]
            BY <1>6, <2>1, <3>1
        <3>3. (k - 1) - g.position + 1 = k - g.position /\ k - g.position \in 1..size
            BY <1>1, <2>1, <2>3
        <3>4. frag[k - g.position] = bytes[g.position + (k - g.position)]
            BY <3>3
        <3>5. g.position + (k - g.position) = k
            BY <1>1, <2>1
        <3> QED
            BY <3>2, <3>3, <3>4, <3>5
    <2>4. k <= g.position \/ k > g.position
        BY <1>1, <2>1
    <2> QED
        BY <2>2, <2>3, <2>4
<1> QED
    BY <1>3, <1>4

\* The last fragment completes the text; the others make it longer.
LEMMA FragmentRead ==
    ASSUME NEW p, NEW w, NEW g, NEW h, NEW r, NEW s, NEW size \in Nat \ {0}, NEW last \in BOOLEAN,
           NEW frag, NEW v, NEW t, NEW text,
           GattBytes(p, g), WritingOK(w), w # Nothing, w.bytes \in Seq(Bytes(p)),
           WrittenOK(p, w, s), ReadOK(w, g, r, s), ~Announced(g, r), Fits(g, size),
           r.at \in ReaderPcs,
           w.done + size <= Len(w.bytes), last <=> w.done + size = Len(w.bytes),
           Len(frag) = size, \A j \in 1..size : frag[j] = w.bytes[w.done + j],
           Len(text) = Len(w.bytes) - 1, \A k \in 1..Len(text) : text[k] = w.bytes[k],
           text \in Seq(Chars(p)), h = Store(g, frag),
           v = IF last THEN Nothing ELSE Further(w, size), t = IF last THEN Append(s, text) ELSE s
    PROVE  ReadOK(v, h, r, t)
<1>1. PICK bytes, d : bytes = w.bytes /\ d = w.done
    OBVIOUS
<1>2. /\ w = [bytes |-> bytes, done |-> d] /\ d \in Nat /\ Len(bytes) \in Nat \ {0}
      /\ bytes \in Seq(Bytes(p))
      /\ \A k \in 1..Len(bytes) : bytes[k] = NUL <=> k = Len(bytes)
    BY <1>1, LenProperties DEF WritingOK, Ended
<1>3. g.position = d
    BY <1>1 DEF ReadOK, WriteOK
<1>4. \A k \in 1..d : g.global_data[k - 1] = bytes[k]
    <2>1. CASE d = 0
        BY <2>1
    <2>2. CASE d > 0
        BY <1>1, <2>2 DEF ReadOK, WriteOK
    <2> QED
        BY <1>2, <2>1, <2>2
<1>5. \A k \in 1..(d + size) : h.global_data[k - 1] = bytes[k]
    <2>1. Len(frag) = size /\ \A j \in 1..size : frag[j] = bytes[g.position + j]
        BY <1>1, <1>3
    <2>2. \A k \in 1..g.position : g.global_data[k - 1] = bytes[k]
        BY <1>3, <1>4
    <2>3. \A k \in 1..(g.position + size) : Store(g, frag).global_data[k - 1] = bytes[k]
        <3>1. GattBytes(p, g) /\ Fits(g, size) /\ size \in Nat \ {0}
            OBVIOUS
        <3> QED
            BY ONLY <2>1, <2>2, <3>1, StoreHolds
    <2> QED
        BY <1>3, <2>3
<1>6. Len(frag) = size /\ (frag[Len(frag)] = NUL <=> last)
    <2>1. frag[size] = bytes[d + size]
        BY <1>1
    <2>2. d + size \in 1..Len(bytes)
        BY <1>1, <1>2
    <2> QED
        BY <1>1, <1>2, <2>1, <2>2
<1>7. /\ h.new_data = (g.new_data \/ last) /\ h.position = IF last THEN 0 ELSE d + size
    <2>1. g = [connected |-> g.connected, global_data |-> g.global_data, position |-> g.position,
               new_data |-> g.new_data]
        BY DEF GattBytes
    <2> QED
        BY <1>3, <1>6, <2>1 DEF Store
<1>8. ~g.new_data /\ r.at \notin {"look", "copy"} /\ r.at # "copy"
    BY DEF Announced
<1>9. r.at = "send" => /\ Len(s) > 0 /\ r.telephone_set = IsNumber(s[Len(s)])
                       /\ r.data = Said(s[Len(s)])
    BY <1>8 DEF ReadOK, HeldOK, HeldAt
<1>10. CASE last
    <2>2. /\ v = Nothing /\ h.position = 0 /\ h.new_data /\ t = Append(s, text)
        BY <1>1, <1>7, <1>10
    <2>3. Len(text) = Len(bytes) - 1 /\ \A k \in 1..Len(text) : text[k] = bytes[k]
        BY <1>1
    <2>4. s \in Seq(Seq(Chars(p))) /\ Len(s) \in Nat
        BY LenProperties DEF WrittenOK
    <2>5. Len(t) = Len(s) + 1 /\ t[Len(s) + 1] = text /\ \A i \in 1..Len(s) : t[i] = s[i]
        BY <2>2, <2>4, AppendProperties
    <2>6. Holds(h.global_data, text)
        <3>1. d + size = Len(bytes) /\ Len(bytes) <= BufferSize /\ BufferSize \in Nat
            BY <1>1, <1>2, <1>3, <1>10, PhoneConstants DEF Fits
        <3>2. Len(text) < BufferSize
            BY <1>2, <2>3, <3>1
        <3>3. h.global_data[Len(bytes) - 1] = bytes[Len(bytes)] /\ bytes[Len(bytes)] = NUL
            BY <1>2, <1>5, <3>1
        <3>4. \A k \in 1..Len(text) : h.global_data[k - 1] = text[k]
            BY <1>2, <1>5, <2>3, <3>1
        <3> QED
            BY <2>3, <3>2, <3>3, <3>4 DEF Holds
    <2>7. WriteOK(v, h, r)
        BY <2>2 DEF WriteOK, Nothing
    <2>8. LookedOK(h, r, t)
        <3>1. Len(t) > 0 /\ t[Len(t)] = text
            BY <2>4, <2>5
        <3> QED
            BY <1>8, <2>6, <3>1 DEF LookedOK
    <2>9. HeldOK(h, r, t)
        <3>1. HeldAt(h, t) = Len(s)
            BY <2>2, <2>4, <2>5 DEF HeldAt
        <3>2. Len(s) > 0 => t[Len(s)] = s[Len(s)]
            BY <2>4, <2>5
        <3> QED
            BY <1>9, <3>1, <3>2 DEF HeldOK
    <2> QED
        BY <2>7, <2>8, <2>9 DEF ReadOK
<1>11. CASE ~last
    <2>1. /\ v = [bytes |-> bytes, done |-> d + size] /\ h.position = d + size
          /\ ~h.new_data /\ t = s
        BY <1>1, <1>2, <1>7, <1>8, <1>11 DEF Further
    <2>2. ~Announced(h, r)
        BY <1>8, <2>1 DEF Announced
    <2>3. WriteOK(v, h, r)
        <3>1. v.bytes = bytes /\ v.done = d + size
            BY <2>1
        <3> QED
            BY <1>3, <1>5, <2>1, <2>2, <3>1 DEF WriteOK
    <2>4. LookedOK(h, r, t)
        BY <1>8, <2>1, <2>2 DEF LookedOK
    <2>5. HeldOK(h, r, t)
        BY <1>9, <2>1 DEF HeldOK, HeldAt
    <2> QED
        BY <2>3, <2>4, <2>5 DEF ReadOK
<1> QED
    BY <1>10, <1>11

\* The fragment that is written: the last one ends in the zero.
LEMMA Fragment ==
    ASSUME PhoneInv, BytesInv, NEW p \in Phones, PhoneWrites(p), NEW w, w = writing[p]
    PROVE  \E frag, last, size :
               /\ WriteEvent(p, frag, last) /\ last \in BOOLEAN
               /\ size \in Nat \ {0} /\ w.done + size <= Len(w.bytes)
               /\ last <=> w.done + size = Len(w.bytes)
               /\ Len(frag) = size /\ \A j \in 1..size : frag[j] = w.bytes[w.done + j]
               /\ last <=> frag[Len(frag)] = NUL
<1>1. WritingOK(w) /\ w # Nothing /\ w.bytes \in Seq(Bytes(p))
    BY DEF PhoneInv, PhoneOK, BytesInv, BytesOK, WritingBytes, PhoneWrites
<1>2. PICK bytes, d : bytes = w.bytes /\ d = w.done
    OBVIOUS
<1>3. d \in Nat /\ d < Len(bytes) /\ Len(bytes) \in Nat /\ Ended(bytes)
    BY <1>1, <1>2, LenProperties DEF WritingOK
<1>4. PICK left, size : left = Len(bytes) - d /\ size = IF left > Mtu THEN Mtu ELSE left
    OBVIOUS
<1>5. size \in Nat \ {0} /\ d + size <= Len(bytes) /\ (size = left <=> d + size = Len(bytes))
    BY <1>3, <1>4, PhoneConstants
<1>6. PICK frag, last : /\ frag = SubSeq(bytes, d + 1, d + 1 + size - 1) /\ last = (size = left)
                        /\ WriteEvent(p, frag, last)
    BY <1>2, <1>4 DEF PhoneWrites
<1>7. Len(frag) = size /\ \A j \in 1..size : frag[j] = bytes[d + j]
    <2>1. frag = SubSeq(bytes, d + 1, d + size)
        BY <1>3, <1>5, <1>6
    <2>2. bytes \in Seq(Bytes(p)) /\ size \in Nat
        BY <1>1, <1>2, <1>5
    <2> QED
        BY <1>3, <1>5, <2>1, <2>2, Slice
<1>8. last \in BOOLEAN /\ (last <=> d + size = Len(bytes))
    <2>1. last <=> size = left
        BY <1>6, Zenon
    <2>2. last \in BOOLEAN
        BY <1>6, Zenon
    <2> QED
        BY <1>5, <2>1, <2>2
<1>9. last <=> frag[Len(frag)] = NUL
    <2>1. frag[Len(frag)] = bytes[d + size] /\ d + size \in 1..Len(bytes)
        BY <1>3, <1>5, <1>7
    <2>2. bytes[d + size] = NUL <=> d + size = Len(bytes)
        BY <1>3, <2>1 DEF Ended
    <2> QED
        BY <1>8, <2>1, <2>2
<1> QED
    BY <1>2, <1>5, <1>6, <1>7, <1>8, <1>9

LEMMA WritesRead ==
    ASSUME PhoneInv, BytesInv, ReadInv, NEW p \in Phones, PhoneWrites(p)
    PROVE  ReadInv'
<1>1. PICK w, g, r, s : w = writing[p] /\ g = gatt[p] /\ r = reader[p] /\ s = written[p]
    OBVIOUS
<1>2. /\ WritingOK(w) /\ w # Nothing /\ GattBytes(p, g) /\ WrittenOK(p, w, s)
      /\ w.bytes \in Seq(Bytes(p)) /\ r.at \in ReaderPcs
    BY <1>1 DEF PhoneInv, PhoneOK, BytesInv, BytesOK, WritingBytes, ReaderBytes, PhoneWrites, ReadInv
<1>3. PICK bytes, d : bytes = w.bytes /\ d = w.done
    OBVIOUS
<1>4. d \in Nat /\ d < Len(bytes) /\ Len(bytes) \in Nat
    BY <1>2, <1>3, LenProperties DEF WritingOK
<1>5. \E frag, last, size :
          /\ WriteEvent(p, frag, last) /\ last \in BOOLEAN
          /\ size \in Nat \ {0} /\ w.done + size <= Len(w.bytes)
          /\ last <=> w.done + size = Len(w.bytes)
          /\ Len(frag) = size /\ \A j \in 1..size : frag[j] = w.bytes[w.done + j]
          /\ last <=> frag[Len(frag)] = NUL
    <2>1. w = writing[p]
        BY <1>1
    <2> QED
        BY <2>1, Fragment
<1>6. PICK frag, last, size :
          /\ WriteEvent(p, frag, last) /\ last \in BOOLEAN
          /\ size \in Nat \ {0} /\ w.done + size <= Len(w.bytes)
          /\ last <=> w.done + size = Len(w.bytes)
          /\ Len(frag) = size /\ \A j \in 1..size : frag[j] = w.bytes[w.done + j]
    BY <1>5, Zenon
<1>7. /\ WriteEvent(p, frag, last) /\ last \in BOOLEAN
      /\ size \in Nat \ {0} /\ d + size <= Len(bytes)
      /\ last <=> d + size = Len(bytes)
      /\ Len(frag) = size /\ \A j \in 1..size : frag[j] = bytes[d + j]
    BY <1>3, <1>6
<1>16. PICK text : text = SubSeq(bytes, 1, Len(bytes) - 1)
    OBVIOUS
<1>19. /\ Len(text) = Len(bytes) - 1 /\ \A k \in 1..Len(text) : text[k] = bytes[k]
       /\ Writes(p, text) /\ text \in Seq(Chars(p))
    <2>1. PICK n : n = Len(bytes) - 1
        OBVIOUS
    <2>2. n \in Nat /\ 0 \in Nat /\ 0 + n <= Len(bytes) /\ text = SubSeq(bytes, 0 + 1, 0 + n)
        BY <1>4, <1>16, <2>1
    <2>3. bytes \in Seq(Bytes(p))
        BY <1>2, <1>3
    <2>4. Len(text) = n /\ \A k \in 1..n : text[k] = bytes[0 + k]
        BY <2>2, <2>3, Slice
    <2>5. Writes(p, text)
        BY <1>2, <1>3, <1>16 DEF WrittenOK
    <2> QED
        BY <2>1, <2>2, <2>4, <2>5 DEF Writes
<1>10. PICK v, h, t, m :
           /\ v = IF last THEN Nothing ELSE Further(w, Len(frag))
           /\ h = IF Fits(g, Len(frag)) THEN Store(g, frag) ELSE g
           /\ t = IF last THEN Append(s, text) ELSE s
           /\ m = mishaps[p] \cup (IF ~Fits(g, Len(frag)) THEN {"dropped"}
                                   ELSE IF g.new_data \/ r.at \in {"look", "copy"}
                                   THEN {"overtaken"} ELSE {})
    OBVIOUS
<1>11. writing' = [writing EXCEPT ![p] = v]
    BY <1>1, <1>7, <1>10 DEF WriteEvent
<1>12. gatt' = [gatt EXCEPT ![p] = h]
    <2>1. gatt' = IF Fits(g, Len(frag)) THEN [gatt EXCEPT ![p] = Store(g, frag)] ELSE gatt
        BY <1>1, <1>7, Zenon DEF WriteEvent
    <2>2. gatt = [gatt EXCEPT ![p] = g]
        BY <1>1, Stays
    <2> QED
        BY <1>10, <2>1, <2>2
<1>13. written' = [written EXCEPT ![p] = t]
    <2>1. written' = IF last THEN [written EXCEPT ![p] = Append(s, text)] ELSE written
        BY <1>1, <1>3, <1>7, <1>16, Zenon DEF WriteEvent
    <2>2. written = [written EXCEPT ![p] = s]
        BY <1>1, WrittenStays
    <2> QED
        BY <1>10, <2>1, <2>2
<1>14. mishaps' = [mishaps EXCEPT ![p] = m]
    BY <1>1, <1>7, <1>10, Zenon DEF WriteEvent, Mishap
<1>15. reader' = [reader EXCEPT ![p] = r]
    <2>1. reader' = reader
        BY <1>7, Zenon DEF WriteEvent
    <2> QED
        BY <1>1, <2>1, Stays
<1>17. WrittenOK(p, v, t)
    <2>1. /\ s \in Seq(Seq(Chars(p))) /\ \A i \in 1..Len(s) : Writes(p, s[i])
        BY <1>2, <1>3 DEF WrittenOK
    <2>2. CASE last
        <3>2. v = Nothing /\ t = Append(s, text) /\ text \in Seq(Chars(p))
            BY <1>10, <1>19, <2>2
        <3>3. /\ t \in Seq(Seq(Chars(p))) /\ Len(t) = Len(s) + 1 /\ t[Len(s) + 1] = text
              /\ \A i \in 1..Len(s) : t[i] = s[i]
            BY <2>1, <3>2, AppendProperties
        <3>4. \A i \in 1..Len(t) : i \in 1..Len(s) \/ i = Len(s) + 1
            BY <2>1, <3>3, LenProperties
        <3>5. \A i \in 1..Len(t) : Writes(p, t[i])
            BY <1>19, <2>1, <3>3, <3>4
        <3> QED
            BY <3>2, <3>3, <3>5 DEF WrittenOK
    <2>3. CASE ~last
        <3>1. v = Further(w, Len(frag)) /\ t = s /\ v.bytes = bytes
            <4>1. w = [bytes |-> w.bytes, done |-> w.done]
                BY <1>2 DEF WritingOK
            <4> QED
                BY <1>3, <1>10, <2>3, <4>1 DEF Further
        <3> QED
            BY <1>16, <1>19, <2>1, <3>1 DEF WrittenOK
    <2> QED
        BY <2>2, <2>3
<1>18. ASSUME m = {} PROVE ReadOK(v, h, r, t)
    <2>1. /\ mishaps[p] = {} /\ Fits(g, Len(frag)) /\ ~(g.new_data \/ r.at \in {"look", "copy"})
        BY <1>10, <1>18
    <2>2. ReadOK(w, g, r, s) /\ ~Announced(g, r)
        BY <1>1, <2>1 DEF ReadInv, Announced
    <2>3. h = Store(g, frag) /\ v = IF last THEN Nothing ELSE Further(w, size)
        BY <1>7, <1>10, <2>1
    <2> QED
        BY <1>2, <1>3, <1>7, <1>10, <1>19, <2>1, <2>2, <2>3, FragmentRead
<1> QED
    BY <1>11, <1>12, <1>13, <1>14, <1>15, <1>17, <1>18, OnePhoneRead

\* A step of the reader: what the phone writes stays.
LEMMA OnlyReading ==
    ASSUME PhoneInv, BytesInv, ReadInv, NEW p \in Phones, NEW g, NEW r, NEW m,
           gatt' = [gatt EXCEPT ![p] = g], reader' = [reader EXCEPT ![p] = r],
           mishaps' = [mishaps EXCEPT ![p] = m], UNCHANGED <<writing, written>>,
           m = {} => ReadOK(writing[p], g, r, written[p])
    PROVE  ReadInv'
<1>1. PICK w, s : w = writing[p] /\ s = written[p]
    OBVIOUS
<1>2. writing' = [writing EXCEPT ![p] = w]
    BY <1>1, Stays
<1>3. written' = [written EXCEPT ![p] = s] /\ WrittenOK(p, w, s)
    BY <1>1, WrittenStays
<1> QED
    BY <1>1, <1>2, <1>3, OnePhoneRead

LEMMA PollRead ==
    ASSUME PhoneInv, BytesInv, ReadInv, NEW p \in Phones, Poll(p)
    PROVE  ReadInv'
<1>1. PICK g, r, m, g0, r0 : /\ g0 = gatt[p] /\ r0 = reader[p] /\ m = mishaps[p]
                             /\ g = [g0 EXCEPT !.new_data = FALSE] /\ r = [r0 EXCEPT !.at = "look"]
    OBVIOUS
<1>2. /\ g.global_data = g0.global_data /\ g.position = g0.position /\ g.new_data = FALSE
      /\ r.at = "look" /\ g0.new_data
    <2>1. /\ g0 = [connected |-> g0.connected, global_data |-> g0.global_data,
                   position |-> g0.position, new_data |-> g0.new_data]
          /\ r0 = [at |-> r0.at, telephone_set |-> r0.telephone_set, data |-> r0.data]
        BY <1>1 DEF PhoneInv, PhoneOK, GattOK, ReaderOK
    <2> QED
        BY <1>1, <2>1 DEF Poll
<1>3. /\ gatt' = [gatt EXCEPT ![p] = g] /\ reader' = [reader EXCEPT ![p] = r]
      /\ mishaps' = [mishaps EXCEPT ![p] = m] /\ UNCHANGED <<writing, written>>
    BY <1>1, MishapsStay DEF Poll
<1>4. m = {} => ReadOK(writing[p], g0, r0, written[p])
    BY <1>1 DEF ReadInv
<1>5. m = {} => ReadOK(writing[p], g, r, written[p])
    <2> SUFFICES ASSUME m = {} PROVE ReadOK(writing[p], g, r, written[p])
        OBVIOUS
    <2>1. Announced(g0, r0) /\ Announced(g, r)
        BY <1>2 DEF Announced
    <2>2. WriteOK(writing[p], g, r)
        BY <1>2, <1>4, <2>1 DEF ReadOK, WriteOK
    <2>3. LookedOK(g, r, written[p])
        BY <1>2, <1>4, <2>1 DEF ReadOK, LookedOK
    <2>4. HeldOK(g, r, written[p])
        BY <1>2 DEF HeldOK
    <2> QED
        BY <2>2, <2>3, <2>4 DEF ReadOK
<1> QED
    BY <1>3, <1>5, OnlyReading

LEMMA LookRead ==
    ASSUME PhoneInv, BytesInv, ReadInv, NEW p \in Phones, Look(p)
    PROVE  ReadInv'
<1>1. PICK g, r, m, r0 : /\ g = gatt[p] /\ r0 = reader[p] /\ m = mishaps[p]
                         /\ r = [at |-> "copy", telephone_set |-> StartsWith55(g.global_data),
                                 data |-> r0.data]
    OBVIOUS
<1>2. reader' = [reader EXCEPT ![p] = r] /\ UNCHANGED <<writing, gatt, written, mishaps>>
    <2>1. reader' = [reader EXCEPT ![p].at = "copy",
                                   ![p].telephone_set = StartsWith55(gatt[p].global_data)]
        BY DEF Look
    <2>0. PhoneOK(p)
        BY DEF PhoneInv
    <2>2. reader'[p] = r
        BY <1>1, <2>0, <2>1 DEF PhoneInv, Functions, PhoneOK, ReaderOK
    <2> QED
        BY <2>1, <2>2 DEF Look, PhoneInv, Functions
<1>3. gatt' = [gatt EXCEPT ![p] = g] /\ mishaps' = [mishaps EXCEPT ![p] = m]
    BY <1>1, <1>2, Stays, MishapsStay
<1>4. m = {} => ReadOK(writing[p], g, r, written[p])
    <2> SUFFICES ASSUME m = {} PROVE ReadOK(writing[p], g, r, written[p])
        OBVIOUS
    <2>1. PICK s : s = written[p]
        OBVIOUS
    <2>2. ReadOK(writing[p], g, r0, s) /\ r0.at = "look"
        BY <1>1, <2>1 DEF ReadInv, Look, ReaderAt
    <2>3. Announced(g, r0) /\ Announced(g, r) /\ r.at = "copy"
        BY <1>1, <2>2 DEF Announced
    <2>4. Len(s) > 0 /\ Holds(g.global_data, s[Len(s)]) /\ ~g.new_data
        BY <2>2, <2>3 DEF ReadOK, LookedOK
    <2>5. s[Len(s)] \in Seq(Chars(p))
        <3>1. s \in Seq(Seq(Chars(p)))
            BY <2>1, WrittenStays DEF WrittenOK
        <3> QED
            BY <2>4, <3>1, LenProperties, ElementOfSeq
    <2>6. r.telephone_set = IsNumber(s[Len(s)])
        BY <1>1, <2>4, <2>5, HeldStarts
    <2>7. WriteOK(writing[p], g, r)
        BY <2>2, <2>3 DEF ReadOK, WriteOK
    <2>8. LookedOK(g, r, s)
        BY <2>3, <2>4, <2>6 DEF LookedOK
    <2>9. HeldOK(g, r, s)
        BY <2>3 DEF HeldOK
    <2> QED
        BY <2>1, <2>7, <2>8, <2>9 DEF ReadOK
<1> QED
    BY <1>2, <1>3, <1>4, OnlyReading

LEMMA CopyRead ==
    ASSUME NumberDigits < TelephoneBytes, PhoneInv, BytesInv, ReadInv, NEW p \in Phones, Copy(p)
    PROVE  ReadInv'
<1>1. PICK g, r, r0, data, tel, what, m :
           /\ g = gatt[p] /\ r0 = reader[p] /\ tel = r0.telephone_set
           /\ data = Taken(g.global_data, tel)
           /\ r = [at |-> "send", telephone_set |-> tel, data |-> data]
           /\ what = IF Len(data) >= BufSize \/ (tel /\ Len(data) > NumberDigits)
                     THEN {"tooLong"} ELSE {}
           /\ m = mishaps[p] \cup what
    OBVIOUS
<1>2. reader' = [reader EXCEPT ![p] = r] /\ UNCHANGED <<writing, gatt, written>>
    <2>1. reader' = [reader EXCEPT ![p].at = "send", ![p].data = data]
        BY <1>1 DEF Copy
    <2>0. PhoneOK(p)
        BY DEF PhoneInv
    <2>2. reader'[p] = r
        BY <1>1, <2>0, <2>1 DEF PhoneInv, Functions, PhoneOK, ReaderOK
    <2> QED
        BY <2>1, <2>2 DEF Copy, PhoneInv, Functions
<1>3. gatt' = [gatt EXCEPT ![p] = g]
    BY <1>1, <1>2, Stays
<1>4. mishaps' = [mishaps EXCEPT ![p] = m]
    BY <1>1 DEF Copy, Mishap
<1>5. m = {} => ReadOK(writing[p], g, r, written[p])
    <2> SUFFICES ASSUME m = {} PROVE ReadOK(writing[p], g, r, written[p])
        OBVIOUS
    <2>1. PICK s, t : s = written[p] /\ t = s[Len(s)]
        OBVIOUS
    <2>2. mishaps[p] = {} /\ what = {}
        BY <1>1
    <2>3. ReadOK(writing[p], g, r0, s) /\ r0.at = "copy"
        BY <1>1, <2>1, <2>2 DEF ReadInv, Copy, ReaderAt
    <2>4. Announced(g, r0) /\ ~g.new_data /\ Len(s) > 0 /\ Holds(g.global_data, t)
          /\ tel = IsNumber(t)
        BY <1>1, <2>1, <2>3 DEF ReadOK, LookedOK, Announced
    <2>5. t \in Seq(Chars(p)) /\ Len(s) \in Nat
        <3>1. s \in Seq(Seq(Chars(p)))
            BY <2>1, WrittenStays DEF WrittenOK
        <3> QED
            BY <2>1, <2>4, <3>1, LenProperties, ElementOfSeq
    <2>6. IsNumber(t) => Len(Taken(g.global_data, TRUE)) <= NumberDigits
        <3> SUFFICES ASSUME IsNumber(t) PROVE Len(Taken(g.global_data, TRUE)) <= NumberDigits
            OBVIOUS
        <3>1. tel /\ data = Taken(g.global_data, TRUE)
            BY <1>1, <2>4
        <3>2. ~(Len(data) > NumberDigits)
            BY <1>1, <2>2, <3>1
        <3>3. Len(data) \in Nat /\ NumberDigits \in Nat
            <4>1. g.global_data \in [Buffer -> Bytes(p)]
                BY <1>1 DEF BytesInv, BytesOK, GattBytes
            <4>2. data \in Seq(Chars(p))
                BY <3>1, <4>1, TakenOK
            <4> QED
                BY <4>2, LenProperties, PhoneConstants
        <3>4. Len(data) <= NumberDigits
            BY <3>2, <3>3
        <3> QED
            BY <3>1, <3>4, Zenon
    <2>7. data = Said(t)
        BY <1>1, <2>4, <2>5, <2>6, HeldTaken
    <2>8. HeldAt(g, s) = Len(s) /\ ~Announced(g, r) /\ r.at = "send" /\ r.telephone_set = tel
          /\ r.data = data
        BY <1>1, <2>4 DEF HeldAt, Announced
    <2>9. HeldOK(g, r, s)
        BY <2>1, <2>4, <2>7, <2>8 DEF HeldOK
    <2>10. LookedOK(g, r, s)
        BY <2>8 DEF LookedOK
    <2>11. WriteOK(writing[p], g, r)
        BY <2>3, <2>4, <2>8 DEF ReadOK, WriteOK
    <2> QED
        BY <2>1, <2>9, <2>10, <2>11 DEF ReadOK
<1> QED
    BY <1>2, <1>3, <1>4, <1>5, OnlyReading

LEMMA SentRead ==
    ASSUME PhoneInv, BytesInv, ReadInv, NEW p \in Phones, Sent(p)
    PROVE  ReadInv'
<1>1. PICK g, r, m, r0 : /\ g = gatt[p] /\ r0 = reader[p] /\ m = mishaps[p]
                         /\ r = [at |-> "poll", telephone_set |-> FALSE, data |-> r0.data]
    OBVIOUS
<1>2. reader' = [reader EXCEPT ![p] = r] /\ UNCHANGED <<writing, gatt, written, mishaps>>
    <2>1. reader' = [reader EXCEPT ![p].at = "poll", ![p].telephone_set = FALSE]
        BY DEF Sent
    <2>0. PhoneOK(p)
        BY DEF PhoneInv
    <2>2. reader'[p] = r
        BY <1>1, <2>0, <2>1 DEF PhoneInv, Functions, PhoneOK, ReaderOK
    <2> QED
        BY <2>1, <2>2 DEF Sent, PhoneInv, Functions
<1>3. gatt' = [gatt EXCEPT ![p] = g] /\ mishaps' = [mishaps EXCEPT ![p] = m]
    BY <1>1, <1>2, Stays, MishapsStay
<1>4. m = {} => ReadOK(writing[p], g, r, written[p])
    <2> SUFFICES ASSUME m = {} PROVE ReadOK(writing[p], g, r, written[p])
        OBVIOUS
    <2>1. ReadOK(writing[p], g, r0, written[p]) /\ r0.at = "send" /\ r.at = "poll"
        BY <1>1 DEF ReadInv, Sent, ReaderAt
    <2>2. Announced(g, r) = Announced(g, r0)
        BY <2>1 DEF Announced
    <2> QED
        BY <2>1, <2>2 DEF ReadOK, WriteOK, LookedOK, HeldOK
<1> QED
    BY <1>2, <1>3, <1>4, OnlyReading

LEMMA ReadStep ==
    ASSUME NumberDigits < TelephoneBytes, PhoneInv, BytesInv, ReadInv, [PhoneNext]_phoneVars
    PROVE  ReadInv'
<1>1. ASSUME NEW p \in Phones, Phone(p) PROVE ReadInv'
    BY <1>1, ConnectsRead, BeginsRead, WritesRead, LeavesRead, CancelsRead DEF Phone
<1>2. ASSUME NEW p \in Phones, Reading(p) \/ Sent(p) PROVE ReadInv'
    BY <1>2, PollRead, LookRead, CopyRead, SentRead DEF Reading
<1>3. ASSUME UNCHANGED phoneVars PROVE ReadInv'
    BY <1>3 DEF phoneVars, ReadInv
<1> QED
    BY <1>1, <1>2, <1>3 DEF PhoneNext

\* What thread_Bluetooth is about to send is what the phone wrote last, or last but one if
\* another text is announced by now, as long as nothing has gone wrong with the phone's
\* texts: the callback's buffer, the poll and the copy (bluetooth.c:239-259,
\* BluetoothManager.cpp:45-75, main.cpp:145-157) lose or mix nothing on their own.
THEOREM ReadsWhatWasWritten ==
    ASSUME NumberDigits < TelephoneBytes
    PROVE  PhoneSpec => [](\A p \in Phones : (mishaps[p] = {} /\ reader[p].at = "send") =>
               LET i == HeldAt(gatt[p], written[p])
               IN  /\ i \in 1..Len(written[p]) /\ reader[p].data = Said(written[p][i])
                   /\ reader[p].telephone_set = IsNumber(written[p][i]))
<1>1. PhoneSpec => []ReadInv
    <2>1. PhoneInv /\ BytesInv /\ ReadInv /\ [PhoneNext]_phoneVars => ReadInv'
        BY ReadStep
    <2> QED
        BY <2>1, ReadInit, BytesInvariant, PTL DEF PhoneSpec
<1> DEFINE Reads(p) == (mishaps[p] = {} /\ reader[p].at = "send") =>
               LET i == HeldAt(gatt[p], written[p])
               IN  /\ i \in 1..Len(written[p]) /\ reader[p].data = Said(written[p][i])
                   /\ reader[p].telephone_set = IsNumber(written[p][i])
<1>2. ReadInv => \A p \in Phones : Reads(p)
    <2> SUFFICES ASSUME ReadInv, NEW p \in Phones, mishaps[p] = {}, reader[p].at = "send"
                 PROVE  /\ HeldAt(gatt[p], written[p]) \in 1..Len(written[p])
                        /\ reader[p].data = Said(written[p][HeldAt(gatt[p], written[p])])
                        /\ reader[p].telephone_set
                               = IsNumber(written[p][HeldAt(gatt[p], written[p])])
        OBVIOUS
    <2>1. HeldOK(gatt[p], reader[p], written[p]) /\ WrittenOK(p, writing[p], written[p])
        BY DEF ReadInv, ReadOK
    <2>2. Len(written[p]) \in Nat
        BY <2>1, LenProperties DEF WrittenOK
    <2>3. HeldAt(gatt[p], written[p]) \in 1..Len(written[p])
        BY <2>1, <2>2 DEF HeldOK, HeldAt
    <2> QED
        BY <2>1, <2>3 DEF HeldOK
<1>3. PhoneSpec => [](\A p \in Phones : Reads(p))
    BY <1>1, <1>2, PTL
<1> QED
    BY <1>3
=============================================================================
