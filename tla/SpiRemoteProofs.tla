--------------------------- MODULE SpiRemoteProofs ---------------------------
(***************************************************************************)
(* Theorems about SpiRemote, for every set of clients, all their calls,    *)
(* every loss of a client, and every cut of the frames by TCP: frames stay *)
(* apart, the server's devices follow the clients' files, and remote access*)
(* is transparent but for what SpiAccess says, that is, implements it.     *)
(***************************************************************************)
EXTENDS SpiRemote, SequenceTheorems, TLAPS

(* A byte of the frame of request r, and of the frame that answers a.       *)
RequestByte   == [body : Call, len : {Header + 1}]
AnswerLen(a)  == IF a.order = "void" THEN Header ELSE Header + 1
ReplyByte     == [body : Result, len : {Header, Header + 1}]
ByteOf(r)     == [body |-> r, len |-> Header + 1]
AnswerByte(a) == [body |-> a, len |-> AnswerLen(a)]

Types ==
    /\ pc \in [Client -> {"idle", "here", "connecting", "waiting", "answered", "gone"}]
    /\ request \in [Client -> Call \cup {NoCall}]
    /\ answer \in [Client -> Result]
    /\ file \in [Client -> BOOLEAN]
    /\ conn \in [Client -> Nat] /\ \A c \in Client : conn[c] <= MaxOpens[c]
    /\ received \in [Client -> Seq(ReplyByte)]
    /\ link \in [Connection -> {"none", "up", "hung", "down"}]
    /\ toServer \in [Connection -> Seq(RequestByte)]
    /\ toClient \in [Connection -> Seq(ReplyByte)]
    /\ accepted \subseteq Connection /\ device \in [Connection -> Device]
    /\ outbox \in [Connection -> Seq(ReplyByte)]
    /\ serving \in Connection \cup {NoConnection} /\ frame \in Seq(RequestByte)
    /\ controller \in [Client -> BOOLEAN]

(* What has come of a frame of bytes b, and what follows it on the stream,  *)
(* are at most one frame.                                                   *)
Pieces(data, stream, b) ==
    data \in Seq({b}) /\ stream \in Seq({b}) /\ Len(data) + Len(stream) <= b.len

(* The server: bytes read wait in frame for the one connection it serves,   *)
(* and no connection holds more than one request.                           *)
Incoming(k) == IF serving = k THEN frame ELSE <<>>
ServerInv ==
    /\ serving = NoConnection <=> frame = <<>>
    /\ \A k \in Connection : \E b \in RequestByte : Pieces(Incoming(k), toServer[k], b)

(* Nothing is under way on connection k, in either direction.               *)
Quiet(k) ==
    serving # k /\ toServer[k] = <<>> /\ toClient[k] = <<>> /\ outbox[k] = <<>>

(* A connection that is not the client's present one.  Its device may be    *)
(* open still where the temporary file could not be opened.                 *)
Unused(c, n) ==
    /\ Quiet(<<c, n>>)
    /\ device[<<c, n>>].open => c \notin Writable /\ link[<<c, n>>] = "hung"
    /\ link[<<c, n>>] # "up" /\ (n > conn[c] => link[<<c, n>>] = "none")

(* The client's file and the server's device on connection k.               *)
Agrees(c, k) ==
    /\ file[c] => device[k].open
    /\ c \in Writable /\ device[k].open => file[c]

(* The request is under way, whole; nothing has been done yet.              *)
Asked(c, k) ==
    /\ Pieces(Incoming(k), toServer[k], ByteOf(request[c]))
    /\ Len(Incoming(k)) + Len(toServer[k]) = Header + 1
    /\ toClient[k] = <<>> /\ outbox[k] = <<>> /\ received[c] = <<>>
    /\ Agrees(c, k) /\ (request[c].op = "open" => ~device[k].open)

(* The answer a is under way, whole; the server's device is where the file  *)
(* will be, if it can, when it has come.                                    *)
Ready(c, k, a) ==
    CASE request[c].op = "open"  -> device[k].open = a.ok
      [] request[c].op = "close" -> ~device[k].open
      [] OTHER                   -> Agrees(c, k)
Answering(c, k, a) ==
    /\ received[c] \in Seq({AnswerByte(a)}) /\ toClient[k] \in Seq({AnswerByte(a)})
    /\ outbox[k] \in Seq({AnswerByte(a)})
    /\ Len(received[c]) + Len(toClient[k]) + Len(outbox[k]) = AnswerLen(a)
    /\ Ready(c, k, a)
Tells(c, k) ==
    /\ serving # k /\ toServer[k] = <<>>
    /\ \E a \in Result : Answering(c, k, a)

(* The present connection of a client.                                      *)
Present(c, k) ==
    /\ link[k] \in {"none", "up"}
    /\ link[k] = "none" => Quiet(k) /\ received[c] = <<>> /\ ~file[c] /\ ~device[k].open
    /\ pc[c] = "connecting" => link[k] = "none" /\ request[c].op = "open"
    /\ pc[c] # "waiting" => Quiet(k) /\ Agrees(c, k)
    /\ pc[c] = "waiting" /\ link[k] = "up" => Asked(c, k) \/ Tells(c, k)

ClientInv(c) ==
    /\ pc[c] \in {"connecting", "waiting"} => request[c] \in Call
    /\ pc[c] = "waiting" /\ request[c].op = "open" => ~file[c]
    /\ pc[c] # "waiting" => received[c] = <<>>
    /\ conn[c] = 0 => ~file[c] /\ pc[c] \notin {"connecting", "waiting"}
    /\ pc[c] # "gone" =>
          /\ \A n \in (1..MaxOpens[c]) \ {conn[c]} : Unused(c, n)
          /\ conn[c] # 0 => Present(c, Current(c))

SpiInv == Types /\ ServerInv /\ \A c \in Client : ClientInv(c)
-----------------------------------------------------------------------------
LEMMA Connections ==
    /\ \A c \in Client : \A n \in 1..MaxOpens[c] : <<c, n>> \in Connection
    /\ \A k \in Connection : \E c \in Client : \E n \in 1..MaxOpens[c] : k = <<c, n>>
    /\ NoConnection \notin Connection
BY DEF Connection, NoConnection

LEMMA ByteTypes ==
    /\ RequestByte \subseteq Byte /\ ReplyByte \subseteq Byte
    /\ \A r \in Call : ByteOf(r) \in RequestByte
    /\ \A a \in Result : AnswerByte(a) \in ReplyByte
BY SizeAssumption DEF RequestByte, ReplyByte, Byte, ByteOf, AnswerByte, AnswerLen

LEMMA TypesAreOK == Types => TypeOK
<1> SUFFICES ASSUME Types PROVE TypeOK
  OBVIOUS
<1>1. \A s : s \in Seq(RequestByte) \/ s \in Seq(ReplyByte) => s \in Seq(Byte)
  BY ByteTypes, SeqMonotonic
<1>2. frame \in Seq(Byte)
  BY <1>1 DEF Types
<1>3. received \in [Client -> Seq(Byte)] /\ toServer \in [Connection -> Seq(Byte)]
  BY <1>1 DEF Types
<1>4. toClient \in [Connection -> Seq(Byte)] /\ outbox \in [Connection -> Seq(Byte)]
  BY <1>1 DEF Types
<1> QED BY <1>2, <1>3, <1>4 DEF Types, TypeOK

(* The frames are so many equal bytes.                                      *)
LEMMA BytesSeq ==
    ASSUME NEW n \in Nat, NEW body
    PROVE  /\ Bytes(n, body) \in Seq({[body |-> body, len |-> n]})
           /\ Len(Bytes(n, body)) = n
<1> DEFINE b == [body |-> body, len |-> n]
<1>1. Bytes(n, body) = [i \in 1..n |-> b]
  BY DEF Bytes
<1> HIDE DEF b
<1>2. [i \in 1..n |-> b] \in Seq({b}) /\ Len([i \in 1..n |-> b]) = n
  OBVIOUS
<1> QED BY <1>1, <1>2 DEF b

LEMMA FramesSeq ==
    /\ \A r \in Call : /\ RequestFrame(r) \in Seq({ByteOf(r)})
                       /\ Len(RequestFrame(r)) = Header + 1
    /\ \A a \in Result : /\ AnswerFrame(a) \in Seq({AnswerByte(a)})
                         /\ Len(AnswerFrame(a)) = AnswerLen(a)
<1>1. Header \in Nat /\ Header + 1 \in Nat
  BY SizeAssumption
<1> QED BY <1>1, BytesSeq DEF RequestFrame, ByteOf, AnswerFrame, AnswerByte, AnswerLen

LEMMA SmallerOf ==
    ASSUME NEW i \in Nat, NEW j \in Nat
    PROVE  Min({i, j}) = IF i <= j THEN i ELSE j
BY DEF Min

LEMMA PrefixSeq ==
    ASSUME NEW S, NEW s \in Seq(S), NEW n \in 0..Len(s)
    PROVE  /\ SubSeq(s, 1, n) \in Seq(S) /\ Len(SubSeq(s, 1, n)) = n
           /\ SubSeq(s, n + 1, Len(s)) \in Seq(S)
           /\ Len(SubSeq(s, n + 1, Len(s))) = Len(s) - n
<1>1. Len(s) \in Nat /\ n \in Nat /\ \A i \in 1..Len(s) : s[i] \in S
  BY LenProperties
<1>2. SubSeq(s, 1, n) \in Seq(S) /\ Len(SubSeq(s, 1, n)) = n
  BY <1>1, SubSeqProperties
<1>3. /\ SubSeq(s, n + 1, Len(s)) \in Seq(S)
      /\ Len(SubSeq(s, n + 1, Len(s))) = Len(s) - n
  BY <1>1, SubSeqProperties
<1> QED BY <1>2, <1>3
-----------------------------------------------------------------------------
(* readTCPFrameBlocked on a stream of one frame of bytes b.                 *)
LEMMA CountOf ==
    ASSUME NEW b, b.len \in Nat, b.len >= Header, NEW s \in Seq({b})
    PROVE  /\ Count(s) \in Nat /\ Count(s) >= 1
           /\ Len(s) < Header => Count(s) = Header
           /\ Len(s) >= Header => Count(s) = b.len /\ s[1] = b
<1>1. Header \in Nat /\ Header >= 1 /\ Len(s) \in Nat /\ \A i \in 1..Len(s) : s[i] = b
  BY SizeAssumption, LenProperties
<1>2. Len(s) >= Header => s[1] = b
  BY <1>1
<1> QED BY <1>1, <1>2 DEF Count

LEMMA TakenSome ==
    ASSUME NEW b, b.len \in Nat, b.len >= Header,
           NEW data \in Seq({b}), NEW stream \in Seq({b}), NEW n \in 1..Len(stream)
    PROVE  Taken(data, stream, n) \in 1..n
<1> DEFINE first == Min({Count(data), n})
           known == data \o SubSeq(stream, 1, first)
           more  == Min({Count(known), n - first})
<1>1. n \in Nat /\ n >= 1 /\ n <= Len(stream) /\ Len(stream) \in Nat
  BY LenProperties
<1>2. first \in 1..n
  BY <1>1, CountOf, SmallerOf
<1>3. Taken(data, stream, n)
        = IF Len(data) < Header /\ Len(known) >= Header THEN first + more ELSE first
  BY DEF Taken
<1>4. known \in Seq({b})
  <2>1. first \in 0..Len(stream)
    BY <1>1, <1>2
  <2> HIDE DEF first
  <2>2. SubSeq(stream, 1, first) \in Seq({b})
    BY <2>1, PrefixSeq
  <2> QED BY <2>2, ConcatProperties DEF known
<1> HIDE DEF first, known
<1>5. more \in 0..(n - first)
  <2>1. Count(known) \in Nat /\ n - first \in Nat
    BY <1>1, <1>2, <1>4, CountOf
  <2> QED BY <2>1, SmallerOf
<1> HIDE DEF more
<1> QED BY <1>1, <1>2, <1>3, <1>5

(* A turn t moves bytes from the stream to data, and ends with the frame.   *)
GoodTurn(t, data, stream, b) ==
    /\ t.data \in Seq({b}) /\ t.stream \in Seq({b})
    /\ Len(t.data) + Len(t.stream) = Len(data) + Len(stream)
    /\ t.data # <<>> /\ stream # <<>>
    /\ Complete(t.data) => Whole(t.data) /\ Len(t.data) = b.len /\ t.data[1] = b

LEMMA TurnPieces ==
    ASSUME NEW b, b.len \in Nat, b.len >= Header,
           NEW data, NEW stream, Pieces(data, stream, b), NEW t \in Turns(data, stream)
    PROVE  GoodTurn(t, data, stream, b)
<1>1. PICK n \in 1..Len(stream) :
         t = [data |-> data \o SubSeq(stream, 1, Taken(data, stream, n)),
              stream |-> SubSeq(stream, Taken(data, stream, n) + 1, Len(stream))]
  BY DEF Turns
<1> DEFINE k == Taken(data, stream, n)
<1>2. data \in Seq({b}) /\ stream \in Seq({b}) /\ Len(data) + Len(stream) <= b.len
  BY DEF Pieces
<1>3. k \in 1..n
  BY <1>2, TakenSome
<1>4. Len(data) \in Nat /\ Len(stream) \in Nat /\ k \in 1..Len(stream)
  BY <1>2, <1>3, LenProperties
<1>5. /\ t.data = data \o SubSeq(stream, 1, k)
      /\ t.stream = SubSeq(stream, k + 1, Len(stream))
  BY <1>1
<1> HIDE DEF k
<1>6. /\ SubSeq(stream, 1, k) \in Seq({b}) /\ Len(SubSeq(stream, 1, k)) = k
      /\ t.stream \in Seq({b}) /\ Len(t.stream) = Len(stream) - k
  BY <1>2, <1>4, <1>5, PrefixSeq
<1>7. t.data \in Seq({b}) /\ Len(t.data) = Len(data) + k
  BY <1>2, <1>5, <1>6, ConcatProperties
<1>8. Len(t.data) \in Nat /\ Len(t.data) >= 1 /\ Len(t.data) <= b.len
  BY <1>2, <1>4, <1>7
<1>9. Complete(t.data) <=> Len(t.data) = b.len
  BY <1>7, <1>8, CountOf, SizeAssumption DEF Complete
<1>10. Complete(t.data) => Whole(t.data) /\ t.data[1] = b
  BY <1>7, <1>8, <1>9, CountOf DEF Whole
<1>11. stream # <<>>
  BY <1>4
<1>12. t.data # <<>>
  BY <1>8
<1> QED BY <1>4, <1>6, <1>7, <1>9, <1>10, <1>11, <1>12 DEF GoodTurn
-----------------------------------------------------------------------------
(* What the server makes of a call r: its outcomes on the device d, but for *)
(* a read, whose answer is only the bytes.                                  *)
Served(d, l, r, capable) ==
    IF r.op = "read" THEN {BytesOf(o) : o \in ReadData(d, l)} ELSE Outcomes(d, l, r, capable)

(* An outcome o of the call r on the server's device d, after which it is   *)
(* open or closed as the client's file will be, if that can be opened.      *)
Fits(r, d, o) ==
    /\ o.dev \in Device /\ o.lsb \in BOOLEAN /\ o.result \in Result
    /\ r.op = "open" /\ ~d.open => o.dev.open = o.result.ok
    /\ r.op = "close" => ~o.dev.open
    /\ r.op \notin {"open", "close"} => o.dev.open = d.open

LEMMA CallResults ==
    /\ {NoResult, Failed, Empty, Done, Void} \subseteq Result
    /\ \A b \in BOOLEAN : Exchanged(b) \in Result
BY DEF Result, NoResult, Failed, Empty, Done, Void, Exchanged, Order

LEMMA OutcomeFits ==
    ASSUME NEW r, NEW d, NEW e \in Device, NEW l \in BOOLEAN, NEW a \in Result,
           \/ r.op = "open" /\ (~d.open => e.open = a.ok)
           \/ r.op = "close" /\ e.open = FALSE
           \/ r.op \notin {"open", "close"} /\ e.open = d.open
    PROVE  Fits(r, d, Outcome(e, l, a))
BY DEF Fits, Outcome

LEMMA DeviceOutcomes ==
    ASSUME NEW d \in Device, NEW l \in BOOLEAN, NEW r
    PROVE  /\ r.op = "open" => \A o \in Open(d, l) : Fits(r, d, o)
           /\ r.op = "close" => \A o \in Close(d, l) : Fits(r, d, o)
           /\ r.op = "setMode" => \A o \in SetMode(d, l, r.arg) : Fits(r, d, o)
           /\ r.op = "setLSBFirst" /\ r.arg \in BOOLEAN =>
                \A capable : \A o \in SetLSBFirst(d, l, r.arg, capable) : Fits(r, d, o)
           /\ r.op = "setBitsPerWord" => \A o \in SetBitsPerWord(d, l) : Fits(r, d, o)
           /\ r.op = "setBitSpeed" => \A o \in SetBitSpeed(d, l) : Fits(r, d, o)
           /\ r.op = "sendReceive" => \A o \in SendReceive(d, l, r.arg) : Fits(r, d, o)
           /\ r.op = "read" => \A o \in ReadData(d, l) : Fits(r, d, BytesOf(o))
           /\ r.op = "write" => \A o \in WriteData(d, l) : Fits(r, d, o)
<1>1. d.open \in BOOLEAN /\ d.reverse \in BOOLEAN
  BY DEF Device
<1>2. Opened \in Device /\ Closed \in Device /\ Opened.open = TRUE /\ Closed.open = FALSE
  BY DEF Opened, Closed, Device
<1>3. Failed \in Result /\ Done \in Result /\ Void \in Result 
      /\ Done.ok = TRUE /\ Failed.ok = FALSE
  BY CallResults DEF Failed, Done
<1>4. r.op # "close" => Fits(r, d, Fails(d, l))
  <2>1. ~d.open => d.open = Failed.ok
    BY <1>1, <1>3
  <2> QED BY <1>3, <2>1, OutcomeFits DEF Fails
<1>5. r.op \notin {"open", "close"} => Fits(r, d, Outcome(d, l, Done))
  BY <1>3, OutcomeFits
<1>6. ASSUME NEW first \in BOOLEAN, r.op \notin {"open", "close"}
      PROVE  Fits(r, d, Outcome(d, l, Exchanged(first)))
  BY <1>6, CallResults, OutcomeFits
<1>7. r.op = "open" => \A o \in Open(d, l) : Fits(r, d, o)
  BY <1>2, <1>3, <1>4, OutcomeFits DEF Open
<1>8. r.op = "close" => \A o \in Close(d, l) : Fits(r, d, o)
  <2>1. r.op = "close" => Fits(r, d, Outcome(Closed, l, Void))
    BY <1>2, <1>3, OutcomeFits
  <2> QED BY <2>1 DEF Close
<1>9. r.op = "setMode" => \A o \in SetMode(d, l, r.arg) : Fits(r, d, o)
  <2>1. r.op = "setMode" => \A a \in {Done, Failed} : Fits(r, d, Outcome(d, FALSE, a))
    BY <1>3, OutcomeFits
  <2> QED BY <1>4, <2>1 DEF SetMode
<1>10. ASSUME r.op = "setLSBFirst", r.arg \in BOOLEAN
       PROVE  \A capable : \A o \in SetLSBFirst(d, l, r.arg, capable) : Fits(r, d, o)
  <2>1. [d EXCEPT !.reverse = r.arg] \in Device /\ [d EXCEPT !.reverse = r.arg].open = d.open
    BY <1>10 DEF Device
  <2>2. Fits(r, d, Outcome([d EXCEPT !.reverse = r.arg], l, Done))
    BY <1>3, <1>10, <2>1, OutcomeFits
  <2>3. Fits(r, d, Outcome(d, r.arg, Done))
    BY <1>3, <1>10, OutcomeFits
  <2>4. Fits(r, d, Fails(d, l))
    BY <1>4, <1>10
  <2> QED BY <2>2, <2>3, <2>4, Zenon DEF SetLSBFirst
<1>11. r.op = "setBitsPerWord" => \A o \in SetBitsPerWord(d, l) : Fits(r, d, o)
  BY <1>4, <1>5 DEF SetBitsPerWord
<1>12. r.op = "setBitSpeed" => \A o \in SetBitSpeed(d, l) : Fits(r, d, o)
  BY <1>4, <1>5 DEF SetBitSpeed
<1>13. r.op = "sendReceive" => \A o \in SendReceive(d, l, r.arg) : Fits(r, d, o)
  BY <1>4, <1>6 DEF SendReceive
<1>14. (l # d.reverse) \in BOOLEAN
  OBVIOUS
<1>15. r.op = "read" => \A o \in ReadData(d, l) : Fits(r, d, BytesOf(o))
  <2>1. r.op = "read" => \A o \in ReadData(d, l) : Fits(r, d, o)
    BY <1>4, <1>6, <1>14 DEF ReadData
  <2>2. ASSUME r.op = "read", NEW o \in ReadData(d, l)
        PROVE  Fits(r, d, BytesOf(o))
    <3>1. Fits(r, d, o)
      BY <2>1, <2>2
    <3>2. Empty \in Result
      BY CallResults
    <3> QED BY <2>2, <3>1, <3>2 DEF Fits, BytesOf, Outcome
  <2> QED BY <2>2
<1>16. r.op = "write" => \A o \in WriteData(d, l) : Fits(r, d, o)
  BY <1>4, <1>6, <1>14 DEF WriteData
<1> QED BY <1>7, <1>8, <1>9, <1>10, <1>11, <1>12, <1>13, <1>15, <1>16

LEMMA OutcomesFit ==
    ASSUME NEW d \in Device, NEW l \in BOOLEAN, NEW r \in Call, NEW capable,
           NEW o \in Served(d, l, r, capable)
    PROVE  Fits(r, d, o)
<1>1. r.arg \in BOOLEAN /\ r.op \in {"open", "close", "setMode", "setLSBFirst",
          "setBitsPerWord", "setBitSpeed", "sendReceive", "read", "write"}
  BY DEF Call
<1>2. CASE r.op = "open"
  BY <1>1, <1>2, DeviceOutcomes DEF Served, Outcomes
<1>3. CASE r.op = "close"
  BY <1>1, <1>3, DeviceOutcomes DEF Served, Outcomes
<1>4. CASE r.op = "setMode"
  BY <1>1, <1>4, DeviceOutcomes DEF Served, Outcomes
<1>5. CASE r.op = "setLSBFirst"
  BY <1>1, <1>5, DeviceOutcomes DEF Served, Outcomes
<1>6. CASE r.op = "setBitsPerWord"
  BY <1>1, <1>6, DeviceOutcomes DEF Served, Outcomes
<1>7. CASE r.op = "setBitSpeed"
  BY <1>1, <1>7, DeviceOutcomes DEF Served, Outcomes
<1>8. CASE r.op = "sendReceive"
  BY <1>1, <1>8, DeviceOutcomes DEF Served, Outcomes
<1>9. CASE r.op = "read"
  BY <1>1, <1>9, DeviceOutcomes DEF Served, Outcomes
<1>10. CASE r.op = "write"
  BY <1>1, <1>10, DeviceOutcomes DEF Served, Outcomes
<1> QED BY <1>1, <1>2, <1>3, <1>4, <1>5, <1>6, <1>7, <1>8, <1>9, <1>10

(* Dispatch performs the call it is given, with one of its outcomes.        *)
HandlesOne(k, r) ==
    \E o \in Served(device[k], controller[k[1]], r, k[1] \in Capable) : Handles(k, o)

LEMMA CallOutcome ==
    ASSUME NEW k, NEW r, Dispatch(k, r)
    PROVE  HandlesOne(k, r)
<1> DEFINE d == device[k]
           l == controller[k[1]]
<1>1. ASSUME HandleOpen(k, r) PROVE HandlesOne(k, r)
  <2>1. Served(d, l, r, k[1] \in Capable) = Open(d, l)
    BY <1>1 DEF HandleOpen, Served, Outcomes
  <2> QED BY <1>1, <2>1 DEF HandleOpen, HandlesOne
<1>2. ASSUME HandleClose(k, r) PROVE HandlesOne(k, r)
  <2>1. Served(d, l, r, k[1] \in Capable) = Close(d, l)
    BY <1>2 DEF HandleClose, Served, Outcomes
  <2> QED BY <1>2, <2>1 DEF HandleClose, HandlesOne
<1>3. ASSUME HandleSetMode(k, r) PROVE HandlesOne(k, r)
  <2>1. Served(d, l, r, k[1] \in Capable) = SetMode(d, l, r.arg)
    BY <1>3 DEF HandleSetMode, Served, Outcomes
  <2> QED BY <1>3, <2>1 DEF HandleSetMode, HandlesOne
<1>4. ASSUME HandleSetLSBFirst(k, r) PROVE HandlesOne(k, r)
  <2>1. Served(d, l, r, k[1] \in Capable) = SetLSBFirst(d, l, r.arg, k[1] \in Capable)
    BY <1>4 DEF HandleSetLSBFirst, Served, Outcomes
  <2> QED BY <1>4, <2>1 DEF HandleSetLSBFirst, HandlesOne
<1>5. ASSUME HandleSetBitsPerWord(k, r) PROVE HandlesOne(k, r)
  <2>1. Served(d, l, r, k[1] \in Capable) = SetBitsPerWord(d, l)
    BY <1>5 DEF HandleSetBitsPerWord, Served, Outcomes
  <2> QED BY <1>5, <2>1 DEF HandleSetBitsPerWord, HandlesOne
<1>6. ASSUME HandleSetBitSpeed(k, r) PROVE HandlesOne(k, r)
  <2>1. Served(d, l, r, k[1] \in Capable) = SetBitSpeed(d, l)
    BY <1>6 DEF HandleSetBitSpeed, Served, Outcomes
  <2> QED BY <1>6, <2>1 DEF HandleSetBitSpeed, HandlesOne
<1>7. ASSUME HandleSendReceive(k, r) PROVE HandlesOne(k, r)
  <2>1. Served(d, l, r, k[1] \in Capable) = SendReceive(d, l, r.arg)
    BY <1>7 DEF HandleSendReceive, Served, Outcomes
  <2> QED BY <1>7, <2>1 DEF HandleSendReceive, HandlesOne
<1>8. ASSUME HandleReadData(k, r) PROVE HandlesOne(k, r)
  <2>1. Served(d, l, r, k[1] \in Capable) = {BytesOf(o) : o \in ReadData(d, l)}
    BY <1>8 DEF HandleReadData, Served
  <2> QED BY <1>8, <2>1 DEF HandleReadData, HandlesOne
<1>9. ASSUME HandleWriteData(k, r) PROVE HandlesOne(k, r)
  <2>1. Served(d, l, r, k[1] \in Capable) = WriteData(d, l)
    BY <1>9 DEF HandleWriteData, Served, Outcomes
  <2> QED BY <1>9, <2>1 DEF HandleWriteData, HandlesOne
<1> QED BY <1>1, <1>2, <1>3, <1>4, <1>5, <1>6, <1>7, <1>8, <1>9 DEF Dispatch
-----------------------------------------------------------------------------
(* What a step leaves as it is for a client and for a connection.           *)
SameClient(c) ==
    /\ pc'[c] = pc[c] /\ request'[c] = request[c] /\ file'[c] = file[c]
    /\ conn'[c] = conn[c] /\ received'[c] = received[c]
SameConnection(k) ==
    /\ link'[k] = link[k] /\ toServer'[k] = toServer[k] /\ toClient'[k] = toClient[k]
    /\ outbox'[k] = outbox[k] /\ device'[k] = device[k]
    /\ Incoming(k)' = Incoming(k) /\ (serving' = k <=> serving = k)
OthersSame(c) ==
    \A d \in Client \ {c} :
        SameClient(d) /\ \A n \in 1..MaxOpens[d] : SameConnection(<<d, n>>)

LEMMA SameUnused ==
    ASSUME NEW c, NEW n, conn'[c] = conn[c], SameConnection(<<c, n>>), Unused(c, n)
    PROVE  Unused(c, n)'
BY DEF SameConnection, Unused, Quiet

LEMMA SamePresent ==
    ASSUME NEW c, NEW k, SameClient(c), SameConnection(k), Present(c, k)
    PROVE  Present(c, k)'
<1>1. Quiet(k) => Quiet(k)'
  BY DEF SameConnection, Quiet
<1>2. Agrees(c, k) => Agrees(c, k)'
  BY DEF SameClient, SameConnection, Agrees
<1>3. Asked(c, k) => Asked(c, k)'
  BY <1>2 DEF SameClient, SameConnection, Asked
<1>4. \A a : Answering(c, k, a) => Answering(c, k, a)'
  BY <1>2 DEF SameClient, SameConnection, Answering, Ready
<1>5. Tells(c, k) => Tells(c, k)'
  BY <1>4 DEF SameConnection, Tells
<1> QED BY <1>1, <1>2, <1>3, <1>5 DEF SameClient, SameConnection, Present

LEMMA OthersStep ==
    ASSUME SpiInv, NEW c \in Client, OthersSame(c), NEW d \in Client \ {c}
    PROVE  ClientInv(d)'
<1>1. ClientInv(d) /\ SameClient(d) /\ \A n \in 1..MaxOpens[d] : SameConnection(<<d, n>>)
  BY DEF SpiInv, OthersSame
<1>2. ASSUME pc'[d] # "gone", NEW n \in (1..MaxOpens[d]) \ {conn'[d]}
      PROVE  Unused(d, n)'
  BY <1>1, <1>2, SameUnused DEF SameClient, ClientInv
<1>3. ASSUME pc'[d] # "gone", conn'[d] # 0
      PROVE  Present(d, Current(d))'
  <2>1. conn[d] \in 1..MaxOpens[d]
    BY <1>1, <1>3, SizeAssumption DEF SpiInv, Types, SameClient
  <2>2. Present(d, <<d, conn[d]>>) /\ SameConnection(<<d, conn[d]>>)
    BY <1>1, <1>3, <2>1 DEF SameClient, ClientInv, Current
  <2>3. Present(d, <<d, conn[d]>>)'
    BY <1>1, <2>2, SamePresent DEF SameClient
  <2> QED BY <2>3 DEF Current
<1>4. /\ pc'[d] \in {"connecting", "waiting"} => request'[d] \in Call
      /\ pc'[d] = "waiting" /\ request'[d].op = "open" => ~file'[d]
      /\ pc'[d] # "waiting" => received'[d] = <<>>
      /\ conn'[d] = 0 => ~file'[d] /\ pc'[d] \notin {"connecting", "waiting"}
  BY <1>1 DEF SameClient, ClientInv
<1> QED BY <1>2, <1>3, <1>4 DEF ClientInv

LEMMA StepOf ==
    ASSUME SpiInv, NEW c \in Client, OthersSame(c), Types', ServerInv', ClientInv(c)'
    PROVE  SpiInv'
BY OthersStep DEF SpiInv

LEMMA CurrentIs ==
    ASSUME Types, NEW c \in Client
    PROVE  /\ conn[c] # 0 => Current(c) \in Connection /\ conn[c] \in 1..MaxOpens[c]
           /\ conn[c] = 0 => Current(c) \notin Connection
           /\ \A d \in Client \ {c} : \A n : <<d, n>> # Current(c)
           /\ \A n : n # conn[c] => <<c, n>> # Current(c)
<1>1. conn[c] \in Nat /\ conn[c] <= MaxOpens[c] /\ MaxOpens[c] \in Nat
  BY SizeAssumption DEF Types
<1> QED BY <1>1 DEF Current, Connection

LEMMA ServerSame ==
    ASSUME ServerInv, UNCHANGED <<serving, frame, toServer>>
    PROVE  ServerInv'
BY DEF ServerInv, Incoming, Pieces

(* When the connections are left alone, and the client is not in a call on  *)
(* one before or after, only the types matter.                              *)
LEMMA HereStep ==
    ASSUME SpiInv, NEW c \in Client,
           pc[c] \notin {"waiting", "gone"},
           NEW at \in {"idle", "here", "answered"}, pc' = [pc EXCEPT ![c] = at],
           NEW r \in Call \cup {NoCall}, request' = [request EXCEPT ![c] = r],
           answer' \in [Client -> Result],
           UNCHANGED <<file, conn, received, netVars, serverVars>>
    PROVE  SpiInv'
<1>1. Types
  BY DEF SpiInv
<1>2. Types'
  BY <1>1 DEF Types, netVars, serverVars
<1>3. ServerInv'
  BY ServerSame DEF SpiInv, netVars, serverVars
<1>4. OthersSame(c)
  BY <1>1 DEF Types, netVars, serverVars, OthersSame, SameClient, SameConnection, Incoming
<1>5. \A k : SameConnection(k)
  BY DEF netVars, serverVars, SameConnection, Incoming
<1>6. ClientInv(c) /\ pc'[c] = at /\ conn'[c] = conn[c] /\ file'[c] = file[c]
      /\ received'[c] = received[c] /\ Current(c)' = Current(c)
  BY <1>1 DEF SpiInv, Types, Current
<1>7. \A n \in (1..MaxOpens[c]) \ {conn'[c]} : Unused(c, n)'
  BY <1>5, <1>6, SameUnused DEF ClientInv
<1>8. ASSUME conn[c] # 0
      PROVE  Present(c, Current(c))'
  <2> DEFINE k == Current(c)
  <2>1. Present(c, k)
    BY <1>6, <1>8 DEF ClientInv
  <2>2. SameConnection(k) /\ k' = k
    BY <1>5, <1>6
  <2> HIDE DEF k
  <2>3. Quiet(k)' <=> Quiet(k)
    BY <2>2 DEF SameConnection, Quiet
  <2>4. Present(c, k)'
    BY <1>6, <2>1, <2>2, <2>3 DEF Present, SameConnection, Agrees
  <2> QED BY <2>4 DEF k
<1>9. ClientInv(c)'
  BY <1>6, <1>7, <1>8 DEF ClientInv
<1> QED BY <1>2, <1>3, <1>4, <1>9, StepOf

LEMMA CallHereStep ==
    ASSUME SpiInv, NEW c \in Client, NEW r \in Calls[c], CallHere(c, r)
    PROVE  SpiInv'
<1>1. r \in Call
  BY ClientAssumption
<1>2. answer' \in [Client -> Result]
  BY DEF SpiInv, Types, CallHere, Calling
<1>3. UNCHANGED <<file, conn, received, netVars, serverVars>>
  BY DEF CallHere, Calling, netVars
<1>4. /\ pc[c] = "idle" /\ pc' = [pc EXCEPT ![c] = "here"]
      /\ request' = [request EXCEPT ![c] = r]
  BY DEF CallHere, Calling
<1> QED BY <1>1, <1>2, <1>3, <1>4, HereStep

LEMMA AnswersStep ==
    ASSUME SpiInv, NEW c \in Client, AnswerHere(c) \/ ConnectFails(c)
    PROVE  SpiInv'
<1>1. Types
  BY DEF SpiInv
<1>2. request[c] \in Call \cup {NoCall} /\ request' = [request EXCEPT ![c] = request[c]]
  BY <1>1 DEF Types, AnswerHere, ConnectFails
<1>3. answer' \in [Client -> Result]
  <2>1. Void \in Result /\ Failed \in Result
    BY CallResults
  <2>2. (IF request[c].op = "close" THEN Void ELSE Failed) \in Result
    BY <2>1
  <2> QED BY <1>1, <2>1, <2>2 DEF Types, AnswerHere, ConnectFails
<1>4. /\ pc[c] \in {"here", "connecting"} /\ pc' = [pc EXCEPT ![c] = "answered"]
      /\ UNCHANGED <<file, conn, received, netVars, serverVars>>
  BY DEF AnswerHere, ConnectFails
<1> QED BY <1>2, <1>3, <1>4, HereStep

LEMMA ReturnStep ==
    ASSUME SpiInv, NEW c \in Client, Return(c)
    PROVE  SpiInv'
<1>1. answer' \in [Client -> Result]
  BY CallResults DEF SpiInv, Types, Return
<1>2. /\ pc[c] = "answered" /\ pc' = [pc EXCEPT ![c] = "idle"]
      /\ request' = [request EXCEPT ![c] = NoCall]
      /\ UNCHANGED <<file, conn, received, netVars, serverVars>>
  BY DEF Return
<1> QED BY <1>1, <1>2, HereStep

(* open: the old connection is done with, the new one is unused.            *)
LEMMA CallOpenStep ==
    ASSUME SpiInv, NEW c \in Client, NEW r \in Calls[c], CallOpen(c, r)
    PROVE  SpiInv'
<1>0. PICK k : k = <<c, conn[c] + 1>>
  OBVIOUS
<1>1. Types /\ ClientInv(c) /\ r \in Call
  BY ClientAssumption DEF SpiInv
<1>2. /\ pc[c] = "idle" /\ r.op = "open" /\ ~file[c] /\ conn[c] < MaxOpens[c]
      /\ pc' = [pc EXCEPT ![c] = "connecting"] /\ request' = [request EXCEPT ![c] = r]
      /\ conn' = [conn EXCEPT ![c] = @ + 1] /\ link' = HungUp({Current(c)})
      /\ UNCHANGED <<answer, file, received, toServer, toClient>>
      /\ UNCHANGED <<accepted, device, outbox, serving, frame, controller>>
  BY DEF CallOpen, Calling, serverVars
<1>3. conn[c] \in Nat /\ MaxOpens[c] \in Nat /\ conn[c] + 1 \in 1..MaxOpens[c]
  <2>1. conn[c] \in Nat /\ MaxOpens[c] \in Nat
    BY <1>1, SizeAssumption DEF Types
  <2> QED BY <1>2, <2>1
<1>3a. k \in Connection /\ k # Current(c)
  BY <1>0, <1>3, Connections DEF Current
<1>4. \A j \in Connection :
         link'[j] = IF j = Current(c) /\ link[j] = "up" THEN "hung" ELSE link[j]
  BY <1>2 DEF HungUp
<1>5. Types'
  <2>1. link' \in [Connection -> {"none", "up", "hung", "down"}]
    BY <1>1, <1>2 DEF HungUp, Types
  <2>2. conn' \in [Client -> Nat] /\ \A d \in Client : conn'[d] <= MaxOpens[d]
    BY <1>1, <1>2, <1>3 DEF Types
  <2> QED BY <1>1, <1>2, <2>1, <2>2 DEF Types
<1>6. ServerInv'
  BY <1>2, ServerSame DEF SpiInv
<1>7. OthersSame(c)
  <2>1. \A d \in Client \ {c} : SameClient(d)
    BY <1>1, <1>2 DEF SameClient, Types
  <2>2. \A d \in Client \ {c} : \A n \in 1..MaxOpens[d] : link'[<<d, n>>] = link[<<d, n>>]
    BY <1>1, <1>4, Connections, CurrentIs
  <2> QED BY <1>2, <2>1, <2>2 DEF OthersSame, SameConnection, Incoming
<1>8. \A j : Quiet(j)' <=> Quiet(j)
  BY <1>2 DEF Quiet
<1>9. conn'[c] = conn[c] + 1 /\ pc'[c] = "connecting" /\ request'[c] = r /\ Current(c)' = k
  BY <1>0, <1>1, <1>2 DEF Types, Current
<1>10. ASSUME NEW n \in (1..MaxOpens[c]) \ {conn[c] + 1}
       PROVE  Unused(c, n)'
  <2>1. CASE n = conn[c]
    <3>1. conn[c] # 0 /\ Present(c, <<c, n>>)
      BY <1>1, <1>2, <2>1 DEF ClientInv, Current
    <3>2. /\ Quiet(<<c, n>>) /\ link[<<c, n>>] \in {"none", "up"}
          /\ device[<<c, n>>].open => c \notin Writable /\ link[<<c, n>>] = "up"
      BY <1>2, <3>1 DEF Present, Agrees
    <3>3. /\ link'[<<c, n>>] # "up"
          /\ device[<<c, n>>].open => link'[<<c, n>>] = "hung"
      BY <1>4, <2>1, <3>2, Connections DEF Current
    <3> QED BY <1>2, <1>3, <1>8, <1>9, <2>1, <3>2, <3>3 DEF Unused
  <2>2. CASE n # conn[c]
    <3>1. Unused(c, n)
      BY <1>1, <1>2, <2>2 DEF ClientInv
    <3>2. link'[<<c, n>>] = link[<<c, n>>]
      BY <1>1, <1>4, <2>2, Connections, CurrentIs
    <3>3. n > conn[c] + 1 => n > conn[c]
      BY <1>3
    <3> QED BY <1>2, <1>8, <1>9, <3>1, <3>2, <3>3 DEF Unused
  <2> QED BY <2>1, <2>2
<1>11. Present(c, k)'
  <2>1. Unused(c, conn[c] + 1) /\ conn[c] + 1 > conn[c]
    BY <1>1, <1>2, <1>3 DEF ClientInv
  <2>2. Quiet(k) /\ ~device[k].open /\ link[k] = "none"
    BY <1>0, <2>1 DEF Unused
  <2>3. link'[k] = "none" /\ received'[c] = <<>> /\ ~file'[c] /\ ~device'[k].open
    BY <1>1, <1>2, <1>3a, <1>4, <2>2 DEF ClientInv
  <2>4. Agrees(c, k)'
    BY <2>3 DEF Agrees
  <2> QED BY <1>2, <1>8, <1>9, <2>2, <2>3, <2>4 DEF Present
<1>12. ClientInv(c)'
  BY <1>1, <1>2, <1>3, <1>9, <1>10, <1>11 DEF ClientInv
<1> QED BY <1>5, <1>6, <1>7, <1>12, StepOf

(* The step of a client, or of the server, on the client's present          *)
(* connection k.                                                            *)
LEMMA PresentStep ==
    ASSUME SpiInv, NEW c \in Client, pc[c] # "gone", conn[c] # 0,
           NEW k, k = Current(c), UNCHANGED conn,
           \A d \in Client \ {c} : SameClient(d),
           \A j \in Connection \ {k} : SameConnection(j),
           Types', ServerInv', Present(c, k)',
           pc'[c] \in {"connecting", "waiting"} => request'[c] \in Call,
           pc'[c] = "waiting" /\ request'[c].op = "open" => ~file'[c],
           pc'[c] # "waiting" => received'[c] = <<>>
    PROVE  SpiInv'
<1>1. Types /\ ClientInv(c)
  BY DEF SpiInv
<1>2. OthersSame(c)
  BY <1>1, CurrentIs, Connections DEF OthersSame
<1>3. ASSUME NEW n \in (1..MaxOpens[c]) \ {conn[c]}
      PROVE  Unused(c, n)'
  <2>1. <<c, n>> \in Connection \ {k}
    BY <1>1, CurrentIs, Connections
  <2> QED BY <1>1, <2>1, SameUnused DEF ClientInv
<1>4. Current(c)' = k
  BY DEF Current
<1>5. ClientInv(c)'
  BY <1>3, <1>4 DEF ClientInv
<1> QED BY <1>2, <1>5, StepOf

(* A client and the server do not take turns on another connection.         *)
LEMMA IncomingElse ==
    ASSUME UNCHANGED <<serving, frame>>, NEW k
    PROVE  Incoming(k)' = Incoming(k)
BY DEF Incoming

LEMMA FreshRequest ==
    ASSUME NEW r \in Call
    PROVE  /\ Pieces(<<>>, RequestFrame(r), ByteOf(r))
           /\ Len(<<>>) + Len(RequestFrame(r)) = Header + 1
<1>1. RequestFrame(r) \in Seq({ByteOf(r)}) /\ Len(RequestFrame(r)) = Header + 1
  BY FramesSeq
<1>2. ByteOf(r).len = Header + 1
  BY DEF ByteOf
<1>3. Len(<<>>) = 0 /\ <<>> \in Seq({ByteOf(r)}) /\ Header \in Nat
  BY SizeAssumption, EmptySeq
<1>4. Len(<<>>) + Len(RequestFrame(r)) = Header + 1
  BY <1>1, <1>3
<1> QED BY <1>1, <1>2, <1>3, <1>4 DEF Pieces

LEMMA OneRequest ==
    ASSUME Types, ServerInv, NEW k \in Connection, NEW r \in Call,
           UNCHANGED <<serving, frame>>, Incoming(k) = <<>>,
           toServer' = [toServer EXCEPT ![k] = RequestFrame(r)]
    PROVE  ServerInv'
<1>1. ASSUME NEW j \in Connection
      PROVE  \E b \in RequestByte : Pieces(Incoming(j), toServer[j], b)'
  <2>1. Incoming(j)' = Incoming(j)
    BY IncomingElse
  <2>2. CASE j = k
    <3>1. toServer'[k] = RequestFrame(r) /\ Incoming(k)' = <<>>
      BY <2>1, <2>2 DEF Types
    <3>2. Pieces(<<>>, RequestFrame(r), ByteOf(r))
      BY FreshRequest
    <3>3. Pieces(Incoming(k)', toServer'[k], ByteOf(r))
      BY <3>1, <3>2
    <3> QED BY <2>2, <3>3, ByteTypes DEF Pieces
  <2>3. CASE j # k
    <3>1. toServer'[j] = toServer[j]
      BY <2>3 DEF Types
    <3> QED BY <2>1, <3>1 DEF ServerInv, Pieces
  <2> QED BY <2>2, <2>3
<1> QED BY <1>1 DEF ServerInv

LEMMA RequestTyped == \A r \in Call : RequestFrame(r) \in Seq(RequestByte)
<1> SUFFICES ASSUME NEW r \in Call PROVE RequestFrame(r) \in Seq(RequestByte)
  OBVIOUS
<1>1. RequestFrame(r) \in Seq({ByteOf(r)}) /\ {ByteOf(r)} \subseteq RequestByte
  BY FramesSeq, ByteTypes
<1> QED BY <1>1, SeqMonotonic

LEMMA AnswerTyped == \A a \in Result : AnswerFrame(a) \in Seq(ReplyByte)
<1> SUFFICES ASSUME NEW a \in Result PROVE AnswerFrame(a) \in Seq(ReplyByte)
  OBVIOUS
<1>1. AnswerFrame(a) \in Seq({AnswerByte(a)}) /\ {AnswerByte(a)} \subseteq ReplyByte
  BY FramesSeq, ByteTypes
<1> QED BY <1>1, SeqMonotonic

LEMMA QuietIncoming ==
    ASSUME Types, NEW k \in Connection, Quiet(k)
    PROVE  Incoming(k) = <<>>
BY DEF Quiet, Incoming

(* A request on a connection that was quiet.                                *)
LEMMA AskedNow ==
    ASSUME NEW c, NEW k, request'[c] \in Call,
           Quiet(k), Incoming(k) = <<>>, UNCHANGED <<serving, frame, toClient, outbox, device>>,
           toServer'[k] = RequestFrame(request'[c]), received'[c] = <<>>,
           Agrees(c, k), file'[c] = file[c], request'[c].op = "open" => ~device[k].open
    PROVE  Asked(c, k)'
<1>1. Incoming(k)' = <<>>
  BY IncomingElse
<1>2. Pieces(<<>>, RequestFrame(request'[c]), ByteOf(request'[c]))
  BY FreshRequest
<1>3. Len(<<>>) + Len(RequestFrame(request'[c])) = Header + 1
  BY FreshRequest
<1>4. toClient'[k] = <<>> /\ outbox'[k] = <<>>
  BY DEF Quiet
<1> QED BY <1>1, <1>2, <1>3, <1>4 DEF Asked, Pieces, ByteOf, Agrees

LEMMA CallServerStep ==
    ASSUME SpiInv, NEW c \in Client, NEW r \in Calls[c], CallServer(c, r)
    PROVE  SpiInv'
<1>0. PICK k : k = Current(c)
  OBVIOUS
<1>1. Types /\ ServerInv /\ ClientInv(c) /\ r \in Call
  BY ClientAssumption DEF SpiInv
<1>2. /\ pc[c] = "idle" /\ r.op # "open" /\ conn[c] # 0
      /\ pc' = [pc EXCEPT ![c] = "waiting"] /\ request' = [request EXCEPT ![c] = r]
      /\ toServer' = IF link[k] = "up"
                     THEN [toServer EXCEPT ![k] = @ \o RequestFrame(r)] ELSE toServer
      /\ UNCHANGED <<answer, file, conn, received, link, toClient>>
      /\ UNCHANGED <<accepted, device, outbox, serving, frame, controller>>
  BY <1>0 DEF CallServer, Calling, serverVars
<1>3. k \in Connection
  BY <1>0, <1>1, <1>2, CurrentIs
<1>4. Present(c, k) /\ received[c] = <<>>
  BY <1>0, <1>1, <1>2 DEF ClientInv
<1>5. Quiet(k) /\ Agrees(c, k)
  BY <1>2, <1>4 DEF Present
<1>6. toServer' = IF link[k] = "up" THEN [toServer EXCEPT ![k] = RequestFrame(r)]
                  ELSE toServer
  <2>1. <<>> \o RequestFrame(r) = RequestFrame(r)
    BY <1>1, FramesSeq, ConcatEmptySeq
  <2> QED BY <1>2, <1>5, <2>1 DEF Quiet
<1>7. Types'
  BY <1>1, <1>2, <1>6, RequestTyped DEF Types
<1>8. Incoming(k) = <<>>
  BY <1>1, <1>3, <1>5, QuietIncoming
<1>9. ServerInv'
  BY <1>1, <1>2, <1>3, <1>6, <1>8, OneRequest, ServerSame
<1>10. pc'[c] = "waiting" /\ request'[c] = r /\ file'[c] = file[c] /\ received'[c] = <<>>
  BY <1>1, <1>2, <1>4 DEF Types
<1>11. Present(c, k)'
  <2>1. CASE link[k] = "up"
    <3>1. toServer'[k] = RequestFrame(r)
      BY <1>1, <1>3, <1>6, <2>1 DEF Types
    <3>2. Asked(c, k)'
      BY <1>1, <1>2, <1>5, <1>8, <1>10, <3>1, AskedNow
    <3> QED BY <1>2, <1>10, <2>1, <3>2 DEF Present
  <2>2. CASE link[k] = "none"
    <3>1. Quiet(k)'
      BY <1>2, <1>5, <1>6, <2>2 DEF Quiet
    <3> QED BY <1>2, <1>4, <1>10, <2>2, <3>1 DEF Present
  <2> QED BY <1>4, <2>1, <2>2 DEF Present
<1>12. \A d \in Client \ {c} : SameClient(d)
  BY <1>1, <1>2 DEF SameClient, Types
<1>13. \A j \in Connection \ {k} : SameConnection(j)
  BY <1>1, <1>2, <1>6 DEF SameConnection, Types, Incoming
<1> QED BY <1>0, <1>1, <1>2, <1>7, <1>9, <1>10, <1>11, <1>12, <1>13, PresentStep

LEMMA ConnectStep ==
    ASSUME SpiInv, NEW c \in Client, Connect(c)
    PROVE  SpiInv'
<1>0. PICK k : k = Current(c)
  OBVIOUS
<1>1. Types /\ ServerInv /\ ClientInv(c)
  BY DEF SpiInv
<1>2. /\ pc[c] = "connecting" /\ pc' = [pc EXCEPT ![c] = "waiting"]
      /\ link' = [link EXCEPT ![k] = "up"]
      /\ toServer' = [toServer EXCEPT ![k] = RequestFrame(request[c])]
      /\ UNCHANGED <<request, answer, file, conn, received, toClient>>
      /\ UNCHANGED <<accepted, device, outbox, serving, frame, controller>>
  BY <1>0 DEF Connect, serverVars
<1>3. request[c] \in Call /\ conn[c] # 0 /\ received[c] = <<>>
  BY <1>1, <1>2 DEF ClientInv
<1>4. k \in Connection /\ Present(c, k)
  BY <1>0, <1>1, <1>2, <1>3, CurrentIs DEF ClientInv
<1>5. Quiet(k) /\ Agrees(c, k) /\ ~device[k].open /\ ~file[c]
  BY <1>2, <1>4 DEF Present
<1>6. Types'
  BY <1>1, <1>2, <1>3, RequestTyped DEF Types
<1>7. Incoming(k) = <<>>
  BY <1>1, <1>4, <1>5, QuietIncoming
<1>8. ServerInv'
  BY <1>1, <1>2, <1>3, <1>4, <1>7, OneRequest
<1>9. pc'[c] = "waiting" /\ link'[k] = "up" /\ toServer'[k] = RequestFrame(request[c])
  BY <1>1, <1>2, <1>4 DEF Types
<1>10. Present(c, k)'
  <2>1. Asked(c, k)'
    BY <1>2, <1>3, <1>5, <1>7, <1>9, AskedNow
  <2> QED BY <1>9, <2>1 DEF Present
<1>11. \A d \in Client \ {c} : SameClient(d)
  BY <1>1, <1>2 DEF SameClient, Types
<1>12. \A j \in Connection \ {k} : SameConnection(j)
  BY <1>1, <1>2 DEF SameConnection, Types, Incoming
<1> QED BY <1>0, <1>1, <1>2, <1>3, <1>5, <1>6, <1>8, <1>9, <1>10, <1>11, <1>12, PresentStep

(* A client that gets something is told the answer to its call.             *)
LEMMA ToldPieces ==
    ASSUME Types, NEW c \in Client, NEW k \in Connection, NEW a \in Result,
           Answering(c, k, a)
    PROVE  /\ Pieces(received[c], toClient[k], AnswerByte(a))
           /\ Len(received[c]) \in Nat /\ Len(toClient[k]) \in Nat /\ Len(outbox[k]) \in Nat
           /\ AnswerByte(a).len = AnswerLen(a) /\ AnswerLen(a) \in Nat /\ AnswerLen(a) >= Header
<1>1. /\ received[c] \in Seq({AnswerByte(a)}) /\ toClient[k] \in Seq({AnswerByte(a)})
      /\ outbox[k] \in Seq({AnswerByte(a)})
      /\ Len(received[c]) + Len(toClient[k]) + Len(outbox[k]) = AnswerLen(a)
  BY DEF Answering
<1>2. Len(received[c]) \in Nat /\ Len(toClient[k]) \in Nat /\ Len(outbox[k]) \in Nat
  BY <1>1, LenProperties
<1>3. AnswerByte(a).len = AnswerLen(a) /\ AnswerLen(a) \in Nat /\ AnswerLen(a) >= Header
  BY SizeAssumption DEF AnswerByte, AnswerLen
<1>4. Len(received[c]) + Len(toClient[k]) <= AnswerLen(a)
  <2>1. ASSUME NEW i \in Nat, NEW j \in Nat, NEW m \in Nat PROVE i + j <= i + j + m
    OBVIOUS
  <2> QED BY <1>1, <1>2, <2>1
<1> QED BY <1>1, <1>2, <1>3, <1>4 DEF Pieces

LEMMA WaitingIsTold ==
    ASSUME SpiInv, NEW c \in Client, pc[c] = "waiting", toClient[Current(c)] # <<>>
    PROVE  /\ conn[c] # 0 /\ Current(c) \in Connection
           /\ link[Current(c)] = "up" /\ Present(c, Current(c)) /\ Tells(c, Current(c))
<1>1. Types /\ ClientInv(c)
  BY DEF SpiInv
<1>2. conn[c] # 0 /\ Present(c, Current(c))
  BY <1>1 DEF ClientInv
<1>3. Current(c) \in Connection
  BY <1>1, <1>2, CurrentIs
<1>4. link[Current(c)] = "up"
  BY <1>2 DEF Present, Quiet
<1>5. Tells(c, Current(c))
  BY <1>2, <1>4 DEF Present, Asked
<1> QED BY <1>2, <1>3, <1>4, <1>5

LEMMA ReceiveStep ==
    ASSUME SpiInv, NEW c \in Client, ReceiveAnswer(c)
    PROVE  SpiInv'
<1>0. PICK k : k = Current(c)
  OBVIOUS
<1>1. Types /\ ServerInv /\ ClientInv(c)
  BY DEF SpiInv
<1>2. PICK t \in Turns(received[c], toClient[k]) :
         /\ toClient' = [toClient EXCEPT ![k] = t.stream]
         /\ KeepReading(c, t) \/ Receive(c, t)
  BY <1>0 DEF ReceiveAnswer
<1>3. /\ pc[c] = "waiting" /\ UNCHANGED <<request, conn, link, toServer>>
      /\ UNCHANGED <<accepted, device, outbox, serving, frame, controller>>
  BY DEF ReceiveAnswer, serverVars
<1>4. toClient[k] # <<>>
  <2>1. PICK n \in 1..Len(toClient[k]) : TRUE
    BY <1>2 DEF Turns
  <2>2. Len(<<>>) = 0
    OBVIOUS
  <2> QED BY <2>1, <2>2
<1>5. conn[c] # 0 /\ k \in Connection /\ link[k] = "up" /\ Present(c, k) /\ Tells(c, k)
  BY <1>0, <1>3, <1>4, WaitingIsTold
<1>6. PICK a \in Result : Answering(c, k, a)
  BY <1>5 DEF Tells
<1> DEFINE b == AnswerByte(a)
<1>7. /\ Pieces(received[c], toClient[k], b)
      /\ Len(received[c]) \in Nat /\ Len(toClient[k]) \in Nat /\ Len(outbox[k]) \in Nat
      /\ b.len = AnswerLen(a) /\ AnswerLen(a) \in Nat /\ AnswerLen(a) >= Header
  BY <1>1, <1>5, <1>6, ToldPieces
<1>8. b \in ReplyByte /\ b.body = a
  BY ByteTypes DEF AnswerByte
<1> HIDE DEF b
<1>9. /\ t.data \in Seq({b}) /\ t.stream \in Seq({b})
      /\ Len(t.data) + Len(t.stream) = Len(received[c]) + Len(toClient[k])
      /\ Complete(t.data) => Whole(t.data) /\ Len(t.data) = b.len /\ t.data[1] = b
  <2>1. b.len \in Nat /\ b.len >= Header
    BY <1>7
  <2>2. Pieces(received[c], toClient[k], b)
    BY <1>7
  <2>3. GoodTurn(t, received[c], toClient[k], b)
    BY <2>1, <2>2, TurnPieces
  <2> QED BY <2>3 DEF GoodTurn
<1>10. t.data \in Seq(ReplyByte) /\ t.stream \in Seq(ReplyByte)
  <2>1. {b} \subseteq ReplyByte
    BY <1>8
  <2> QED BY <1>9, <2>1, SeqMonotonic
<1>11. Len(t.data) \in Nat /\ Len(t.stream) \in Nat /\ toClient'[k] = t.stream
  BY <1>1, <1>2, <1>5, <1>9, LenProperties DEF Types
<1>12. Len(received[c]) + Len(toClient[k]) + Len(outbox[k]) = AnswerLen(a)
  BY <1>6 DEF Answering
<1>13. toClient' \in [Connection -> Seq(ReplyByte)]
  BY <1>1, <1>2, <1>10 DEF Types
<1>14. ServerInv'
  BY <1>1, <1>3, ServerSame
<1>15. \A j \in Connection \ {k} : SameConnection(j)
  BY <1>1, <1>2, <1>3 DEF SameConnection, Types, Incoming
<1>16. CASE KeepReading(c, t)
  <2>1. /\ received' = [received EXCEPT ![c] = t.data] /\ UNCHANGED <<pc, answer, file>>
    BY <1>16 DEF KeepReading
  <2>2. Types'
    BY <1>1, <1>3, <1>10, <1>13, <2>1 DEF Types
  <2>3. received'[c] = t.data
    BY <1>1, <2>1 DEF Types
  <2>4. Answering(c, k, a)'
    <3>1. received'[c] \in Seq({b}) /\ toClient'[k] \in Seq({b}) /\ outbox'[k] \in Seq({b})
      BY <1>3, <1>6, <1>9, <1>11, <2>3 DEF Answering, b
    <3>2. Len(received'[c]) + Len(toClient'[k]) + Len(outbox'[k]) = AnswerLen(a)
      BY <1>3, <1>7, <1>9, <1>11, <1>12, <2>3
    <3>3. Ready(c, k, a)'
      BY <1>3, <1>6, <2>1 DEF Answering, Ready, Agrees
    <3> QED BY <3>1, <3>2, <3>3 DEF Answering, b
  <2>5. Present(c, k)'
    BY <1>3, <1>5, <2>1, <2>4 DEF Present, Tells
  <2>6. \A d \in Client \ {c} : SameClient(d)
    BY <1>1, <1>3, <2>1 DEF SameClient, Types
  <2>7. request[c] \in Call /\ (request[c].op = "open" => ~file[c])
    BY <1>1, <1>3 DEF ClientInv
  <2> QED BY <1>0, <1>3, <1>5, <1>14, <1>15, <2>1, <2>2, <2>5, <2>6, <2>7, PresentStep
<1>17. CASE Receive(c, t)
  <2>0. PICK got : got = Got(request[c], t.data)
    OBVIOUS
  <2>1. /\ Complete(t.data) /\ pc' = [pc EXCEPT ![c] = "answered"]
        /\ received' = [received EXCEPT ![c] = <<>>]
    BY <1>17 DEF Receive
  <2>2. PICK open \in FileAfter(c, request[c], got) :
           /\ file' = [file EXCEPT ![c] = open]
           /\ answer' = [answer EXCEPT ![c] =
                 IF request[c].op = "open" /\ ~open THEN Failed ELSE got]
    BY <1>17, <2>0 DEF Receive
  <2>3. got = IF request[c].op = "close" THEN Void ELSE a
    BY <1>8, <1>9, <2>0, <2>1 DEF Got
  <2>4. got \in Result /\ Failed \in Result
    BY <2>3, CallResults
  <2>5. open \in BOOLEAN
    BY <1>1, <2>2, <2>4 DEF FileAfter, Result, Types
  <2>6. Types'
    <3>1. file' \in [Client -> BOOLEAN]
      BY <1>1, <2>2, <2>5 DEF Types
    <3>2. answer' \in [Client -> Result]
      BY <1>1, <2>2, <2>4 DEF Types
    <3>3. received' \in [Client -> Seq(ReplyByte)]
      BY <1>1, <2>1, EmptySeq DEF Types
    <3> QED BY <1>1, <1>3, <1>13, <2>1, <3>1, <3>2, <3>3 DEF Types
  <2>7. pc'[c] = "answered" /\ received'[c] = <<>> /\ file'[c] = open
    BY <1>1, <2>1, <2>2 DEF Types
  <2>8. toClient'[k] = <<>> /\ outbox'[k] = <<>>
    <3>1. Len(t.data) + Len(t.stream) + Len(outbox[k]) = AnswerLen(a) /\ Len(t.data) = AnswerLen(a)
      BY <1>7, <1>9, <1>12, <2>1
    <3>2. Len(t.stream) = 0 /\ Len(outbox[k]) = 0
      BY <1>7, <1>11, <3>1
    <3>3. outbox[k] \in Seq({b})
      BY <1>6 DEF Answering, b
    <3> QED BY <1>3, <1>9, <1>11, <3>2, <3>3, EmptySeq
  <2>9. Quiet(k)'
    BY <1>3, <1>5, <2>8 DEF Quiet, Tells
  <2>10. Agrees(c, k)'
    <3>1. Ready(c, k, a) /\ device' = device
      BY <1>3, <1>6 DEF Answering
    <3>2. CASE request[c].op = "open"
      <4>1. device[k].open = a.ok /\ got = a
        BY <2>3, <3>1, <3>2 DEF Ready
      <4>2. (open => a.ok) /\ (c \in Writable => open = a.ok)
        BY <2>2, <3>2, <4>1 DEF FileAfter
      <4>3. open => device'[k].open
        BY <3>1, <4>1, <4>2, Zenon
      <4>4. c \in Writable /\ device'[k].open => open
        BY <3>1, <4>1, <4>2, Zenon
      <4> QED BY <2>7, <4>3, <4>4, Zenon DEF Agrees
    <3>3. CASE request[c].op = "close"
      <4>1. ~device[k].open /\ open = FALSE
        BY <2>2, <3>1, <3>3 DEF Ready, FileAfter
      <4> QED BY <2>7, <3>1, <4>1, Zenon DEF Agrees
    <3>4. CASE request[c].op \notin {"open", "close"}
      <4>1. Agrees(c, k) /\ open = file[c]
        BY <2>2, <3>1, <3>4 DEF Ready, FileAfter
      <4> QED BY <2>7, <3>1, <4>1 DEF Agrees
    <3> QED BY <3>2, <3>3, <3>4
  <2>11. Present(c, k)'
    BY <1>3, <1>5, <2>7, <2>9, <2>10 DEF Present
  <2>12. \A d \in Client \ {c} : SameClient(d)
    BY <1>1, <1>3, <2>1, <2>2 DEF SameClient, Types
  <2> QED BY <1>0, <1>3, <1>5, <1>14, <1>15, <2>6, <2>7, <2>11, <2>12, PresentStep
<1> QED BY <1>2, <1>16, <1>17

(* A client is lost: its connection keeps a part of what it sent.           *)
LEMMA QuitStep ==
    ASSUME SpiInv, NEW c \in Client, Quit(c)
    PROVE  SpiInv'
<1> DEFINE mine == {k \in {Current(c)} : conn[c] # 0}
<1>1. Types /\ ServerInv /\ ClientInv(c)
  BY DEF SpiInv
<1>2. PICK n \in {0} \cup UNION {1..Len(toServer[k]) : k \in mine} :
         toServer' = [k \in Connection |->
                         IF k \in mine THEN SubSeq(toServer[k], 1, n) ELSE toServer[k]]
  BY DEF Quit
<1>3. /\ pc' = [pc EXCEPT ![c] = "gone"] /\ request' = [request EXCEPT ![c] = NoCall]
      /\ answer' = [answer EXCEPT ![c] = NoResult] /\ file' = [file EXCEPT ![c] = FALSE]
      /\ received' = [received EXCEPT ![c] = <<>>] /\ link' = HungUp(mine)
      /\ toClient' = [k \in Connection |-> IF k \in mine THEN <<>> ELSE toClient[k]]
      /\ UNCHANGED conn /\ UNCHANGED <<accepted, device, outbox, serving, frame, controller>>
  BY DEF Quit, serverVars
<1>4. \A k : k \in mine <=> k = Current(c) /\ conn[c] # 0
  OBVIOUS
<1> HIDE DEF mine
<1>5. \A k \in Connection \cap mine : n \in 0..Len(toServer[k])
  <2> SUFFICES ASSUME NEW k \in Connection, k \in mine PROVE n \in 0..Len(toServer[k])
    OBVIOUS
  <2>1. \A j \in mine : j = k
    BY <1>4
  <2>2. n = 0 \/ n \in 1..Len(toServer[k])
    BY <1>2, <2>1
  <2>3. Len(toServer[k]) \in Nat
    BY <1>1, LenProperties DEF Types
  <2> QED BY <2>2, <2>3
<1>6. Types'
  <2>1. ASSUME NEW k \in Connection, k \in mine
        PROVE  SubSeq(toServer[k], 1, n) \in Seq(RequestByte)
    BY <1>1, <1>5, <2>1, PrefixSeq DEF Types
  <2>2. toServer' \in [Connection -> Seq(RequestByte)]
    BY <1>1, <1>2, <2>1 DEF Types
  <2>3. toClient' \in [Connection -> Seq(ReplyByte)]
    BY <1>1, <1>3, EmptySeq DEF Types
  <2>4. link' \in [Connection -> {"none", "up", "hung", "down"}]
    BY <1>1, <1>3 DEF Types, HungUp
  <2>5. file' \in [Client -> BOOLEAN] /\ answer' \in [Client -> Result]
    BY <1>1, <1>3, CallResults DEF Types
  <2>6. received' \in [Client -> Seq(ReplyByte)]
    BY <1>1, <1>3, EmptySeq DEF Types
  <2> QED BY <1>1, <1>3, <2>2, <2>3, <2>4, <2>5, <2>6 DEF Types
<1>7. ServerInv'
  <2>1. ASSUME NEW k \in Connection
        PROVE  \E b \in RequestByte : Pieces(Incoming(k), toServer[k], b)'
    <3>1. Incoming(k)' = Incoming(k)
      BY <1>3, IncomingElse
    <3>2. PICK b \in RequestByte : Pieces(Incoming(k), toServer[k], b)
      BY <1>1 DEF ServerInv
    <3>3. /\ Incoming(k) \in Seq({b}) /\ toServer[k] \in Seq({b})
          /\ Len(Incoming(k)) + Len(toServer[k]) <= b.len
          /\ b.len \in Nat /\ Len(Incoming(k)) \in Nat /\ Len(toServer[k]) \in Nat
      BY <3>2, LenProperties, SizeAssumption DEF Pieces, RequestByte
    <3>4. CASE k \in mine
      <4>1. toServer'[k] \in Seq({b}) /\ Len(toServer'[k]) = n /\ n \in 0..Len(toServer[k])
        BY <1>2, <1>5, <3>3, <3>4, PrefixSeq
      <4>2. Len(Incoming(k)) + Len(toServer'[k]) <= b.len
        BY <3>3, <4>1
      <4> QED BY <3>1, <3>3, <4>1, <4>2 DEF Pieces
    <3>5. CASE k \notin mine
      BY <1>2, <3>1, <3>2, <3>5 DEF Pieces
    <3> QED BY <3>4, <3>5
  <2> QED BY <1>1, <1>3, <2>1 DEF ServerInv
<1>8. ClientInv(c)'
  <2>1. pc'[c] = "gone" /\ received'[c] = <<>> /\ ~file'[c]
    BY <1>1, <1>3 DEF Types
  <2> QED BY <2>1 DEF ClientInv
<1>9. OthersSame(c)
  <2>1. \A d \in Client \ {c} : SameClient(d)
    BY <1>1, <1>3 DEF SameClient, Types
  <2>2. ASSUME NEW d \in Client \ {c}, NEW i \in 1..MaxOpens[d]
        PROVE  SameConnection(<<d, i>>)
    <3>1. <<d, i>> \in Connection /\ <<d, i>> \notin mine
      BY <1>1, <1>4, Connections, CurrentIs
    <3>2. link'[<<d, i>>] = link[<<d, i>>]
      BY <1>3, <3>1 DEF HungUp
    <3> QED BY <1>2, <1>3, <3>1, <3>2 DEF SameConnection, Incoming
  <2> QED BY <2>1, <2>2 DEF OthersSame
<1> QED BY <1>6, <1>7, <1>8, <1>9, StepOf
-----------------------------------------------------------------------------
(* The server's step on connection k leaves everything else alone.          *)
LEMMA ServerStep ==
    ASSUME SpiInv, NEW c \in Client, NEW n \in 1..MaxOpens[c], NEW k, k = <<c, n>>,
           UNCHANGED clientVars, \A j \in Connection \ {k} : SameConnection(j),
           Types', ServerInv',
           pc[c] # "gone" /\ n # conn[c] => Unused(c, n)',
           pc[c] # "gone" /\ n = conn[c] => Present(c, k)'
    PROVE  SpiInv'
<1>1. Types /\ ClientInv(c)
  BY DEF SpiInv
<1>2. \A d \in Client : SameClient(d)
  BY DEF SameClient, clientVars
<1>3. \A d \in Client \ {c} : \A i \in 1..MaxOpens[d] : <<d, i>> \in Connection \ {k}
  BY Connections
<1>4. OthersSame(c)
  BY <1>2, <1>3 DEF OthersSame
<1>5. ASSUME pc[c] # "gone", NEW i \in (1..MaxOpens[c]) \ {conn[c]}
      PROVE  Unused(c, i)'
  <2>1. CASE i = n
    BY <1>5, <2>1
  <2>2. CASE i # n
    <3>1. <<c, i>> \in Connection \ {k}
      BY <2>2, Connections
    <3> QED BY <1>1, <1>2, <1>5, <3>1, SameUnused DEF ClientInv, SameClient
  <2> QED BY <2>1, <2>2
<1>6. ASSUME pc[c] # "gone", conn[c] # 0
      PROVE  Present(c, Current(c))'
  <2>0. PICK j : j = Current(c)
    OBVIOUS
  <2>1. j \in Connection /\ Present(c, j) /\ Current(c)' = j
    BY <1>1, <1>2, <1>6, <2>0, CurrentIs DEF ClientInv, SameClient, Current
  <2>2. CASE j = k
    <3>1. n = conn[c]
      BY <2>0, <2>2 DEF Current
    <3> QED BY <1>6, <2>1, <2>2, <3>1
  <2>3. CASE j # k
    BY <1>2, <2>1, <2>3, SamePresent
  <2> QED BY <2>2, <2>3
<1>7. ClientInv(c)'
  BY <1>1, <1>2, <1>5, <1>6 DEF ClientInv, SameClient
<1> QED BY <1>4, <1>7, StepOf

(* A step that changes nothing an invariant of the clients speaks of.       *)
LEMMA SameClients ==
    ASSUME SpiInv, \A j : SameConnection(j), \A d : SameClient(d), NEW c \in Client
    PROVE  ClientInv(c)'
<1>1. ClientInv(c) /\ Current(c)' = Current(c)
  BY DEF SpiInv, SameClient, Current
<1>2. \A n : Unused(c, n) => Unused(c, n)'
  BY SameUnused DEF SameClient
<1>3. PICK k : k = Current(c)
  OBVIOUS
<1>4. Present(c, k) => Present(c, k)'
  BY SamePresent
<1> QED BY <1>1, <1>2, <1>3, <1>4 DEF ClientInv, SameClient

LEMMA AcceptStep ==
    ASSUME SpiInv, NEW k \in Connection, Accept(k)
    PROVE  SpiInv'
<1>1. Types'
  BY DEF SpiInv, Types, Accept, clientVars, netVars
<1>2. ServerInv'
  BY ServerSame DEF SpiInv, Accept, netVars
<1>3. \A j : SameConnection(j)
  BY DEF Accept, netVars, SameConnection, Incoming
<1>4. \A d : SameClient(d)
  BY DEF Accept, clientVars, SameClient
<1> QED BY <1>1, <1>2, <1>3, <1>4, SameClients DEF SpiInv

(* The server's connection of a client that hung up is released; the        *)
(* client's present one is not among them.                                  *)
LEMMA DisconnectStep ==
    ASSUME SpiInv, NEW k \in Connection, Disconnect(k)
    PROVE  SpiInv'
<1>1. Types /\ ServerInv
  BY DEF SpiInv
<1>2. PICK c \in Client, n \in Nat : n \in 1..MaxOpens[c] /\ k = <<c, n>>
  BY Connections
<1>3. /\ link[k] = "hung" /\ link' = [link EXCEPT ![k] = "down"]
      /\ device' = [device EXCEPT ![k] = Closed] /\ outbox' = [outbox EXCEPT ![k] = <<>>]
      /\ UNCHANGED clientVars
      /\ UNCHANGED <<toServer, toClient, accepted, serving, frame, controller>>
  BY DEF Disconnect
<1>4. UNCHANGED <<pc, request, answer, file, conn, received>>
  BY <1>3 DEF clientVars
<1>5. Types'
  <2>1. Closed \in Device
    BY DEF Closed, Device
  <2>2. outbox' \in [Connection -> Seq(ReplyByte)]
    BY <1>1, <1>3, EmptySeq DEF Types
  <2> QED BY <1>1, <1>3, <1>4, <2>1, <2>2 DEF Types
<1>6. ServerInv'
  BY <1>1, <1>3, ServerSame
<1>7. \A j \in Connection \ {k} : SameConnection(j)
  BY <1>1, <1>3 DEF SameConnection, Types, Incoming
<1>8. ClientInv(c)
  BY DEF SpiInv
<1>9. ASSUME pc[c] # "gone", n # conn[c]
      PROVE  Unused(c, n)'
  <2>1. Unused(c, n)
    BY <1>2, <1>8, <1>9 DEF ClientInv
  <2>2. Quiet(k)'
    BY <1>1, <1>2, <1>3, <2>1 DEF Unused, Quiet, Types
  <2>3. ~device'[k].open /\ link'[k] = "down"
    BY <1>1, <1>3 DEF Types, Closed
  <2>4. ~(n > conn[c])
    BY <1>2, <1>3, <2>1 DEF Unused
  <2> QED BY <1>2, <1>4, <2>2, <2>3, <2>4 DEF Unused
<1>10. ASSUME pc[c] # "gone", n = conn[c]
       PROVE  Present(c, k)'
  BY <1>2, <1>3, <1>8, <1>10 DEF ClientInv, Present, Current
<1> QED BY <1>2, <1>3, <1>5, <1>6, <1>7, <1>9, <1>10, ServerStep

(* An answer that was written goes to the client that waits for it.         *)
LEMMA SendAnswerStep ==
    ASSUME SpiInv, NEW k \in Connection, SendAnswer(k)
    PROVE  SpiInv'
<1>1. Types /\ ServerInv
  BY DEF SpiInv
<1>2. PICK c \in Client, n \in Nat : n \in 1..MaxOpens[c] /\ k = <<c, n>>
  BY Connections
<1>3. /\ outbox[k] # <<>> /\ outbox' = [outbox EXCEPT ![k] = <<>>]
      /\ toClient' = IF link[k] = "up" THEN [toClient EXCEPT ![k] = @ \o outbox[k]]
                     ELSE toClient
      /\ UNCHANGED clientVars
      /\ UNCHANGED <<link, toServer, accepted, device, serving, frame, controller>>
  BY DEF SendAnswer
<1>4. UNCHANGED <<pc, request, answer, file, conn, received>>
  BY <1>3 DEF clientVars
<1>5. Types'
  <2>1. outbox' \in [Connection -> Seq(ReplyByte)]
    BY <1>1, <1>3, EmptySeq DEF Types
  <2>2. toClient[k] \o outbox[k] \in Seq(ReplyByte)
    BY <1>1, ConcatProperties DEF Types
  <2>3. toClient' \in [Connection -> Seq(ReplyByte)]
    BY <1>1, <1>3, <2>2 DEF Types
  <2> QED BY <1>1, <1>3, <1>4, <2>1, <2>3 DEF Types
<1>6. ServerInv'
  BY <1>1, <1>3, ServerSame
<1>7. \A j \in Connection \ {k} : SameConnection(j)
  BY <1>1, <1>3 DEF SameConnection, Types, Incoming
<1>8. ClientInv(c)
  BY DEF SpiInv
<1>9. pc[c] # "gone" => n = conn[c]
  BY <1>2, <1>3, <1>8 DEF ClientInv, Unused, Quiet
<1>10. ASSUME pc[c] # "gone", n = conn[c]
       PROVE  Present(c, k)'
  <2>1. Present(c, k)
    BY <1>2, <1>8, <1>10 DEF ClientInv, Current
  <2>2. ~Quiet(k) /\ ~Asked(c, k)
    BY <1>3 DEF Quiet, Asked
  <2>3. pc[c] = "waiting" /\ link[k] = "up" /\ Tells(c, k)
    BY <2>1, <2>2 DEF Present
  <2>4. PICK a \in Result : Answering(c, k, a)
    BY <2>3 DEF Tells
  <2> DEFINE b == AnswerByte(a)
  <2>5. /\ toClient[k] \in Seq({b}) /\ outbox[k] \in Seq({b}) /\ received[c] \in Seq({b})
        /\ Len(received[c]) + Len(toClient[k]) + Len(outbox[k]) = AnswerLen(a)
        /\ Ready(c, k, a)
    BY <2>4 DEF Answering
  <2>6. /\ Len(received[c]) \in Nat /\ Len(toClient[k]) \in Nat /\ Len(outbox[k]) \in Nat
    BY <1>1, <2>4, ToldPieces
  <2> HIDE DEF b
  <2>7. toClient'[k] = toClient[k] \o outbox[k] /\ outbox'[k] = <<>>
    BY <1>1, <1>3, <2>3 DEF Types
  <2>8. toClient'[k] \in Seq({b}) /\ Len(toClient'[k]) = Len(toClient[k]) + Len(outbox[k])
    BY <2>5, <2>7, ConcatProperties
  <2>9. outbox'[k] \in Seq({b}) /\ Len(outbox'[k]) = 0
    BY <2>7, EmptySeq
  <2>10. Len(received'[c]) + Len(toClient'[k]) + Len(outbox'[k]) = AnswerLen(a)
    <3>1. Len(received'[c]) = Len(received[c])
      BY <1>4
    <3>2. \A i, j, m \in Nat : i + (j + m) + 0 = i + j + m
      OBVIOUS
    <3>3. Len(received[c]) + (Len(toClient[k]) + Len(outbox[k])) + 0 = AnswerLen(a)
      BY <2>5, <2>6, <3>2
    <3> QED BY <2>8, <2>9, <3>1, <3>3
  <2>11. Answering(c, k, a)'
    BY <1>3, <1>4, <2>5, <2>8, <2>9, <2>10 DEF Answering, b, Ready, Agrees
  <2> QED BY <1>3, <1>4, <2>1, <2>3, <2>11 DEF Present, Tells
<1> QED BY <1>2, <1>3, <1>5, <1>6, <1>7, <1>9, <1>10, ServerStep

(* onReceive blocked inside a frame: more of the same request has come.     *)
LEMMA BlockedAsked ==
    ASSUME NEW c, NEW k, Asked(c, k), NEW b, b = ByteOf(request[c]), NEW t,
           GoodTurn(t, Incoming(k), toServer[k], b),
           Incoming(k)' = t.data, toServer'[k] = t.stream,
           UNCHANGED <<clientVars, toClient, device, outbox>>
    PROVE  Asked(c, k)'
<1>1. /\ t.data \in Seq({b}) /\ t.stream \in Seq({b})
      /\ Len(t.data) + Len(t.stream) = Len(Incoming(k)) + Len(toServer[k])
  BY DEF GoodTurn
<1>2. Len(Incoming(k)) + Len(toServer[k]) = Header + 1 /\ b.len = Header + 1
  BY DEF Asked, ByteOf
<1>3. Len(t.data) + Len(t.stream) <= b.len
  <2>1. Header + 1 \in Nat /\ Header + 1 <= Header + 1
    BY SizeAssumption
  <2> QED BY <1>1, <1>2, <2>1
<1>4. Pieces(Incoming(k), toServer[k], ByteOf(request[c]))'
  BY <1>1, <1>3 DEF clientVars, Pieces, ByteOf
<1>5. Len(Incoming(k))' + Len(toServer[k])' = Header + 1
  BY <1>1, <1>2
<1> QED BY <1>4, <1>5 DEF Asked, Agrees, clientVars

(* The frame that onReceive takes part of is that of one request, and the   *)
(* client of its connection, unless gone, waits for the answer.             *)
LEMMA ReceivesRequest ==
    ASSUME SpiInv, NEW c \in Client, NEW n \in 1..MaxOpens[c],
           NEW k \in Connection, k = <<c, n>>, toServer[k] # <<>>, pc[c] # "gone"
    PROVE  /\ n = conn[c] /\ Present(c, k) /\ pc[c] = "waiting" /\ link[k] = "up"
           /\ Asked(c, k) /\ request[c] \in Call /\ (request[c].op = "open" => ~file[c])
<1>1. ClientInv(c)
  BY DEF SpiInv
<1>2. ~Quiet(k)
  BY DEF Quiet
<1>3. n = conn[c]
  BY <1>1, <1>2 DEF ClientInv, Unused
<1>4. Present(c, k)
  BY <1>1, <1>3 DEF ClientInv, Current
<1>5. pc[c] = "waiting" /\ link[k] = "up"
  BY <1>2, <1>4 DEF Present
<1>6. Asked(c, k)
  BY <1>4, <1>5 DEF Present, Tells
<1> QED BY <1>1, <1>3, <1>4, <1>5, <1>6 DEF ClientInv

(* What onReceive reads: a part t of the one request of bytes b.            *)
Reads(k, t, b) ==
    /\ toServer' = [toServer EXCEPT ![k] = t.stream]
    /\ BlockInFrame(k, t.data) \/ HandleFrame(k, t.data)
    /\ b \in RequestByte /\ b.body \in Call /\ Incoming(k) = frame
    /\ Pieces(frame, toServer[k], b) /\ GoodTurn(t, frame, toServer[k], b)
    /\ \A c \in Client : k[1] = c /\ pc[c] # "gone" => b = ByteOf(request[c])

LEMMA OnReceiveReads ==
    ASSUME SpiInv, NEW k \in Connection, OnReceive(k)
    PROVE  \E t, b : Reads(k, t, b)
<1>1. Types /\ ServerInv
  BY DEF SpiInv
<1>2. PICK c \in Client, n \in Nat : n \in 1..MaxOpens[c] /\ k = <<c, n>>
  BY Connections
<1>3. PICK t \in Turns(frame, toServer[k]) :
         /\ toServer' = [toServer EXCEPT ![k] = t.stream]
         /\ BlockInFrame(k, t.data) \/ HandleFrame(k, t.data)
  BY DEF OnReceive
<1>4. Incoming(k) = frame
  BY <1>1 DEF OnReceive, EventLoop, Incoming, ServerInv
<1>5. toServer[k] # <<>>
  <2>1. PICK i \in 1..Len(toServer[k]) : TRUE
    BY <1>3 DEF Turns
  <2>2. Len(<<>>) = 0
    OBVIOUS
  <2> QED BY <2>1, <2>2
<1>6. PICK b \in RequestByte :
         /\ Pieces(frame, toServer[k], b)
         /\ pc[c] # "gone" => b = ByteOf(request[c])
  <2>1. CASE pc[c] = "gone"
    BY <1>1, <1>4, <2>1 DEF ServerInv
  <2>2. CASE pc[c] # "gone"
    <3>1. Asked(c, k) /\ request[c] \in Call
      BY <1>2, <1>5, <2>2, ReceivesRequest
    <3>2. ByteOf(request[c]) \in RequestByte
      BY <3>1, ByteTypes
    <3> QED BY <1>4, <3>1, <3>2 DEF Asked
  <2> QED BY <2>1, <2>2
<1>7. b.len \in Nat /\ b.len >= Header /\ b.body \in Call
  BY SizeAssumption DEF RequestByte
<1>8. GoodTurn(t, frame, toServer[k], b)
  BY <1>3, <1>6, <1>7, TurnPieces
<1>9. \A d \in Client : k[1] = d /\ pc[d] # "gone" => b = ByteOf(request[d])
  BY <1>2, <1>6
<1>10. Reads(k, t, b)
  BY <1>3, <1>4, <1>6, <1>7, <1>8, <1>9 DEF Reads
<1> QED BY <1>10

LEMMA OnReceiveStep ==
    ASSUME SpiInv, NEW k \in Connection, OnReceive(k)
    PROVE  SpiInv'
<1>1. Types /\ ServerInv
  BY DEF SpiInv
<1>2. PICK c \in Client, n \in Nat : n \in 1..MaxOpens[c] /\ k = <<c, n>>
  BY Connections
<1>3. PICK t, b : Reads(k, t, b)
  BY OnReceiveReads
<1>4. /\ serving \in {k, NoConnection} /\ UNCHANGED clientVars
      /\ UNCHANGED <<link, toClient, accepted>>
  BY DEF OnReceive, EventLoop
<1>5. UNCHANGED <<pc, request, answer, file, conn, received>>
  BY <1>4 DEF clientVars
<1>6. Incoming(k) = frame /\ toServer' = [toServer EXCEPT ![k] = t.stream]
  BY <1>3 DEF Reads
<1>7. toServer[k] # <<>>
  BY <1>3 DEF Reads, GoodTurn
<1>8. /\ b \in RequestByte /\ Pieces(frame, toServer[k], b)
      /\ pc[c] # "gone" => b = ByteOf(request[c])
  BY <1>2, <1>3 DEF Reads
<1>9. b.len = Header + 1 /\ b.len \in Nat /\ b.len >= Header /\ b.body \in Call
  BY <1>8, SizeAssumption DEF RequestByte
<1>10. GoodTurn(t, frame, toServer[k], b)
  BY <1>3 DEF Reads
<1>11. /\ t.data \in Seq({b}) /\ t.stream \in Seq({b}) /\ t.data # <<>>
       /\ Len(t.data) + Len(t.stream) = Len(frame) + Len(toServer[k])
       /\ Complete(t.data) => Whole(t.data) /\ Len(t.data) = b.len /\ t.data[1] = b
  BY <1>10 DEF GoodTurn
<1>12. t.data \in Seq(RequestByte) /\ t.stream \in Seq(RequestByte)
  <2>1. {b} \subseteq RequestByte
    BY <1>8
  <2> QED BY <1>11, <2>1, SeqMonotonic
<1>13. toServer' \in [Connection -> Seq(RequestByte)] /\ toServer'[k] = t.stream
  BY <1>1, <1>6, <1>12 DEF Types
<1>14. Len(t.data) + Len(t.stream) <= b.len
  BY <1>8, <1>11 DEF Pieces
<1>15. pc[c] # "gone" => n = conn[c]
  BY <1>2, <1>7, ReceivesRequest
<1>16. k # NoConnection
  BY Connections
<1>17. CASE BlockInFrame(k, t.data)
  <2>1. serving' = k /\ frame' = t.data /\ UNCHANGED <<device, controller, outbox>>
    BY <1>17 DEF BlockInFrame
  <2>2. Types'
    BY <1>1, <1>4, <1>5, <1>12, <1>13, <2>1 DEF Types
  <2>3. Incoming(k)' = t.data
    BY <2>1 DEF Incoming
  <2>4. \A j \in Connection \ {k} : SameConnection(j)
    BY <1>1, <1>4, <1>6, <2>1, Connections DEF SameConnection, Types, Incoming
  <2>5. ServerInv'
    <3>1. Pieces(Incoming(k), toServer[k], b)'
      BY <1>11, <1>13, <1>14, <2>3 DEF Pieces
    <3>2. \A j \in Connection \ {k} : \E x \in RequestByte : Pieces(Incoming(j), toServer[j], x)'
      BY <1>1, <2>4 DEF ServerInv, SameConnection, Pieces
    <3> QED BY <1>8, <1>11, <1>16, <2>1, <3>1, <3>2 DEF ServerInv
  <2>6. ASSUME pc[c] # "gone", n = conn[c]
        PROVE  Present(c, k)'
    <3>1. Present(c, k) /\ pc[c] = "waiting" /\ link[k] = "up" /\ Asked(c, k)
      BY <1>2, <1>7, <2>6, ReceivesRequest
    <3>2. Asked(c, k)'
      BY <1>4, <1>6, <1>8, <1>10, <1>13, <2>1, <2>3, <2>6, <3>1, BlockedAsked
    <3> QED BY <1>4, <1>5, <3>1, <3>2 DEF Present
  <2> QED BY <1>2, <1>4, <1>15, <2>2, <2>4, <2>5, <2>6, ServerStep
<1>18. CASE HandleFrame(k, t.data)
  <2>1. /\ serving' = NoConnection /\ frame' = <<>> /\ Complete(t.data)
        /\ Dispatch(k, b.body)
    BY <1>11, <1>18 DEF HandleFrame
  <2>2. device[k] \in Device /\ controller[k[1]] \in BOOLEAN /\ k[1] = c
    BY <1>1, <1>2 DEF Types
  <2>3. PICK o : Handles(k, o) /\ Fits(b.body, device[k], o)
    BY <1>9, <2>1, <2>2, CallOutcome, OutcomesFit DEF HandlesOne
  <2>4. /\ device' = [device EXCEPT ![k] = o.dev]
        /\ controller' = [controller EXCEPT ![c] = o.lsb]
        /\ outbox' = [outbox EXCEPT ![k] = @ \o AnswerFrame(o.result)]
    BY <2>2, <2>3 DEF Handles
  <2>5. o.dev \in Device /\ o.lsb \in BOOLEAN /\ o.result \in Result
    BY <2>3 DEF Fits
  <2>6. Types'
    <3>1. outbox[k] \o AnswerFrame(o.result) \in Seq(ReplyByte)
      BY <1>1, <2>5, AnswerTyped, ConcatProperties DEF Types
    <3>2. outbox' \in [Connection -> Seq(ReplyByte)]
      BY <1>1, <2>4, <3>1 DEF Types
    <3>3. controller' \in [Client -> BOOLEAN]
      BY <1>1, <2>4, <2>5 DEF Types
    <3>4. device' \in [Connection -> Device]
      BY <1>1, <2>4, <2>5 DEF Types
    <3>5. frame' \in Seq(RequestByte)
      BY <2>1, EmptySeq
    <3> QED BY <1>1, <1>4, <1>5, <1>13, <2>1, <3>2, <3>3, <3>4, <3>5 DEF Types
  <2>7. \A j \in Connection \ {k} : SameConnection(j)
    BY <1>1, <1>4, <1>6, <2>1, <2>4, Connections DEF SameConnection, Types, Incoming
  <2>8. Incoming(k)' = <<>> /\ t.stream = <<>>
    <3>1. Len(t.data) = b.len /\ Len(t.stream) \in Nat
      BY <1>11, <2>1, LenProperties
    <3>2. Len(t.stream) = 0
      BY <1>9, <1>14, <3>1
    <3> QED BY <1>11, <2>1, <3>2, EmptySeq DEF Incoming
  <2>9. ServerInv'
    <3>1. Pieces(<<>>, <<>>, b)
      BY <1>9, EmptySeq DEF Pieces
    <3>2. Pieces(Incoming(k), toServer[k], b)'
      BY <1>13, <2>8, <3>1 DEF Pieces
    <3>3. \A j \in Connection \ {k} : \E x \in RequestByte : Pieces(Incoming(j), toServer[j], x)'
      BY <1>1, <2>7 DEF ServerInv, SameConnection, Pieces
    <3> QED BY <1>8, <2>1, <3>2, <3>3 DEF ServerInv
  <2>10. ASSUME pc[c] # "gone", n = conn[c]
         PROVE  Present(c, k)'
    <3>1. /\ Present(c, k) /\ pc[c] = "waiting" /\ link[k] = "up" /\ Asked(c, k)
          /\ request[c] \in Call /\ (request[c].op = "open" => ~file[c])
      BY <1>2, <1>7, <2>10, ReceivesRequest
    <3>2. b.body = request[c]
      BY <1>8, <2>10 DEF ByteOf
    <3>3. /\ Agrees(c, k) /\ (request[c].op = "open" => ~device[k].open)
          /\ outbox[k] = <<>> /\ toClient[k] = <<>> /\ received[c] = <<>>
      BY <3>1 DEF Asked
    <3> DEFINE a == o.result
               y == AnswerByte(a)
    <3>4. Ready(c, k, a)'
      <4>1. device'[k] = o.dev /\ request'[c] = request[c] /\ file'[c] = file[c]
        BY <1>1, <1>5, <2>4 DEF Types
      <4>2. Fits(request[c], device[k], o)
        BY <2>3, <3>2
      <4> QED BY <3>3, <4>1, <4>2 DEF Fits, Ready, Agrees
    <3>5. outbox'[k] = AnswerFrame(a)
      <4>1. AnswerFrame(a) \in Seq(ReplyByte)
        BY <2>5, AnswerTyped
      <4>2. <<>> \o AnswerFrame(a) = AnswerFrame(a)
        BY <4>1, ConcatEmptySeq
      <4> QED BY <1>1, <2>4, <3>3, <4>2 DEF Types
    <3>6. outbox'[k] \in Seq({y}) /\ Len(outbox'[k]) = AnswerLen(a) /\ AnswerLen(a) \in Nat
      <4>1. outbox'[k] \in Seq({y}) /\ Len(outbox'[k]) = AnswerLen(a)
        BY <2>5, <3>5, FramesSeq
      <4>2. AnswerLen(a) \in Nat
        BY SizeAssumption DEF AnswerLen
      <4> QED BY <4>1, <4>2
    <3>7. toClient'[k] = <<>> /\ received'[c] = <<>>
      BY <1>4, <1>5, <3>3
    <3> HIDE DEF a
    <3>8. Answering(c, k, a)'
      <4>1. received'[c] \in Seq({y}) /\ toClient'[k] \in Seq({y})
        BY <3>7, EmptySeq
      <4>2. Len(received'[c]) + Len(toClient'[k]) + Len(outbox'[k]) = AnswerLen(a)
        BY <3>6, <3>7
      <4> QED BY <3>4, <3>6, <4>1, <4>2 DEF Answering
    <3>9. Tells(c, k)'
      BY <1>13, <1>16, <2>1, <2>5, <2>8, <3>8 DEF Tells, a
    <3> QED BY <1>4, <1>5, <3>1, <3>9 DEF Present
  <2> QED BY <1>2, <1>4, <1>15, <2>6, <2>7, <2>9, <2>10, ServerStep
<1> QED BY <1>3, <1>17, <1>18 DEF Reads

LEMMA InitSpi == Init => SpiInv
<1> SUFFICES ASSUME Init PROVE SpiInv
  OBVIOUS
<1>1. Types
  <2>1. Closed \in Device /\ NoResult \in Result
    BY CallResults DEF Closed, Device
  <2>2. \A c \in Client : conn[c] <= MaxOpens[c]
    BY SizeAssumption DEF Init
  <2>3. <<>> \in Seq(RequestByte) /\ <<>> \in Seq(ReplyByte)
    BY EmptySeq
  <2> QED BY <2>1, <2>2, <2>3 DEF Init, None, Types
<1>2. ServerInv
  <2>1. ASSUME NEW k \in Connection
        PROVE  \E b \in RequestByte : Pieces(Incoming(k), toServer[k], b)
    <3>1. Incoming(k) = <<>> /\ toServer[k] = <<>>
      BY DEF Init, None, Incoming
    <3> DEFINE r == [op |-> "open", arg |-> FALSE]
    <3>2. r \in Call
      BY DEF Call
    <3> HIDE DEF r
    <3>3. ByteOf(r) \in RequestByte /\ Pieces(<<>>, <<>>, ByteOf(r))
      BY <3>2, ByteTypes, SizeAssumption, EmptySeq DEF Pieces, ByteOf
    <3> QED BY <3>1, <3>3
  <2> QED BY <2>1 DEF Init, ServerInv
<1>3. ASSUME NEW c \in Client
      PROVE  ClientInv(c)
  <2>1. ASSUME NEW n \in 1..MaxOpens[c]
        PROVE  Unused(c, n)
    <3>1. <<c, n>> \in Connection /\ <<c, n>> # NoConnection
      BY Connections
    <3> QED BY <3>1 DEF Init, None, Unused, Quiet, Closed
  <2> QED BY <2>1 DEF Init, None, ClientInv
<1> QED BY <1>1, <1>2, <1>3 DEF SpiInv

LEMMA SpiStep == SpiInv /\ [Next]_vars => SpiInv'
<1> SUFFICES ASSUME SpiInv, [Next]_vars PROVE SpiInv'
  OBVIOUS
<1>1. ASSUME NEW c \in Client, ClientCalls(c)
      PROVE  SpiInv'
  BY <1>1, CallOpenStep, CallHereStep, CallServerStep DEF ClientCalls
<1>2. ASSUME NEW c \in Client, ClientRuns(c)
      PROVE  SpiInv'
  BY <1>2, AnswersStep, ConnectStep, ReceiveStep, ReturnStep DEF ClientRuns
<1>3. ASSUME NEW k \in Connection, ServerRuns(k)
      PROVE  SpiInv'
  BY <1>3, AcceptStep, DisconnectStep, OnReceiveStep, SendAnswerStep DEF ServerRuns
<1>4. ASSUME UNCHANGED vars
      PROVE  SpiInv'
  <2>1. UNCHANGED <<clientVars, netVars, serverVars>>
    BY <1>4 DEF vars
  <2>2. Types' /\ ServerInv'
    BY <2>1, ServerSame DEF SpiInv, Types, clientVars, netVars, serverVars
  <2>3. \A j : SameConnection(j)
    BY <2>1 DEF netVars, serverVars, SameConnection, Incoming
  <2>4. \A d : SameClient(d)
    BY <2>1 DEF clientVars, SameClient
  <2> QED BY <2>2, <2>3, <2>4, SameClients DEF SpiInv
<1> QED BY <1>1, <1>2, <1>3, <1>4, QuitStep DEF Next

LEMMA SpiInvariant == Spec => []SpiInv
BY InitSpi, SpiStep, PTL DEF Spec

(* Every variable keeps its type, in any order of calls, losses and reads.  *)
THEOREM SpiTypeCorrect == Spec => []TypeOK
<1>1. SpiInv => TypeOK
  BY TypesAreOK DEF SpiInv
<1> QED BY <1>1, SpiInvariant, PTL

(* No read of the server or of a client ever takes bytes of a second frame: *)
(* each connection holds one request or one answer at most.                 *)
THEOREM OneFrame == Spec => []OneFrameAtATime
<1>1. ASSUME SpiInv, NEW k \in Connection, serving \in {k, NoConnection},
             NEW t \in Turns(frame, toServer[k]), Complete(t.data)
      PROVE  Whole(t.data)
  <2>1. Incoming(k) = frame
    BY <1>1 DEF SpiInv, ServerInv, Incoming
  <2>2. PICK b \in RequestByte : Pieces(frame, toServer[k], b)
    BY <1>1, <2>1 DEF SpiInv, ServerInv
  <2>3. b.len \in Nat /\ b.len >= Header
    BY SizeAssumption DEF RequestByte
  <2>4. GoodTurn(t, frame, toServer[k], b)
    BY <2>2, <2>3, TurnPieces
  <2> QED BY <1>1, <2>4 DEF GoodTurn
<1>2. ASSUME SpiInv, NEW c \in Client, pc[c] = "waiting",
             NEW t \in Turns(received[c], toClient[Current(c)]), Complete(t.data)
      PROVE  Whole(t.data)
  <2>0. PICK k : k = Current(c)
    OBVIOUS
  <2>1. toClient[k] # <<>>
    <3>1. PICK n \in 1..Len(toClient[k]) : TRUE
      BY <2>0 DEF Turns
    <3>2. Len(<<>>) = 0
      OBVIOUS
    <3> QED BY <3>1, <3>2
  <2>2. k \in Connection /\ Tells(c, k)
    BY <1>2, <2>0, <2>1, WaitingIsTold
  <2>3. PICK a \in Result : Answering(c, k, a)
    BY <2>2 DEF Tells
  <2> DEFINE b == AnswerByte(a)
  <2>4. /\ Pieces(received[c], toClient[k], b)
        /\ b.len = AnswerLen(a) /\ AnswerLen(a) \in Nat /\ AnswerLen(a) >= Header
    BY <1>2, <2>2, <2>3, ToldPieces DEF SpiInv
  <2> HIDE DEF b
  <2>5. b.len \in Nat /\ b.len >= Header
    BY <2>4
  <2>6. Pieces(received[c], toClient[k], b)
    BY <2>4
  <2>7. GoodTurn(t, received[c], toClient[k], b)
    BY <2>0, <2>5, <2>6, TurnPieces
  <2> QED BY <1>2, <2>7 DEF GoodTurn
<1>3. SpiInv => OneFrameAtATime
  BY <1>1, <1>2 DEF OneFrameAtATime
<1> QED BY <1>3, SpiInvariant, PTL

(* Between its calls a client whose file is open has an open device, and no *)
(* earlier connection keeps one that is not about to be closed.  If its     *)
(* temporary file can always be opened, the file and the device are open or *)
(* closed together, and there is no earlier device at all.                  *)
THEOREM DeviceFollows == Spec => []DeviceFollowsFile
<1>1. SpiInv => DeviceFollowsFile
  <2> SUFFICES ASSUME SpiInv, NEW c \in Client, pc[c] = "idle"
               PROVE  /\ file[c] => conn[c] # 0 /\ device[Current(c)].open
                      /\ \A n \in 1..MaxOpens[c] :
                            device[<<c, n>>].open /\ ~(file[c] /\ n = conn[c]) =>
                               c \notin Writable /\ (n = conn[c] \/ link[<<c, n>>] = "hung")
    BY DEF DeviceFollowsFile
  <2>1. ClientInv(c)
    BY DEF SpiInv
  <2>2. conn[c] # 0 => Agrees(c, Current(c))
    BY <2>1 DEF ClientInv, Present
  <2>3. file[c] => conn[c] # 0 /\ device[Current(c)].open
    BY <2>1, <2>2 DEF ClientInv, Agrees
  <2>4. ASSUME NEW n \in 1..MaxOpens[c], device[<<c, n>>].open, ~(file[c] /\ n = conn[c])
        PROVE  c \notin Writable /\ (n = conn[c] \/ link[<<c, n>>] = "hung")
    <3>1. CASE n = conn[c]
      <4>1. Agrees(c, <<c, n>>) /\ ~file[c]
        BY <2>2, <2>4, <3>1 DEF Current
      <4> QED BY <2>4, <3>1, <4>1 DEF Agrees
    <3>2. CASE n # conn[c]
      BY <2>1, <2>4, <3>2 DEF ClientInv, Unused
    <3> QED BY <3>1, <3>2
  <2> QED BY <2>3, <2>4
<1> QED BY <1>1, SpiInvariant, PTL

-----------------------------------------------------------------------------
(* The refinement: each client's device is that of SpiAccess.  A call is in *)
(* progress but in an idle client and in one that is lost; it has a result  *)
(* when it is answered, or while the answer is under way.  The file decides *)
(* which reads and writes get to the server, and follows open and close.    *)
CallInv(c) ==
    /\ pc[c] \in {"idle", "gone"} => request[c] = NoCall
    /\ pc[c] \notin {"idle", "gone"} => request[c] \in Call
    /\ pc[c] = "here" =>
          /\ request[c].op # "open" /\ ~file[c]
          /\ conn[c] = 0 \/ request[c].op \in {"read", "write"}
    /\ answer[c] = NoResult <=> pc[c] # "answered"
    /\ pc[c] = "answered" /\ request[c].op = "open" => file[c] = answer[c].ok
    /\ pc[c] = "answered" /\ request[c].op = "close" => ~file[c]
    /\ pc[c] = "waiting" /\ request[c].op \in {"read", "write"} => file[c]
    /\ pc[c] = "waiting" /\ Answered(c) # <<>> =>
          /\ Told(c) # NoResult
          /\ request[c].op = "open" => Told(c) \in {Done, Failed}
          /\ request[c].op = "close" => Told(c) = Void
CallsInv ==
    /\ \A k \in Connection : device[k].open \/ device[k] = Closed
    /\ \A c \in Client : CallInv(c)

Allowed(c) == [Access(c)!AccessNext]_(Access(c)!accessVars)

SameDevice(c) == DeviceOf(c)' = DeviceOf(c) /\ controller'[c] = controller[c]

LEMMA AccessStutter ==
    ASSUME NEW c, SameDevice(c), Told(c)' = Told(c), request'[c] = request[c],
           file'[c] = file[c], pc'[c] = "gone" <=> pc[c] = "gone"
    PROVE  Allowed(c)
<1>1. (pc'[c] # "gone") = (pc[c] # "gone")
  BY Zenon
<1>2. (pc'[c] # "gone" /\ controller'[c]) = (pc[c] # "gone" /\ controller[c])
  BY <1>1, Zenon DEF SameDevice
<1> QED BY <1>1, <1>2 DEF Allowed, Access!accessVars, Access!vars, DeviceOf, Told, SameDevice

LEMMA AccessInvoke ==
    ASSUME NEW c, pc[c] # "gone", pc'[c] # "gone", request[c] = NoCall, request'[c] \in Call,
           SameDevice(c), Told(c)' = Told(c), file'[c] = file[c]
    PROVE  Allowed(c)
<1>1. (pc'[c] # "gone") = (pc[c] # "gone")
  BY Zenon
<1>2. (pc'[c] # "gone" /\ controller'[c]) = (pc[c] # "gone" /\ controller[c])
  BY <1>1, Zenon DEF SameDevice
<1>3. Access(c)!Invoke(request'[c])
  BY <1>1, <1>2 DEF Access!Invoke, Access!NoCall, NoCall, DeviceOf, Told, SameDevice
<1>4. request'[c] \in Access(c)!Call
  BY DEF Call, Access!Call
<1> QED BY <1>3, <1>4 DEF Allowed, Access!AccessNext

(* open on a device that is open still, without its file.                   *)
LEMMA AccessOpenAgain ==
    ASSUME NEW c, c \notin Writable, pc[c] # "gone", pc'[c] # "gone", request[c] = NoCall,
           request'[c] \in Call, request'[c].op = "open", DeviceOf(c).open, ~file[c],
           DeviceOf(c)' = Closed, controller'[c] = controller[c], Told(c)' = Told(c),
           file'[c] = file[c]
    PROVE  Allowed(c)
<1>1. (pc'[c] # "gone") = (pc[c] # "gone")
  BY Zenon
<1>2. (pc'[c] # "gone" /\ controller'[c]) = (pc[c] # "gone" /\ controller[c])
  BY <1>1, Zenon
<1>3. Access(c)!OpenAgain(request'[c])
  BY <1>1, <1>2 DEF Access!OpenAgain, Access!NoCall, NoCall, Access!Closed, Closed,
                    DeviceOf, Told
<1>4. request'[c] \in Access(c)!Call
  BY DEF Call, Access!Call
<1> QED BY <1>3, <1>4 DEF Allowed, Access!AccessNext

LEMMA AccessReturn ==
    ASSUME NEW c, pc[c] # "gone", pc'[c] # "gone", Told(c) # NoResult,
           request'[c] = NoCall, Told(c)' = NoResult, SameDevice(c), file'[c] = file[c],
           request[c].op = "open" => file[c] = Told(c).ok,
           request[c].op = "close" => ~file[c]
    PROVE  Allowed(c)
<1>1. (pc'[c] # "gone") = (pc[c] # "gone")
  BY Zenon
<1>2. (pc'[c] # "gone" /\ controller'[c]) = (pc[c] # "gone" /\ controller[c])
  BY <1>1, Zenon DEF SameDevice
<1>3. Access(c)!Return
  BY <1>1, <1>2 DEF Access!Return, Access!NoCall, NoCall, Access!NoResult, NoResult,
                    DeviceOf, Told, SameDevice
<1>4. Access(c)!ReturnRemote
  BY <1>3 DEF Access!ReturnRemote, Told
<1> QED BY <1>4 DEF Allowed, Access!AccessNext

LEMMA AccessQuit ==
    ASSUME NEW c, pc[c] # "gone", pc'[c] = "gone", request'[c] = NoCall, answer'[c] = NoResult,
           file'[c] = FALSE
    PROVE  Allowed(c)
<1>1. DeviceOf(c)' = Closed /\ Told(c)' = NoResult
  BY DEF DeviceOf, Told
<1>2. (pc'[c] # "gone") = FALSE /\ (pc'[c] # "gone" /\ controller'[c]) = FALSE
  BY Zenon
<1>3. Access(c)!Quit
  BY <1>1, <1>2 DEF Access!Quit, Access!NoCall, NoCall, Access!NoResult, NoResult,
                    Access!Closed, Closed, DeviceOf, Told
<1> QED BY <1>3 DEF Allowed, Access!AccessNext

(* The file follows the result of open and of close, or makes open fail.    *)
LEMMA AccessFile ==
    ASSUME NEW c, pc[c] # "gone", pc'[c] # "gone", SameDevice(c), request'[c] = request[c],
           \/ /\ request[c].op = "open" /\ Told(c) = Done
              /\ file'[c] = TRUE /\ Told(c)' = Told(c)
           \/ /\ request[c].op = "close" /\ Told(c) = Void
              /\ file'[c] = FALSE /\ Told(c)' = Told(c)
           \/ /\ request[c].op = "open" /\ Told(c) = Done /\ c \notin Writable
              /\ ~file[c] /\ file'[c] = file[c] /\ Told(c)' = Failed
    PROVE  Allowed(c)
<1>1. (pc'[c] # "gone") = (pc[c] # "gone")
  BY Zenon
<1>2. (pc'[c] # "gone" /\ controller'[c]) = (pc[c] # "gone" /\ controller[c])
  BY <1>1, Zenon DEF SameDevice
<1>3. CASE request[c].op = "open" /\ Told(c) = Done /\ file'[c] = TRUE /\ Told(c)' = Told(c)
  <2>1. Access(c)!OpenFile
    BY <1>1, <1>2, <1>3 DEF Access!OpenFile, Access!vars, Access!Done, Done, DeviceOf, Told,
                            SameDevice
  <2> QED BY <2>1 DEF Allowed, Access!AccessNext
<1>4. CASE request[c].op = "close" /\ Told(c) = Void /\ file'[c] = FALSE /\ Told(c)' = Told(c)
  <2>1. Access(c)!CloseFile
    BY <1>1, <1>2, <1>4 DEF Access!CloseFile, Access!vars, Access!Void, Void, DeviceOf, Told,
                            SameDevice
  <2> QED BY <2>1 DEF Allowed, Access!AccessNext
<1>5. CASE /\ request[c].op = "open" /\ Told(c) = Done /\ c \notin Writable
           /\ ~file[c] /\ file'[c] = file[c] /\ Told(c)' = Failed
  <2>1. Access(c)!FileFails
    BY <1>1, <1>2, <1>5 DEF Access!FileFails, Access!Done, Done, Access!Failed, Failed,
                            DeviceOf, Told, SameDevice
  <2> QED BY <2>1 DEF Allowed, Access!AccessNext
<1> QED BY <1>3, <1>4, <1>5

LEMMA SameOutcomes ==
    ASSUME NEW c, NEW d, NEW l, NEW r, NEW capable
    PROVE  Access(c)!Outcomes(d, l, r, capable) = Outcomes(d, l, r, capable)
BY DEF Access!Outcomes, Outcomes, Access!Open, Open, Access!Close, Close,
       Access!SetMode, SetMode, Access!SetLSBFirst, SetLSBFirst,
       Access!SetBitsPerWord, SetBitsPerWord, Access!SetBitSpeed, SetBitSpeed,
       Access!SendReceive, SendReceive, Access!ReadData, ReadData,
       Access!WriteData, WriteData, Access!Fails, Fails, Access!Outcome, Outcome,
       Access!Failed, Failed, Access!Done, Done, Access!Void, Void,
       Access!Exchanged, Exchanged, Access!Order, Order,
       Access!Opened, Opened, Access!Closed, Closed

(* A call is performed: o is what the device makes of it, and a read that   *)
(* failed on an open device has given no bytes.                             *)
LEMMA AccessPerform ==
    ASSUME NEW c, pc[c] # "gone", pc'[c] # "gone", request[c] \in Call, Told(c) = NoResult,
           controller[c] \in BOOLEAN, controller'[c] \in BOOLEAN, file'[c] = file[c],
           NEW o \in Outcomes(DeviceOf(c), controller[c], request[c], c \in Capable),
           DeviceOf(c)' = o.dev, controller'[c] = o.lsb, Told(c)' = o.result,
           request'[c] = request[c],
           request[c].op = "write" /\ ~file[c] => o.result = Failed,
           request[c].op = "read" => (o.result = Failed <=> ~file[c])
    PROVE  Allowed(c)
<1> DEFINE l == pc[c] # "gone" /\ controller[c]
<1>1. (pc'[c] # "gone") = (pc[c] # "gone")
  BY Zenon
<1>2. l = controller[c] /\ (pc'[c] # "gone" /\ controller'[c]) = controller'[c]
  BY Zenon
<1>3. o \in Access(c)!Outcomes(DeviceOf(c), l, request[c], c \in Capable)
  BY <1>2, SameOutcomes
<1>4. request[c] # NoCall
  BY DEF Call, NoCall
<1>5. Access(c)!Perform
  BY <1>1, <1>2, <1>3, <1>4 DEF Access!Perform, Access!NoCall, NoCall,
          Access!NoResult, NoResult, DeviceOf, Told
<1>6. Access(c)!PerformRemote
  BY <1>5 DEF Access!PerformRemote, Access!Failed, Failed, Told
<1> QED BY <1>6 DEF Allowed, Access!AccessNext

LEMMA AccessReadNothing ==
    ASSUME NEW c, pc[c] # "gone", pc'[c] # "gone", request[c].op = "read", file[c],
           Told(c) = NoResult, Told(c)' = Empty, SameDevice(c),
           request'[c] = request[c], file'[c] = file[c]
    PROVE  Allowed(c)
<1>1. (pc'[c] # "gone") = (pc[c] # "gone")
  BY Zenon
<1>2. (pc'[c] # "gone" /\ controller'[c]) = (pc[c] # "gone" /\ controller[c])
  BY <1>1, Zenon DEF SameDevice
<1>3. Access(c)!ReadNothing
  BY <1>1, <1>2 DEF Access!ReadNothing, Access!NoResult, NoResult, Access!Empty, Empty,
                    DeviceOf, Told, SameDevice
<1> QED BY <1>3 DEF Allowed, Access!AccessNext
-----------------------------------------------------------------------------
(* A client that a step does not concern.                                   *)
Unaffected(c) ==
    /\ pc'[c] = pc[c] /\ request'[c] = request[c] /\ answer'[c] = answer[c]
    /\ conn'[c] = conn[c] /\ received'[c] = received[c] /\ controller'[c] = controller[c]
    /\ file'[c] = file[c]
    /\ conn[c] # 0 => /\ toClient'[Current(c)] = toClient[Current(c)]
                      /\ outbox'[Current(c)] = outbox[Current(c)]
                      /\ device'[Current(c)] = device[Current(c)]

Simulated(c) == Allowed(c) /\ CallInv(c)'

LEMMA ElseSimulated ==
    ASSUME SpiInv, CallsInv, NEW c \in Client, Unaffected(c)
    PROVE  Simulated(c)
<1>1. ClientInv(c) /\ CallInv(c)
  BY DEF SpiInv, CallsInv
<1>2. Current(c)' = Current(c) /\ (pc[c] = "waiting" => conn[c] # 0)
  BY <1>1 DEF Unaffected, Current, ClientInv
<1>3. pc[c] = "waiting" => Answered(c)' = Answered(c)
  BY <1>2 DEF Unaffected, Answered
<1>4. Told(c)' = Told(c)
  BY <1>3 DEF Unaffected, Told
<1>5. DeviceOf(c)' = DeviceOf(c)
  <2>1. CASE conn[c] = 0
    BY <2>1 DEF DeviceOf, Unaffected
  <2>2. CASE conn[c] # 0
    <3>1. device'[Current(c)'] = device[Current(c)]
      BY <1>2, <2>2 DEF Unaffected
    <3> QED BY <2>2, <3>1 DEF DeviceOf, Unaffected
  <2> QED BY <2>1, <2>2
<1>6. Allowed(c)
  BY <1>4, <1>5, AccessStutter DEF Unaffected, SameDevice
<1>7. CallInv(c)'
  BY <1>1, <1>3, <1>4 DEF CallInv, Unaffected
<1> QED BY <1>6, <1>7 DEF Simulated

LEMMA ClientsElse ==
    ASSUME Types, NEW c \in Client, ClientCalls(c) \/ ClientRuns(c) \/ Quit(c),
           NEW d \in Client \ {c}
    PROVE  Unaffected(d)
<1>1. Current(d) # Current(c) /\ (conn[d] # 0 => Current(d) \in Connection)
  BY CurrentIs DEF Current
<1>2. UNCHANGED serverVars
  BY DEF ClientCalls, CallOpen, CallHere, CallServer, Calling, ClientRuns, AnswerHere,
         Connect, ConnectFails, ReceiveAnswer, Return, Quit
<1>3. /\ outbox' = outbox /\ device' = device /\ controller' = controller
  BY <1>2 DEF serverVars
<1>4. ASSUME NEW r \in Calls[c], CallOpen(c, r) \/ CallHere(c, r) \/ CallServer(c, r)
      PROVE  Unaffected(d)
  <2>1. /\ pc'[d] = pc[d] /\ request'[d] = request[d] /\ conn'[d] = conn[d]
        /\ file'[d] = file[d]
    BY <1>4 DEF Types, CallOpen, CallHere, CallServer, Calling
  <2>2. UNCHANGED <<answer, received, toClient>>
    BY <1>4 DEF CallOpen, CallHere, CallServer, Calling
  <2> QED BY <1>3, <2>1, <2>2 DEF Unaffected
<1>5. CASE AnswerHere(c)
  BY <1>3, <1>5 DEF Types, AnswerHere, netVars, Unaffected
<1>6. CASE Connect(c)
  BY <1>3, <1>6 DEF Types, Connect, Unaffected
<1>7. CASE ConnectFails(c)
  BY <1>3, <1>7 DEF Types, ConnectFails, netVars, Unaffected
<1>8. CASE Return(c)
  BY <1>3, <1>8 DEF Types, Return, netVars, Unaffected
<1>9. CASE ReceiveAnswer(c)
  <2>1. PICK t \in Turns(received[c], toClient[Current(c)]) :
           /\ toClient' = [toClient EXCEPT ![Current(c)] = t.stream]
           /\ KeepReading(c, t) \/ Receive(c, t)
    BY <1>9 DEF ReceiveAnswer
  <2>2. conn[d] # 0 => toClient'[Current(d)] = toClient[Current(d)]
    BY <1>1, <2>1 DEF Types
  <2>3. /\ pc'[d] = pc[d] /\ answer'[d] = answer[d] /\ received'[d] = received[d]
        /\ file'[d] = file[d]
    BY <2>1 DEF Types, KeepReading, Receive
  <2>4. UNCHANGED <<request, conn>>
    BY <1>9 DEF ReceiveAnswer
  <2> QED BY <1>3, <2>2, <2>3, <2>4 DEF Unaffected
<1>10. CASE Quit(c)
  <2>1. conn[d] # 0 => toClient'[Current(d)] = toClient[Current(d)]
    BY <1>1, <1>10 DEF Quit
  <2>2. /\ pc'[d] = pc[d] /\ answer'[d] = answer[d] /\ received'[d] = received[d]
        /\ request'[d] = request[d] /\ file'[d] = file[d] /\ UNCHANGED conn
    BY <1>10 DEF Types, Quit
  <2> QED BY <1>3, <2>1, <2>2 DEF Unaffected
<1> QED BY <1>4, <1>5, <1>6, <1>7, <1>8, <1>9, <1>10 DEF ClientCalls, ClientRuns
-----------------------------------------------------------------------------
(* Where the answer of a client is.                                         *)
BeginsWith(s, b) == s # <<>> /\ s[1] = b

LEMMA FirstByte ==
    ASSUME NEW b, NEW s1 \in Seq({b}), NEW s2 \in Seq({b}), NEW s3 \in Seq({b}),
           Len(s1) + Len(s2) + Len(s3) # 0
    PROVE  BeginsWith(s1 \o s2 \o s3, b)
<1> DEFINE s == s1 \o s2 \o s3
<1>1. s1 \o s2 \in Seq({b}) /\ Len(s1 \o s2) = Len(s1) + Len(s2)
  BY ConcatProperties
<1>2. s \in Seq({b}) /\ Len(s) = Len(s1) + Len(s2) + Len(s3)
  BY <1>1, ConcatProperties
<1> HIDE DEF s
<1>3. Len(s) \in Nat /\ Len(s) # 0 /\ \A i \in 1..Len(s) : s[i] = b
  BY <1>2, LenProperties
<1>4. s[1] = b /\ s # <<>>
  BY <1>3
<1> QED BY <1>4 DEF s, BeginsWith

LEMMA AnsweredTold ==
    ASSUME Types, NEW c \in Client, NEW k \in Connection, k = Current(c),
           NEW a \in Result, Answering(c, k, a)
    PROVE  Answered(c) # <<>> /\ Answered(c)[1] = AnswerByte(a) /\ AnswerByte(a).body = a
<1> DEFINE b == AnswerByte(a)
<1>1. /\ received[c] \in Seq({b}) /\ toClient[k] \in Seq({b}) /\ outbox[k] \in Seq({b})
      /\ Len(received[c]) + Len(toClient[k]) + Len(outbox[k]) = AnswerLen(a)
  BY DEF Answering
<1>2. AnswerLen(a) # 0 /\ b.body = a
  BY SizeAssumption DEF AnswerLen, AnswerByte
<1> HIDE DEF b
<1>3. Len(received[c]) + Len(toClient[k]) + Len(outbox[k]) # 0
  BY <1>1, <1>2
<1>4. Answered(c) # <<>> /\ Answered(c)[1] = b
  <2> DEFINE s == received[c] \o toClient[k] \o outbox[k]
  <2>1. BeginsWith(s, b)
    BY <1>1, <1>3, FirstByte
  <2>2. Answered(c) = s
    BY DEF Answered
  <2> HIDE DEF s
  <2> QED BY <2>1, <2>2 DEF BeginsWith
<1> QED BY <1>2, <1>4 DEF b

LEMMA AnsweredNone ==
    ASSUME NEW c, received[c] = <<>>, toClient[Current(c)] = <<>>, outbox[Current(c)] = <<>>
    PROVE  Answered(c) = <<>> /\ Told(c) = answer[c]
<1>1. <<>> \o <<>> \o <<>> = <<>>
  OBVIOUS
<1>2. Answered(c) = <<>>
  BY <1>1 DEF Answered
<1> QED BY <1>2 DEF Told

(* A call that has not been sent, or has just been, has no answer.          *)
LEMMA QuietGot ==
    ASSUME NEW c, conn[c] # 0 => Quiet(Current(c)), received[c] = <<>>,
           pc[c] = "waiting" => conn[c] # 0
    PROVE  Told(c) = answer[c] /\ (pc[c] = "waiting" => Answered(c) = <<>>)
<1>1. CASE pc[c] = "waiting"
  BY <1>1, AnsweredNone DEF Quiet
<1>2. CASE pc[c] # "waiting"
  BY <1>2 DEF Told
<1> QED BY <1>1, <1>2

(* The device of an idle client without its file is closed, or one that the *)
(* file could not be opened for.                                            *)
LEMMA HalfOpen ==
    ASSUME SpiInv, CallsInv, NEW c \in Client, pc[c] = "idle", ~file[c]
    PROVE  DeviceOf(c) = Closed \/ (DeviceOf(c).open /\ c \notin Writable)
<1>1. CASE conn[c] = 0
  BY <1>1 DEF DeviceOf
<1>2. CASE conn[c] # 0
  <2>1. Present(c, Current(c)) /\ Current(c) \in Connection
    BY <1>2, CurrentIs DEF SpiInv, ClientInv
  <2>2. device[Current(c)].open => c \notin Writable
    BY <2>1 DEF Present, Agrees
  <2>3. device[Current(c)].open \/ device[Current(c)] = Closed
    BY <2>1 DEF CallsInv
  <2> QED BY <1>2, <2>2, <2>3 DEF DeviceOf
<1> QED BY <1>1, <1>2

LEMMA CallsSimulated ==
    ASSUME SpiInv, SpiInv', CallsInv, NEW c \in Client, ClientCalls(c)
    PROVE  Simulated(c)
<1>1. PICK r \in Calls[c] : CallOpen(c, r) \/ CallHere(c, r) \/ CallServer(c, r)
  BY DEF ClientCalls
<1>2. r \in Call /\ Types /\ ClientInv(c) /\ ClientInv(c)' /\ CallInv(c)
  BY <1>1, ClientAssumption DEF SpiInv, CallsInv
<1>3. /\ pc[c] = "idle" /\ pc'[c] \in {"connecting", "here", "waiting"}
      /\ request' = [request EXCEPT ![c] = r] /\ request'[c] = r
      /\ UNCHANGED <<answer, file, received, toClient, outbox, device, controller>>
  BY <1>1, <1>2 DEF Types, CallOpen, CallHere, CallServer, Calling, serverVars
<1>4. request[c] = NoCall /\ answer[c] = NoResult /\ Told(c) = NoResult
  BY <1>2, <1>3 DEF CallInv, Told
<1>5. (pc'[c] = "waiting" => Answered(c)' = <<>>) /\ Told(c)' = NoResult
  <2>1. CASE pc'[c] = "waiting"
    <3>1. CallServer(c, r)
      BY <1>1, <1>2, <2>1 DEF Types, CallOpen, CallHere, Calling
    <3>2. conn[c] # 0 /\ conn' = conn
      BY <3>1 DEF CallServer
    <3>3. Quiet(Current(c)) /\ received[c] = <<>>
      BY <1>2, <1>3, <3>2 DEF ClientInv, Present
    <3>4. Answered(c) = <<>>
      BY <3>3, AnsweredNone DEF Quiet
    <3>5. Answered(c)' = Answered(c)
      BY <1>3, <3>2 DEF Answered, Current
    <3> QED BY <1>3, <1>4, <3>4, <3>5 DEF Told
  <2>2. CASE pc'[c] # "waiting"
    BY <1>3, <1>4, <2>2 DEF Told
  <2> QED BY <2>1, <2>2
<1>6. Allowed(c)
  <2>1. CASE CallOpen(c, r)
    <3>1. /\ ~file[c] /\ conn'[c] = conn[c] + 1 /\ pc'[c] = "connecting" /\ r.op = "open"
      BY <1>2, <2>1 DEF CallOpen, Calling, Types
    <3>2. PICK k : k = <<c, conn[c] + 1>>
      OBVIOUS
    <3>3. conn'[c] # 0 /\ Current(c)' = k
      BY <1>2, <3>1, <3>2 DEF Types, Current
    <3>4. k \in Connection
      <4>1. conn[c] + 1 \in 1..MaxOpens[c]
        <5>1. conn[c] \in Nat /\ MaxOpens[c] \in Nat /\ conn[c] < MaxOpens[c]
          BY <1>2, <2>1, SizeAssumption DEF Types, CallOpen
        <5> QED BY <5>1
      <4> QED BY <3>2, <4>1, Connections
    <3>5. ~device[k].open
      <4>1. Present(c, k)' /\ link'[k] = "none"
        BY <1>2, <3>1, <3>3 DEF ClientInv, Present
      <4> QED BY <1>3, <4>1 DEF Present
    <3>6. device'[k] = Closed
      BY <1>3, <3>4, <3>5 DEF CallsInv
    <3>7. DeviceOf(c)' = Closed
      BY <3>1, <3>3, <3>6 DEF DeviceOf
    <3>8. CASE DeviceOf(c) = Closed
      BY <1>2, <1>3, <1>4, <1>5, <3>1, <3>7, <3>8, AccessInvoke DEF SameDevice
    <3>9. CASE DeviceOf(c).open /\ c \notin Writable
      BY <1>2, <1>3, <1>4, <1>5, <3>1, <3>7, <3>9, AccessOpenAgain
    <3> QED BY <1>3, <3>1, <3>8, <3>9, HalfOpen
  <2>2. CASE ~CallOpen(c, r)
    <3>1. conn' = conn
      BY <1>1, <2>2 DEF CallHere, CallServer
    <3>2. SameDevice(c)
      BY <1>3, <3>1 DEF DeviceOf, Current, SameDevice
    <3> QED BY <1>2, <1>3, <1>4, <1>5, <3>2, AccessInvoke
  <2> QED BY <2>1, <2>2
<1>7. pc'[c] = "here" =>
        r.op # "open" /\ ~file[c] /\ (conn'[c] = 0 \/ r.op \in {"read", "write"})
  BY <1>1, <1>2 DEF Types, CallOpen, CallHere, CallServer, Calling, ClientInv
<1>8. pc'[c] = "waiting" /\ r.op \in {"read", "write"} => file[c]
  BY <1>1, <1>2 DEF Types, CallOpen, CallHere, CallServer, Calling
<1>9. CallInv(c)'
  BY <1>2, <1>3, <1>4, <1>5, <1>7, <1>8 DEF CallInv
<1> QED BY <1>6, <1>9 DEF Simulated

(* Failure is an outcome of every call but close, which has one of its own. *)
LEMMA FailureIsAnOutcome ==
    ASSUME NEW r \in Call, NEW d, NEW l, NEW capable, r.op # "close",
           r.op = "setLSBFirst" => ~d.open
    PROVE  [dev |-> d, lsb |-> l, result |-> Failed] \in Outcomes(d, l, r, capable)
<1>1. r.op \in {"open", "setMode", "setLSBFirst", "setBitsPerWord", "setBitSpeed",
                "sendReceive", "read", "write"}
  BY DEF Call
<1>2. [dev |-> d, lsb |-> l, result |-> Failed] = Fails(d, l)
  BY DEF Fails, Outcome
<1> HIDE DEF Fails
<1>3. Fails(d, l) \in Outcomes(d, l, r, capable)
  BY <1>1 DEF Outcomes, Open, SetMode, SetLSBFirst, SetBitsPerWord, SetBitSpeed, SendReceive,
              ReadData, WriteData
<1> QED BY <1>2, <1>3

LEMMA CloseHasOneOutcome ==
    ASSUME NEW r, NEW d, NEW l, NEW capable, r.op = "close"
    PROVE  Outcomes(d, l, r, capable) = {[dev |-> Closed, lsb |-> l, result |-> Void]}
BY DEF Outcomes, Close, Outcome

LEMMA AnswerHereSimulated ==
    ASSUME SpiInv, CallsInv, NEW c \in Client, AnswerHere(c)
    PROVE  Simulated(c)
<1>1. Types /\ ClientInv(c) /\ CallInv(c)
  BY DEF SpiInv, CallsInv
<1>2. /\ pc[c] = "here" /\ pc'[c] = "answered"
      /\ answer'[c] = IF request[c].op = "close" THEN Void ELSE Failed
      /\ UNCHANGED <<request, file, conn, device, controller>>
  BY <1>1 DEF Types, AnswerHere, serverVars
<1>3. /\ request[c] \in Call /\ request[c].op # "open" /\ ~file[c]
      /\ (conn[c] = 0 \/ request[c].op \in {"read", "write"}) /\ answer[c] = NoResult
  BY <1>1, <1>2 DEF CallInv
<1>4. Told(c) = NoResult /\ Told(c)' = answer'[c]
  BY <1>2, <1>3 DEF Told
<1>5. DeviceOf(c)' = DeviceOf(c)
  BY <1>2 DEF DeviceOf, Current
<1>6. controller[c] \in BOOLEAN /\ controller'[c] = controller[c]
  BY <1>1, <1>2 DEF Types
<1> DEFINE o == [dev |-> DeviceOf(c), lsb |-> controller[c], result |-> answer'[c]]
<1>7. conn[c] = 0 => DeviceOf(c) = Closed
  BY DEF DeviceOf
<1>8. o \in Outcomes(DeviceOf(c), controller[c], request[c], c \in Capable)
  <2>1. CASE request[c].op = "close"
    BY <1>2, <1>3, <1>7, <2>1, CloseHasOneOutcome
  <2>2. CASE request[c].op # "close"
    <3>1. request[c].op = "setLSBFirst" => ~DeviceOf(c).open
      BY <1>3, <1>7 DEF Closed
    <3> QED BY <1>2, <1>3, <2>2, <3>1, FailureIsAnOutcome
  <2> QED BY <2>1, <2>2
<1>9. o.dev = DeviceOf(c)' /\ o.lsb = controller'[c] /\ o.result = Told(c)'
  BY <1>4, <1>5, <1>6
<1> HIDE DEF o
<1>10. Allowed(c)
  <2>1. request[c].op \in {"read", "write"} => Told(c)' = Failed
    BY <1>2, <1>4
  <2> QED BY <1>2, <1>3, <1>4, <1>6, <1>8, <1>9, <2>1, AccessPerform
<1>11. answer'[c] # NoResult
  BY <1>2 DEF Void, Failed, NoResult
<1>12. CallInv(c)'
  BY <1>2, <1>3, <1>11 DEF CallInv
<1> QED BY <1>10, <1>12 DEF Simulated

LEMMA ConnectFailsSimulated ==
    ASSUME SpiInv, CallsInv, NEW c \in Client, ConnectFails(c)
    PROVE  Simulated(c)
<1>1. Types /\ ClientInv(c) /\ CallInv(c)
  BY DEF SpiInv, CallsInv
<1>2. /\ pc[c] = "connecting" /\ pc'[c] = "answered" /\ answer'[c] = Failed
      /\ UNCHANGED <<request, file, conn, device, controller>>
  BY <1>1 DEF Types, ConnectFails, serverVars
<1>3. request[c] \in Call /\ request[c].op = "open" /\ answer[c] = NoResult /\ ~file[c]
  BY <1>1, <1>2 DEF CallInv, ClientInv, Present
<1>4. Told(c) = NoResult /\ Told(c)' = Failed
  BY <1>2, <1>3 DEF Told
<1>5. DeviceOf(c)' = DeviceOf(c)
  BY <1>2 DEF DeviceOf, Current
<1>6. controller[c] \in BOOLEAN /\ controller'[c] = controller[c]
  BY <1>1, <1>2 DEF Types
<1> DEFINE o == [dev |-> DeviceOf(c), lsb |-> controller[c], result |-> Failed]
<1>7. o \in Outcomes(DeviceOf(c), controller[c], request[c], c \in Capable)
  BY <1>3, FailureIsAnOutcome
<1>8. o.dev = DeviceOf(c)' /\ o.lsb = controller'[c] /\ o.result = Told(c)'
  BY <1>4, <1>5, <1>6
<1> HIDE DEF o
<1>9. Allowed(c)
  BY <1>2, <1>3, <1>4, <1>6, <1>7, <1>8, AccessPerform
<1>10. Failed # NoResult
  BY DEF Failed, NoResult
<1>11. CallInv(c)'
  <2>1. file[c] = FALSE
    BY <1>1, <1>3 DEF Types
  <2>2. file'[c] = FALSE /\ answer'[c].ok = FALSE
    BY <1>2, <2>1 DEF Failed
  <2> QED BY <1>2, <1>3, <1>10, <2>2 DEF CallInv
<1> QED BY <1>9, <1>11 DEF Simulated

LEMMA ConnectSimulated ==
    ASSUME SpiInv, CallsInv, NEW c \in Client, Connect(c)
    PROVE  Simulated(c)
<1>1. Types /\ ClientInv(c) /\ CallInv(c)
  BY DEF SpiInv, CallsInv
<1>2. /\ pc[c] = "connecting" /\ pc'[c] = "waiting"
      /\ UNCHANGED <<request, answer, file, conn, received, toClient, outbox>>
      /\ UNCHANGED <<device, controller>>
  BY <1>1 DEF Types, Connect, serverVars
<1>3. /\ request[c] \in Call /\ request[c].op = "open"
      /\ answer[c] = NoResult /\ conn[c] # 0
      /\ Quiet(Current(c)) /\ received[c] = <<>>
  BY <1>1, <1>2 DEF CallInv, ClientInv, Present
<1>4. Answered(c) = <<>> /\ Answered(c)' = Answered(c)
  BY <1>2, <1>3, AnsweredNone DEF Quiet, Answered, Current
<1>5. Told(c) = answer[c] /\ Told(c)' = answer[c]
  BY <1>2, <1>4 DEF Told
<1>6. DeviceOf(c)' = DeviceOf(c)
  BY <1>2 DEF DeviceOf, Current
<1>7. Allowed(c)
  BY <1>2, <1>5, <1>6, AccessStutter DEF SameDevice
<1>8. CallInv(c)'
  BY <1>2, <1>3, <1>4 DEF CallInv
<1> QED BY <1>7, <1>8 DEF Simulated

LEMMA ReturnSimulated ==
    ASSUME SpiInv, CallsInv, NEW c \in Client, Return(c)
    PROVE  Simulated(c)
<1>1. Types /\ CallInv(c)
  BY DEF SpiInv, CallsInv
<1>2. /\ pc[c] = "answered" /\ pc'[c] = "idle" /\ request'[c] = NoCall
      /\ answer'[c] = NoResult /\ UNCHANGED <<file, conn, device, controller>>
  BY <1>1 DEF Types, Return, serverVars
<1>3. Told(c) = answer[c] /\ answer[c] # NoResult /\ Told(c)' = NoResult
  BY <1>1, <1>2 DEF Told, CallInv
<1>4. DeviceOf(c)' = DeviceOf(c)
  BY <1>2 DEF DeviceOf, Current
<1>5. Allowed(c)
  BY <1>1, <1>2, <1>3, <1>4, AccessReturn DEF CallInv, SameDevice
<1>6. CallInv(c)'
  BY <1>2 DEF CallInv
<1> QED BY <1>5, <1>6 DEF Simulated

LEMMA QuitSimulated ==
    ASSUME SpiInv, CallsInv, NEW c \in Client, Quit(c)
    PROVE  Simulated(c)
<1>1. Types
  BY DEF SpiInv
<1>2. /\ pc[c] # "gone" /\ pc'[c] = "gone" /\ request'[c] = NoCall
      /\ answer'[c] = NoResult /\ file'[c] = FALSE
  BY <1>1 DEF Types, Quit
<1>3. CallInv(c)'
  BY <1>2 DEF CallInv
<1> QED BY <1>2, <1>3, AccessQuit DEF Simulated

(* The answer was there to be read: reading it changes nothing but the file.*)
LEMMA ReceiveSimulated ==
    ASSUME SpiInv, CallsInv, NEW c \in Client, ReceiveAnswer(c)
    PROVE  Simulated(c)
<1>0. PICK k : k = Current(c)
  OBVIOUS
<1>1. Types /\ ClientInv(c) /\ CallInv(c)
  BY DEF SpiInv, CallsInv
<1>2. PICK t \in Turns(received[c], toClient[k]) :
         /\ toClient' = [toClient EXCEPT ![k] = t.stream]
         /\ KeepReading(c, t) \/ Receive(c, t)
  BY <1>0 DEF ReceiveAnswer
<1>3. /\ pc[c] = "waiting" /\ UNCHANGED <<request, conn, outbox, device, controller>>
  BY DEF ReceiveAnswer, serverVars
<1>4. toClient[k] # <<>>
  <2>1. PICK n \in 1..Len(toClient[k]) : TRUE
    BY <1>2 DEF Turns
  <2>2. Len(<<>>) = 0
    OBVIOUS
  <2> QED BY <2>1, <2>2
<1>5. conn[c] # 0 /\ k \in Connection /\ Tells(c, k)
  BY <1>0, <1>3, <1>4, WaitingIsTold
<1>6. PICK a \in Result : Answering(c, k, a)
  BY <1>5 DEF Tells
<1> DEFINE b == AnswerByte(a)
<1>7. /\ Pieces(received[c], toClient[k], b)
      /\ b.len = AnswerLen(a) /\ AnswerLen(a) \in Nat /\ AnswerLen(a) >= Header
  BY <1>1, <1>5, <1>6, ToldPieces
<1>8. Answered(c) # <<>> /\ Answered(c)[1] = b /\ b.body = a
  BY <1>0, <1>1, <1>5, <1>6, AnsweredTold
<1>9. outbox[k] \in Seq({b})
  BY <1>6 DEF Answering
<1> HIDE DEF b
<1>10. GoodTurn(t, received[c], toClient[k], b)
  <2>1. b.len \in Nat /\ b.len >= Header
    BY <1>7
  <2>2. Pieces(received[c], toClient[k], b)
    BY <1>7
  <2> QED BY <2>1, <2>2, TurnPieces
<1>11. /\ Told(c) = a /\ a # NoResult /\ (request[c].op = "close" => a = Void)
       /\ request[c].op = "open" => a \in {Done, Failed}
  BY <1>1, <1>3, <1>8 DEF Told, CallInv
<1>12. DeviceOf(c)' = DeviceOf(c)
  <2>1. pc'[c] # "gone"
    BY <1>1, <1>2, <1>3 DEF Types, KeepReading, Receive
  <2> QED BY <1>3, <2>1 DEF DeviceOf, Current
<1>13. /\ answer[c] = NoResult /\ request[c] \in Call
       /\ request[c].op \in {"read", "write"} => file[c]
       /\ request[c].op = "open" => ~file[c]
  BY <1>1, <1>3 DEF CallInv, ClientInv
<1>14. CASE KeepReading(c, t)
  <2>1. received'[c] = t.data /\ pc' = pc /\ answer' = answer /\ file' = file
    BY <1>1, <1>14 DEF Types, KeepReading
  <2>2. toClient'[k] = t.stream /\ outbox'[k] = outbox[k] /\ Current(c)' = k
    BY <1>0, <1>1, <1>2, <1>3, <1>5 DEF Types, Current
  <2>3. BeginsWith(t.data \o t.stream \o outbox[k], b)
    <3>1. t.data \in Seq({b}) /\ t.stream \in Seq({b}) /\ t.data # <<>>
      BY <1>10 DEF GoodTurn
    <3>2. /\ Len(t.data) \in Nat /\ Len(t.stream) \in Nat /\ Len(outbox[k]) \in Nat
          /\ Len(t.data) # 0
      BY <1>9, <3>1, LenProperties, EmptySeq
    <3>3. \A i, j, m \in Nat : i # 0 => i + j + m # 0
      OBVIOUS
    <3>4. Len(t.data) + Len(t.stream) + Len(outbox[k]) # 0
      BY <3>2, <3>3
    <3> QED BY <1>9, <3>1, <3>4, FirstByte
  <2>4. Answered(c)' # <<>> /\ Answered(c)'[1] = b
    BY <2>1, <2>2, <2>3 DEF Answered, BeginsWith
  <2>5. Told(c)' = a
    BY <1>3, <1>8, <2>1, <2>4 DEF Told
  <2>6. Allowed(c)
    BY <1>3, <1>11, <1>12, <2>1, <2>5, AccessStutter DEF SameDevice
  <2>7. CallInv(c)'
    BY <1>3, <1>11, <1>13, <2>1, <2>5 DEF CallInv
  <2> QED BY <2>6, <2>7 DEF Simulated
<1>15. CASE Receive(c, t)
  <2>1. Complete(t.data) /\ Whole(t.data) /\ t.data[1] = b
    BY <1>10, <1>15 DEF Receive, GoodTurn
  <2>2. Got(request[c], t.data) = a
    BY <1>8, <1>11, <2>1 DEF Got
  <2>3. pc'[c] = "answered"
    BY <1>1, <1>15 DEF Types, Receive
  <2>4. PICK open \in FileAfter(c, request[c], a) :
           /\ file'[c] = open
           /\ answer'[c] = IF request[c].op = "open" /\ ~open THEN Failed ELSE a
    BY <1>1, <1>15, <2>2 DEF Types, Receive
  <2>5. Told(c)' = answer'[c]
    BY <2>3 DEF Told
  <2>6. SameDevice(c) /\ request'[c] = request[c] /\ pc[c] # "gone" /\ pc'[c] # "gone"
    BY <1>3, <1>12, <2>3 DEF SameDevice
  <2>7. Done.ok = TRUE /\ Failed.ok = FALSE /\ Done # NoResult /\ Failed # NoResult
    BY DEF Done, Failed, NoResult
  <2>8. CASE request[c].op = "open" /\ a = Done /\ open = TRUE
    <3>1. Allowed(c)
      BY <1>11, <2>4, <2>5, <2>6, <2>8, AccessFile
    <3>2. CallInv(c)'
      BY <1>13, <2>3, <2>4, <2>6, <2>7, <2>8 DEF CallInv
    <3> QED BY <3>1, <3>2 DEF Simulated
  <2>9. CASE request[c].op = "open" /\ a = Done /\ open = FALSE
    <3>1. c \notin Writable
      BY <2>7, <2>9 DEF FileAfter
    <3>2. file'[c] = FALSE /\ file[c] = FALSE
      BY <1>1, <1>13, <2>4, <2>9 DEF Types
    <3>3. Allowed(c)
      BY <1>11, <2>4, <2>5, <2>6, <2>9, <3>1, <3>2, AccessFile
    <3>4. CallInv(c)'
      BY <1>13, <2>3, <2>4, <2>6, <2>7, <2>9 DEF CallInv
    <3> QED BY <3>3, <3>4 DEF Simulated
  <2>10. CASE request[c].op = "open" /\ a = Failed
    <3>1. open = FALSE
      BY <2>7, <2>10 DEF FileAfter
    <3>2. file'[c] = FALSE /\ file[c] = FALSE
      BY <1>1, <1>13, <2>4, <2>10, <3>1 DEF Types
    <3>3. Allowed(c)
      BY <1>11, <2>4, <2>5, <2>6, <2>10, <3>1, <3>2, AccessStutter
    <3>4. CallInv(c)'
      BY <1>13, <2>3, <2>4, <2>6, <2>7, <2>10, <3>1 DEF CallInv
    <3> QED BY <3>3, <3>4 DEF Simulated
  <2>11. CASE request[c].op = "close"
    <3>1. open = FALSE /\ a = Void
      BY <1>11, <2>11 DEF FileAfter
    <3>2. Allowed(c)
      BY <1>11, <2>4, <2>5, <2>6, <2>11, <3>1, AccessFile
    <3>3. CallInv(c)'
      BY <1>11, <1>13, <2>3, <2>4, <2>6, <2>11, <3>1 DEF CallInv
    <3> QED BY <3>2, <3>3 DEF Simulated
  <2>12. CASE request[c].op \notin {"open", "close"}
    <3>1. open = file[c] /\ answer'[c] = a
      BY <2>4, <2>12 DEF FileAfter
    <3>2. Allowed(c)
      BY <1>11, <2>4, <2>5, <2>6, <3>1, AccessStutter
    <3>3. CallInv(c)'
      BY <1>11, <1>13, <2>3, <2>6, <2>12, <3>1 DEF CallInv
    <3> QED BY <3>2, <3>3 DEF Simulated
  <2>13. a = Done => open \in BOOLEAN
    BY <1>1, <2>4, <2>7 DEF FileAfter, Types
  <2> QED BY <1>11, <2>8, <2>9, <2>10, <2>11, <2>12, <2>13
<1> QED BY <1>2, <1>14, <1>15
-----------------------------------------------------------------------------
(* The server's steps.  What becomes of a client that is lost is of no      *)
(* interest.                                                                *)
LEMMA GoneSimulated ==
    ASSUME CallsInv, NEW c \in Client, pc[c] = "gone", UNCHANGED clientVars
    PROVE  Simulated(c)
<1>1. /\ CallInv(c) /\ pc'[c] = "gone" /\ request'[c] = request[c]
      /\ answer'[c] = answer[c] /\ file'[c] = file[c]
  BY DEF CallsInv, clientVars
<1>2. (pc'[c] # "gone") = FALSE /\ (pc[c] # "gone") = FALSE
  BY <1>1, Zenon
<1>3. (pc'[c] # "gone" /\ controller'[c]) = FALSE /\ (pc[c] # "gone" /\ controller[c]) = FALSE
  BY <1>1, Zenon
<1>4. DeviceOf(c) = Closed /\ DeviceOf(c)' = Closed
  BY <1>1 DEF DeviceOf
<1>5. Told(c)' = Told(c)
  BY <1>1 DEF Told
<1>6. Allowed(c)
  BY <1>1, <1>2, <1>3, <1>4, <1>5 DEF Allowed, Access!accessVars, Access!vars,
     DeviceOf, Told
<1>7. CallInv(c)'
  BY <1>1 DEF CallInv
<1> QED BY <1>6, <1>7 DEF Simulated

SameAt(k) == toClient'[k] = toClient[k] /\ outbox'[k] = outbox[k] /\ device'[k] = device[k]

LEMMA ServerElse ==
    ASSUME SpiInv, CallsInv, NEW k \in Connection, UNCHANGED clientVars,
           \A j \in Connection \ {k} : SameAt(j),
           NEW d \in Client, conn[d] # 0 => Current(d) # k, controller'[d] = controller[d]
    PROVE  Simulated(d)
<1>1. conn[d] # 0 => Current(d) \in Connection \ {k}
  BY CurrentIs DEF SpiInv
<1>2. Unaffected(d)
  BY <1>1 DEF Unaffected, SameAt, clientVars
<1> QED BY <1>2, ElseSimulated

LEMMA AcceptSimulated ==
    ASSUME SpiInv, CallsInv, NEW k \in Connection, Accept(k), NEW c \in Client
    PROVE  Simulated(c)
<1>1. Unaffected(c)
  BY DEF Accept, clientVars, netVars, Unaffected
<1> QED BY <1>1, ElseSimulated

LEMMA DisconnectSimulated ==
    ASSUME SpiInv, CallsInv, NEW k \in Connection, Disconnect(k), NEW c \in Client
    PROVE  Simulated(c)
<1>1. Types /\ ClientInv(c) /\ UNCHANGED clientVars /\ controller' = controller
  BY DEF SpiInv, Disconnect
<1>2. \A j \in Connection \ {k} : SameAt(j)
  BY <1>1 DEF Disconnect, SameAt, Types
<1>3. CASE pc[c] = "gone"
  BY <1>1, <1>3, GoneSimulated
<1>4. CASE pc[c] # "gone"
  <2>1. conn[c] # 0 => Current(c) # k
    BY <1>1, <1>4 DEF ClientInv, Present, Disconnect
  <2> QED BY <1>1, <1>2, <2>1, ServerElse
<1> QED BY <1>3, <1>4

(* An answer stays the client's answer on its way to it.                    *)
LEMMA SendAnswerSimulated ==
    ASSUME SpiInv, CallsInv, NEW k \in Connection, SendAnswer(k), NEW c \in Client
    PROVE  Simulated(c)
<1>1. Types /\ ClientInv(c) /\ CallInv(c)
  BY DEF SpiInv, CallsInv
<1>2. /\ outbox[k] # <<>> /\ outbox' = [outbox EXCEPT ![k] = <<>>]
      /\ toClient' = IF link[k] = "up" THEN [toClient EXCEPT ![k] = @ \o outbox[k]]
                     ELSE toClient
      /\ UNCHANGED clientVars /\ UNCHANGED <<device, controller>>
  BY DEF SendAnswer
<1>3. UNCHANGED <<pc, request, answer, file, conn, received>>
  BY <1>2 DEF clientVars
<1>4. \A j \in Connection \ {k} : SameAt(j)
  BY <1>1, <1>2 DEF SameAt, Types
<1>5. CASE pc[c] = "gone"
  BY <1>2, <1>5, GoneSimulated
<1>6. CASE conn[c] # 0 => Current(c) # k
  BY <1>2, <1>4, <1>6, ServerElse
<1>7. CASE pc[c] # "gone" /\ conn[c] # 0 /\ Current(c) = k
  <2>1. Present(c, k)
    BY <1>1, <1>7 DEF ClientInv
  <2>2. ~Quiet(k) /\ ~Asked(c, k)
    BY <1>2 DEF Quiet, Asked
  <2>3. pc[c] = "waiting" /\ link[k] = "up" /\ Tells(c, k)
    BY <2>1, <2>2 DEF Present
  <2>4. PICK a \in Result : Answering(c, k, a)
    BY <2>3 DEF Tells
  <2> DEFINE b == AnswerByte(a)
  <2>5. Answered(c) # <<>> /\ Answered(c)[1] = b /\ b.body = a
    BY <1>1, <1>7, <2>4, AnsweredTold
  <2>6. received[c] \in Seq({b}) /\ toClient[k] \in Seq({b}) /\ outbox[k] \in Seq({b})
    BY <2>4 DEF Answering
  <2> HIDE DEF b
  <2>7. toClient'[k] = toClient[k] \o outbox[k] /\ outbox'[k] = <<>> /\ Current(c)' = k
    BY <1>1, <1>2, <1>3, <1>7, <2>3 DEF Types, Current
  <2>8. BeginsWith(received[c] \o (toClient[k] \o outbox[k]) \o <<>>, b)
    <3> DEFINE s == toClient[k] \o outbox[k]
    <3>1. s \in Seq({b}) /\ Len(s) = Len(toClient[k]) + Len(outbox[k])
      BY <2>6, ConcatProperties
    <3>2. /\ Len(received[c]) \in Nat /\ Len(toClient[k]) \in Nat /\ Len(outbox[k]) \in Nat
          /\ Len(outbox[k]) # 0
      BY <1>2, <2>6, LenProperties, EmptySeq
    <3>3. \A i, j, m \in Nat : m # 0 => i + (j + m) + 0 # 0
      OBVIOUS
    <3>4. Len(<<>>) = 0 /\ <<>> \in Seq({b})
      BY EmptySeq
    <3>5. Len(received[c]) + Len(s) + Len(<<>>) # 0
      BY <3>1, <3>2, <3>3, <3>4
    <3> HIDE DEF s
    <3>6. BeginsWith(received[c] \o s \o <<>>, b)
      BY <2>6, <3>1, <3>4, <3>5, FirstByte
    <3> QED BY <3>6 DEF s
  <2>9. Answered(c)' # <<>> /\ Answered(c)'[1] = b
    BY <1>3, <2>7, <2>8 DEF Answered, BeginsWith
  <2>10. Told(c) = a /\ Told(c)' = a
    BY <1>3, <2>3, <2>5, <2>9 DEF Told
  <2>11. DeviceOf(c)' = DeviceOf(c)
    BY <1>2, <1>3 DEF DeviceOf, Current
  <2>12. Allowed(c)
    BY <1>2, <1>3, <2>10, <2>11, AccessStutter DEF SameDevice
  <2>13. CallInv(c)'
    BY <1>1, <1>3, <2>3, <2>5, <2>10 DEF CallInv
  <2> QED BY <2>12, <2>13 DEF Simulated
<1> QED BY <1>5, <1>6, <1>7

(* What the outcomes of the calls have in common.                           *)
LEMMA OutcomeFacts ==
    ASSUME NEW d \in Device, d.open \/ d = Closed, NEW l, NEW r \in Call, NEW capable,
           NEW o \in Outcomes(d, l, r, capable)
    PROVE  /\ o.result # NoResult /\ (r.op = "close" => o.result = Void)
           /\ r.op = "open" => o.result \in {Done, Failed}
           /\ o.dev.open \/ o.dev = Closed
<1>1. r.op \in {"open", "close", "setMode", "setLSBFirst", "setBitsPerWord", "setBitSpeed",
                "sendReceive", "read", "write"}
  BY DEF Call
<1>2. /\ Failed # NoResult /\ Done # NoResult /\ Void # NoResult
      /\ \A f : Exchanged(f) # NoResult
  BY DEF Failed, Done, Void, NoResult, Exchanged, Order
<1>3. \A e, m, a : Outcome(e, m, a).dev = e /\ Outcome(e, m, a).result = a
  BY DEF Outcome
<1>4. CASE r.op = "open"
  BY <1>2, <1>3, <1>4 DEF Outcomes, Open, Fails, Opened
<1>5. CASE r.op = "close"
  BY <1>2, <1>3, <1>5 DEF Outcomes, Close
<1>6. CASE r.op \in {"setBitsPerWord", "setBitSpeed"}
  BY <1>2, <1>3, <1>6 DEF Outcomes, SetBitsPerWord, SetBitSpeed, Fails
<1>7. CASE r.op = "setMode"
  <2>1. \/ o = Outcome(d, l, Failed) \/ o = Outcome(d, FALSE, Done)
        \/ o = Outcome(d, FALSE, Failed)
    BY <1>7 DEF Outcomes, SetMode, Fails
  <2>2. CASE o = Outcome(d, l, Failed)
    BY <1>2, <1>3, <1>7, <2>2
  <2>3. CASE o = Outcome(d, FALSE, Done)
    <3>1. o.dev = d /\ o.result = Done
      BY <2>3 DEF Outcome
    <3> QED BY <1>2, <1>7, <3>1
  <2>4. CASE o = Outcome(d, FALSE, Failed)
    <3>1. o.dev = d /\ o.result = Failed
      BY <2>4 DEF Outcome
    <3> QED BY <1>2, <1>7, <3>1
  <2> QED BY <2>1, <2>2, <2>3, <2>4
<1>8. CASE r.op = "setLSBFirst"
  <2>1. \A f : [d EXCEPT !.reverse = f].open = d.open
    BY DEF Device
  <2>2. \/ d.open /\ o = Outcome([d EXCEPT !.reverse = r.arg], l, Done)
        \/ d.open /\ o = Outcome(d, r.arg, Done)
        \/ o = Outcome(d, l, Failed)
    BY <1>8 DEF Outcomes, SetLSBFirst, Fails
  <2> DEFINE e == [d EXCEPT !.reverse = r.arg]
  <2> HIDE DEF e
  <2>3. CASE d.open /\ o = Outcome(e, l, Done)
    <3>1. o.dev = e /\ o.result = Done
      BY <1>3, <2>3
    <3>2. e.open = d.open
      BY <2>1 DEF e
    <3>3. o.dev.open
      BY <2>3, <3>1, <3>2, Zenon
    <3> QED BY <1>2, <1>8, <3>1, <3>3
  <2>4. CASE d.open /\ o = Outcome(d, r.arg, Done)
    <3>1. o.dev = d /\ o.result = Done
      BY <1>3, <2>4
    <3> QED BY <1>2, <1>8, <3>1
  <2>5. CASE o = Outcome(d, l, Failed)
    <3>1. o.dev = d /\ o.result = Failed
      BY <1>3, <2>5
    <3> QED BY <1>2, <1>8, <3>1
  <2> QED BY <2>2, <2>3, <2>4, <2>5 DEF e
<1>9. CASE r.op \in {"sendReceive", "read", "write"}
  BY <1>2, <1>3, <1>9 DEF Outcomes, SendReceive, ReadData, WriteData, Fails
<1> QED BY <1>1, <1>4, <1>5, <1>6, <1>7, <1>8, <1>9

(* What the server makes of a call is what the device makes of it, or no    *)
(* bytes.                                                                   *)
LEMMA ServedFacts ==
    ASSUME NEW d \in Device, d.open \/ d = Closed, NEW l, NEW r \in Call, NEW capable,
           NEW o \in Served(d, l, r, capable)
    PROVE  /\ \/ o \in Outcomes(d, l, r, capable) /\ (r.op = "read" => o.result # Failed)
              \/ r.op = "read" /\ o.dev = d /\ o.lsb = l /\ o.result = Empty
           /\ o.result # NoResult /\ (r.op = "close" => o.result = Void)
           /\ r.op = "open" => o.result \in {Done, Failed}
           /\ o.dev.open \/ o.dev = Closed
<1>1. CASE r.op # "read"
  <2>1. o \in Outcomes(d, l, r, capable)
    BY <1>1 DEF Served
  <2> QED BY <1>1, <2>1, OutcomeFacts
<1>2. CASE r.op = "read"
  <2>1. PICK p \in ReadData(d, l) : o = BytesOf(p)
    BY <1>2 DEF Served
  <2>2. p \in Outcomes(d, l, r, capable)
    BY <1>2, <2>1 DEF Outcomes
  <2>3. p = Outcome(d, l, Failed) \/ p = Outcome(d, l, Exchanged(l # d.reverse))
    BY <2>1 DEF ReadData, Fails
  <2>4. Failed.ok = FALSE /\ (\A f : Exchanged(f).ok = TRUE) /\ Empty # NoResult
    BY DEF Failed, Exchanged, Empty, NoResult
  <2>5. CASE p = Outcome(d, l, Failed)
    <3>1. o = Outcome(d, l, Empty)
      BY <2>1, <2>4, <2>5 DEF BytesOf, Outcome
    <3>2. o.dev = d /\ o.lsb = l /\ o.result = Empty
      BY <3>1 DEF Outcome
    <3> QED BY <1>2, <2>4, <3>2
  <2>6. CASE p = Outcome(d, l, Exchanged(l # d.reverse))
    <3>1. p.result = Exchanged(l # d.reverse) /\ p.result.ok
      BY <2>4, <2>6 DEF Outcome
    <3>2. o = p /\ o.result # Failed
      BY <2>1, <2>4, <3>1 DEF BytesOf
    <3> QED BY <1>2, <2>2, <3>2, OutcomeFacts
  <2> QED BY <2>3, <2>5, <2>6
<1> QED BY <1>1, <1>2

(* The server performs the call as the local device would have, but for the *)
(* failure of a read: what the client sees is its own device, and the       *)
(* answer to be.                                                            *)
LEMMA OnReceiveSimulated ==
    ASSUME SpiInv, CallsInv, NEW k \in Connection, OnReceive(k), NEW c \in Client
    PROVE  Simulated(c)
<1>1. Types /\ ClientInv(c) /\ CallInv(c)
  BY DEF SpiInv, CallsInv
<1>2. PICK t, b : Reads(k, t, b)
  BY OnReceiveReads
<1>3. UNCHANGED clientVars /\ toClient' = toClient
  BY DEF OnReceive
<1>4. UNCHANGED <<pc, request, answer, file, conn, received>>
  BY <1>3 DEF clientVars
<1>5. \/ BlockInFrame(k, t.data) /\ UNCHANGED <<device, controller, outbox>>
      \/ /\ Complete(t.data) /\ HandlesOne(k, b.body)
         /\ b.body \in Call
  <2>1. Complete(t.data) => Whole(t.data) /\ t.data[1] = b
    BY <1>2 DEF Reads, GoodTurn
  <2>2. ASSUME HandleFrame(k, t.data)
        PROVE  Complete(t.data) /\ HandlesOne(k, b.body)
    BY <2>1, <2>2, CallOutcome DEF HandleFrame
  <2> QED BY <1>2, <2>2 DEF Reads, BlockInFrame
<1>6. CASE pc[c] = "gone"
  BY <1>3, <1>6, GoneSimulated
<1>7. CASE UNCHANGED <<device, controller, outbox>>
  <2>1. Unaffected(c)
    BY <1>3, <1>4, <1>7 DEF Unaffected
  <2> QED BY <2>1, ElseSimulated
<1>8. CASE pc[c] # "gone" /\ Complete(t.data) /\ HandlesOne(k, b.body)
  <2>1. PICK o \in Served(device[k], controller[k[1]], b.body, k[1] \in Capable) :
           Handles(k, o)
    BY <1>8 DEF HandlesOne
  <2>2. \A j \in Connection \ {k} : SameAt(j)
    BY <1>1, <1>3, <2>1 DEF Handles, SameAt, Types
  <2>3. CASE k[1] # c
    <3>1. controller'[c] = controller[c] /\ Current(c) # k
      BY <1>1, <2>1, <2>3 DEF Handles, Types, Current
    <3> QED BY <1>3, <2>2, <3>1, ServerElse
  <2>4. CASE k[1] = c
    <3>1. PICK d \in Client, n \in Nat : n \in 1..MaxOpens[d] /\ k = <<d, n>>
      BY Connections
    <3>2. d = c /\ toServer[k] # <<>>
      BY <1>2, <2>4, <3>1 DEF Reads, GoodTurn
    <3>3. /\ n = conn[c] /\ pc[c] = "waiting" /\ Asked(c, k)
          /\ request[c] \in Call
      BY <1>8, <3>1, <3>2, ReceivesRequest
    <3>4. k = Current(c) /\ conn[c] # 0 /\ Current(c)' = k
      BY <1>4, <3>1, <3>2, <3>3, SizeAssumption DEF Current
    <3>5. b.body = request[c]
      BY <1>2, <1>8, <2>4 DEF Reads, ByteOf
    <3>6. received[c] = <<>> /\ toClient[k] = <<>> /\ outbox[k] = <<>>
      BY <3>3 DEF Asked
    <3>7. Told(c) = NoResult /\ answer[c] = NoResult
      BY <1>1, <3>3, <3>4, <3>6, AnsweredNone DEF CallInv
    <3>8. controller[c] \in BOOLEAN /\ device[k] \in Device
      BY <1>1 DEF Types
    <3>9. o \in Served(device[k], controller[c], request[c], c \in Capable)
      BY <2>1, <2>4, <3>5
    <3>10. o.result \in Result /\ o.lsb \in BOOLEAN
      BY <3>3, <3>8, <3>9, OutcomesFit DEF Fits
    <3>11. /\ o.result # NoResult /\ (request[c].op = "close" => o.result = Void)
           /\ request[c].op = "open" => o.result \in {Done, Failed}
           /\ \/ /\ o \in Outcomes(device[k], controller[c], request[c], c \in Capable)
                 /\ request[c].op = "read" => o.result # Failed
              \/ /\ request[c].op = "read"
                 /\ o.dev = device[k] /\ o.lsb = controller[c] /\ o.result = Empty
      BY <3>3, <3>8, <3>9, ServedFacts DEF CallsInv
    <3>12. /\ device'[k] = o.dev /\ controller'[c] = o.lsb
           /\ outbox'[k] = outbox[k] \o AnswerFrame(o.result)
      BY <1>1, <2>1, <2>4 DEF Handles, Types
    <3>13. DeviceOf(c) = device[k] /\ DeviceOf(c)' = o.dev
      BY <1>4, <1>8, <3>4, <3>12 DEF DeviceOf
    <3> DEFINE f == AnswerFrame(o.result)
               y == AnswerByte(o.result)
    <3>14. f \in Seq({y}) /\ Len(f) = AnswerLen(o.result) /\ y.body = o.result
      BY <3>10, FramesSeq DEF AnswerByte
    <3>15. AnswerLen(o.result) \in Nat /\ AnswerLen(o.result) # 0
      BY SizeAssumption DEF AnswerLen
    <3> HIDE DEF f, y
    <3>16. outbox'[k] = f
      BY <3>6, <3>12, <3>14, ConcatEmptySeq DEF f
    <3>17. BeginsWith(<<>> \o <<>> \o f, y)
      <4>1. Len(<<>>) = 0 /\ <<>> \in Seq({y})
        BY EmptySeq
      <4>2. Len(<<>>) + Len(<<>>) + Len(f) # 0
        BY <3>14, <3>15, <4>1
      <4> QED BY <3>14, <4>1, <4>2, FirstByte
    <3>18. Answered(c)' # <<>> /\ Answered(c)'[1] = y
      BY <1>3, <1>4, <3>4, <3>6, <3>16, <3>17 DEF Answered, BeginsWith
    <3>19. Told(c)' = o.result
      BY <1>4, <3>3, <3>14, <3>18 DEF Told
    <3>20. controller'[c] \in BOOLEAN
      BY <3>10, <3>12
    <3>21. request[c].op \in {"read", "write"} => file[c]
      BY <1>1, <3>3 DEF CallInv
    <3>22. Allowed(c)
      <4>1. ASSUME o \in Outcomes(device[k], controller[c], request[c], c \in Capable),
                   request[c].op = "read" => o.result # Failed
            PROVE  Allowed(c)
        <5>1. o \in Outcomes(DeviceOf(c), controller[c], request[c], c \in Capable)
          BY <3>13, <4>1
        <5> QED BY <1>4, <1>8, <3>3, <3>7, <3>8, <3>12, <3>13, <3>19, <3>20, <3>21,
                   <4>1, <5>1, AccessPerform
      <4>2. ASSUME request[c].op = "read", o.dev = device[k], o.lsb = controller[c],
                   o.result = Empty
            PROVE  Allowed(c)
        BY <1>4, <1>8, <3>3, <3>7, <3>12, <3>13, <3>19, <3>21, <4>2, AccessReadNothing
           DEF SameDevice
      <4> QED BY <3>11, <4>1, <4>2
    <3>23. CallInv(c)'
      BY <1>1, <1>4, <3>3, <3>11, <3>19 DEF CallInv
    <3> QED BY <3>22, <3>23 DEF Simulated
  <2> QED BY <2>3, <2>4
<1> QED BY <1>5, <1>6, <1>7, <1>8

LEMMA DevicesStep ==
    ASSUME SpiInv, CallsInv, [Next]_vars
    PROVE  \A k \in Connection : device'[k].open \/ device'[k] = Closed
<1>1. Types /\ \A k \in Connection : device[k].open \/ device[k] = Closed
  BY DEF SpiInv, CallsInv
<1>2. CASE UNCHANGED device
  BY <1>1, <1>2
<1>3. ASSUME NEW c \in Client, ClientCalls(c) \/ ClientRuns(c) \/ Quit(c)
      PROVE  UNCHANGED device
  BY <1>3 DEF ClientCalls, CallOpen, CallHere, CallServer, Calling, ClientRuns, AnswerHere,
              Connect, ConnectFails, ReceiveAnswer, Return, Quit, serverVars
<1>4. ASSUME NEW k \in Connection, Accept(k) \/ SendAnswer(k)
      PROVE  UNCHANGED device
  BY <1>4 DEF Accept, SendAnswer
<1>5. ASSUME NEW k \in Connection, Disconnect(k)
      PROVE  \A j \in Connection : device'[j].open \/ device'[j] = Closed
  BY <1>1, <1>5 DEF Disconnect, Types
<1>6. ASSUME NEW k \in Connection, OnReceive(k)
      PROVE  \A j \in Connection : device'[j].open \/ device'[j] = Closed
  <2>1. PICK t, b : Reads(k, t, b)
    BY <1>6, OnReceiveReads
  <2>2. CASE BlockInFrame(k, t.data)
    BY <1>2, <2>2 DEF BlockInFrame
  <2>3. CASE HandleFrame(k, t.data)
    <3>1. Complete(t.data) /\ Whole(t.data) /\ t.data[1] = b /\ b.body \in Call
      BY <2>1, <2>3 DEF Reads, GoodTurn, HandleFrame
    <3>2. HandlesOne(k, b.body)
      BY <2>3, <3>1, CallOutcome DEF HandleFrame
    <3>3. PICK o \in Served(device[k], controller[k[1]], b.body, k[1] \in Capable) :
             Handles(k, o)
      BY <3>2 DEF HandlesOne
    <3>4. device[k] \in Device
      BY <1>1 DEF Types
    <3>5. o.dev.open \/ o.dev = Closed
      BY <1>1, <3>1, <3>3, <3>4, ServedFacts
    <3> QED BY <1>1, <3>3, <3>5 DEF Handles, Types
  <2> QED BY <2>1, <2>2, <2>3 DEF Reads
<1>7. CASE UNCHANGED vars
  BY <1>2, <1>7 DEF vars, serverVars
<1> QED BY <1>2, <1>3, <1>4, <1>5, <1>6, <1>7 DEF Next, ServerRuns

LEMMA SimulationStep ==
    ASSUME SpiInv, CallsInv, [Next]_vars
    PROVE  CallsInv' /\ \A c \in Client : Allowed(c)
<1>1. SpiInv'
  BY SpiStep
<1>2. ASSUME NEW c \in Client, ClientCalls(c) \/ ClientRuns(c) \/ Quit(c), NEW d \in Client
      PROVE  Simulated(d)
  <2>1. CASE d # c
    BY <1>2, <2>1, ClientsElse, ElseSimulated DEF SpiInv
  <2>2. CASE d = c
    BY <1>1, <1>2, <2>2, CallsSimulated, AnswerHereSimulated, ConnectFailsSimulated,
       ConnectSimulated, ReturnSimulated, QuitSimulated, ReceiveSimulated DEF ClientRuns
  <2> QED BY <2>1, <2>2
<1>3. ASSUME NEW k \in Connection, ServerRuns(k), NEW d \in Client
      PROVE  Simulated(d)
  BY <1>3, AcceptSimulated, DisconnectSimulated, OnReceiveSimulated, SendAnswerSimulated
     DEF ServerRuns
<1>4. ASSUME UNCHANGED vars, NEW d \in Client
      PROVE  Simulated(d)
  <2>1. Unaffected(d)
    BY <1>4 DEF vars, clientVars, netVars, serverVars, Unaffected
  <2> QED BY <2>1, ElseSimulated
<1>5. \A d \in Client : Simulated(d)
  BY <1>2, <1>3, <1>4 DEF Next
<1> QED BY <1>5, DevicesStep DEF Simulated, CallsInv

LEMMA InitCalls == Init => CallsInv
<1> SUFFICES ASSUME Init PROVE CallsInv
  OBVIOUS
<1>1. \A c \in Client : CallInv(c)
  BY DEF Init, CallInv
<1> QED BY <1>1 DEF Init, CallsInv

LEMMA CallsInvariant == Spec => []CallsInv
<1>1. SpiInv /\ CallsInv /\ [Next]_vars => CallsInv'
  BY SimulationStep
<1> QED BY <1>1, InitCalls, SpiInvariant, PTL DEF Spec

(* What each client does and is told is what it could do and be told with   *)
(* the SPI on its own machine, but for what SpiAccess adds: a read that     *)
(* fails on the device returns no bytes, and open fails with the device     *)
(* open when the temporary file cannot be opened.                           *)
THEOREM RemoteIsNearlyTransparent == Spec => NearlyTransparent
<1>1. Init => \A c \in Client : Access(c)!AccessInit
  <2> SUFFICES ASSUME Init, NEW c \in Client PROVE Access(c)!AccessInit
    OBVIOUS
  <2>1. DeviceOf(c) = Closed /\ Told(c) = NoResult /\ request[c] = NoCall
    BY DEF Init, DeviceOf, Told
  <2>2. (pc[c] # "gone" /\ controller[c]) = FALSE /\ (pc[c] # "gone") = TRUE
        /\ file[c] = FALSE
    BY Zenon DEF Init
  <2> QED BY <2>1, <2>2 DEF Access!AccessInit, Access!Init, Access!Closed, Closed,
                     Access!NoCall, NoCall, Access!NoResult, NoResult, DeviceOf, Told
<1>2. SpiInv /\ CallsInv /\ [Next]_vars
        => \A c \in Client : [Access(c)!AccessNext]_(Access(c)!accessVars)
  BY SimulationStep DEF Allowed
<1>3. SpiInv /\ CallsInv /\ [Next]_vars
        => [\A c \in Client : [Access(c)!AccessNext]_(Access(c)!accessVars)]_vars
  BY <1>2
<1> QED BY <1>1, <1>3, SpiInvariant, CallsInvariant, PTL DEF Spec, NearlyTransparent
=============================================================================
