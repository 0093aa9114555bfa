----------------------------- MODULE SpiRemote -----------------------------
(***************************************************************************)
(* SPI over TCP (src/spidevice/qspiremote.cpp, the remote branches of      *)
(* qspidevice.cpp, src/remotecommon/remote-common.cpp): the QSPIDevice of  *)
(* each client sends every call to a server, which performs it on a        *)
(* QSPIDevice of its own.  A client is a thread that blocks in its call;   *)
(* the server is one event loop that blocks inside a frame.                *)
(*                                                                         *)
(* TCP delivers bytes: a frame of n bytes is n copies of its contents, and *)
(* a reader gets as many of them at a time as have arrived.                *)
(***************************************************************************)
EXTENDS Naturals, Sequences, FiniteSetsExt, SpiCalls

CONSTANTS
    Client,          \* processes, each with one QSPIDevice
    Capable,         \* those whose controller can send LSB first
    Calls,           \* the calls each of them makes
    Writable,        \* those whose temporary file can always be opened
    Mortal,          \* bound: those that may be lost
    Header,          \* bytes of the length that leads a frame: 4 in the code
    MaxOpens         \* how often each client opens its device

ASSUME ClientAssumption ==
    /\ Capable \subseteq Client /\ Writable \subseteq Client /\ Mortal \subseteq Client
    /\ Calls \in [Client -> SUBSET Call]
ASSUME SizeAssumption ==
    Header \in Nat \ {0} /\ MaxOpens \in [Client -> Nat \ {0}]

VARIABLES
    pc,         \* where a client is, see TypeOK
    request,    \* the call it makes, or NoCall
    answer,     \* what the call returns, or NoResult
    file,       \* its QFile, the dummy temporary file, is open
    conn,       \* number of its connections: 0 = remoteClient is null
    received,   \* the part of the answer it has read
    link,       \* of a connection: "none", "up", "hung" up by the client,
                \* "down" on both sides
    toServer,   \* bytes under way on a connection
    toClient,
    accepted,   \* connections that were in the server's clientHash
    device,     \* the server's QSPIDevice of a connection
    outbox,     \* answers written, not sent before the event loop runs
    serving,    \* the connection whose onReceive runs, or NoConnection
    frame,      \* the part of the request onReceive has read
    controller  \* the controller of a client sends LSB first

clientVars == <<pc, request, answer, file, conn, received>>
netVars    == <<link, toServer, toClient>>
serverVars == <<accepted, device, outbox, serving, frame, controller>>
vars       == <<clientVars, netVars, serverVars>>

Connection   == UNION {{c} \X (1..MaxOpens[c]) : c \in Client}
NoConnection == <<>>
Current(c)   == <<c, conn[c]>>
None(S)      == [x \in S |-> <<>>]

Byte == [body : Call \cup Result, len : 1..(Header + 1)]
(* FAULT: the length in the frame is not corrected.                         *)
BytesUncorrected(n, body) == [i \in 1..n |-> [body |-> body, len |-> 0]]
Bytes(n, body) == [i \in 1..n |-> [body |-> body, len |-> n]]
(* A request is a length, a command and its parameters, if it has some; an  *)
(* answer is a length and, but for close, its contents.                     *)
RequestFrame(r) == Bytes(Header + 1, r)
(* FAULT: close, too, is answered by sendOK, after its own answer.          *)
AnswerFrameTwice(a) ==
    IF a.order = "void" THEN Bytes(Header, a) \o Bytes(Header + 1, Done)
                        ELSE Bytes(Header + 1, a)
AnswerFrame(a)  == Bytes(IF a.order = "void" THEN Header ELSE Header + 1, a)

TypeOK ==
    /\ pc \in [Client -> {"idle", "here", "connecting", "waiting", "answered", "gone"}]
    /\ request \in [Client -> Call \cup {NoCall}]
    /\ answer \in [Client -> Result]
    /\ file \in [Client -> BOOLEAN] /\ conn \in [Client -> Nat]
    /\ received \in [Client -> Seq(Byte)]
    /\ link \in [Connection -> {"none", "up", "hung", "down"}]
    /\ toServer \in [Connection -> Seq(Byte)] /\ toClient \in [Connection -> Seq(Byte)]
    /\ accepted \subseteq Connection /\ device \in [Connection -> Device]
    /\ outbox \in [Connection -> Seq(Byte)]
    /\ serving \in Connection \cup {NoConnection} /\ frame \in Seq(Byte)
    /\ controller \in [Client -> BOOLEAN]

Init ==
    /\ pc = [c \in Client |-> "idle"]
    /\ request = [c \in Client |-> NoCall] /\ answer = [c \in Client |-> NoResult]
    /\ file = [c \in Client |-> FALSE] /\ conn = [c \in Client |-> 0]
    /\ received = None(Client)
    /\ link = [k \in Connection |-> "none"]
    /\ toServer = None(Connection) /\ toClient = None(Connection)
    /\ accepted = {} /\ device = [k \in Connection |-> Closed]
    /\ outbox = None(Connection)
    /\ serving = NoConnection /\ frame = <<>>
    /\ controller = [c \in Client |-> FALSE]
-----------------------------------------------------------------------------
(* readTCPFrameBlocked.  Until the length is known it asks for the length's *)
(* own size, also when it has a part of it already; from then on for the    *)
(* length itself, whatever is missing of it.                                *)
Count(data)    == IF Len(data) < Header THEN Header ELSE data[1].len
Complete(data) == Len(data) >= Count(data)
Whole(data)    == Len(data) = Count(data)

(* What one turn of the loop takes when n bytes of the stream have come:    *)
(* having learnt the length, it reads again at once.                        *)
Taken(data, stream, n) ==
    LET first == Min({Count(data), n})
        known == data \o SubSeq(stream, 1, first)
        more  == Min({Count(known), n - first})
    IN  IF Len(data) < Header /\ Len(known) >= Header THEN first + more ELSE first

(* A turn of the loop on a stream moves bytes to data; none have to come    *)
(* but one.                                                                 *)
Turns(data, stream) ==
    {[data |-> data \o SubSeq(stream, 1, t), stream |-> SubSeq(stream, t + 1, Len(stream))] :
        t \in {Taken(data, stream, n) : n \in 1..Len(stream)}}
-----------------------------------------------------------------------------
(* The client, by the branches of QSPIDevice.  A client opens its device    *)
(* when isOpen() says it is closed.                                         *)
Calling(c, r) ==
    /\ pc[c] = "idle" /\ r \in Calls[c]
    /\ request' = [request EXCEPT ![c] = r]
    /\ UNCHANGED <<answer, file, received, toClient, serverVars>>

(* The links once the sockets of the connections K are deleted.             *)
HungUp(K) == [k \in Connection |-> IF k \in K /\ link[k] = "up" THEN "hung" ELSE link[k]]

(* open: the old remoteClient is deleted, which hangs up.                   *)
CallOpen(c, r) ==
    /\ Calling(c, r) /\ r.op = "open"
    /\ ~file[c] /\ conn[c] < MaxOpens[c]
    /\ pc' = [pc EXCEPT ![c] = "connecting"]
    /\ conn' = [conn EXCEPT ![c] = @ + 1]
    /\ link' = HungUp({Current(c)})
    /\ UNCHANGED toServer

(* Calls that do not get to the server: a device never opened has no remote *)
(* client, and QIODevice itself refuses to read or write a closed one.      *)
CallHere(c, r) ==
    /\ Calling(c, r) /\ r.op # "open"
    /\ conn[c] = 0 \/ (r.op \in {"read", "write"} /\ ~file[c])
    /\ pc' = [pc EXCEPT ![c] = "here"]
    /\ UNCHANGED <<conn, link, toServer>>

AnswerHere(c) ==
    /\ pc[c] = "here"
    /\ pc' = [pc EXCEPT ![c] = "answered"]
    /\ answer' = [answer EXCEPT ![c] = IF request[c].op = "close" THEN Void ELSE Failed]
    /\ UNCHANGED <<request, file, conn, received, netVars, serverVars>>

(* Every other call is sent, all of them alike: a length, a command and its *)
(* parameters.  A socket that is not connected takes nothing.               *)
CallServer(c, r) ==
    /\ Calling(c, r) /\ r.op # "open"
    /\ conn[c] # 0 /\ (r.op \in {"read", "write"} => file[c])
    /\ pc' = [pc EXCEPT ![c] = "waiting"]
    /\ toServer' = IF link[Current(c)] = "up"
                   THEN [toServer EXCEPT ![Current(c)] = @ \o RequestFrame(r)]
                   ELSE toServer
    /\ UNCHANGED <<conn, link>>

(* QSPIDeviceRemoteClient::open connects, in two seconds or never, and      *)
(* sends the request if it could.                                           *)
Connect(c) ==
    /\ pc[c] = "connecting"
    /\ pc' = [pc EXCEPT ![c] = "waiting"]
    /\ link' = [link EXCEPT ![Current(c)] = "up"]
    /\ toServer' = [toServer EXCEPT ![Current(c)] = RequestFrame(request[c])]
    /\ UNCHANGED <<request, answer, file, conn, received, toClient, serverVars>>

ConnectFails(c) ==
    /\ pc[c] = "connecting"
    /\ pc' = [pc EXCEPT ![c] = "answered"]
    /\ answer' = [answer EXCEPT ![c] = Failed]
    /\ UNCHANGED <<request, file, conn, received, netVars, serverVars>>

(* The client blocks until a frame has come.                                *)
KeepReading(c, t) ==
    /\ ~Complete(t.data)
    /\ received' = [received EXCEPT ![c] = t.data]
    /\ UNCHANGED <<pc, answer, file>>

(* What the remote client makes of a frame: what a whole one says; without  *)
(* one, 0 bytes or false.                                                   *)
Got(r, data) ==
    CASE r.op = "close"                               -> Void
      [] r.op # "close" /\ Whole(data)                -> data[1].body
      [] r.op \in {"read", "write"} /\ ~Whole(data)   -> Empty
      [] OTHER                                        -> Failed

(* FAULT: close leaves the temporary file open.                             *)
FileAfterUnclosed(c, r, got) ==
    IF r.op # "open" THEN {file[c]}
    ELSE IF c \in Writable THEN {got.ok} ELSE {FALSE, got.ok}
(* The temporary file is opened after the server's device, if it can be,    *)
(* and closed after it.                                                     *)
FileAfter(c, r, got) ==
    CASE r.op = "open"  -> IF c \in Writable THEN {got.ok} ELSE {FALSE, got.ok}
      [] r.op = "close" -> {FALSE}
      [] OTHER          -> {file[c]}

(* FAULT: open does not ask whether the temporary file could be opened.     *)
ReceiveUnasked(c, t) ==
    LET got == Got(request[c], t.data)
    IN  /\ Complete(t.data)
        /\ pc' = [pc EXCEPT ![c] = "answered"]
        /\ received' = [received EXCEPT ![c] = <<>>]
        /\ answer' = [answer EXCEPT ![c] = got]
        /\ \E open \in FileAfter(c, request[c], got) : file' = [file EXCEPT ![c] = open]
(* The call returns; open does so with both of its conditions.              *)
Receive(c, t) ==
    LET got == Got(request[c], t.data)
    IN  /\ Complete(t.data)
        /\ pc' = [pc EXCEPT ![c] = "answered"]
        /\ received' = [received EXCEPT ![c] = <<>>]
        /\ \E open \in FileAfter(c, request[c], got) :
              /\ file' = [file EXCEPT ![c] = open]
              /\ answer' = [answer EXCEPT ![c] =
                    IF request[c].op = "open" /\ ~open THEN Failed ELSE got]

ReceiveAnswer(c) ==
    /\ pc[c] = "waiting"
    /\ \E t \in Turns(received[c], toClient[Current(c)]) :
          /\ toClient' = [toClient EXCEPT ![Current(c)] = t.stream]
          /\ KeepReading(c, t) \/ Receive(c, t)
    /\ UNCHANGED <<request, conn, link, toServer, serverVars>>

Return(c) ==
    /\ pc[c] = "answered"
    /\ pc' = [pc EXCEPT ![c] = "idle"]
    /\ request' = [request EXCEPT ![c] = NoCall]
    /\ answer' = [answer EXCEPT ![c] = NoResult]
    /\ UNCHANGED <<file, conn, received, netVars, serverVars>>

(* The client's process is lost, perhaps in a call, with any part of a      *)
(* request on its way, and TCP lets the server know.                        *)
Quit(c) ==
    LET mine == {k \in {Current(c)} : conn[c] # 0}
    IN  /\ c \in Mortal /\ pc[c] # "gone"
        /\ pc' = [pc EXCEPT ![c] = "gone"]
        /\ request' = [request EXCEPT ![c] = NoCall]
        /\ answer' = [answer EXCEPT ![c] = NoResult]
        /\ file' = [file EXCEPT ![c] = FALSE]
        /\ received' = [received EXCEPT ![c] = <<>>]
        /\ link' = HungUp(mine)
        /\ toClient' = [k \in Connection |-> IF k \in mine THEN <<>> ELSE toClient[k]]
        /\ \E n \in {0} \cup UNION {1..Len(toServer[k]) : k \in mine} :
              toServer' = [k \in Connection |->
                  IF k \in mine THEN SubSeq(toServer[k], 1, n) ELSE toServer[k]]
        /\ UNCHANGED <<conn, serverVars>>
-----------------------------------------------------------------------------
(* The server.  Its event loop runs while no onReceive is blocked.          *)
EventLoop == serving = NoConnection

(* onClientNew                                                              *)
Accept(k) ==
    /\ EventLoop
    /\ link[k] \in {"up", "hung"} /\ k \notin accepted
    /\ accepted' = accepted \cup {k}
    /\ UNCHANGED <<clientVars, netVars, device, outbox, serving, frame, controller>>

(* FAULT: the socket is deleted, and the client's object is not.            *)
DisconnectUndeleted(k) ==
    /\ EventLoop \/ serving = k
    /\ link[k] = "hung" /\ k \in accepted /\ toServer[k] = <<>>
    /\ link' = [link EXCEPT ![k] = "down"]
    /\ outbox' = [outbox EXCEPT ![k] = <<>>]
    /\ UNCHANGED <<clientVars, toServer, toClient, accepted, device, serving, frame,
                   controller>>
(* onClientDisconnect: once all bytes are read, in the event loop or in a   *)
(* read that waits.  The server's QSPIDevice of the connection is deleted.  *)
Disconnect(k) ==
    /\ EventLoop \/ serving = k
    /\ link[k] = "hung" /\ k \in accepted /\ toServer[k] = <<>>
    /\ link' = [link EXCEPT ![k] = "down"]
    /\ device' = [device EXCEPT ![k] = Closed]
    /\ outbox' = [outbox EXCEPT ![k] = <<>>]
    /\ UNCHANGED <<clientVars, toServer, toClient, accepted, serving, frame, controller>>

(* onReceive, called by readyRead, blocks in readTCPFrameBlocked ...        *)
BlockInFrame(k, data) ==
    /\ ~Complete(data)
    /\ serving' = k /\ frame' = data
    /\ UNCHANGED <<device, controller, outbox>>

(* ... and calls the handler of a request that is whole: it calls the       *)
(* device, with an outcome o, and writes the answer.                        *)
Handles(k, o) ==
    /\ device' = [device EXCEPT ![k] = o.dev]
    /\ controller' = [controller EXCEPT ![k[1]] = o.lsb]
    /\ outbox' = [outbox EXCEPT ![k] = @ \o AnswerFrame(o.result)]

HandleOpen(k, r) == r.op = "open" /\
    \E o \in Open(device[k], controller[k[1]]) : Handles(k, o)
(* FAULT: close is not answered.                                            *)
HandleCloseSilent(k, r) ==
    /\ r.op = "close"
    /\ device' = [device EXCEPT ![k] = Closed]
    /\ UNCHANGED <<controller, outbox>>
HandleClose(k, r) == r.op = "close" /\
    \E o \in Close(device[k], controller[k[1]]) : Handles(k, o)
HandleSetMode(k, r) == r.op = "setMode" /\
    \E o \in SetMode(device[k], controller[k[1]], r.arg) : Handles(k, o)
HandleSetLSBFirst(k, r) == r.op = "setLSBFirst" /\
    \E o \in SetLSBFirst(device[k], controller[k[1]], r.arg, k[1] \in Capable) : Handles(k, o)
HandleSetBitsPerWord(k, r) == r.op = "setBitsPerWord" /\
    \E o \in SetBitsPerWord(device[k], controller[k[1]]) : Handles(k, o)
HandleSetBitSpeed(k, r) == r.op = "setBitSpeed" /\
    \E o \in SetBitSpeed(device[k], controller[k[1]]) : Handles(k, o)
HandleSendReceive(k, r) == r.op = "sendReceive" /\
    \E o \in SendReceive(device[k], controller[k[1]], r.arg) : Handles(k, o)
(* QIODevice::read gives the server the bytes without a status: the answer  *)
(* to a read that failed is an array of none.                               *)
BytesOf(o) == IF o.result.ok THEN o ELSE Outcome(o.dev, o.lsb, Empty)
HandleReadData(k, r) == r.op = "read" /\
    \E o \in ReadData(device[k], controller[k[1]]) : Handles(k, BytesOf(o))
HandleWriteData(k, r) == r.op = "write" /\
    \E o \in WriteData(device[k], controller[k[1]]) : Handles(k, o)

Dispatch(k, r) ==
    \/ HandleOpen(k, r) \/ HandleClose(k, r)
    \/ HandleSetMode(k, r) \/ HandleSetLSBFirst(k, r)
    \/ HandleSetBitsPerWord(k, r) \/ HandleSetBitSpeed(k, r)
    \/ HandleSendReceive(k, r) \/ HandleReadData(k, r) \/ HandleWriteData(k, r)

(* A frame that is not whole is dropped, without an answer.                 *)
HandleFrame(k, data) ==
    /\ Complete(data)
    /\ serving' = NoConnection /\ frame' = <<>>
    /\ IF Whole(data) THEN Dispatch(k, data[1].body)
                      ELSE UNCHANGED <<device, controller, outbox>>

OnReceive(k) ==
    /\ k \in accepted
    /\ EventLoop \/ serving = k
    /\ \E t \in Turns(frame, toServer[k]) :
          /\ toServer' = [toServer EXCEPT ![k] = t.stream]
          /\ BlockInFrame(k, t.data) \/ HandleFrame(k, t.data)
    /\ UNCHANGED <<clientVars, link, toClient, accepted>>

(* The event loop sends what was written.                                   *)
SendAnswer(k) ==
    /\ EventLoop /\ outbox[k] # <<>>
    /\ outbox' = [outbox EXCEPT ![k] = <<>>]
    /\ toClient' = IF link[k] = "up" THEN [toClient EXCEPT ![k] = @ \o outbox[k]]
                                     ELSE toClient
    /\ UNCHANGED <<clientVars, link, toServer, accepted, device, serving, frame, controller>>
-----------------------------------------------------------------------------
ClientRuns(c) ==
    AnswerHere(c) \/ Connect(c) \/ ConnectFails(c)
        \/ ReceiveAnswer(c) \/ Return(c)
ClientCalls(c) ==
    \E r \in Calls[c] : CallOpen(c, r) \/ CallHere(c, r) \/ CallServer(c, r)
ServerRuns(k) ==
    Accept(k) \/ Disconnect(k) \/ OnReceive(k) \/ SendAnswer(k)

Next ==
    \/ \E c \in Client : ClientCalls(c) \/ ClientRuns(c) \/ Quit(c)
    \/ \E k \in Connection : ServerRuns(k)

(* Threads run, and the server's event loop serves all its sockets in turn. *)
Fairness ==
    /\ \A c \in Client : WF_vars(ClientRuns(c))
    /\ \A k \in Connection : SF_vars(ServerRuns(k))

Spec == Init /\ [][Next]_vars /\ Fairness
-----------------------------------------------------------------------------
(* What its own machine's SPI is to a local client is to a remote one the   *)
(* server's device of its present connection, and the result of its call is *)
(* the answer under way.                                                    *)
Answered(c) == received[c] \o toClient[Current(c)] \o outbox[Current(c)]
DeviceOf(c) == IF pc[c] # "gone" /\ conn[c] # 0 THEN device[Current(c)] ELSE Closed
Told(c) == IF pc[c] = "waiting" /\ Answered(c) # <<>> THEN Answered(c)[1].body ELSE answer[c]

Access(c) == INSTANCE SpiAccess WITH
    LsbCapable <- c \in Capable, FileOpens <- c \in Writable,
    dev <- DeviceOf(c), lsb <- pc[c] # "gone" /\ controller[c], file <- file[c],
    call <- request[c], result <- Told(c), alive <- pc[c] # "gone"

(* "All SPI accesses are fully transparent", but for what SpiAccess adds:   *)
(* what each client does and is told is what it could do and be told with   *)
(* the SPI on its own machine, but that a read which fails on the device    *)
(* returns no bytes, and open fails with the device open when the temporary *)
(* file cannot be opened.                                                   *)
NearlyTransparent ==
    /\ \A c \in Client : Access(c)!AccessInit
    /\ [][\A c \in Client : [Access(c)!AccessNext]_(Access(c)!accessVars)]_vars

(* readTCPFrameBlocked never takes bytes of a second frame, which it would  *)
(* throw away together with the first.                                      *)
OneFrameAtATime ==
    /\ \A k \in Connection : serving \in {k, NoConnection} =>
          \A t \in Turns(frame, toServer[k]) : Complete(t.data) => Whole(t.data)
    /\ \A c \in Client : pc[c] = "waiting" =>
          \A t \in Turns(received[c], toClient[Current(c)]) :
              Complete(t.data) => Whole(t.data)

(* Between its calls a client whose file is open has an open device, and no *)
(* earlier connection keeps one that is not about to be closed.  If its     *)
(* temporary file can always be opened, the file and the device are open or *)
(* closed together, and there is no earlier device at all.                  *)
DeviceFollowsFile ==
    \A c \in Client : pc[c] = "idle" =>
        /\ file[c] => conn[c] # 0 /\ device[Current(c)].open
        /\ \A n \in 1..MaxOpens[c] : device[<<c, n>>].open /\ ~(file[c] /\ n = conn[c]) =>
              c \notin Writable /\ (n = conn[c] \/ link[<<c, n>>] = "hung")

(* The server turns for ever in a frame whose client was lost.              *)
Stuck == serving # NoConnection /\ link[serving] = "down"

(* A client waits on a connection for an answer to come.                    *)
Waits(c) == pc[c] = "waiting" /\ link[Current(c)] = "up"

(* A call made on a connection returns: no client waits for ever, whatever  *)
(* the other clients do short of being lost inside a frame.                 *)
CallsReturn == \A c \in Client : []<>(Waits(c) => Stuck)

(* A call made on a connection returns, as it does on a local device.       *)
CallsAlwaysReturn == \A c \in Client : []<>~Waits(c)

(* The server closes the devices of the clients that have gone, whatever    *)
(* they were doing: none of them stays open for ever.                       *)
DevicesReleased ==
    []<>(Stuck \/ \A c \in Client : pc[c] = "gone" =>
                      \A n \in 1..MaxOpens[c] : ~device[<<c, n>>].open)
=============================================================================
