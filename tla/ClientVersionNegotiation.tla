---------------------- MODULE ClientVersionNegotiation ----------------------
(***************************************************************************)
(* rss::net::negotiateClientVersion (libs/client-net-linux/src/              *)
(* ClientVersionNegotiation.cpp), the blocking negotiation of the Linux      *)
(* clients, against the server's negotiateVersion (libs/protocol/src/        *)
(* ProtocolVersion.cpp), for every pair of version ranges the two builds may *)
(* have.  Bytes are counted: the client has taken the first got bytes of the *)
(* frames sent, arrived more of them are in its socket.  The peer of a       *)
(* connection that is not honest answers any frame.                          *)
(***************************************************************************)
EXTENDS Naturals, Sequences, FiniteSetsExt, Functions

CONSTANTS MaxVersion,        \* bound: versions are 1..MaxVersion
          RequestSize,       \* bytes of the VersionReq
          kPacketHeaderSize, kMaxPacketSize,
          SendBuffer         \* bytes the socket takes before EAGAIN

ASSUME NegotiationAssumption ==
    /\ {MaxVersion, RequestSize, SendBuffer, kPacketHeaderSize, kMaxPacketSize} \subseteq Nat \ {0}
    /\ kMaxPacketSize > kPacketHeaderSize

VARIABLES
    client, server,  \* the version ranges of the two builds
    honest,          \* the peer is this repository's server
    sent, up,        \* bytes of the request sent, and still in the socket
    frames,          \* what the peer has answered
    arrived, got,    \* bytes of it in the client's socket, and taken by it
    closed,          \* the peer has closed
    late,            \* the deadline has passed
    pc,              \* what negotiateClientVersion is doing
    polling,         \* it is in poll
    outcome          \* the version, or 0 with the exception in pc

ranges == <<client, server, honest>>
peerVars == <<frames, closed>>
vars == <<ranges, sent, up, peerVars, arrived, got, late, pc, polling, outcome>>

Versions == 1..MaxVersion
Ranges == {r \in [min : Versions, max : Versions] : r.min <= r.max}
Frame(type, version, size) == [type |-> type, version |-> version, size |-> size]

Init ==
    /\ client \in Ranges /\ server \in Ranges /\ honest \in BOOLEAN
    /\ sent = 0 /\ up = 0 /\ frames = <<>> /\ arrived = 0 /\ got = 0
    /\ closed = FALSE /\ late = FALSE
    /\ pc = "send" /\ polling = FALSE /\ outcome = 0

\* Bytes on the wire; a malformed frame still has its header.
Streamed == SumFunction([i \in DOMAIN frames |-> Max({frames[i].size, kPacketHeaderSize})])

\* The client sees the end of the stream after the last byte.
AtEnd == closed /\ got + arrived = Streamed

Throw(exception) ==
    /\ pc' = exception /\ polling' = FALSE
    /\ UNCHANGED <<ranges, sent, up, peerVars, arrived, got, late, outcome>>

-----------------------------------------------------------------------------
\* The client.  Every pass of a loop first looks at the deadline.
Working == pc \in {"send", "header", "body", "decode"}

\* The type, decodeVersionResponse and the range of the version.
Acceptable(f) == f.type = "VersionRes" /\ f.version \in client.min..client.max

InTime(at) == pc = at /\ ~late /\ ~polling

EnsureBeforeDeadlineMutant ==
    /\ Working /\ late /\ ~polling
    /\ Throw("Timeout")

\* ensureBeforeDeadline and waitForSocket; a bad answer is refused before it.
EnsureBeforeDeadline ==
    /\ Working /\ late
    /\ pc = "decode" => Acceptable(frames[1])
    /\ Throw("Timeout")

\* sendRequest.
SendRequest ==
    /\ InTime("send") /\ ~closed /\ up < SendBuffer
    /\ \E n \in 1..(RequestSize - sent) :
         /\ up + n <= SendBuffer
         /\ sent' = sent + n /\ up' = up + n
         /\ pc' = IF sent + n = RequestSize THEN "header" ELSE "send"
    /\ UNCHANGED <<ranges, peerVars, arrived, got, late, polling, outcome>>

NeedsMutant == IF pc = "header" THEN kPacketHeaderSize ELSE kMaxPacketSize

\* How many bytes the reader must have taken to go on.
Needs == IF pc = "header" THEN kPacketHeaderSize ELSE frames[1].size

AfterHeader ==
    IF frames[1].size \notin kPacketHeaderSize..kMaxPacketSize THEN "ProtocolError"
    ELSE IF frames[1].size = kPacketHeaderSize THEN "decode" ELSE "body"

\* receiveExactly, for the header and then for the rest of the frame.
ReceiveExactly ==
    /\ pc \in {"header", "body"} /\ InTime(pc) /\ arrived > 0
    /\ \E n \in 1..arrived :
         /\ got + n <= Needs
         /\ got' = got + n /\ arrived' = arrived - n
         /\ pc' = IF got + n < Needs THEN pc
                  ELSE IF pc = "header" THEN AfterHeader ELSE "decode"
    /\ UNCHANGED <<ranges, sent, up, peerVars, late, polling, outcome>>

WouldBlock ==
    /\ ~AtEnd
    /\ IF pc = "send" THEN up >= SendBuffer ELSE arrived = 0

\* EAGAIN: waitForSocket polls up to the deadline.
WaitForSocket ==
    /\ pc \in {"send", "header", "body"} /\ InTime(pc) /\ WouldBlock
    /\ polling' = TRUE
    /\ UNCHANGED <<ranges, sent, up, peerVars, arrived, got, late, pc, outcome>>

PollReturns ==
    /\ polling /\ ~WouldBlock
    /\ polling' = FALSE
    /\ UNCHANGED <<ranges, sent, up, peerVars, arrived, got, late, pc, outcome>>

\* recv gives 0 at the end of the stream; either call may fail instead.
PeerClosed ==
    /\ pc \in {"send", "header", "body"} /\ InTime(pc) /\ closed
    /\ \/ Throw("SocketError")
       \/ pc # "send" /\ AtEnd /\ arrived = 0 /\ Throw("PeerClosed")

Decode ==
    /\ pc = "decode"
    /\ \/ ~Acceptable(frames[1]) /\ Throw("ProtocolError")
       \/ /\ Acceptable(frames[1]) /\ ~late
          /\ outcome' = frames[1].version /\ pc' = "agreed"
          /\ UNCHANGED <<ranges, sent, up, peerVars, arrived, got, late, polling>>

Client ==
    \/ EnsureBeforeDeadline \/ SendRequest \/ ReceiveExactly
    \/ WaitForSocket \/ PollReturns \/ PeerClosed \/ Decode

-----------------------------------------------------------------------------
NegotiateVersionMutant(r) ==
    LET lower == Max({r.min, server.min})
        upper == Min({r.max, server.max})
    IN  IF lower > upper THEN 0 ELSE lower

\* negotiateVersion, 0 when there is none.
NegotiateVersion(r) ==
    LET lower == Max({r.min, server.min})
        upper == Min({r.max, server.max})
    IN  IF lower > upper THEN 0 ELSE upper

ServerReads ==
    /\ up > 0 /\ ~closed
    /\ up' = 0
    /\ UNCHANGED <<ranges, sent, peerVars, arrived, got, late, pc, polling, outcome>>

\* The answers of an honest server: the version, or an error after which it
\* closes.  Any other peer may answer with any type, version and size.
Answers ==
    IF honest
    THEN IF NegotiateVersion(client) # 0
         THEN {Frame("VersionRes", NegotiateVersion(client), kPacketHeaderSize + 1)}
         ELSE {Frame("Error", 0, kPacketHeaderSize + 1)}
    ELSE [type : {"VersionRes", "Error"}, version : 0..MaxVersion,
          size : {0} \cup kPacketHeaderSize..(kMaxPacketSize + 1)]

ServerAnswers ==
    /\ sent = RequestSize /\ up = 0 /\ frames = <<>> /\ ~closed
    /\ \E f \in Answers : frames' = <<f>> /\ closed' = (honest /\ f.type = "Error")
    /\ UNCHANGED <<ranges, sent, up, arrived, got, late, pc, polling, outcome>>

\* A frame of the application follows the answer.
ServerContinues ==
    /\ Len(frames) = 1 /\ ~closed
    /\ frames' = Append(frames, Frame("ChatNotify", 0, kPacketHeaderSize))
    /\ UNCHANGED <<ranges, closed, sent, up, arrived, got, late, pc, polling, outcome>>

ServerCloses ==
    /\ ~closed
    /\ closed' = TRUE
    /\ UNCHANGED <<ranges, frames, sent, up, arrived, got, late, pc, polling, outcome>>

BytesArrive ==
    /\ \E n \in 1..(Streamed - got - arrived) : arrived' = arrived + n
    /\ UNCHANGED <<ranges, peerVars, sent, up, got, late, pc, polling, outcome>>

DeadlinePasses ==
    /\ ~late
    /\ late' = TRUE
    /\ UNCHANGED <<ranges, peerVars, sent, up, arrived, got, pc, polling, outcome>>

Next ==
    \/ Client \/ ServerReads \/ ServerAnswers \/ ServerContinues \/ ServerCloses
    \/ BytesArrive \/ DeadlinePasses

Spec == Init /\ [][Next]_vars

\* The thread of the client runs and time passes; nothing is assumed of the peer.
FairSpec == Spec /\ WF_vars(Client) /\ WF_vars(DeadlinePasses)

-----------------------------------------------------------------------------
Common == {v \in Versions : /\ client.min <= v /\ v <= client.max
                            /\ server.min <= v /\ v <= server.max}

\* With this repository's server the version returned is the highest one both
\* builds support, and the server is called incompatible only when there is none,
\* however its answer is cut into segments.
AgreedIsHighestCommon ==
    /\ honest /\ outcome # 0 => Common # {} /\ outcome = Max(Common)
    /\ honest /\ pc = "ProtocolError" => Common = {}

\* The negotiation takes its answer from the socket and not one byte more: a
\* frame that arrives with it is left for the caller's next receive.
RestIsLeft ==
    /\ pc = "agreed" => got = frames[1].size
    /\ frames # <<>> => got <= Max({frames[1].size, kPacketHeaderSize})

\* A silent or stalled peer does not hold the caller: the call returns or throws.
ClientReturns == <>(~Working)
=============================================================================
