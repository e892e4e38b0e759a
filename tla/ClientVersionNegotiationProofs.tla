------------------- MODULE ClientVersionNegotiationProofs -------------------
(***************************************************************************)
(* The blocking negotiation agrees on the highest common version, and takes *)
(* no byte behind its answer, for every pair of version ranges, every size  *)
(* of the header, of a packet and of the socket's buffer, and however the   *)
(* bytes of both directions are cut.  Neither property is inductive: what    *)
(* ReceiveExactly may take depends on how far the reader is in the answer   *)
(* (ReaderInv), and what the client accepts on the answer being one that    *)
(* the peer gives (PeerInv).                                                *)
(***************************************************************************)
EXTENDS ClientVersionNegotiation, TLAPS

Packets == [type : {"VersionRes", "Error", "ChatNotify"}, version : Nat, size : Nat]

Malformed(f) == f.size \notin kPacketHeaderSize..kMaxPacketSize

\* The first frame is an answer, and no byte comes before it.
PeerInv ==
    /\ client \in Ranges /\ server \in Ranges /\ honest \in BOOLEAN
    /\ frames \in Seq(Packets) /\ (frames # <<>> => frames[1] \in Answers)
    /\ got \in Nat /\ arrived \in Nat
    /\ frames = <<>> => got = 0 /\ arrived = 0

\* How far the reader is in the answer.
ReaderInv ==
    /\ pc = "send" => got = 0
    /\ pc = "header" => got < kPacketHeaderSize
    /\ pc \in {"body", "decode", "agreed"} => frames # <<>> /\ ~Malformed(frames[1])
    /\ pc = "body" => kPacketHeaderSize <= got /\ got < frames[1].size
    /\ pc \in {"decode", "agreed"} => got = frames[1].size

NegotiationInv == PeerInv /\ ReaderInv /\ AgreedIsHighestCommon /\ RestIsLeft

-----------------------------------------------------------------------------
\* Lemmas about the operators of the model.

\* Max is the greatest element of a set that has one.
LEMMA MaxIs ==
  ASSUME NEW S, S \subseteq Int, NEW m \in S, \A y \in S : m >= y
  PROVE  Max(S) = m
  <1>1. Max(S) \in S /\ \A y \in S : Max(S) >= y
    <2>1. \E x \in S : \A y \in S : x >= y
      OBVIOUS
    <2> QED
      BY <2>1 DEF Max
  <1>2. Max(S) \in Int /\ m \in Int /\ Max(S) >= m /\ m >= Max(S)
    BY <1>1
  <1> QED
    BY <1>2

LEMMA MaxOfTwo ==
  ASSUME NEW a \in Nat, NEW b \in Nat
  PROVE  Max({a, b}) = IF a >= b THEN a ELSE b
  <1>1. CASE a >= b
    BY <1>1, MaxIs, {a, b} \subseteq Int, a \in {a, b}, \A y \in {a, b} : a >= y
  <1>2. CASE ~(a >= b)
    BY <1>2, MaxIs, {a, b} \subseteq Int, b \in {a, b}, \A y \in {a, b} : b >= y
  <1> QED
    BY <1>1, <1>2

LEMMA MinOfTwo ==
  ASSUME NEW a \in Nat, NEW b \in Nat
  PROVE  Min({a, b}) = IF a <= b THEN a ELSE b
  <1>1. Min({a, b}) \in {a, b} /\ \A y \in {a, b} : Min({a, b}) <= y
    <2>1. \E x \in {a, b} : \A y \in {a, b} : x <= y
      OBVIOUS
    <2> QED
      BY <2>1 DEF Min
  <1> QED
    BY <1>1

\* No byte is on the wire before the first frame.
LEMMA NothingStreamed ==
  ASSUME frames = <<>>
  PROVE  Streamed = 0
  <1>1. ASSUME NEW f, DOMAIN f = {} PROVE SumFunction(f) = 0
    <2>1. SUBSET {} = {{}}
      OBVIOUS
    <2> QED
      BY <1>1, <2>1 DEF SumFunction, SumFunctionOnSet, FoldFunctionOnSet, MapThenFoldSet
  <1> QED
    BY <1>1 DEF Streamed

\* negotiateVersion gives the highest version of both ranges, and none exactly
\* when they have none in common.
LEMMA NegotiateVersionIs ==
  ASSUME client \in Ranges, server \in Ranges
  PROVE  /\ NegotiateVersion(client) # 0 =>
              /\ NegotiateVersion(client) \in client.min..client.max
              /\ Common # {} /\ NegotiateVersion(client) = Max(Common)
         /\ NegotiateVersion(client) = 0 => Common = {}
         /\ NegotiateVersion(client) \in 0..MaxVersion
  <1> DEFINE lower == IF client.min >= server.min THEN client.min ELSE server.min
             upper == IF client.max <= server.max THEN client.max ELSE server.max
  <1>0. MaxVersion \in Nat
    BY NegotiationAssumption
  <1>1. /\ client.min \in 1..MaxVersion /\ client.max \in 1..MaxVersion
        /\ server.min \in 1..MaxVersion /\ server.max \in 1..MaxVersion
        /\ client.min <= client.max /\ server.min <= server.max
    BY DEF Ranges, Versions
  <1>2. NegotiateVersion(client) = IF lower > upper THEN 0 ELSE upper
    <2>1. /\ client.min \in Nat /\ client.max \in Nat
          /\ server.min \in Nat /\ server.max \in Nat
      BY <1>0, <1>1
    <2>2. Max({client.min, server.min}) = lower /\ Min({client.max, server.max}) = upper
      BY <2>1, MaxOfTwo, MinOfTwo
    <2> QED
      BY <2>2 DEF NegotiateVersion
  <1>3. lower \in 1..MaxVersion /\ upper \in 1..MaxVersion
    BY <1>0, <1>1
  <1>4. \A v \in Common : v \in Int /\ lower <= v /\ v <= upper
    BY <1>0, <1>1 DEF Common, Versions
  <1>5. CASE lower > upper
    <2>1. Common = {}
      BY <1>3, <1>4, <1>5
    <2> QED
      BY <1>0, <1>2, <1>5, <2>1
  <1>6. CASE ~(lower > upper)
    <2>1. upper \in Common
      BY <1>0, <1>1, <1>6 DEF Common, Versions
    <2>2. Max(Common) = upper
      <3>1. Common \subseteq Int /\ \A y \in Common : upper >= y
        BY <1>3, <1>4
      <3> HIDE DEF upper
      <3> QED
        BY <2>1, <3>1, MaxIs
    <2>3. upper \in client.min..client.max /\ upper # 0
      BY <1>0, <1>1, <1>6
    <2> QED
      BY <1>2, <1>3, <1>6, <2>1, <2>2, <2>3
  <1> QED
    BY <1>5, <1>6

\* An honest server's answer is accepted exactly when there is a common version,
\* which it then names; every answer is a packet.
LEMMA AnswersAre ==
  ASSUME client \in Ranges, server \in Ranges, honest \in BOOLEAN, NEW f \in Answers
  PROVE  /\ f \in Packets
         /\ honest => ~Malformed(f)
         /\ honest /\ Acceptable(f) => Common # {} /\ f.version = Max(Common)
         /\ honest /\ ~Acceptable(f) => Common = {}
  <1>0. kPacketHeaderSize \in Nat /\ kMaxPacketSize \in Nat /\ kMaxPacketSize > kPacketHeaderSize
        /\ MaxVersion \in Nat
    BY NegotiationAssumption
  <1>1. CASE ~honest
    BY <1>0, <1>1 DEF Answers, Packets
  <1>2. CASE honest /\ NegotiateVersion(client) # 0
    <2>1. f = [type |-> "VersionRes", version |-> NegotiateVersion(client),
               size |-> kPacketHeaderSize + 1]
      BY <1>2 DEF Answers, Frame
    <2>2. NegotiateVersion(client) \in Nat
      BY <1>0, NegotiateVersionIs
    <2>3. f \in Packets /\ ~Malformed(f)
      BY <1>0, <2>1, <2>2 DEF Packets, Malformed
    <2>4. Acceptable(f) /\ Common # {} /\ f.version = Max(Common)
      BY <1>2, <2>1, NegotiateVersionIs DEF Acceptable
    <2> QED
      BY <2>3, <2>4
  <1>3. CASE honest /\ NegotiateVersion(client) = 0
    <2>1. f = [type |-> "Error", version |-> 0, size |-> kPacketHeaderSize + 1]
      BY <1>3 DEF Answers, Frame
    <2>2. f \in Packets /\ ~Malformed(f)
      BY <1>0, <2>1 DEF Packets, Malformed
    <2>3. ~Acceptable(f) /\ Common = {}
      BY <1>3, <2>1, NegotiateVersionIs DEF Acceptable
    <2> QED
      BY <2>2, <2>3
  <1> QED
    BY <1>1, <1>2, <1>3

\* The first frame, and the bytes it takes.
LEMMA FirstFrame ==
  ASSUME PeerInv, frames # <<>>
  PROVE  /\ frames[1] \in Answers /\ frames[1].size \in Nat
         /\ Max({frames[1].size, kPacketHeaderSize}) \in Nat
         /\ frames[1].size <= Max({frames[1].size, kPacketHeaderSize})
         /\ kPacketHeaderSize <= Max({frames[1].size, kPacketHeaderSize})
  <1>1. frames[1] \in Answers /\ frames[1].size \in Nat
    BY AnswersAre DEF PeerInv, Packets
  <1>2. kPacketHeaderSize \in Nat
    BY NegotiationAssumption
  <1>3. Max({frames[1].size, kPacketHeaderSize}) =
          IF frames[1].size >= kPacketHeaderSize THEN frames[1].size ELSE kPacketHeaderSize
    BY <1>1, <1>2, MaxOfTwo
  <1> QED
    BY <1>1, <1>2, <1>3

-----------------------------------------------------------------------------
\* The steps.

LEMMA InitInv == Init => NegotiationInv
  <1> SUFFICES ASSUME Init PROVE NegotiationInv
    OBVIOUS
  <1>1. PeerInv
    BY DEF Init, PeerInv
  <1>2. ReaderInv
    BY DEF Init, ReaderInv
  <1>3. AgreedIsHighestCommon /\ RestIsLeft
    BY DEF Init, AgreedIsHighestCommon, RestIsLeft
  <1> QED
    BY <1>1, <1>2, <1>3 DEF NegotiationInv

\* What a step that changes neither the ranges nor the frames keeps.
LEMMA SameFrames ==
  ASSUME PeerInv, UNCHANGED <<ranges, frames>>, got' \in Nat, arrived' \in Nat,
         frames = <<>> => got' = 0 /\ arrived' = 0
  PROVE  PeerInv' /\ Common' = Common
  <1>1. client' = client /\ server' = server /\ honest' = honest /\ frames' = frames
    BY DEF ranges
  <1>2. Answers' = Answers
    BY <1>1 DEF Answers, NegotiateVersion
  <1>3. PeerInv'
    BY <1>1, <1>2 DEF PeerInv
  <1> QED
    BY <1>1, <1>3 DEF Common

\* A step in which the client takes nothing: it goes on, or throws what is not
\* a ProtocolError.
LEMMA TakesNothing ==
  ASSUME NegotiationInv, UNCHANGED <<ranges, frames, got, outcome>>, arrived' \in Nat,
         frames = <<>> => arrived' = 0,
         \/ pc' = pc
         \/ pc' \in {"Timeout", "SocketError", "PeerClosed"}
         \/ pc = "send" /\ pc' = "header"
  PROVE  NegotiationInv'
  <1>1. PeerInv' /\ Common' = Common
    BY SameFrames DEF NegotiationInv, PeerInv
  <1>2. honest' = honest /\ frames' = frames /\ got' = got /\ outcome' = outcome
    BY DEF ranges
  <1>3. ReaderInv'
    BY <1>2, NegotiationAssumption DEF NegotiationInv, ReaderInv, Malformed
  <1>4. AgreedIsHighestCommon'
    BY <1>1, <1>2 DEF NegotiationInv, AgreedIsHighestCommon
  <1>5. RestIsLeft'
    BY <1>2 DEF NegotiationInv, RestIsLeft
  <1> QED
    BY <1>1, <1>3, <1>4, <1>5 DEF NegotiationInv

LEMMA EnsureBeforeDeadlineKeeps ==
  ASSUME NegotiationInv, EnsureBeforeDeadline
  PROVE  NegotiationInv'
  BY TakesNothing DEF EnsureBeforeDeadline, Throw, NegotiationInv, PeerInv, peerVars

LEMMA SendRequestKeeps ==
  ASSUME NegotiationInv, SendRequest
  PROVE  NegotiationInv'
  BY TakesNothing DEF SendRequest, InTime, NegotiationInv, PeerInv, peerVars

LEMMA PollKeeps ==
  ASSUME NegotiationInv, WaitForSocket \/ PollReturns
  PROVE  NegotiationInv'
  BY TakesNothing DEF WaitForSocket, PollReturns, NegotiationInv, PeerInv, peerVars

LEMMA PeerClosedKeeps ==
  ASSUME NegotiationInv, PeerClosed
  PROVE  NegotiationInv'
  BY TakesNothing DEF PeerClosed, Throw, NegotiationInv, PeerInv, peerVars

\* What has arrived belongs to a frame, since nothing is streamed before one.
LEMMA BytesArriveKeeps ==
  ASSUME NegotiationInv, BytesArrive
  PROVE  NegotiationInv'
  <1>1. PICK n \in 1..(Streamed - got - arrived) : arrived' = arrived + n
    BY DEF BytesArrive
  <1>2. got \in Nat /\ arrived \in Nat /\ (frames = <<>> => got = 0 /\ arrived = 0)
    BY DEF NegotiationInv, PeerInv
  <1>3. frames # <<>>
    BY <1>1, <1>2, NothingStreamed
  <1>4. arrived' \in Nat
    BY <1>1, <1>2
  <1> QED
    BY <1>3, <1>4, TakesNothing DEF BytesArrive, peerVars

\* The reader never takes more than it needs, and what it needs is the header
\* and then the frame that the header announces.
LEMMA ReceiveExactlyKeeps ==
  ASSUME NegotiationInv, ReceiveExactly
  PROVE  NegotiationInv'
  <1>1. PICK n \in 1..arrived :
          /\ got + n <= Needs
          /\ got' = got + n /\ arrived' = arrived - n
          /\ pc' = IF got + n < Needs THEN pc
                   ELSE IF pc = "header" THEN AfterHeader ELSE "decode"
    BY DEF ReceiveExactly
  <1>2. /\ pc \in {"header", "body"} /\ arrived > 0 /\ outcome' = outcome
        /\ UNCHANGED <<ranges, frames>>
    BY DEF ReceiveExactly, peerVars
  <1>3. PeerInv /\ ReaderInv /\ got \in Nat /\ arrived \in Nat
    BY DEF NegotiationInv, PeerInv
  <1>4. frames # <<>>
    BY <1>2, <1>3 DEF PeerInv
  <1>5. got' \in Nat /\ arrived' \in Nat
    BY <1>1, <1>3
  <1>6. PeerInv' /\ Common' = Common /\ frames' = frames /\ honest' = honest
    BY <1>2, <1>3, <1>4, <1>5, SameFrames DEF ranges
  <1>7. kPacketHeaderSize \in Nat \ {0} /\ kMaxPacketSize \in Nat
    BY NegotiationAssumption
  <1>8. /\ frames[1] \in Answers /\ frames[1].size \in Nat
        /\ Max({frames[1].size, kPacketHeaderSize}) \in Nat
        /\ frames[1].size <= Max({frames[1].size, kPacketHeaderSize})
        /\ kPacketHeaderSize <= Max({frames[1].size, kPacketHeaderSize})
    BY <1>3, <1>4, FirstFrame
  <1>9. CASE pc = "header"
    <2>1. /\ got' <= kPacketHeaderSize
          /\ \/ got' < kPacketHeaderSize /\ pc' = "header"
             \/ got' = kPacketHeaderSize /\ pc' = AfterHeader
      BY <1>1, <1>3, <1>7, <1>9 DEF Needs
    <2>2. AfterHeader \in {"ProtocolError", "decode", "body"}
          /\ (AfterHeader = "ProtocolError" => Malformed(frames[1]))
          /\ (AfterHeader = "decode" => frames[1].size = kPacketHeaderSize)
          /\ (AfterHeader = "body" => frames[1].size # kPacketHeaderSize)
          /\ (AfterHeader # "ProtocolError" => ~Malformed(frames[1]))
      BY DEF AfterHeader, Malformed
    <2>3. ReaderInv'
      <3>1. CASE pc' = "header"
        BY <2>1, <2>2, <3>1 DEF ReaderInv
      <3>2. CASE pc' = "ProtocolError"
        BY <3>2 DEF ReaderInv
      <3>3. CASE pc' = "decode"
        BY <1>4, <1>6, <2>1, <2>2, <3>3 DEF ReaderInv, Malformed
      <3>4. CASE pc' = "body"
        <4>1. ~Malformed(frames[1]) /\ got' = kPacketHeaderSize /\ frames[1].size # got'
          BY <2>1, <2>2, <3>4
        <4>2. got' < frames[1].size
          BY <1>7, <1>8, <4>1 DEF Malformed
        <4> QED
          BY <1>4, <1>6, <1>7, <3>4, <4>1, <4>2 DEF ReaderInv, Malformed
      <3> QED
        BY <2>1, <2>2, <3>1, <3>2, <3>3, <3>4
    <2>4. AgreedIsHighestCommon'
      <3>1. honest => ~Malformed(frames[1])
        BY <1>3, <1>8, AnswersAre DEF PeerInv
      <3>2. honest => pc' # "ProtocolError"
        BY <2>1, <2>2, <3>1
      <3> QED
        BY <1>2, <1>6, <3>2 DEF NegotiationInv, AgreedIsHighestCommon
    <2>5. RestIsLeft'
      <3>1. pc' # "agreed"
        BY <2>1, <2>2
      <3> QED
        BY <1>5, <1>6, <1>7, <1>8, <2>1, <3>1 DEF RestIsLeft
    <2> QED
      BY <1>6, <2>3, <2>4, <2>5 DEF NegotiationInv
  <1>10. CASE pc = "body"
    <2>1. /\ kPacketHeaderSize <= got /\ got < frames[1].size /\ ~Malformed(frames[1])
      BY <1>3, <1>10 DEF ReaderInv
    <2>2. /\ got' <= frames[1].size /\ kPacketHeaderSize <= got'
          /\ \/ got' < frames[1].size /\ pc' = "body"
             \/ got' = frames[1].size /\ pc' = "decode"
      BY <1>1, <1>3, <1>7, <1>8, <1>10, <2>1 DEF Needs
    <2>3. ReaderInv'
      BY <1>4, <1>6, <2>1, <2>2 DEF ReaderInv, Malformed
    <2>4. AgreedIsHighestCommon'
      BY <1>2, <1>6, <2>2 DEF NegotiationInv, AgreedIsHighestCommon
    <2>5. RestIsLeft'
      BY <1>5, <1>6, <1>8, <2>2 DEF RestIsLeft
    <2> QED
      BY <1>6, <2>3, <2>4, <2>5 DEF NegotiationInv
  <1> QED
    BY <1>2, <1>9, <1>10

\* The client accepts the answer or refuses it.
LEMMA DecodeKeeps ==
  ASSUME NegotiationInv, Decode
  PROVE  NegotiationInv'
  <1>1. /\ pc = "decode" /\ UNCHANGED <<ranges, frames, arrived, got>>
        /\ \/ ~Acceptable(frames[1]) /\ pc' = "ProtocolError" /\ outcome' = outcome
           \/ Acceptable(frames[1]) /\ pc' = "agreed" /\ outcome' = frames[1].version
    BY DEF Decode, Throw, peerVars
  <1>2. PeerInv /\ ReaderInv /\ frames # <<>> /\ got \in Nat /\ arrived \in Nat
    BY <1>1 DEF NegotiationInv, PeerInv, ReaderInv
  <1>3. PeerInv' /\ Common' = Common /\ frames' = frames /\ honest' = honest
    BY <1>1, <1>2, SameFrames DEF ranges
  <1>4. /\ honest /\ Acceptable(frames[1]) => Common # {} /\ frames[1].version = Max(Common)
        /\ honest /\ ~Acceptable(frames[1]) => Common = {}
    BY <1>2, FirstFrame, AnswersAre DEF PeerInv
  <1>5. ReaderInv'
    BY <1>1, <1>2, <1>3 DEF ReaderInv, Malformed
  <1>6. AgreedIsHighestCommon'
    <2>1. CASE Acceptable(frames[1])
      BY <1>1, <1>3, <1>4, <2>1 DEF AgreedIsHighestCommon
    <2>2. CASE ~Acceptable(frames[1])
      BY <1>1, <1>3, <1>4, <2>2 DEF NegotiationInv, AgreedIsHighestCommon
    <2> QED
      BY <2>1, <2>2
  <1>7. RestIsLeft'
    BY <1>1, <1>2, <1>3 DEF NegotiationInv, RestIsLeft, ReaderInv
  <1> QED
    BY <1>3, <1>5, <1>6, <1>7 DEF NegotiationInv

\* The peer's steps add frames behind those there are.
LEMMA ServerKeeps ==
  ASSUME NegotiationInv, ServerAnswers \/ ServerContinues
  PROVE  NegotiationInv'
  <1>1. /\ UNCHANGED <<ranges, arrived, got, pc, outcome>>
        /\ client' = client /\ server' = server /\ honest' = honest
    BY DEF ServerAnswers, ServerContinues, ranges
  <1>2. Answers' = Answers /\ Common' = Common
    BY <1>1 DEF Answers, NegotiateVersion, Common
  <1>3. PeerInv /\ ReaderInv
    BY DEF NegotiationInv
  <1>4. CASE ServerAnswers
    <2>1. PICK f \in Answers : frames' = <<f>>
      BY <1>4 DEF ServerAnswers
    <2>2. f \in Packets
      BY <1>3, AnswersAre DEF PeerInv
    <2>3. frames = <<>> /\ got = 0
      BY <1>3, <1>4 DEF ServerAnswers, PeerInv
    <2>4. frames' \in Seq(Packets) /\ frames' # <<>> /\ frames'[1] = f
      BY <2>1, <2>2
    <2>5. PeerInv'
      BY <1>1, <1>2, <1>3, <2>1, <2>4 DEF PeerInv
    <2>6. ReaderInv'
      BY <1>1, <1>3, <2>3 DEF ReaderInv
    <2>7. AgreedIsHighestCommon'
      BY <1>1, <1>2 DEF NegotiationInv, AgreedIsHighestCommon
    <2>8. RestIsLeft'
      <3>1. /\ Max({frames'[1].size, kPacketHeaderSize}) \in Nat
            /\ kPacketHeaderSize \in Nat /\ pc' # "agreed"
        <4>1. f.size \in Nat /\ kPacketHeaderSize \in Nat
          BY <2>2, NegotiationAssumption DEF Packets
        <4> QED
          BY <1>1, <1>3, <2>3, <2>4, <4>1, MaxOfTwo DEF ReaderInv
      <3> QED
        BY <1>1, <2>3, <3>1 DEF RestIsLeft
    <2> QED
      BY <2>5, <2>6, <2>7, <2>8 DEF NegotiationInv
  <1>5. CASE ServerContinues
    <2>1. frames \in Seq(Packets) /\ frames # <<>> /\ Len(frames) = 1
      BY <1>3, <1>5 DEF ServerContinues, PeerInv
    <2>2. [type |-> "ChatNotify", version |-> 0, size |-> kPacketHeaderSize] \in Packets
      BY NegotiationAssumption DEF Packets
    <2>3. frames' \in Seq(Packets) /\ frames' # <<>> /\ frames'[1] = frames[1]
      BY <1>5, <2>1, <2>2 DEF ServerContinues, Frame
    <2>4. PeerInv'
      BY <1>1, <1>2, <1>3, <2>1, <2>3 DEF PeerInv
    <2>5. ReaderInv'
      BY <1>1, <1>3, <2>3 DEF ReaderInv, Malformed
    <2>6. AgreedIsHighestCommon'
      BY <1>1, <1>2 DEF NegotiationInv, AgreedIsHighestCommon
    <2>7. RestIsLeft'
      BY <1>1, <2>1, <2>3 DEF NegotiationInv, RestIsLeft
    <2> QED
      BY <2>4, <2>5, <2>6, <2>7 DEF NegotiationInv
  <1> QED
    BY <1>4, <1>5

LEMMA NextInv == NegotiationInv /\ [Next]_vars => NegotiationInv'
  <1> SUFFICES ASSUME NegotiationInv, [Next]_vars PROVE NegotiationInv'
    OBVIOUS
  <1>1. CASE Client
    BY <1>1, EnsureBeforeDeadlineKeeps, SendRequestKeeps, ReceiveExactlyKeeps, PollKeeps,
       PeerClosedKeeps, DecodeKeeps DEF Client
  <1>2. CASE ServerAnswers \/ ServerContinues
    BY <1>2, ServerKeeps
  <1>3. CASE BytesArrive
    BY <1>3, BytesArriveKeeps
  <1>4. CASE ServerReads \/ ServerCloses \/ DeadlinePasses \/ UNCHANGED vars
    <2>1. UNCHANGED <<ranges, frames, got, outcome, arrived, pc>>
      BY <1>4 DEF ServerReads, ServerCloses, DeadlinePasses, vars, peerVars
    <2> QED
      BY <2>1, TakesNothing DEF NegotiationInv, PeerInv
  <1> QED
    BY <1>1, <1>2, <1>3, <1>4 DEF Next

-----------------------------------------------------------------------------
\* negotiateClientVersion returns the highest version that both builds support,
\* and refuses this repository's server only when there is none, for all ranges
\* and however the answer is cut into segments.
THEOREM AlwaysHighestCommon == Spec => []AgreedIsHighestCommon
  <1>1. NegotiationInv => AgreedIsHighestCommon
    BY DEF NegotiationInv
  <1> QED
    BY InitInv, NextInv, <1>1, PTL DEF Spec

\* receiveExactly leaves every byte behind the answer in the socket, for the
\* caller's next receive.
THEOREM RestAlwaysLeft == Spec => []RestIsLeft
  <1>1. NegotiationInv => RestIsLeft
    BY DEF NegotiationInv
  <1> QED
    BY InitInv, NextInv, <1>1, PTL DEF Spec
=============================================================================
