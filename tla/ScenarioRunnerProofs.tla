------------------------ MODULE ScenarioRunnerProofs ------------------------
(***************************************************************************)
(* What ScenarioRunner promises, for every set of options: a report without *)
(* failed clients misses no message, and senders keep to the window.        *)
(***************************************************************************)
EXTENDS ScenarioRunner, FiniteSetTheorems, TLAPS

-----------------------------------------------------------------------------
\* The inductive invariant.

RxStates == {"unlaunched", "new", "ready", "unready", "receive", "tell", "ended"}
TxStates == {"unlaunched", "new", "ready", "unready", "pace", "permit", "send", "record",
             "complete", "ended"}

Types ==
    /\ options \in Runs
    /\ rx \in [Clients -> RxStates] /\ tx \in [Clients -> TxStates]
    /\ sequence \in [Clients -> Nat] /\ progress \in [Clients -> Nat]
    /\ successful \in [RoomIndexes -> Nat] /\ completed \in [RoomIndexes -> Nat]
    /\ nextTicket \in [RoomIndexes -> Nat]
    /\ DOMAIN wire = Clients /\ DOMAIN got = Clients
    /\ rxFailed \subseteq Clients /\ txFailed \subseteq Clients

\* A sender stops at the number of messages of the options.
Bounded ==
    \A s \in Clients :
      /\ sequence[s] <= options.messages
      /\ tx[s] \notin {"record", "complete", "ended"} => sequence[s] < options.messages
      /\ tx[s] = "record" => sequence[s] > 0

\* The first counts[s] messages of every client s in R, of n at most.
Upto(R, n, counts) == {m \in R \X (0..n) : m[2] < counts[m[1]]}

\* The messages a sender has recorded, and those it was allowed to send.
Recorded(S, at, sent) == [s \in S |-> IF at[s] = "record" THEN sent[s] - 1 ELSE sent[s]]
Permitted(S, at, sent) == [s \in S |-> IF at[s] = "send" THEN sent[s] + 1 ELSE sent[s]]

\* The senders of R that have said that they are done.
Finished(R, at) == {s \in R : at[s] = "ended"}

\* The counters the threads of a room R share.
Counted(R, r) ==
    /\ completed[r] = Cardinality(Finished(R, tx))
    /\ successful[r] = Cardinality(Upto(R, options.messages, Recorded(R, tx, sequence)))
    /\ Window > 0 =>
         Cardinality(Upto(R, options.messages, Permitted(R, tx, sequence))) <= nextTicket[r]

Counters == \A r \in RoomIndexes : Counted(InRoom(r), r)

\* Only what was sent is received, only that is counted, and permits are given
\* for no more than the window beyond it.
Received(R, r) ==
    \A c \in R :
      /\ wire[c] \subseteq Upto(R, options.messages, sequence)
      /\ got[c] \subseteq Upto(R, options.messages, sequence)
      /\ progress[c] <= Cardinality(got[c])
      /\ Window > 0 => nextTicket[r] <= progress[c] + Window

Receipts == \A r \in RoomIndexes : Received(InRoom(r), r)

\* A receiver that has left without failing has had everything.
Left(R, r) ==
    \A c \in R :
      /\ rx[c] = "unready" => c \in rxFailed
      /\ rx[c] = "ended" /\ c \notin rxFailed =>
           /\ Finished(R, tx) = R
           /\ Cardinality(got[c]) >= successful[r]

Leaves == \A r \in RoomIndexes : Left(InRoom(r), r)

\* What the calling thread may rely on.
Stages ==
    /\ \A c \in Clients : tx[c] # "unlaunched" => rx[c] # "unlaunched"
    /\ main \in {"join", "ended"} => \A c \in Clients : tx[c] # "unlaunched"
    /\ main = "ended" =>
         /\ \A c \in Clients : rx[c] = "ended"
         /\ failedClients = 0 => rxFailed = {}

RunInv == Types /\ Bounded /\ Counters /\ Receipts /\ Leaves /\ Stages

-----------------------------------------------------------------------------
\* The rooms of a run.

\* A set of natural numbers that is not empty has a least element.
LEMMA LeastElement ==
    ASSUME NEW T \in SUBSET Nat, T # {}
    PROVE  \E m \in T : \A k \in T : m <= k
  <1> DEFINE R == OpToRel(<, Nat)
  <1>1. IsWellFoundedOn(R, Nat)
    BY NatLessThanWellFounded
  <1>2. \A x, y \in Nat : x < y => <<x, y>> \in R
    BY DEF OpToRel
  <1>3. PICK x \in T : \A y \in T : ~(<<y, x>> \in R)
    <2> HIDE DEF R
    <2> QED BY <1>1, WFMin
  <1> HIDE DEF R
  <1>4. \A y \in T : ~(y < x)
    BY <1>2, <1>3, Zenon
  <1> QED BY <1>4

LEMMA MinIsLeast ==
    ASSUME NEW T \in SUBSET Nat, T # {}
    PROVE  Min(T) \in T /\ \A k \in T : Min(T) <= k
  BY LeastElement DEF Min

\* The numbers of a run are what the options say.
LEMMA OptionTypes ==
    ASSUME options \in Runs
    PROVE  /\ Fast \in Nat /\ Fast > 0 /\ RoomCount \in Nat /\ RoomCount > 0
           /\ Window \in Nat /\ options.messages \in Nat /\ options.messages > 0
  BY ScenarioAssumption DEF OptionRecords, Fast, RoomCount, Window

\* Every client is in one room, and the rooms are finite.
LEMMA RoomTypes ==
    ASSUME options \in Runs
    PROVE  /\ IsFiniteSet(Clients) /\ Clients \subseteq Nat
           /\ \A c \in Clients : RoomOf(c) \in RoomIndexes /\ c \in InRoom(RoomOf(c))
           /\ \A r : InRoom(r) \subseteq Clients /\ IsFiniteSet(InRoom(r))
           /\ \A r : \A c \in InRoom(r) : RoomOf(c) = r
  <1>1. Fast \in Nat /\ RoomCount \in Nat /\ RoomCount > 0
    BY OptionTypes
  <1>2. IsFiniteSet(Clients)
    <2>1. Fast - 1 \in Int
      BY <1>1
    <2> QED BY <2>1, FS_Interval DEF Clients
  <1>3. Clients \subseteq Nat
    BY <1>1 DEF Clients
  <1>4. \A c \in Clients : RoomOf(c) \in RoomIndexes
    BY <1>1, <1>3 DEF RoomOf, RoomIndexes
  <1>5. \A c \in Clients : c \in InRoom(RoomOf(c))
    BY DEF InRoom
  <1>6. \A r : InRoom(r) \subseteq Clients
    BY DEF InRoom
  <1>7. \A r : IsFiniteSet(InRoom(r))
    <2> TAKE r
    <2>1. InRoom(r) \in SUBSET Clients
      BY <1>6
    <2> QED BY <2>1, <1>2, FS_Subset
  <1>8. \A r : \A c \in InRoom(r) : RoomOf(c) = r
    BY DEF InRoom
  <1> QED BY <1>2, <1>3, <1>4, <1>5, <1>6, <1>7, <1>8

\* The options, and with them the rooms, stay as they are.
LEMMA SameRooms ==
    ASSUME options' = options
    PROVE  /\ Clients' = Clients /\ RoomIndexes' = RoomIndexes /\ Window' = Window
           /\ \A c : RoomOf(c)' = RoomOf(c)
           /\ \A r : InRoom(r)' = InRoom(r)
  BY DEF Clients, RoomIndexes, Window, RoomOf, InRoom, Fast, RoomCount

-----------------------------------------------------------------------------
\* Counting messages.

LEMMA UptoFinite ==
    ASSUME NEW R, IsFiniteSet(R), NEW n \in Nat, NEW q
    PROVE  IsFiniteSet(Upto(R, n, q)) /\ Cardinality(Upto(R, n, q)) \in Nat
  <1>1. IsFiniteSet(0..n)
    BY FS_Interval
  <1>2. IsFiniteSet(R \X (0..n))
    BY <1>1, FS_Product
  <1>3. Upto(R, n, q) \in SUBSET (R \X (0..n))
    BY DEF Upto
  <1>4. IsFiniteSet(Upto(R, n, q))
    BY <1>2, <1>3, FS_Subset
  <1> QED BY <1>4, FS_CardinalityType

LEMMA UptoSame ==
    ASSUME NEW R, NEW n \in Nat, NEW p, NEW q, \A s \in R : p[s] = q[s]
    PROVE  Upto(R, n, p) = Upto(R, n, q)
  BY DEF Upto

LEMMA UptoMonotone ==
    ASSUME NEW R, IsFiniteSet(R), NEW n \in Nat, NEW p, NEW q,
           \A s \in R : p[s] \in Nat /\ q[s] \in Nat /\ p[s] <= q[s]
    PROVE  /\ Upto(R, n, p) \subseteq Upto(R, n, q)
           /\ Cardinality(Upto(R, n, p)) <= Cardinality(Upto(R, n, q))
  <1>1. Upto(R, n, p) \in SUBSET Upto(R, n, q)
    <2> SUFFICES ASSUME NEW m \in Upto(R, n, p)
                 PROVE  m \in Upto(R, n, q)
      OBVIOUS
    <2>1. m \in R \X (0..n) /\ m[2] < p[m[1]]
      BY DEF Upto
    <2>2. m[1] \in R /\ m[2] \in 0..n
      BY <2>1
    <2>3. m[2] < q[m[1]]
      BY <2>1, <2>2
    <2> QED BY <2>1, <2>3 DEF Upto
  <1> QED BY <1>1, UptoFinite, FS_Subset

\* One message more of client c.
LEMMA UptoGrows ==
    ASSUME NEW R, IsFiniteSet(R), NEW n \in Nat, NEW p, NEW q, NEW c \in R,
           \A s \in R : p[s] \in Nat, p[c] < n,
           \A s \in R : s # c => q[s] = p[s],
           q[c] = p[c] + 1
    PROVE  /\ Upto(R, n, q) = Upto(R, n, p) \cup {<<c, p[c]>>}
           /\ Cardinality(Upto(R, n, q)) = Cardinality(Upto(R, n, p)) + 1
  <1> DEFINE new == <<c, p[c]>>
  <1>1. new \notin Upto(R, n, p)
    <2>1. new[1] = c /\ new[2] = p[c]
      OBVIOUS
    <2>2. ~(p[c] < p[c])
      OBVIOUS
    <2> QED BY <2>1, <2>2 DEF Upto
  <1>2. new \in Upto(R, n, q)
    <2>1. p[c] \in 0..n /\ p[c] < q[c]
      OBVIOUS
    <2> QED BY <2>1 DEF Upto
  <1>3. ASSUME NEW m \in R \X (0..n), m # new
        PROVE  m[2] < q[m[1]] <=> m[2] < p[m[1]]
    <2>1. PICK s \in R, k \in 0..n : m = <<s, k>>
      BY <1>3
    <2>2. m[1] = s /\ m[2] = k
      BY <2>1
    <2>3. CASE s # c
      BY <2>2, <2>3
    <2>4. CASE s = c
      <3>1. k # p[c]
        BY <1>3, <2>1, <2>4
      <3>2. k < p[c] + 1 <=> k < p[c]
        BY <3>1
      <3> QED BY <2>2, <2>4, <3>2
    <2> QED BY <2>3, <2>4
  <1>4. ASSUME NEW m PROVE m \in Upto(R, n, q) <=> m \in Upto(R, n, p) \cup {new}
    <2> HIDE DEF new
    <2>1. CASE m = new
      BY <2>1, <1>2
    <2>2. CASE m # new
      BY <2>2, <1>3 DEF Upto
    <2> QED BY <2>1, <2>2
  <1>5. Upto(R, n, q) = Upto(R, n, p) \cup {new}
    <2> HIDE DEF new
    <2> QED BY <1>4
  <1>6. IsFiniteSet(Upto(R, n, p))
    BY UptoFinite
  <1>7. Cardinality(Upto(R, n, p) \cup {new}) = Cardinality(Upto(R, n, p)) + 1
    <2> HIDE DEF new
    <2> QED BY <1>1, <1>6, FS_AddElement
  <1> QED BY <1>5, <1>7
-----------------------------------------------------------------------------
\* What a step does to a room, by the client that takes it.

\* The acting client, its room, and the others.
Acting(c) ==
    /\ RunInv /\ options' = options /\ c \in Clients

LEMMA ActingRoom ==
    ASSUME NEW c, Acting(c)
    PROVE  /\ RoomOf(c) \in RoomIndexes /\ c \in InRoom(RoomOf(c))
           /\ \A r \in RoomIndexes : c \in InRoom(r) => r = RoomOf(c)
           /\ \A r : InRoom(r) \subseteq Clients /\ IsFiniteSet(InRoom(r))
  BY RoomTypes DEF Acting, RunInv, Types

\* The primed parts, over the rooms as they are.
LEMMA RoomByRoom ==
    ASSUME options' = options
    PROVE  /\ (\A r \in RoomIndexes : Counted(InRoom(r), r)') => Counters'
           /\ (\A r \in RoomIndexes : Received(InRoom(r), r)') => Receipts'
           /\ (\A r \in RoomIndexes : Left(InRoom(r), r)') => Leaves'
  BY SameRooms DEF Counters, Receipts, Leaves

\* What a sender has recorded, may send and has sent are numbers.
LEMMA CountTypes ==
    ASSUME RunInv, NEW r \in RoomIndexes
    PROVE  /\ \A s \in InRoom(r) : Recorded(InRoom(r), tx, sequence)[s] \in Nat
           /\ \A s \in InRoom(r) : Permitted(InRoom(r), tx, sequence)[s] \in Nat
           /\ \A s \in InRoom(r) : sequence[s] \in Nat
  <1>1. InRoom(r) \subseteq Clients
    BY RoomTypes DEF RunInv, Types
  <1>2. \A s \in InRoom(r) : sequence[s] \in Nat
    BY <1>1 DEF RunInv, Types
  <1>3. \A s \in InRoom(r) : tx[s] = "record" => sequence[s] > 0
    BY <1>1 DEF RunInv, Bounded
  <1> QED BY <1>2, <1>3 DEF Recorded, Permitted

\* A room whose senders do nothing keeps its counters.
LEMMA CountersKept ==
    ASSUME RunInv, options' = options, NEW r \in RoomIndexes,
           completed'[r] = completed[r], successful'[r] = successful[r],
           nextTicket'[r] = nextTicket[r],
           \A s \in InRoom(r) : sequence'[s] = sequence[s],
           \A s \in InRoom(r) : tx'[s] = "ended" <=> tx[s] = "ended",
           \A s \in InRoom(r) : tx'[s] = "record" <=> tx[s] = "record",
           Window > 0 => \A s \in InRoom(r) : tx'[s] = "send" => tx[s] = "send"
    PROVE  Counted(InRoom(r), r)'
  <1> DEFINE R == InRoom(r)
             n == options.messages
  <1>1. R' = R /\ Window' = Window
    BY SameRooms
  <1>2. n \in Nat /\ IsFiniteSet(R) /\ Window \in Nat
    BY OptionTypes, RoomTypes DEF RunInv, Types
  <1>3. Counted(R, r)
    BY DEF RunInv, Counters
  <1>4. Finished(R, tx') = Finished(R, tx)
    BY DEF Finished
  <1>5. Recorded(R, tx', sequence') = Recorded(R, tx, sequence)
    BY DEF Recorded
  <1>6. ASSUME Window > 0
        PROVE  Cardinality(Upto(R, n, Permitted(R, tx', sequence')))
                 <= Cardinality(Upto(R, n, Permitted(R, tx, sequence)))
    <2>1. ASSUME NEW s \in R
          PROVE  /\ Permitted(R, tx', sequence')[s] \in Nat
                 /\ Permitted(R, tx, sequence)[s] \in Nat
                 /\ Permitted(R, tx', sequence')[s] <= Permitted(R, tx, sequence)[s]
      <3>1. sequence'[s] = sequence[s] /\ sequence[s] \in Nat
        BY CountTypes
      <3>2. tx'[s] = "send" => tx[s] = "send"
        BY <1>6
      <3> QED BY <3>1, <3>2 DEF Permitted
    <2> HIDE DEF R, n
    <2> QED BY <2>1, <1>2, UptoMonotone
  <1>7. Window > 0 => Cardinality(Upto(R, n, Permitted(R, tx, sequence))) <= nextTicket[r]
    BY <1>3 DEF Counted
  <1>8. /\ Cardinality(Upto(R, n, Permitted(R, tx, sequence))) \in Nat
        /\ Cardinality(Upto(R, n, Permitted(R, tx', sequence'))) \in Nat
    BY <1>2, UptoFinite
  <1>9. nextTicket[r] \in Nat
    BY DEF RunInv, Types
  <1>10. Window > 0 => Cardinality(Upto(R, n, Permitted(R, tx', sequence'))) <= nextTicket'[r]
    BY <1>6, <1>7, <1>8, <1>9
  <1>11. completed'[r] = Cardinality(Finished(R, tx'))
    BY <1>3, <1>4 DEF Counted
  <1>12. successful'[r] = Cardinality(Upto(R, n, Recorded(R, tx', sequence')))
    BY <1>3, <1>5 DEF Counted
  <1> QED BY <1>1, <1>10, <1>11, <1>12 DEF Counted

\* A room where nothing is sent, received or permitted keeps its receipts.
LEMMA ReceiptsKept ==
    ASSUME RunInv, options' = options, NEW r \in RoomIndexes,
           nextTicket'[r] = nextTicket[r],
           \A s \in InRoom(r) : sequence'[s] = sequence[s],
           \A s \in InRoom(r) : /\ wire'[s] = wire[s] /\ got'[s] = got[s]
                                /\ progress'[s] = progress[s]
    PROVE  Received(InRoom(r), r)'
  <1> DEFINE R == InRoom(r)
             n == options.messages
  <1>1. R' = R /\ Window' = Window
    BY SameRooms
  <1>2. n \in Nat
    BY OptionTypes DEF RunInv, Types
  <1>3. Received(R, r)
    BY DEF RunInv, Receipts
  <1>4. Upto(R, n, sequence') = Upto(R, n, sequence)
    BY <1>2, UptoSame
  <1> HIDE DEF R
  <1> QED BY <1>1, <1>3, <1>4 DEF Received, R

\* A room where no receiver leaves, and every sender that was done still is.
LEMMA LeavesKept ==
    ASSUME RunInv, options' = options, NEW r \in RoomIndexes,
           \A c \in InRoom(r) : rx'[c] = rx[c] /\ got'[c] = got[c],
           rxFailed' = rxFailed,
           \/ \E c \in InRoom(r) : tx[c] # "ended"
           \/ /\ successful'[r] = successful[r]
              /\ \A s \in InRoom(r) : tx[s] = "ended" => tx'[s] = "ended"
    PROVE  Left(InRoom(r), r)'
  <1> DEFINE R == InRoom(r)
  <1>1. R' = R
    BY SameRooms
  <1>2. Left(R, r)
    BY DEF RunInv, Leaves
  <1>3. ASSUME NEW c \in R, rx[c] = "ended", c \notin rxFailed
        PROVE  Finished(R, tx') = R /\ successful'[r] = successful[r]
    <2>1. Finished(R, tx) = R
      BY <1>2, <1>3 DEF Left
    <2> QED BY <2>1 DEF Finished
  <1> HIDE DEF R
  <1> QED BY <1>1, <1>2, <1>3 DEF Left, R
-----------------------------------------------------------------------------
\* Steps of a receiver.

LEMMA SendersRest ==
    ASSUME RunInv, options' = options,
           UNCHANGED <<tx, sequence, successful, completed, nextTicket>>
    PROVE  Bounded' /\ Counters'
  <1>1. Bounded'
    <2>1. Bounded /\ Clients' = Clients
      BY SameRooms DEF RunInv
    <2> QED BY <2>1 DEF Bounded
  <1>2. ASSUME NEW r \in RoomIndexes PROVE Counted(InRoom(r), r)'
    BY CountersKept
  <1> QED BY <1>1, <1>2, RoomByRoom

\* What a step of receiver c leaves alone, and what it owes when it leaves.
ReceiverMoves(c, to) ==
    /\ UNCHANGED <<main, failedClients, tx, sequence, successful, completed, nextTicket,
                   txFailed>>
    /\ rx[c] \notin {"ended", "unlaunched"} /\ to \in RxStates \ {"unlaunched"}
    /\ rx' = [rx EXCEPT ![c] = to]
    /\ rxFailed' \in {rxFailed, rxFailed \cup {c}}
    /\ to = "unready" => c \in rxFailed'
    /\ to = "ended" /\ c \notin rxFailed' =>
         /\ Finished(InRoom(RoomOf(c)), tx) = InRoom(RoomOf(c))
         /\ Cardinality(got'[c]) >= successful[RoomOf(c)]
    /\ DOMAIN wire' = Clients /\ DOMAIN got' = Clients /\ progress' \in [Clients -> Nat]
    /\ \A d \in Clients : d # c => got'[d] = got[d]

LEMMA ReceiverStep ==
    ASSUME NEW c, Acting(c), NEW to, ReceiverMoves(c, to), Receipts'
    PROVE  RunInv'
  <1>0. RunInv /\ options' = options /\ c \in Clients /\ Types /\ Stages
    BY DEF Acting, RunInv
  <1>1. Bounded' /\ Counters'
    BY <1>0, SendersRest DEF ReceiverMoves
  <1>2. /\ Clients' = Clients /\ RoomIndexes' = RoomIndexes
    BY <1>0, SameRooms
  <1>3. Types'
    BY <1>0, <1>2 DEF Types, ReceiverMoves
  <1>4. Stages'
    <2>1. rx[c] \in RxStates /\ rx'[c] = to /\ \A d \in Clients : d # c => rx'[d] = rx[d]
      BY <1>0 DEF Types, ReceiverMoves
    <2>2. main # "ended" /\ main' = main /\ tx' = tx /\ to # "unlaunched"
      BY <1>0 DEF Stages, ReceiverMoves
    <2> QED BY <1>0, <1>2, <2>1, <2>2 DEF Stages
  <1>5. ASSUME NEW r \in RoomIndexes PROVE Left(InRoom(r), r)'
    <2> DEFINE R == InRoom(r)
    <2>1. R' = R /\ R \subseteq Clients /\ (c \in R => r = RoomOf(c))
      BY <1>0, SameRooms, ActingRoom
    <2>2. Left(R, r)
      BY <1>0 DEF RunInv, Leaves
    <2>3. tx' = tx /\ successful' = successful
      BY DEF ReceiverMoves
    <2>4. ASSUME NEW d \in R, d # c
          PROVE  /\ rx'[d] = rx[d] /\ got'[d] = got[d]
                 /\ d \in rxFailed' <=> d \in rxFailed
      BY <1>0, <2>1, <2>4 DEF ReceiverMoves, Types
    <2>5. ASSUME NEW d \in R, d # c
          PROVE  /\ rx'[d] = "unready" => d \in rxFailed'
                 /\ rx'[d] = "ended" /\ d \notin rxFailed' =>
                      /\ Finished(R, tx') = R
                      /\ Cardinality(got'[d]) >= successful'[r]
      <3> HIDE DEF R
      <3> QED BY <2>2, <2>3, <2>4, <2>5 DEF Left
    <2>6. ASSUME c \in R
          PROVE  /\ rx'[c] = "unready" => c \in rxFailed'
                 /\ rx'[c] = "ended" /\ c \notin rxFailed' =>
                      /\ Finished(R, tx') = R
                      /\ Cardinality(got'[c]) >= successful'[r]
      <3>1. rx'[c] = to /\ r = RoomOf(c)
        BY <1>0, <2>1, <2>6 DEF ReceiverMoves, Types
      <3> QED BY <2>3, <3>1 DEF ReceiverMoves
    <2>7. \A d \in R : /\ rx'[d] = "unready" => d \in rxFailed'
                       /\ rx'[d] = "ended" /\ d \notin rxFailed' =>
                            /\ Finished(R, tx') = R
                            /\ Cardinality(got'[d]) >= successful'[r]
      <3> HIDE DEF R
      <3> QED BY <2>5, <2>6
    <2> HIDE DEF R
    <2> QED BY <2>1, <2>7 DEF Left, R
  <1>6. Leaves'
    BY <1>0, <1>5, RoomByRoom
  <1> QED BY <1>1, <1>3, <1>4, <1>6 DEF RunInv

\* A step that touches neither messages nor counters keeps the receipts.
LEMMA ReceiptsStay ==
    ASSUME RunInv, options' = options,
           UNCHANGED <<sequence, nextTicket, wire, got, progress>>
    PROVE  Receipts'
  <1>1. ASSUME NEW r \in RoomIndexes PROVE Received(InRoom(r), r)'
    BY ReceiptsKept
  <1> QED BY <1>1, RoomByRoom

\* A receiver that only changes its place, or fails.
LEMMA ReceiverGoes ==
    ASSUME NEW c, Acting(c), NEW to \in RxStates \ {"unlaunched"}, RxGoes(c, to),
           rx[c] \notin {"ended", "unlaunched"},
           rxFailed' \in {rxFailed, rxFailed \cup {c}},
           to = "unready" => c \in rxFailed',
           to = "ended" => \/ c \in rxFailed'
                           \/ /\ Finished(InRoom(RoomOf(c)), tx) = InRoom(RoomOf(c))
                              /\ Cardinality(got[c]) >= successful[RoomOf(c)],
           UNCHANGED <<countVars, tx, sequence, successful, completed, nextTicket,
                       progress, wire, got, txFailed>>
    PROVE  RunInv'
  <1>1. RunInv /\ options' = options /\ Types
    BY DEF Acting, RunInv
  <1>2. Receipts'
    BY <1>1, ReceiptsStay
  <1>3. ReceiverMoves(c, to)
    BY <1>1 DEF ReceiverMoves, RxGoes, countVars, Types
  <1> QED BY <1>2, <1>3, ReceiverStep

LEMMA RxFailsKeeps ==
    ASSUME NEW c, Acting(c), RxFails(c), rx[c] \notin {"ended", "unlaunched"}
    PROVE  RunInv'
  <1>1. "ended" \in RxStates \ {"unlaunched"}
    BY DEF RxStates
  <1>2. RxGoes(c, "ended") /\ rxFailed' = rxFailed \cup {c}
    BY DEF RxFails
  <1>3. UNCHANGED <<countVars, tx, sequence, successful, completed, nextTicket,
                    progress, wire, got, txFailed>>
    BY DEF RxFails
  <1> QED BY <1>1, <1>2, <1>3, ReceiverGoes

LEMMA RxArrivesKeeps ==
    ASSUME NEW c, Acting(c), RxArrives(c)
    PROVE  RunInv'
  <1>1. {"ready", "unready"} \subseteq RxStates \ {"unlaunched"}
    BY DEF RxStates
  <1>2. UNCHANGED <<countVars, tx, sequence, successful, completed, nextTicket,
                    progress, wire, got, txFailed>>
    BY DEF RxArrives
  <1>3. rx[c] \notin {"ended", "unlaunched"}
    BY DEF RxArrives
  <1>4. CASE RxGoes(c, "ready") /\ rxFailed' = rxFailed
    BY <1>1, <1>2, <1>3, <1>4, ReceiverGoes
  <1>5. CASE RxGoes(c, "unready") /\ rxFailed' = rxFailed \cup {c}
    BY <1>1, <1>2, <1>3, <1>5, ReceiverGoes
  <1> QED BY <1>4, <1>5 DEF RxArrives

LEMMA RxStartsKeeps ==
    ASSUME NEW c, Acting(c), RxStarts(c)
    PROVE  RunInv'
  <1>1. {"receive", "ended"} \subseteq RxStates \ {"unlaunched"}
    BY DEF RxStates
  <1>2. rx[c] \notin {"ended", "unlaunched"} /\ rx[c] \in {"ready", "unready"}
    BY DEF RxStarts
  <1>3. CASE rx[c] = "ready" /\ RxFails(c)
    BY <1>2, <1>3, RxFailsKeeps
  <1>4. CASE /\ RxGoes(c, IF rx[c] = "ready" THEN "receive" ELSE "ended")
             /\ UNCHANGED <<countVars, tx, sequence, successful, completed, nextTicket,
                            progress, roomFailed, wire, got, rxFailed, txFailed>>
    <2>1. UNCHANGED <<countVars, tx, sequence, successful, completed, nextTicket,
                      progress, wire, got, txFailed>>
          /\ rxFailed' = rxFailed
      BY <1>4
    <2>2. CASE rx[c] = "ready"
      <3>1. RxGoes(c, "receive")
        BY <1>4, <2>2
      <3> QED BY <1>1, <1>2, <2>1, <3>1, ReceiverGoes
    <2>3. CASE rx[c] = "unready"
      <3>1. RxGoes(c, "ended")
        BY <1>4, <2>3
      <3>2. c \in rxFailed
        <4>1. RunInv /\ RoomOf(c) \in RoomIndexes /\ c \in InRoom(RoomOf(c))
          BY ActingRoom DEF Acting
        <4>2. Left(InRoom(RoomOf(c)), RoomOf(c))
          BY <4>1 DEF RunInv, Leaves
        <4> QED BY <2>3, <4>1, <4>2 DEF Left
      <3> QED BY <1>1, <1>2, <2>1, <3>1, <3>2, ReceiverGoes
    <2> QED BY <1>2, <2>2, <2>3
  <1> QED BY <1>3, <1>4 DEF RxStarts

\* SendsSeen is what the counters say: all senders of the room are done.
LEMMA RxFinishesKeeps ==
    ASSUME NEW c, Acting(c), RxFinishes(c)
    PROVE  RunInv'
  <1> DEFINE r == RoomOf(c)
             R == InRoom(r)
  <1>1. "ended" \in RxStates \ {"unlaunched"}
    BY DEF RxStates
  <1>2. rx[c] \notin {"ended", "unlaunched"} /\ RxGoes(c, "ended") /\ rxFailed' = rxFailed
    BY DEF RxFinishes
  <1>3. UNCHANGED <<countVars, tx, sequence, successful, completed, nextTicket,
                    progress, wire, got, txFailed>>
    BY DEF RxFinishes
  <1>4. Cardinality(got[c]) >= successful[r] /\ completed[r] = Cardinality(R)
    BY DEF RxFinishes, SendsSeen, RoomSize
  <1>5. RunInv /\ r \in RoomIndexes /\ IsFiniteSet(R)
    BY ActingRoom DEF Acting
  <1>6. Counted(R, r)
    BY <1>5 DEF RunInv, Counters
  <1>7. completed[r] = Cardinality(Finished(R, tx))
    BY <1>6 DEF Counted
  <1>8. Finished(R, tx) \in SUBSET R
    BY DEF Finished
  <1>9. Finished(R, tx) = R
    <2> HIDE DEF r, R
    <2> QED BY <1>4, <1>5, <1>7, <1>8, FS_Subset
  <1> QED BY <1>1, <1>2, <1>3, <1>4, <1>9, ReceiverGoes

\* What is known of a client from the receipts of its room.
LEMMA ReceiptsOf ==
    ASSUME RunInv, NEW r \in RoomIndexes, NEW c \in InRoom(r)
    PROVE  /\ wire[c] \subseteq Upto(InRoom(r), options.messages, sequence)
           /\ got[c] \subseteq Upto(InRoom(r), options.messages, sequence)
           /\ progress[c] <= Cardinality(got[c])
           /\ Window > 0 => nextTicket[r] <= progress[c] + Window
           /\ IsFiniteSet(got[c]) /\ Cardinality(got[c]) \in Nat
           /\ progress[c] \in Nat /\ nextTicket[r] \in Nat /\ Window \in Nat
  <1>1. Received(InRoom(r), r)
    BY DEF RunInv, Receipts
  <1>2. /\ wire[c] \subseteq Upto(InRoom(r), options.messages, sequence)
        /\ got[c] \in SUBSET Upto(InRoom(r), options.messages, sequence)
        /\ progress[c] <= Cardinality(got[c])
        /\ Window > 0 => nextTicket[r] <= progress[c] + Window
    BY <1>1 DEF Received
  <1>3. IsFiniteSet(InRoom(r)) /\ options.messages \in Nat /\ Window \in Nat
        /\ InRoom(r) \subseteq Clients
    BY RoomTypes, OptionTypes DEF RunInv, Types
  <1>4. IsFiniteSet(Upto(InRoom(r), options.messages, sequence))
    BY <1>3, UptoFinite
  <1>5. IsFiniteSet(got[c])
    BY <1>2, <1>4, FS_Subset
  <1>6. Cardinality(got[c]) \in Nat
    BY <1>5, FS_CardinalityType
  <1>7. progress[c] \in Nat /\ nextTicket[r] \in Nat
    BY <1>3 DEF RunInv, Types
  <1> QED BY <1>2, <1>3, <1>5, <1>6, <1>7

\* A receiver whose own receipts are right leaves the receipts of all right.
LEMMA ReceiptsOfOne ==
    ASSUME NEW c, Acting(c), UNCHANGED <<sequence, nextTicket>>,
           \A d \in Clients : d # c => /\ wire'[d] = wire[d] /\ got'[d] = got[d]
                                       /\ progress'[d] = progress[d],
           wire'[c] \subseteq Upto(InRoom(RoomOf(c)), options.messages, sequence),
           got'[c] \subseteq Upto(InRoom(RoomOf(c)), options.messages, sequence),
           progress'[c] <= Cardinality(got'[c]),
           Window > 0 => nextTicket[RoomOf(c)] <= progress'[c] + Window
    PROVE  Receipts'
  <1>1. RunInv /\ options' = options /\ c \in Clients
    BY DEF Acting
  <1>2. ASSUME NEW r \in RoomIndexes PROVE Received(InRoom(r), r)'
    <2> DEFINE R == InRoom(r)
    <2>1. R' = R /\ R \subseteq Clients /\ (c \in R => r = RoomOf(c)) /\ Window' = Window
      BY <1>1, SameRooms, ActingRoom
    <2>2. Received(R, r)
      BY <1>1 DEF RunInv, Receipts
    <2>3. ASSUME NEW d \in R
          PROVE  /\ wire'[d] \subseteq Upto(R, options.messages, sequence)
                 /\ got'[d] \subseteq Upto(R, options.messages, sequence)
                 /\ progress'[d] <= Cardinality(got'[d])
                 /\ Window > 0 => nextTicket[r] <= progress'[d] + Window
      <3>1. CASE d = c
        BY <2>1, <3>1
      <3>2. CASE d # c
        <4>1. wire'[d] = wire[d] /\ got'[d] = got[d] /\ progress'[d] = progress[d]
          BY <2>1, <3>2
        <4> HIDE DEF R
        <4> QED BY <2>2, <4>1 DEF Received
      <3> QED BY <3>1, <3>2
    <2> HIDE DEF R
    <2> QED BY <1>1, <2>1, <2>3 DEF Received, R
  <1> QED BY <1>1, <1>2, RoomByRoom

LEMMA RxReceivesKeeps ==
    ASSUME NEW c, Acting(c), RxReceives(c)
    PROVE  RunInv'
  <1> DEFINE sent == Upto(InRoom(RoomOf(c)), options.messages, sequence)
  <1>1. RunInv /\ options' = options /\ c \in Clients /\ Types
    BY DEF Acting, RunInv
  <1>2. RoomOf(c) \in RoomIndexes /\ c \in InRoom(RoomOf(c))
    BY ActingRoom
  <1>3. /\ wire[c] \subseteq sent /\ got[c] \subseteq sent
        /\ progress[c] <= Cardinality(got[c])
        /\ Window > 0 => nextTicket[RoomOf(c)] <= progress[c] + Window
        /\ IsFiniteSet(got[c]) /\ Cardinality(got[c]) \in Nat /\ progress[c] \in Nat
    BY <1>1, <1>2, ReceiptsOf
  <1>4. PICK m \in wire[c] :
          /\ wire' = [wire EXCEPT ![c] = @ \ {m}] \/ wire' = wire
          /\ got' = [got EXCEPT ![c] = @ \cup {m}]
          /\ RxGoes(c, IF m \in got[c] \/ ~Paced THEN "receive" ELSE "tell")
    BY DEF RxReceives
  <1>5. /\ UNCHANGED <<countVars, tx, sequence, successful, completed, nextTicket,
                       progress, rxFailed, txFailed>>
        /\ rx[c] = "receive"
    BY DEF RxReceives
  <1>6. got'[c] = got[c] \cup {m} /\ wire'[c] \subseteq wire[c]
    BY <1>1, <1>4 DEF Types
  <1>7. progress[c] <= Cardinality(got'[c])
    <2>1. Cardinality(got[c] \cup {m}) \in {Cardinality(got[c]), Cardinality(got[c]) + 1}
      BY <1>3, FS_AddElement
    <2> QED BY <1>3, <1>6, <2>1
  <1>8. \A d \in Clients : d # c => /\ wire'[d] = wire[d] /\ got'[d] = got[d]
                                    /\ progress'[d] = progress[d]
    BY <1>1, <1>4, <1>5 DEF Types
  <1>9. Receipts'
    <2>1. m \in sent
      BY <1>3
    <2>2. wire'[c] \subseteq sent /\ got'[c] \subseteq sent
      <3> HIDE DEF sent
      <3> QED BY <1>3, <1>6, <2>1
    <2>3. sequence' = sequence /\ nextTicket' = nextTicket /\ progress' = progress
      BY <1>5
    <2> QED BY <1>3, <1>7, <1>8, <2>2, <2>3, ReceiptsOfOne
  <1>10. PICK to \in {"receive", "tell"} : RxGoes(c, to)
    BY <1>4
  <1>11. to \in RxStates \ {"unlaunched"} /\ to # "ended" /\ to # "unready"
    BY <1>10 DEF RxStates
  <1>12. DOMAIN wire' = Clients /\ DOMAIN got' = Clients /\ progress' \in [Clients -> Nat]
    BY <1>1, <1>4, <1>5 DEF Types
  <1>13. ReceiverMoves(c, to)
    BY <1>5, <1>8, <1>10, <1>11, <1>12 DEF ReceiverMoves, RxGoes, countVars
  <1> QED BY <1>9, <1>13, ReceiverStep

LEMMA RecordReceiveProgressKeeps ==
    ASSUME NEW c, Acting(c), RecordReceiveProgress(c)
    PROVE  RunInv'
  <1> DEFINE sent == Upto(InRoom(RoomOf(c)), options.messages, sequence)
  <1>1. RunInv /\ options' = options /\ c \in Clients /\ Types
    BY DEF Acting, RunInv
  <1>2. RoomOf(c) \in RoomIndexes /\ c \in InRoom(RoomOf(c))
    BY ActingRoom
  <1>3. /\ wire[c] \subseteq sent /\ got[c] \subseteq sent
        /\ progress[c] <= Cardinality(got[c])
        /\ Window > 0 => nextTicket[RoomOf(c)] <= progress[c] + Window
        /\ Cardinality(got[c]) \in Nat /\ progress[c] \in Nat
        /\ nextTicket[RoomOf(c)] \in Nat /\ Window \in Nat
    BY <1>1, <1>2, ReceiptsOf
  <1>4. /\ UNCHANGED <<countVars, tx, sequence, successful, completed, nextTicket,
                       wire, got, rxFailed, txFailed>>
        /\ rx[c] = "tell" /\ RxGoes(c, "receive")
        /\ progress' = [progress EXCEPT ![c] = Cardinality(got[c])]
    BY DEF RecordReceiveProgress
  <1>5. /\ progress'[c] = Cardinality(got'[c])
        /\ \A d \in Clients : d # c => progress'[d] = progress[d]
        /\ progress' \in [Clients -> Nat]
    BY <1>1, <1>3, <1>4 DEF Types
  <1>6. Window > 0 => nextTicket[RoomOf(c)] <= progress'[c] + Window
    <2>1. progress'[c] = Cardinality(got[c])
      BY <1>4, <1>5
    <2> QED BY <1>3, <2>1
  <1>7. Receipts'
    <2>1. progress'[c] <= Cardinality(got'[c])
      BY <1>3, <1>4, <1>5
    <2>2. sequence' = sequence /\ nextTicket' = nextTicket /\ wire' = wire /\ got' = got
      BY <1>4
    <2> QED BY <1>3, <1>5, <1>6, <2>1, <2>2, ReceiptsOfOne
  <1>8. "receive" \in RxStates \ {"unlaunched"}
    BY DEF RxStates
  <1>9. DOMAIN wire' = Clients /\ DOMAIN got' = Clients
    BY <1>1, <1>4 DEF Types
  <1>10. ReceiverMoves(c, "receive")
    BY <1>4, <1>5, <1>8, <1>9 DEF ReceiverMoves, RxGoes, countVars
  <1> QED BY <1>7, <1>10, ReceiverStep

LEMMA ReceiverKeeps ==
    ASSUME NEW c, Acting(c), Receiver(c)
    PROVE  RunInv'
  <1>1. CASE RxTimesOut(c) \/ RxDropped(c)
    <2>1. RxFails(c) /\ rx[c] \notin {"ended", "unlaunched"}
      BY <1>1 DEF RxTimesOut, RxDropped
    <2> QED BY <2>1, RxFailsKeeps
  <1> QED BY <1>1, RxArrivesKeeps, RxStartsKeeps, RxFinishesKeeps, RxReceivesKeeps,
             RecordReceiveProgressKeeps DEF Receiver

-----------------------------------------------------------------------------
\* Steps of a sender.

\* What a step of sender c leaves alone: receivers, other clients, other rooms.
SenderMoves(c, to) ==
    /\ UNCHANGED <<main, failedClients, rx, rxFailed, progress, got>>
    /\ tx[c] \notin {"ended", "unlaunched"} /\ to \in TxStates \ {"unlaunched"}
    /\ tx' = [tx EXCEPT ![c] = to]
    /\ txFailed' \in {txFailed, txFailed \cup {c}}
    /\ sequence' \in [Clients -> Nat] /\ DOMAIN wire' = Clients
    /\ successful' \in [RoomIndexes -> Nat] /\ completed' \in [RoomIndexes -> Nat]
    /\ nextTicket' \in [RoomIndexes -> Nat]
    /\ \A s \in Clients : s # c => sequence'[s] = sequence[s]
    /\ \A r \in RoomIndexes : r # RoomOf(c) =>
         /\ successful'[r] = successful[r] /\ completed'[r] = completed[r]
         /\ nextTicket'[r] = nextTicket[r]

\* What sender c owes to the bound on its messages.
SenderBounded(c) ==
    /\ sequence[c] <= options.messages
    /\ tx[c] \notin {"record", "complete", "ended"} => sequence[c] < options.messages
    /\ tx[c] = "record" => sequence[c] > 0

LEMMA SenderStep ==
    ASSUME NEW c, Acting(c), NEW to, SenderMoves(c, to), SenderBounded(c)',
           Counted(InRoom(RoomOf(c)), RoomOf(c))', Receipts'
    PROVE  RunInv'
  <1>0. RunInv /\ options' = options /\ c \in Clients /\ Types /\ Stages /\ Bounded
    BY DEF Acting, RunInv
  <1>1. Clients' = Clients /\ RoomIndexes' = RoomIndexes
    BY <1>0, SameRooms
  <1>2. tx'[c] = to /\ \A d \in Clients : d # c => tx'[d] = tx[d]
    BY <1>0 DEF Types, SenderMoves
  <1>3. Types'
    BY <1>0, <1>1 DEF Types, SenderMoves
  <1>4. Bounded'
    <2>1. \A s \in Clients : s # c => sequence'[s] = sequence[s] /\ tx'[s] = tx[s]
      BY <1>2 DEF SenderMoves
    <2>2. ASSUME NEW s \in Clients
          PROVE  /\ sequence'[s] <= options'.messages
                 /\ tx'[s] \notin {"record", "complete", "ended"} =>
                      sequence'[s] < options'.messages
                 /\ tx'[s] = "record" => sequence'[s] > 0
      <3>1. CASE s = c
        BY <3>1 DEF SenderBounded
      <3>2. CASE s # c
        BY <1>0, <2>1, <3>2 DEF Bounded
      <3> QED BY <3>1, <3>2
    <2> QED BY <1>1, <2>2 DEF Bounded
  <1>5. ASSUME NEW r \in RoomIndexes, r # RoomOf(c)
        PROVE  /\ \A s \in InRoom(r) : s \in Clients /\ s # c
               /\ \A s \in InRoom(r) : tx'[s] = tx[s] /\ sequence'[s] = sequence[s]
    BY <1>2, <1>5, ActingRoom DEF SenderMoves
  <1>6. Counters'
    <2>1. ASSUME NEW r \in RoomIndexes PROVE Counted(InRoom(r), r)'
      <3>1. CASE r = RoomOf(c)
        <4>1. RoomOf(c)' = RoomOf(c) /\ InRoom(r)' = InRoom(r)
          BY <1>0, SameRooms
        <4> QED BY <3>1, <4>1 DEF Counted
      <3>2. CASE r # RoomOf(c)
        <4>1. /\ successful'[r] = successful[r] /\ completed'[r] = completed[r]
              /\ nextTicket'[r] = nextTicket[r]
          BY <3>2 DEF SenderMoves
        <4> QED BY <1>0, <1>5, <3>2, <4>1, CountersKept
      <3> QED BY <3>1, <3>2
    <2> QED BY <1>0, <2>1, RoomByRoom
  <1>7. Leaves'
    <2>1. ASSUME NEW r \in RoomIndexes PROVE Left(InRoom(r), r)'
      <3>1. rx' = rx /\ got' = got /\ rxFailed' = rxFailed
        BY DEF SenderMoves
      <3>2. CASE r = RoomOf(c)
        <4>1. c \in InRoom(r) /\ tx[c] # "ended"
          BY <3>2, ActingRoom DEF SenderMoves
        <4> QED BY <1>0, <3>1, <4>1, LeavesKept
      <3>3. CASE r # RoomOf(c)
        <4>1. successful'[r] = successful[r]
          BY <3>3 DEF SenderMoves
        <4> QED BY <1>0, <1>5, <3>1, <3>3, <4>1, LeavesKept
      <3> QED BY <3>2, <3>3
    <2> QED BY <1>0, <2>1, RoomByRoom
  <1>8. Stages'
    <2>1. main' = main /\ rx' = rx /\ failedClients' = failedClients /\ rxFailed' = rxFailed
          /\ tx[c] # "unlaunched" /\ to # "unlaunched"
      BY DEF SenderMoves
    <2> QED BY <1>0, <1>1, <1>2, <2>1 DEF Stages
  <1> QED BY <1>3, <1>4, <1>6, <1>7, <1>8, <1>0 DEF RunInv

\* A sender that only changes its place, or fails.
LEMMA SenderGoes ==
    ASSUME NEW c, Acting(c), NEW to \in TxStates \ {"unlaunched", "ended", "record"},
           TxGoes(c, to), tx[c] \notin {"ended", "unlaunched", "record", "complete"},
           Window > 0 => to # "send",
           txFailed' \in {txFailed, txFailed \cup {c}},
           UNCHANGED <<countVars, rx, sequence, successful, completed, nextTicket,
                       progress, wire, got, rxFailed>>
    PROVE  RunInv'
  <1>1. RunInv /\ options' = options /\ c \in Clients /\ Types /\ Bounded
    BY DEF Acting, RunInv
  <1>2. SenderMoves(c, to)
    BY <1>1 DEF SenderMoves, TxGoes, countVars, Types
  <1>3. tx'[c] = to /\ \A d \in Clients : d # c => tx'[d] = tx[d]
    BY <1>1 DEF Types, TxGoes
  <1>4. SenderBounded(c)'
    <2>1. sequence[c] <= options.messages /\ sequence[c] < options.messages
      BY <1>1 DEF Bounded
    <2> QED BY <1>1, <1>3, <2>1 DEF SenderBounded
  <1>5. Receipts'
    BY <1>1, ReceiptsStay
  <1>6. Counted(InRoom(RoomOf(c)), RoomOf(c))'
    <2> DEFINE r == RoomOf(c)
    <2>1. r \in RoomIndexes /\ InRoom(r) \subseteq Clients /\ r' = r /\ InRoom(r)' = InRoom(r)
      BY <1>1, ActingRoom, SameRooms
    <2>2. \A s \in InRoom(r) : /\ tx'[s] = "ended" <=> tx[s] = "ended"
                               /\ tx'[s] = "record" <=> tx[s] = "record"
                               /\ Window > 0 => (tx'[s] = "send" => tx[s] = "send")
      BY <1>3, <2>1
    <2> HIDE DEF r
    <2>3. Counted(InRoom(r), r)'
      BY <1>1, <2>1, <2>2, CountersKept
    <2> QED BY <2>1, <2>3 DEF r
  <1> QED BY <1>2, <1>4, <1>5, <1>6, SenderStep

LEMMA TxFailsKeeps ==
    ASSUME NEW c, Acting(c), TxFails(c),
           tx[c] \notin {"ended", "unlaunched", "record", "complete"}
    PROVE  RunInv'
  <1>1. "complete" \in TxStates \ {"unlaunched", "ended", "record"}
    BY DEF TxStates
  <1>2. /\ TxGoes(c, "complete") /\ txFailed' = txFailed \cup {c}
        /\ UNCHANGED <<countVars, rx, sequence, successful, completed, nextTicket,
                       progress, wire, got, rxFailed>>
    BY DEF TxFails
  <1> QED BY <1>1, <1>2, SenderGoes

LEMMA TxArrivesKeeps ==
    ASSUME NEW c, Acting(c), TxArrives(c)
    PROVE  RunInv'
  <1>1. {"ready", "unready"} \subseteq TxStates \ {"unlaunched", "ended", "record"}
    BY DEF TxStates
  <1>2. /\ tx[c] \notin {"ended", "unlaunched", "record", "complete"}
        /\ UNCHANGED <<countVars, rx, sequence, successful, completed, nextTicket,
                       progress, wire, got, rxFailed>>
    BY DEF TxArrives
  <1>3. PICK to \in {"ready", "unready"} :
          TxGoes(c, to) /\ txFailed' \in {txFailed, txFailed \cup {c}}
    BY DEF TxArrives
  <1>4. to \in TxStates \ {"unlaunched", "ended", "record"} /\ to # "send"
    BY <1>1
  <1> QED BY <1>2, <1>3, <1>4, SenderGoes

LEMMA TxStartsKeeps ==
    ASSUME NEW c, Acting(c), TxStarts(c)
    PROVE  RunInv'
  <1>1. {"pace", "complete"} \subseteq TxStates \ {"unlaunched", "ended", "record"}
    BY DEF TxStates
  <1>2. /\ tx[c] \notin {"ended", "unlaunched", "record", "complete"}
        /\ txFailed' = txFailed
        /\ UNCHANGED <<countVars, rx, sequence, successful, completed, nextTicket,
                       progress, wire, got, rxFailed>>
    BY DEF TxStarts
  <1>3. PICK to \in {"pace", "complete"} : TxGoes(c, to)
    BY DEF TxStarts, AfterBarrier
  <1>4. to \in TxStates \ {"unlaunched", "ended", "record"} /\ to # "send"
    BY <1>1
  <1> QED BY <1>2, <1>3, <1>4, SenderGoes

LEMMA WaitForSendTimeKeeps ==
    ASSUME NEW c, Acting(c), WaitForSendTime(c)
    PROVE  RunInv'
  <1>1. {"permit", "send"} \subseteq TxStates \ {"unlaunched", "ended", "record"}
    BY DEF TxStates
  <1>2. tx[c] \notin {"ended", "unlaunched", "record", "complete"}
    BY DEF WaitForSendTime
  <1>3. CASE TxFails(c)
    BY <1>2, <1>3, TxFailsKeeps
  <1>4. CASE /\ TxGoes(c, IF Window > 0 THEN "permit" ELSE "send")
             /\ UNCHANGED <<countVars, rx, sequence, successful, completed, nextTicket,
                            progress, roomFailed, wire, got, rxFailed, txFailed>>
    <2>1. /\ txFailed' = txFailed
          /\ UNCHANGED <<countVars, rx, sequence, successful, completed, nextTicket,
                         progress, wire, got, rxFailed>>
      BY <1>4
    <2>2. PICK to \in {"permit", "send"} : TxGoes(c, to) /\ (Window > 0 => to # "send")
      BY <1>4
    <2>3. to \in TxStates \ {"unlaunched", "ended", "record"}
      BY <1>1
    <2> QED BY <1>2, <2>1, <2>2, <2>3, SenderGoes
  <1> QED BY <1>3, <1>4 DEF WaitForSendTime

\* The slowest receiver of a room.
LEMMA SlowestReceiver ==
    ASSUME RunInv, NEW r \in RoomIndexes, InRoom(r) # {}
    PROVE  MinimumReceived(r) \in Nat /\ \A d \in InRoom(r) : MinimumReceived(r) <= progress[d]
  <1> DEFINE T == {progress[d] : d \in InRoom(r)}
  <1>1. \A d \in InRoom(r) : progress[d] \in Nat
    BY ReceiptsOf
  <1>2. T \in SUBSET Nat /\ T # {}
    BY <1>1
  <1>3. Min(T) \in T /\ \A k \in T : Min(T) <= k
    <2> HIDE DEF T
    <2> QED BY <1>2, MinIsLeast
  <1>4. MinimumReceived(r) = Min(T)
    BY DEF MinimumReceived
  <1> QED BY <1>2, <1>3, <1>4

\* The room of a sender, with all that the counting lemmas ask for.
LEMMA SenderRoom ==
    ASSUME NEW c, Acting(c)
    PROVE  /\ RoomOf(c) \in RoomIndexes /\ c \in InRoom(RoomOf(c))
           /\ InRoom(RoomOf(c)) \subseteq Clients /\ IsFiniteSet(InRoom(RoomOf(c)))
           /\ options.messages \in Nat /\ Window \in Nat
           /\ RoomOf(c)' = RoomOf(c) /\ InRoom(RoomOf(c))' = InRoom(RoomOf(c))
           /\ Window' = Window
           /\ Counted(InRoom(RoomOf(c)), RoomOf(c))
           /\ sequence[c] \in Nat
           /\ tx[c] \notin {"record", "complete", "ended"} => sequence[c] < options.messages
  <1>1. RunInv /\ options' = options /\ c \in Clients
    BY DEF Acting
  <1>2. RoomOf(c) \in RoomIndexes /\ c \in InRoom(RoomOf(c))
        /\ InRoom(RoomOf(c)) \subseteq Clients /\ IsFiniteSet(InRoom(RoomOf(c)))
    BY ActingRoom
  <1>3. Counted(InRoom(RoomOf(c)), RoomOf(c))
    BY <1>1, <1>2 DEF RunInv, Counters
  <1>4. options.messages \in Nat /\ Window \in Nat
    BY <1>1, OptionTypes DEF RunInv, Types
  <1>5. /\ RoomOf(c)' = RoomOf(c) /\ InRoom(RoomOf(c))' = InRoom(RoomOf(c))
        /\ Window' = Window
    BY <1>1, SameRooms
  <1>6. sequence[c] \in Nat
    BY <1>1 DEF RunInv, Types
  <1>7. tx[c] \notin {"record", "complete", "ended"} => sequence[c] < options.messages
    BY <1>1 DEF RunInv, Bounded
  <1> QED BY <1>2, <1>3, <1>4, <1>5, <1>6, <1>7

\* A permit counts before its message, and only within the window.
LEMMA AcquireSendPermitKeeps ==
    ASSUME NEW c, Acting(c), AcquireSendPermit(c)
    PROVE  RunInv'
  <1> DEFINE r == RoomOf(c)
             R == InRoom(r)
             n == options.messages
  <1>0. RunInv /\ options' = options /\ c \in Clients /\ Types
    BY DEF Acting, RunInv
  <1>1. tx[c] = "permit" /\ tx[c] \notin {"ended", "unlaunched", "record", "complete"}
    BY DEF AcquireSendPermit
  <1>2. CASE TxFails(c)
    BY <1>1, <1>2, TxFailsKeeps
  <1>3. CASE /\ MayTakeTicket(c)
             /\ nextTicket' = [nextTicket EXCEPT ![r] = @ + 1]
             /\ TxGoes(c, "send")
             /\ UNCHANGED <<countVars, rx, sequence, successful, completed, progress,
                            roomFailed, wire, got, rxFailed, txFailed>>
    <2>1. /\ r \in RoomIndexes /\ c \in R /\ R \subseteq Clients /\ IsFiniteSet(R)
          /\ n \in Nat /\ Window \in Nat /\ r' = r /\ R' = R /\ Window' = Window
          /\ Counted(R, r) /\ sequence[c] \in Nat /\ sequence[c] < n
      BY <1>1, SenderRoom
    <2>2. "send" \in TxStates \ {"unlaunched"}
      BY DEF TxStates
    <2>3. /\ tx' = [tx EXCEPT ![c] = "send"] /\ txFailed' = txFailed
          /\ UNCHANGED <<main, failedClients, rx, sequence, successful, completed, progress,
                         wire, got, rxFailed>>
      BY <1>3 DEF TxGoes, countVars
    <2>4. tx'[c] = "send" /\ \A s \in Clients : s # c => tx'[s] = tx[s]
      BY <1>0, <2>3 DEF Types
    <2>5. nextTicket[r] \in Nat /\ nextTicket'[r] = nextTicket[r] + 1
          /\ nextTicket' \in [RoomIndexes -> Nat]
          /\ \A q \in RoomIndexes : q # r => nextTicket'[q] = nextTicket[q]
      <3> HIDE DEF r, R, n
      <3> QED BY <1>0, <1>3, <2>1 DEF Types
    <2>6. SenderMoves(c, "send")
      BY <1>0, <1>1, <2>2, <2>3, <2>5 DEF SenderMoves, Types
    <2>7. SenderBounded(c)'
      <3>1. sequence'[c] = sequence[c] /\ options' = options
        BY <1>0, <2>3
      <3>2. sequence[c] <= n
        BY <2>1
      <3> QED BY <2>1, <2>4, <3>1, <3>2 DEF SenderBounded
    <2>8. Counted(R, r)'
      <3>1. Finished(R, tx') = Finished(R, tx)
        BY <1>1, <2>1, <2>4 DEF Finished
      <3>2. Recorded(R, tx', sequence') = Recorded(R, tx, sequence)
        BY <1>1, <2>1, <2>3, <2>4 DEF Recorded
      <3> DEFINE p == Permitted(R, tx, sequence)
                 q == Permitted(R, tx', sequence')
      <3>3. p[c] = sequence[c] /\ q[c] = sequence[c] + 1
        BY <1>1, <2>1, <2>3, <2>4 DEF Permitted
      <3>4. \A s \in R : s # c => q[s] = p[s]
        BY <2>1, <2>3, <2>4 DEF Permitted
      <3>5. \A s \in R : p[s] \in Nat
        BY <1>0, <2>1, CountTypes
      <3> HIDE DEF p, q
      <3>6. Cardinality(Upto(R, n, q)) = Cardinality(Upto(R, n, p)) + 1
        <4> HIDE DEF R, n
        <4>1. p[c] < n /\ q[c] = p[c] + 1
          BY <2>1, <3>3
        <4> QED BY <2>1, <3>4, <3>5, <4>1, UptoGrows
      <3>7. Window > 0 => Cardinality(Upto(R, n, p)) <= nextTicket[r]
        BY <2>1 DEF Counted, p
      <3>8. Cardinality(Upto(R, n, p)) \in Nat
        BY <2>1, UptoFinite
      <3>9. Window > 0 => Cardinality(Upto(R, n, q)) <= nextTicket'[r]
        BY <2>5, <3>6, <3>7, <3>8
      <3>10. completed'[r] = Cardinality(Finished(R, tx'))
        BY <2>1, <2>3, <3>1 DEF Counted
      <3>11. successful'[r] = Cardinality(Upto(R, n, Recorded(R, tx', sequence')))
        BY <2>1, <2>3, <3>2 DEF Counted
      <3> QED BY <1>0, <2>1, <3>9, <3>10, <3>11 DEF Counted, q
    <2>9. Receipts'
      <3>1. ASSUME NEW k \in RoomIndexes PROVE Received(InRoom(k), k)'
        <4>1. CASE k # r
          <5>1. nextTicket'[k] = nextTicket[k]
            BY <2>5, <4>1
          <5> QED BY <1>0, <2>3, <5>1, ReceiptsKept
        <4>2. CASE k = r
          <5>1. nextTicket[r] < MinimumReceived(r) + Window
            BY <1>3 DEF MayTakeTicket
          <5>2. MinimumReceived(r) \in Nat /\ \A d \in R : MinimumReceived(r) <= progress[d]
            BY <1>0, <2>1, SlowestReceiver
          <5>3. Received(R, r)
            BY <1>0, <2>1 DEF RunInv, Receipts
          <5>4. \A d \in R : progress[d] \in Nat
            BY <1>0, <2>1, ReceiptsOf
          <5>5. \A d \in R : nextTicket'[r] <= progress[d] + Window
            <6> HIDE DEF r, R
            <6> QED BY <2>1, <2>5, <5>1, <5>2, <5>4
          <5>6. ASSUME NEW d \in R
                PROVE  /\ wire'[d] \subseteq Upto(R, n, sequence')
                       /\ got'[d] \subseteq Upto(R, n, sequence')
                       /\ progress'[d] <= Cardinality(got'[d])
                       /\ Window > 0 => nextTicket'[r] <= progress'[d] + Window
            <6> HIDE DEF r, R
            <6> QED BY <2>3, <5>3, <5>5 DEF Received
          <5>7. Received(R, r)'
            <6> HIDE DEF R, r
            <6> QED BY <1>0, <2>1, <5>6 DEF Received, R, r
          <5> QED BY <2>1, <4>2, <5>7 DEF Received
        <4> QED BY <4>1, <4>2
      <3> QED BY <1>0, <3>1, RoomByRoom
    <2> QED BY <2>6, <2>7, <2>8, <2>9, SenderStep
  <1> QED BY <1>2, <1>3 DEF AcquireSendPermit

\* A message that is sent was permitted before and is recorded after.
LEMMA SendChatKeeps ==
    ASSUME NEW c, Acting(c), SendChat(c)
    PROVE  RunInv'
  <1> DEFINE r == RoomOf(c)
             R == InRoom(r)
             n == options.messages
             new == <<c, sequence[c]>>
  <1>0. RunInv /\ options' = options /\ c \in Clients /\ Types
    BY DEF Acting, RunInv
  <1>1. tx[c] = "send" /\ tx[c] \notin {"ended", "unlaunched", "record", "complete"}
    BY DEF SendChat
  <1>2. CASE TxFails(c)
    BY <1>1, <1>2, TxFailsKeeps
  <1>3. CASE /\ \E to \in SUBSET R :
                  wire' = [d \in Clients |-> IF d \in to THEN wire[d] \cup {new} ELSE wire[d]]
             /\ sequence' = [sequence EXCEPT ![c] = @ + 1]
             /\ TxGoes(c, "record")
             /\ UNCHANGED <<countVars, rx, successful, completed, nextTicket, progress,
                            roomFailed, got, rxFailed, txFailed>>
    <2>1. /\ r \in RoomIndexes /\ c \in R /\ R \subseteq Clients /\ IsFiniteSet(R)
          /\ n \in Nat /\ Window \in Nat /\ r' = r /\ R' = R /\ Window' = Window
          /\ Counted(R, r) /\ sequence[c] \in Nat /\ sequence[c] < n
      BY <1>1, SenderRoom
    <2>2. "record" \in TxStates \ {"unlaunched"}
      BY DEF TxStates
    <2>3. /\ tx' = [tx EXCEPT ![c] = "record"] /\ txFailed' = txFailed
          /\ UNCHANGED <<main, failedClients, rx, successful, completed, nextTicket,
                         progress, got, rxFailed>>
      BY <1>3 DEF TxGoes, countVars
    <2>4. tx'[c] = "record" /\ \A s \in Clients : s # c => tx'[s] = tx[s]
      BY <1>0, <2>3 DEF Types
    <2>5. /\ sequence'[c] = sequence[c] + 1 /\ sequence' \in [Clients -> Nat]
          /\ \A s \in Clients : s # c => sequence'[s] = sequence[s]
      BY <1>0, <1>3 DEF Types
    <2>6. PICK to \in SUBSET R :
            wire' = [d \in Clients |-> IF d \in to THEN wire[d] \cup {new} ELSE wire[d]]
      BY <1>3
    <2>7. DOMAIN wire' = Clients
      BY <2>6
    <2>8. /\ \A d \in Clients : d \notin R => wire'[d] = wire[d]
          /\ \A d \in Clients : wire'[d] \subseteq wire[d] \cup {new}
      <3> HIDE DEF new, R
      <3> QED BY <2>6
    <2>9. SenderMoves(c, "record")
      BY <1>0, <1>1, <2>2, <2>3, <2>5, <2>7 DEF SenderMoves, Types
    <2>10. SenderBounded(c)'
      <3>1. sequence[c] + 1 <= n /\ sequence[c] + 1 > 0
        BY <2>1
      <3> QED BY <1>0, <2>4, <2>5, <3>1 DEF SenderBounded
    <2>11. Counted(R, r)'
      <3>1. Finished(R, tx') = Finished(R, tx)
        BY <1>1, <2>1, <2>4 DEF Finished
      <3>2. ASSUME NEW s \in R
            PROVE  /\ Recorded(R, tx', sequence')[s] = Recorded(R, tx, sequence)[s]
                   /\ Permitted(R, tx', sequence')[s] = Permitted(R, tx, sequence)[s]
        <4>1. CASE s = c
          <5>1. sequence'[c] - 1 = sequence[c] /\ sequence'[c] = sequence[c] + 1
            BY <2>1, <2>5
          <5> HIDE DEF R
          <5>2. Recorded(R, tx', sequence')[c] = sequence'[c] - 1
            BY <2>1, <2>4 DEF Recorded
          <5>3. Recorded(R, tx, sequence)[c] = sequence[c]
            BY <1>1, <2>1 DEF Recorded
          <5>4. Permitted(R, tx', sequence')[c] = sequence'[c]
            BY <2>1, <2>4 DEF Permitted
          <5>5. Permitted(R, tx, sequence)[c] = sequence[c] + 1
            BY <1>1, <2>1 DEF Permitted
          <5> QED BY <4>1, <5>1, <5>2, <5>3, <5>4, <5>5
        <4>2. CASE s # c
          BY <2>1, <2>4, <2>5, <4>2 DEF Recorded, Permitted
        <4> QED BY <4>1, <4>2
      <3>3. /\ Upto(R, n, Recorded(R, tx', sequence')) = Upto(R, n, Recorded(R, tx, sequence))
            /\ Upto(R, n, Permitted(R, tx', sequence'))
                 = Upto(R, n, Permitted(R, tx, sequence))
        BY <2>1, <3>2, UptoSame
      <3>4. options' = options /\ completed' = completed /\ successful' = successful
            /\ nextTicket' = nextTicket
        BY <1>0, <2>3
      <3> HIDE DEF R, r
      <3> QED BY <2>1, <3>1, <3>3, <3>4 DEF Counted, R, r
    <2>12. Receipts'
      <3>1. ASSUME NEW k \in RoomIndexes PROVE Received(InRoom(k), k)'
        <4>1. CASE k # r
          <5>1. \A s \in InRoom(k) : s \in Clients /\ s # c /\ s \notin R
            <6>1. \A s \in InRoom(k) : s \in Clients /\ RoomOf(s) = k
              BY <1>0, RoomTypes DEF Types
            <6>2. \A s \in R : RoomOf(s) = r
              BY <1>0, RoomTypes DEF Types
            <6> QED BY <4>1, <6>1, <6>2
          <5>2. \A s \in InRoom(k) : sequence'[s] = sequence[s] /\ wire'[s] = wire[s]
            BY <2>5, <2>8, <5>1
          <5> QED BY <1>0, <2>3, <5>2, ReceiptsKept
        <4>2. CASE k = r
          <5>1. Upto(R, n, sequence') = Upto(R, n, sequence) \cup {new}
            <6>1. \A s \in R : sequence[s] \in Nat
              BY <1>0, <2>1, CountTypes
            <6>2. \A s \in R : s # c => sequence'[s] = sequence[s]
              BY <2>1, <2>5
            <6> HIDE DEF R, n
            <6> QED BY <2>1, <2>5, <6>1, <6>2, UptoGrows
          <5>2. Received(R, r)
            BY <1>0, <2>1 DEF RunInv, Receipts
          <5>3. ASSUME NEW d \in R
                PROVE  /\ wire'[d] \subseteq Upto(R, n, sequence')
                       /\ got'[d] \subseteq Upto(R, n, sequence')
                       /\ progress'[d] <= Cardinality(got'[d])
                       /\ Window > 0 => nextTicket'[r] <= progress'[d] + Window
            <6>1. wire'[d] \subseteq wire[d] \cup {new}
              BY <2>1, <2>8
            <6>2. /\ wire[d] \subseteq Upto(R, n, sequence)
                  /\ got[d] \subseteq Upto(R, n, sequence)
                  /\ progress[d] <= Cardinality(got[d])
                  /\ Window > 0 => nextTicket[r] <= progress[d] + Window
              BY <5>2 DEF Received
            <6> HIDE DEF r, R, n, new
            <6> QED BY <2>3, <5>1, <6>1, <6>2
          <5>4. Received(R, r)'
            <6> HIDE DEF R, r
            <6> QED BY <1>0, <2>1, <5>3 DEF Received, R, r
          <5> QED BY <2>1, <4>2, <5>4 DEF Received
        <4> QED BY <4>1, <4>2
      <3> QED BY <1>0, <3>1, RoomByRoom
    <2> QED BY <2>9, <2>10, <2>11, <2>12, SenderStep
  <1> QED BY <1>2, <1>3 DEF SendChat

\* recordSuccessfulSend counts the message that was sent last.
LEMMA RecordSuccessfulSendKeeps ==
    ASSUME NEW c, Acting(c), RecordSuccessfulSend(c)
    PROVE  RunInv'
  <1> DEFINE r == RoomOf(c)
             R == InRoom(r)
             n == options.messages
  <1>0. RunInv /\ options' = options /\ c \in Clients /\ Types /\ Bounded
    BY DEF Acting, RunInv
  <1>1. /\ r \in RoomIndexes /\ c \in R /\ R \subseteq Clients /\ IsFiniteSet(R)
        /\ n \in Nat /\ Window \in Nat /\ r' = r /\ R' = R /\ Window' = Window
        /\ Counted(R, r) /\ sequence[c] \in Nat
    BY SenderRoom
  <1>2. /\ tx[c] = "record"
        /\ successful' = [successful EXCEPT ![r] = @ + 1]
        /\ TxGoes(c, IF sequence[c] = n THEN "complete" ELSE "pace")
        /\ UNCHANGED <<countVars, rx, sequence, completed, nextTicket, progress,
                       roomFailed, wire, got, rxFailed, txFailed>>
    BY DEF RecordSuccessfulSend
  <1>3. PICK to \in {"complete", "pace"} :
          TxGoes(c, to) /\ (to = "pace" => sequence[c] # n)
    BY <1>2
  <1>4. to \in TxStates \ {"unlaunched"}
    BY DEF TxStates
  <1>5. /\ tx' = [tx EXCEPT ![c] = to] /\ txFailed' = txFailed
        /\ UNCHANGED <<main, failedClients, rx, sequence, completed, nextTicket, progress,
                       wire, got, rxFailed>>
    BY <1>2, <1>3 DEF TxGoes, countVars
  <1>6. tx'[c] = to /\ \A s \in Clients : s # c => tx'[s] = tx[s]
    BY <1>0, <1>5 DEF Types
  <1>7. /\ successful[r] \in Nat /\ successful'[r] = successful[r] + 1
        /\ successful' \in [RoomIndexes -> Nat]
        /\ \A k \in RoomIndexes : k # r => successful'[k] = successful[k]
    <2> HIDE DEF r, R, n
    <2> QED BY <1>0, <1>1, <1>2 DEF Types
  <1>8. sequence[c] <= n /\ sequence[c] > 0
    BY <1>0, <1>2 DEF Bounded
  <1>9. SenderMoves(c, to)
    BY <1>0, <1>2, <1>4, <1>5, <1>7 DEF SenderMoves, Types
  <1>10. SenderBounded(c)'
    <2>1. to = "pace" => sequence[c] < n
      BY <1>1, <1>3, <1>8
    <2> QED BY <1>0, <1>5, <1>6, <1>8, <2>1 DEF SenderBounded
  <1>11. Counted(R, r)'
    <2>1. Finished(R, tx') = Finished(R, tx)
      BY <1>1, <1>2, <1>6 DEF Finished
    <2>2. Permitted(R, tx', sequence') = Permitted(R, tx, sequence)
      BY <1>1, <1>2, <1>5, <1>6 DEF Permitted
    <2> DEFINE p == Recorded(R, tx, sequence)
               q == Recorded(R, tx', sequence')
    <2>3. p[c] = sequence[c] - 1 /\ q[c] = sequence[c]
      BY <1>1, <1>2, <1>5, <1>6 DEF Recorded
    <2>4. \A s \in R : s # c => q[s] = p[s]
      BY <1>1, <1>5, <1>6 DEF Recorded
    <2>5. \A s \in R : p[s] \in Nat
      BY <1>0, <1>1, CountTypes
    <2> HIDE DEF p, q
    <2>6. Cardinality(Upto(R, n, q)) = Cardinality(Upto(R, n, p)) + 1
      <3> HIDE DEF R, n
      <3>1. p[c] < n /\ q[c] = p[c] + 1
        BY <1>1, <1>8, <2>3
      <3> QED BY <1>1, <2>4, <2>5, <3>1, UptoGrows
    <2>7. successful'[r] = Cardinality(Upto(R, n, q))
      BY <1>1, <1>7, <2>6 DEF Counted, p
    <2>8. completed'[r] = Cardinality(Finished(R, tx'))
      BY <1>1, <1>5, <2>1 DEF Counted
    <2>9. Window > 0 =>
            Cardinality(Upto(R, n, Permitted(R, tx', sequence'))) <= nextTicket'[r]
      BY <1>1, <1>5, <2>2 DEF Counted
    <2> QED BY <1>0, <1>1, <2>7, <2>8, <2>9 DEF Counted, q
  <1>12. Receipts'
    BY <1>0, <1>5, ReceiptsStay
  <1> QED BY <1>9, <1>10, <1>11, <1>12, SenderStep

LEMMA RecordSenderCompletedKeeps ==
    ASSUME NEW c, Acting(c), RecordSenderCompleted(c)
    PROVE  RunInv'
  <1> DEFINE r == RoomOf(c)
             R == InRoom(r)
             n == options.messages
  <1>0. RunInv /\ options' = options /\ c \in Clients /\ Types /\ Bounded
    BY DEF Acting, RunInv
  <1>1. /\ r \in RoomIndexes /\ c \in R /\ R \subseteq Clients /\ IsFiniteSet(R)
        /\ n \in Nat /\ Window \in Nat /\ r' = r /\ R' = R /\ Window' = Window
        /\ Counted(R, r)
    BY SenderRoom
  <1>2. /\ tx[c] = "complete"
        /\ completed' = [completed EXCEPT ![r] = @ + 1]
        /\ tx' = [tx EXCEPT ![c] = "ended"] /\ txFailed' = txFailed
        /\ UNCHANGED <<main, failedClients, rx, sequence, successful, nextTicket, progress,
                       wire, got, rxFailed>>
    BY DEF RecordSenderCompleted, TxGoes, countVars
  <1>3. "ended" \in TxStates \ {"unlaunched"}
    BY DEF TxStates
  <1>4. tx'[c] = "ended" /\ \A s \in Clients : s # c => tx'[s] = tx[s]
    BY <1>0, <1>2 DEF Types
  <1>5. /\ completed[r] \in Nat /\ completed'[r] = completed[r] + 1
        /\ completed' \in [RoomIndexes -> Nat]
        /\ \A k \in RoomIndexes : k # r => completed'[k] = completed[k]
    <2> HIDE DEF r, R, n
    <2> QED BY <1>0, <1>1, <1>2 DEF Types
  <1>6. SenderMoves(c, "ended")
    BY <1>0, <1>2, <1>3, <1>5 DEF SenderMoves, Types
  <1>7. SenderBounded(c)'
    BY <1>0, <1>2, <1>4 DEF SenderBounded, Bounded
  <1>8. Counted(R, r)'
    <2>1. Finished(R, tx') = Finished(R, tx) \cup {c} /\ c \notin Finished(R, tx)
      BY <1>1, <1>2, <1>4 DEF Finished
    <2>2. IsFiniteSet(Finished(R, tx))
      <3>1. Finished(R, tx) \in SUBSET R
        BY DEF Finished
      <3> QED BY <1>1, <3>1, FS_Subset
    <2>3. Cardinality(Finished(R, tx')) = Cardinality(Finished(R, tx)) + 1
      BY <2>1, <2>2, FS_AddElement
    <2>4. completed'[r] = Cardinality(Finished(R, tx'))
      BY <1>1, <1>5, <2>3 DEF Counted
    <2>5. Recorded(R, tx', sequence') = Recorded(R, tx, sequence)
      BY <1>1, <1>2, <1>4 DEF Recorded
    <2>6. Permitted(R, tx', sequence') = Permitted(R, tx, sequence)
      BY <1>1, <1>2, <1>4 DEF Permitted
    <2>7. successful'[r] = Cardinality(Upto(R, n, Recorded(R, tx', sequence')))
      BY <1>1, <1>2, <2>5 DEF Counted
    <2>8. Window > 0 =>
            Cardinality(Upto(R, n, Permitted(R, tx', sequence'))) <= nextTicket'[r]
      BY <1>1, <1>2, <2>6 DEF Counted
    <2> QED BY <1>0, <1>1, <2>4, <2>7, <2>8 DEF Counted
  <1>9. Receipts'
    BY <1>0, <1>2, ReceiptsStay
  <1> QED BY <1>6, <1>7, <1>8, <1>9, SenderStep

LEMMA SenderKeeps ==
    ASSUME NEW c, Acting(c), Sender(c)
    PROVE  RunInv'
  BY TxArrivesKeeps, TxStartsKeeps, WaitForSendTimeKeeps, AcquireSendPermitKeeps,
     SendChatKeeps, RecordSuccessfulSendKeeps, RecordSenderCompletedKeeps DEF Sender

-----------------------------------------------------------------------------
\* Steps of the calling thread, and time.

\* A step that moves no task.
LEMMA TasksStay ==
    ASSUME RunInv, options' = options, UNCHANGED taskVars
    PROVE  Types' /\ Bounded' /\ Counters' /\ Receipts' /\ Leaves'
  <1>1. UNCHANGED <<rx, tx, sequence, successful, completed, nextTicket, progress,
                    wire, got, rxFailed, txFailed>>
    BY DEF taskVars
  <1>2. Types'
    <2>1. Types /\ Clients' = Clients /\ RoomIndexes' = RoomIndexes
      BY SameRooms DEF RunInv
    <2> QED BY <1>1, <2>1 DEF Types
  <1>3. Bounded' /\ Counters'
    BY <1>1, SendersRest
  <1>4. Receipts'
    BY <1>1, ReceiptsStay
  <1>5. ASSUME NEW r \in RoomIndexes PROVE Left(InRoom(r), r)'
    BY <1>1, LeavesKept
  <1> QED BY <1>2, <1>3, <1>4, <1>5, RoomByRoom

LEMMA CallerMoves ==
    ASSUME RunInv, options' = options, UNCHANGED taskVars,
           \/ main' = main /\ failedClients' = failedClients
           \/ main' \notin {"join", "ended"}
    PROVE  RunInv'
  <1>1. Types' /\ Bounded' /\ Counters' /\ Receipts' /\ Leaves'
    BY TasksStay
  <1>2. Stages'
    <2>1. Stages /\ Clients' = Clients /\ UNCHANGED <<rx, tx, rxFailed>>
      BY SameRooms DEF RunInv, taskVars
    <2> QED BY <2>1 DEF Stages
  <1> QED BY <1>1, <1>2 DEF RunInv

\* A task is started: it takes part in nothing yet.
LEMMA LaunchKeeps ==
    ASSUME RunInv, options' = options, Launch
    PROVE  RunInv'
  <1> DEFINE left == {d \in Clients : tx[d] = "unlaunched"}
             c == Min(left)
  <1>0. /\ Types /\ Stages /\ Bounded /\ Clients' = Clients /\ RoomIndexes' = RoomIndexes
        /\ Clients \subseteq Nat
    BY SameRooms, RoomTypes DEF RunInv, Types
  <1>1. /\ main = "launch"
        /\ UNCHANGED <<sequence, successful, completed, nextTicket, progress, wire, got,
                       rxFailed, txFailed, failedClients>>
    BY DEF Launch
  <1>2. ASSUME left # {} PROVE c \in Clients /\ tx[c] = "unlaunched"
    <2>1. left \in SUBSET Nat
      BY <1>0
    <2>2. Min(left) \in left
      <3> HIDE DEF left
      <3> QED BY <1>2, <2>1, MinIsLeast
    <2> QED BY <2>2
  <1>3. CASE left # {} /\ rx[c] = "unlaunched" /\ rx' = [rx EXCEPT ![c] = "new"]
             /\ main' = main /\ tx' = tx
    <2>1. c \in Clients
      BY <1>2, <1>3
    <2> HIDE DEF c
    <2>2. rx'[c] = "new" /\ \A d \in Clients : d # c => rx'[d] = rx[d]
      BY <1>0, <1>3, <2>1 DEF Types
    <2>3. "new" \in RxStates
      BY DEF RxStates
    <2>4. Types'
      BY <1>0, <1>1, <1>3, <2>1, <2>3 DEF Types
    <2>5. Bounded' /\ Counters'
      BY <1>1, <1>3, SendersRest
    <2>6. Receipts'
      BY <1>1, ReceiptsStay
    <2>7. Stages'
      BY <1>0, <1>1, <1>3, <2>2 DEF Stages
    <2>8. ASSUME NEW r \in RoomIndexes PROVE Left(InRoom(r), r)'
      <3> DEFINE R == InRoom(r)
      <3>1. R' = R /\ R \subseteq Clients
        BY <1>0, SameRooms, RoomTypes DEF Types
      <3>2. Left(R, r)
        BY DEF RunInv, Leaves
      <3>3. \A d \in R : rx'[d] \in {"unready", "ended"} => rx'[d] = rx[d]
        BY <2>2, <3>1
      <3> HIDE DEF R
      <3>4. UNCHANGED <<tx, got, rxFailed, successful>>
        BY <1>1, <1>3
      <3>5. \A d \in R : /\ rx'[d] = "unready" => d \in rxFailed'
                         /\ rx'[d] = "ended" /\ d \notin rxFailed' =>
                              /\ Finished(R, tx') = R
                              /\ Cardinality(got'[d]) >= successful'[r]
        BY <3>2, <3>3, <3>4 DEF Left
      <3> QED BY <3>1, <3>5 DEF Left, R
    <2> QED BY <2>4, <2>5, <2>6, <2>7, <2>8, RoomByRoom DEF RunInv
  <1>4. CASE left # {} /\ rx[c] # "unlaunched" /\ tx' = [tx EXCEPT ![c] = "new"]
             /\ main' = main /\ rx' = rx
    <2>1. c \in Clients /\ tx[c] = "unlaunched"
      BY <1>2, <1>4
    <2> HIDE DEF c
    <2>2. tx'[c] = "new" /\ \A d \in Clients : d # c => tx'[d] = tx[d]
      BY <1>0, <1>4, <2>1 DEF Types
    <2>3. "new" \in TxStates
      BY DEF TxStates
    <2>4. Types'
      BY <1>0, <1>1, <1>4, <2>1, <2>3 DEF Types
    <2>5. Bounded'
      BY <1>0, <1>1, <2>1, <2>2 DEF Bounded
    <2>6. Receipts'
      BY <1>1, ReceiptsStay
    <2>7. Stages'
      BY <1>0, <1>1, <1>4, <2>2 DEF Stages
    <2>8. ASSUME NEW r \in RoomIndexes
          PROVE  Counted(InRoom(r), r)' /\ Left(InRoom(r), r)'
      <3>1. InRoom(r) \subseteq Clients
        BY <1>0, RoomTypes DEF Types
      <3>2. \A s \in InRoom(r) : /\ tx'[s] = "ended" <=> tx[s] = "ended"
                                 /\ tx'[s] = "record" <=> tx[s] = "record"
                                 /\ tx'[s] = "send" <=> tx[s] = "send"
        BY <2>1, <2>2, <3>1
      <3>3. Counted(InRoom(r), r)'
        BY <1>1, <3>2, CountersKept
      <3>4. Left(InRoom(r), r)'
        BY <1>1, <1>4, <3>2, LeavesKept
      <3> QED BY <3>3, <3>4
    <2> QED BY <2>4, <2>5, <2>6, <2>7, <2>8, RoomByRoom DEF RunInv
  <1>5. CASE left = {} /\ main' = "join" /\ rx' = rx /\ tx' = tx
    <2>1. Types'
      BY <1>0, <1>1, <1>5 DEF Types
    <2>2. Bounded' /\ Counters'
      BY <1>1, <1>5, SendersRest
    <2>3. Receipts'
      BY <1>1, ReceiptsStay
    <2>4. ASSUME NEW r \in RoomIndexes PROVE Left(InRoom(r), r)'
      BY <1>1, <1>5, LeavesKept
    <2>5. Stages'
      BY <1>0, <1>5 DEF Stages
    <2> QED BY <2>1, <2>2, <2>3, <2>4, <2>5, RoomByRoom DEF RunInv
  <1> HIDE DEF left
  <1>6. \/ left # {} /\ rx[c] = "unlaunched" /\ rx' = [rx EXCEPT ![c] = "new"]
           /\ main' = main /\ tx' = tx
        \/ left # {} /\ rx[c] # "unlaunched" /\ tx' = [tx EXCEPT ![c] = "new"]
           /\ main' = main /\ rx' = rx
        \/ left = {} /\ main' = "join" /\ rx' = rx /\ tx' = tx
    BY DEF Launch, left
  <1> QED BY <1>3, <1>4, <1>5, <1>6

\* The report counts every receiver that failed.
LEMMA CollectKeeps ==
    ASSUME RunInv, options' = options, Collect
    PROVE  RunInv'
  <1>0. Types /\ Stages /\ Clients' = Clients /\ IsFiniteSet(Clients)
    BY SameRooms, RoomTypes DEF RunInv, Types
  <1>1. UNCHANGED taskVars /\ main = "join" /\ main' = "ended" /\ Joined
    BY DEF Collect
  <1>2. Types' /\ Bounded' /\ Counters' /\ Receipts' /\ Leaves'
    BY <1>1, TasksStay
  <1>3. UNCHANGED <<rx, tx, rxFailed>>
    BY <1>1 DEF taskVars
  <1>4. ASSUME NEW c \in Clients PROVE rx[c] = "ended" /\ tx[c] # "unlaunched"
    <2>1. tx[c] # "unlaunched" /\ rx[c] # "unlaunched"
      BY <1>0, <1>1 DEF Stages
    <2> QED BY <1>1, <2>1 DEF Joined
  <1>5. ASSUME failedClients' = 0 PROVE rxFailed = {}
    <2>1. PICK failing \in SUBSET Graceful :
            failedClients' = Cardinality(rxFailed \cup txFailed) + Cardinality(failing)
      BY DEF Collect
    <2>2. rxFailed \cup txFailed \in SUBSET Clients /\ failing \in SUBSET Clients
      BY <1>0 DEF Types, Graceful
    <2>3. IsFiniteSet(rxFailed \cup txFailed) /\ IsFiniteSet(failing)
      BY <1>0, <2>2, FS_Subset
    <2>4. Cardinality(rxFailed \cup txFailed) \in Nat /\ Cardinality(failing) \in Nat
      BY <2>3, FS_CardinalityType
    <2>5. Cardinality(rxFailed \cup txFailed) = 0
      BY <1>5, <2>1, <2>4
    <2>6. rxFailed \cup txFailed = {}
      BY <2>3, <2>5, FS_EmptySet
    <2> QED BY <2>6
  <1>6. Stages'
    <2>1. \A c \in Clients : rx'[c] = "ended" /\ tx'[c] # "unlaunched"
      BY <1>3, <1>4
    <2>2. failedClients' = 0 => rxFailed' = {}
      BY <1>3, <1>5
    <2> QED BY <1>0, <2>1, <2>2 DEF Stages
  <1> QED BY <1>2, <1>6 DEF RunInv

LEMMA MainKeeps ==
    ASSUME RunInv, options' = options, Main \/ DeadlinePasses
    PROVE  RunInv'
  <1>1. CASE SetupCall
    <2>1. main' \notin {"join", "ended"} /\ UNCHANGED taskVars
      BY <1>1 DEF SetupCall
    <2> QED BY <2>1, CallerMoves
  <1>2. CASE SetupFails
    <2>1. main' \notin {"join", "ended"} /\ UNCHANGED taskVars
      BY <1>2 DEF SetupFails
    <2> QED BY <2>1, CallerMoves
  <1>3. CASE Launch
    BY <1>3, LaunchKeeps
  <1>4. CASE LaunchFails
    <2>1. main' \notin {"join", "ended"} /\ UNCHANGED taskVars
      BY <1>4 DEF LaunchFails
    <2> QED BY <2>1, CallerMoves
  <1>5. CASE Collect
    BY <1>5, CollectKeeps
  <1>6. CASE Rethrow
    <2>1. main' \notin {"join", "ended"} /\ UNCHANGED taskVars
      BY <1>6 DEF Rethrow
    <2> QED BY <2>1, CallerMoves
  <1>7. CASE DeadlinePasses
    <2>1. main' = main /\ failedClients' = failedClients /\ UNCHANGED taskVars
      BY <1>7 DEF DeadlinePasses
    <2> QED BY <2>1, CallerMoves
  <1> QED BY <1>1, <1>2, <1>3, <1>4, <1>5, <1>6, <1>7 DEF Main

-----------------------------------------------------------------------------
\* The theorems.

LEMMA UptoNothing ==
    ASSUME NEW R, NEW n \in Nat, NEW q, \A s \in R : q[s] = 0
    PROVE  Upto(R, n, q) = {} /\ Cardinality(Upto(R, n, q)) = 0
  <1>1. ASSUME NEW m \in Upto(R, n, q) PROVE FALSE
    <2>1. m \in R \X (0..n) /\ m[2] < q[m[1]]
      BY DEF Upto
    <2>2. m[1] \in R /\ m[2] \in 0..n
      BY <2>1
    <2>3. m[2] < 0
      BY <2>1, <2>2
    <2> QED BY <2>2, <2>3
  <1> QED BY <1>1, FS_EmptySet

LEMMA InitRunInv == Init => RunInv
  <1> SUFFICES ASSUME Init PROVE RunInv
    OBVIOUS
  <1>0. options \in Runs /\ main = "setup"
    BY DEF Init
  <1>1. /\ \A r : InRoom(r) \subseteq Clients
        /\ options.messages \in Nat /\ options.messages > 0 /\ Window \in Nat
    BY <1>0, RoomTypes, OptionTypes
  <1>2. /\ \A c \in Clients : /\ rx[c] = "unlaunched" /\ tx[c] = "unlaunched"
                              /\ sequence[c] = 0 /\ progress[c] = 0
                              /\ wire[c] = {} /\ got[c] = {}
        /\ \A r \in RoomIndexes : /\ successful[r] = 0 /\ completed[r] = 0
                                  /\ nextTicket[r] = 0
    BY DEF Init
  <1>3. Types
    <2>1. "unlaunched" \in RxStates /\ "unlaunched" \in TxStates
      BY DEF RxStates, TxStates
    <2> QED BY <2>1 DEF Init, Types
  <1>4. Bounded
    BY <1>1, <1>2 DEF Bounded
  <1>5. ASSUME NEW r \in RoomIndexes PROVE Counted(InRoom(r), r)
    <2> DEFINE R == InRoom(r)
               n == options.messages
    <2>1. \A s \in R : tx[s] = "unlaunched" /\ sequence[s] = 0
      BY <1>1, <1>2
    <2> HIDE DEF R
    <2>2. \A s \in R : /\ Recorded(R, tx, sequence)[s] = 0
                       /\ Permitted(R, tx, sequence)[s] = 0
      BY <2>1 DEF Recorded, Permitted
    <2>3. /\ Cardinality(Upto(R, n, Recorded(R, tx, sequence))) = 0
          /\ Cardinality(Upto(R, n, Permitted(R, tx, sequence))) = 0
      BY <1>1, <2>2, UptoNothing
    <2>4. Finished(R, tx) = {}
      BY <2>1 DEF Finished
    <2>5. Cardinality(Finished(R, tx)) = 0
      BY <2>4, FS_EmptySet
    <2> QED BY <1>2, <2>3, <2>5 DEF Counted, R
  <1>6. ASSUME NEW r \in RoomIndexes PROVE Received(InRoom(r), r)
    <2>1. ASSUME NEW c \in InRoom(r)
          PROVE  /\ wire[c] = {} /\ got[c] = {} /\ progress[c] = 0 /\ nextTicket[r] = 0
                 /\ Cardinality(got[c]) = 0
      BY <1>1, <1>2, FS_EmptySet
    <2> QED BY <1>1, <2>1 DEF Received
  <1>7. ASSUME NEW r \in RoomIndexes PROVE Left(InRoom(r), r)
    <2>1. \A c \in InRoom(r) : rx[c] = "unlaunched"
      BY <1>1, <1>2
    <2> QED BY <2>1 DEF Left
  <1>8. Stages
    BY <1>0, <1>2 DEF Stages
  <1> QED BY <1>3, <1>4, <1>5, <1>6, <1>7, <1>8 DEF RunInv, Counters, Receipts, Leaves

LEMMA NextRunInv == RunInv /\ [Next]_vars => RunInv'
  <1> SUFFICES ASSUME RunInv, [Next]_vars PROVE RunInv'
    OBVIOUS
  <1>1. CASE Next
    <2>1. options' = options
      BY <1>1 DEF Next
    <2>2. CASE Main \/ DeadlinePasses
      BY <2>1, <2>2, MainKeeps
    <2>3. CASE \E c \in Clients : Receiver(c) \/ Sender(c)
      <3>1. PICK c \in Clients : Receiver(c) \/ Sender(c)
        BY <2>3
      <3>2. Acting(c)
        BY <2>1 DEF Acting
      <3> QED BY <3>1, <3>2, ReceiverKeeps, SenderKeeps
    <2> QED BY <1>1, <2>2, <2>3 DEF Next
  <1>2. CASE UNCHANGED vars
    <2>1. options' = options /\ UNCHANGED taskVars /\ main' = main
          /\ failedClients' = failedClients
      BY <1>2 DEF vars, runVars
    <2> QED BY <2>1, CallerMoves
  <1> QED BY <1>1, <1>2

\* The counters of a room say what its senders have done, receipts are messages
\* that were sent, and no permit is given beyond the window.
THEOREM RunInvariant == Spec => []RunInv
  <1> QED BY InitRunInv, NextRunInv, PTL DEF Spec

\* The messages sent in the room of a client.
LEMMA SentInRoom ==
    ASSUME NEW r
    PROVE  SentIn(r) = Upto(InRoom(r), options.messages, sequence)
  BY DEF SentIn, FirstMessages, Upto

\* When the last sender of a room is done, all its messages are recorded.
LEMMA AllRecorded ==
    ASSUME RunInv, NEW r \in RoomIndexes, Finished(InRoom(r), tx) = InRoom(r)
    PROVE  successful[r] = Cardinality(Upto(InRoom(r), options.messages, sequence))
  <1> DEFINE R == InRoom(r)
  <1>1. Counted(R, r) /\ options.messages \in Nat
    BY OptionTypes DEF RunInv, Types, Counters
  <1> HIDE DEF R
  <1>2. \A s \in R : tx[s] = "ended"
    BY DEF Finished, R
  <1>3. \A s \in R : Recorded(R, tx, sequence)[s] = sequence[s]
    BY <1>2 DEF Recorded
  <1>4. Upto(R, options.messages, Recorded(R, tx, sequence))
          = Upto(R, options.messages, sequence)
    BY <1>1, <1>3, UptoSame
  <1> QED BY <1>1, <1>4 DEF Counted, R

\* runOnce: a report without failed clients says that every client has had every
\* message of its room, however the receivers' looks at the shared counters and
\* the senders' updates of them interleave, with any number of clients, rooms and
\* messages, and with any server.
THEOREM CleanAlwaysComplete == Spec => []CleanIsComplete
  <1>1. RunInv => CleanIsComplete
    <2> SUFFICES ASSUME RunInv, main = "ended", failedClients = 0, NEW c \in Clients
                 PROVE  /\ got[c] = SentIn(RoomOf(c))
                        /\ Cardinality(got[c]) = successful[RoomOf(c)]
      BY DEF CleanIsComplete
    <2> DEFINE r == RoomOf(c)
               R == InRoom(r)
               sent == Upto(R, options.messages, sequence)
    <2>1. r \in RoomIndexes /\ c \in R /\ IsFiniteSet(R) /\ options.messages \in Nat
      BY RoomTypes, OptionTypes DEF RunInv, Types
    <2>2. rx[c] = "ended" /\ c \notin rxFailed
      BY DEF RunInv, Stages
    <2>3. Left(R, r)
      BY <2>1 DEF RunInv, Leaves
    <2>4. Finished(R, tx) = R /\ Cardinality(got[c]) >= successful[r]
      BY <2>1, <2>2, <2>3 DEF Left
    <2>5. successful[r] = Cardinality(sent)
      BY <2>1, <2>4, AllRecorded
    <2>6. got[c] \in SUBSET sent /\ Cardinality(got[c]) \in Nat
      BY <2>1, ReceiptsOf
    <2>7. IsFiniteSet(sent) /\ Cardinality(sent) \in Nat
      BY <2>1, UptoFinite
    <2> HIDE DEF sent, r
    <2>8. Cardinality(got[c]) <= Cardinality(sent)
      BY <2>6, <2>7, FS_Subset
    <2>9. Cardinality(got[c]) = Cardinality(sent)
      BY <2>4, <2>5, <2>6, <2>7, <2>8
    <2>10. got[c] = sent
      BY <2>6, <2>7, <2>9, FS_Subset
    <2> QED BY <2>5, <2>9, <2>10, SentInRoom DEF sent, r
  <1> QED BY <1>1, RunInvariant, PTL

\* acquireSendPermit: the senders of a room are never more than the window ahead
\* of what its slowest receiver has taken, with any number of clients and rooms.
THEOREM WindowAlwaysKept == Spec => []WithinWindow
  <1>1. RunInv => WithinWindow
    <2> SUFFICES ASSUME RunInv, Window > 0, NEW c \in Clients
                 PROVE  Cardinality(SentIn(RoomOf(c))) <= Cardinality(got[c]) + Window
      BY DEF WithinWindow
    <2> DEFINE r == RoomOf(c)
               R == InRoom(r)
               n == options.messages
               p == Permitted(R, tx, sequence)
    <2>1. r \in RoomIndexes /\ c \in R /\ IsFiniteSet(R) /\ n \in Nat
      BY RoomTypes, OptionTypes DEF RunInv, Types
    <2>2. /\ progress[c] <= Cardinality(got[c]) /\ nextTicket[r] <= progress[c] + Window
          /\ Cardinality(got[c]) \in Nat /\ progress[c] \in Nat /\ nextTicket[r] \in Nat
          /\ Window \in Nat
      BY <2>1, ReceiptsOf
    <2>3. Cardinality(Upto(R, n, p)) <= nextTicket[r]
      BY <2>1 DEF RunInv, Counters, Counted
    <2>4. \A s \in R : p[s] \in Nat /\ sequence[s] \in Nat
      BY <2>1, CountTypes
    <2>5. \A s \in R : sequence[s] <= p[s]
      <3> HIDE DEF R
      <3>1. \A s \in R : sequence[s] \in Nat
        BY <2>4
      <3> QED BY <3>1 DEF Permitted
    <2> HIDE DEF p
    <2>6. Cardinality(Upto(R, n, sequence)) <= Cardinality(Upto(R, n, p))
      <3> HIDE DEF R, n
      <3> QED BY <2>1, <2>4, <2>5, UptoMonotone
    <2>7. Cardinality(Upto(R, n, sequence)) \in Nat /\ Cardinality(Upto(R, n, p)) \in Nat
      BY <2>1, UptoFinite
    <2>8. SentIn(r) = Upto(R, n, sequence)
      BY SentInRoom
    <2> HIDE DEF R, n, r
    <2>9. Cardinality(Upto(R, n, sequence)) <= Cardinality(got[c]) + Window
      BY <2>2, <2>3, <2>6, <2>7
    <2> QED BY <2>8, <2>9 DEF r
  <1> QED BY <1>1, RunInvariant, PTL
=============================================================================
