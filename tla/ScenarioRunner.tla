--------------------------- MODULE ScenarioRunner ---------------------------
(***************************************************************************)
(* rss::tools::ScenarioRunner::runOnce (apps/load-scenario-runner/src/       *)
(* ScenarioRunner.cpp): the thread that sets the clients up, starts a        *)
(* receiver and a sender thread for every fast client behind one barrier,    *)
(* joins them and adds the results up.  Senders of a room take turns and keep *)
(* at most Window messages ahead of the slowest receiver.  The server is     *)
(* external: it broadcasts what is sent, and when it is not Reliable loses   *)
(* or repeats broadcasts and drops connections.                             *)
(***************************************************************************)
EXTENDS Naturals, FiniteSets, FiniteSetsExt

CONSTANT Runs    \* the runs of the tool that are looked at

\* The options of the tool, and what surrounds it in one run.
OptionRecords ==
    [fast: Nat \ {0}, slow: Nat,      \* clients that take part, or only sit there
     rooms: Nat \ {0}, messages: Nat \ {0},
     window: Nat,                     \* effective_max_in_flight, 0 for no window
     paced: BOOLEAN,                  \* there is a ReceiveProgress: a window or a rate
     external: BOOLEAN,               \* cleanup closes each client gracefully
     reliable: BOOLEAN,               \* the server neither loses nor repeats
     failures: SUBSET {"setup", "thread", "hook"},  \* what may throw
     deadline: BOOLEAN]               \* the scenario timeout may pass

ASSUME ScenarioAssumption ==
    \A o \in Runs :
        /\ o \in OptionRecords /\ o.rooms <= o.fast /\ (o.window > 0 => o.paced)
        /\ o.slow > 0 => o.rooms = 1 /\ ~o.external

VARIABLE options

Fast == options.fast
Slow == options.slow
RoomCount == options.rooms
Window == options.window
Paced == options.paced
Reliable == options.reliable
Failures == options.failures

Clients == 0..(Fast - 1)
RoomIndexes == 0..(RoomCount - 1)
RoomOf(c) == c % RoomCount
InRoom(r) == {c \in Clients : RoomOf(c) = r}
RoomSize(r) == Cardinality(InRoom(r))

VARIABLES
    main,         \* what the calling thread is doing
    setup,        \* setup calls that have returned
    rx, tx,       \* where the receiver and the sender of a client are
    sequence,     \* messages a sender has sent
    successful,   \* successful_sends_by_room
    completed,    \* completed_senders_by_room
    nextTicket,   \* next_ticket of a room
    progress,     \* received_by_client
    roomFailed,   \* ReceiveProgress::failed of a room
    wire,         \* broadcasts on their way to a client
    got,          \* identities a receiver has
    rxFailed, txFailed, \* clients with a failure
    failedClients, \* result.failed_clients
    late          \* scenario_deadline has passed

taskVars == <<rx, tx, sequence, successful, completed, nextTicket, progress,
              roomFailed, wire, got, rxFailed, txFailed>>
runVars == <<main, setup, taskVars, failedClients, late>>
vars == <<options, runVars>>

Init ==
    /\ options \in Runs
    /\ main = "setup" /\ setup = 0 /\ failedClients = 0 /\ late = FALSE
    /\ rx = [c \in Clients |-> "unlaunched"] /\ tx = [c \in Clients |-> "unlaunched"]
    /\ sequence = [c \in Clients |-> 0] /\ progress = [c \in Clients |-> 0]
    /\ successful = [r \in RoomIndexes |-> 0] /\ completed = [r \in RoomIndexes |-> 0]
    /\ nextTicket = [r \in RoomIndexes |-> 0]
    /\ roomFailed = [r \in RoomIndexes |-> FALSE]
    /\ wire = [c \in Clients |-> {}] /\ got = [c \in Clients |-> {}]
    /\ rxFailed = {} /\ txFailed = {}

-----------------------------------------------------------------------------
\* Every client connects and logs in, every client creates or joins its room,
\* the slow ones shrink their receive buffer: completed_setup_clients.
All == Fast + Slow
SetupCalls == 2 * All + Slow
CompletedSetup ==
    IF setup <= All THEN 0
    ELSE IF setup <= 2 * All THEN Min({setup - All, Fast})
    ELSE Fast + setup - 2 * All

SetupCall ==
    /\ main = "setup"
    /\ setup' = setup + 1
    /\ main' = IF setup' = SetupCalls THEN "launch" ELSE "setup"
    /\ UNCHANGED <<taskVars, failedClients, late>>

\* setupFailureResult.
SetupFails ==
    /\ main = "setup" /\ "setup" \in Failures
    /\ failedClients' = All - CompletedSetup
    /\ main' = "setupFailed"
    /\ UNCHANGED <<setup, taskVars, late>>

\* The tasks of a client are started one after the other.
Launch ==
    /\ main = "launch"
    /\ LET left == {c \in Clients : tx[c] = "unlaunched"}
           c == Min(left)
       IN  \/ /\ left # {} /\ rx[c] = "unlaunched"
              /\ rx' = [rx EXCEPT ![c] = "new"] /\ UNCHANGED <<main, tx>>
           \/ /\ left # {} /\ rx[c] # "unlaunched"
              /\ tx' = [tx EXCEPT ![c] = "new"] /\ UNCHANGED <<main, rx>>
           \/ left = {} /\ main' = "join" /\ UNCHANGED <<rx, tx>>
    /\ UNCHANGED <<setup, sequence, successful, completed, nextTicket, progress,
                   roomFailed, wire, got, rxFailed, txFailed, failedClients, late>>

\* A thread cannot be started: the missing participants leave the barrier, and
\* the tasks that run are joined before the exception goes on.
LaunchFails ==
    /\ main = "launch" /\ "thread" \in Failures
    /\ main' = "abandon"
    /\ UNCHANGED <<setup, taskVars, failedClients, late>>

\* Every task that was started, and the calling thread, have arrived.
BarrierOpen ==
    /\ main \notin {"setup", "launch"}
    /\ \A c \in Clients : rx[c] # "new" /\ tx[c] # "new"

-----------------------------------------------------------------------------
\* recordProgressFailure, when the room has a ReceiveProgress.
FailRoom(c) == roomFailed' = [roomFailed EXCEPT ![RoomOf(c)] = @ \/ Paced]

RxGoes(c, to) == rx' = [rx EXCEPT ![c] = to]
TxGoes(c, to) == tx' = [tx EXCEPT ![c] = to]
countVars == <<main, setup, failedClients, late>>

RxFails(c) ==
    /\ RxGoes(c, "ended") /\ rxFailed' = rxFailed \cup {c} /\ FailRoom(c)
    /\ UNCHANGED <<countVars, tx, sequence, successful, completed, nextTicket,
                   progress, wire, got, txFailed>>

\* runTaskHook before the barrier, and the barrier itself.
RxArrives(c) ==
    /\ rx[c] = "new"
    /\ \/ RxGoes(c, "ready") /\ UNCHANGED <<rxFailed, roomFailed>>
       \/ /\ "hook" \in Failures /\ RxGoes(c, "unready")
          /\ rxFailed' = rxFailed \cup {c} /\ FailRoom(c)
    /\ UNCHANGED <<countVars, tx, sequence, successful, completed, nextTicket,
                   progress, wire, got, txFailed>>

RxStarts(c) ==
    /\ BarrierOpen /\ rx[c] \in {"ready", "unready"}
    /\ \/ /\ RxGoes(c, IF rx[c] = "ready" THEN "receive" ELSE "ended")
          /\ UNCHANGED <<countVars, tx, sequence, successful, completed, nextTicket,
                         progress, roomFailed, wire, got, rxFailed, txFailed>>
       \/ rx[c] = "ready" /\ "hook" \in Failures /\ RxFails(c)   \* before_receive

SendsSeenMutant(c) == Cardinality(got[c]) >= successful[RoomOf(c)]

\* roomSendSnapshot says that there is nothing more to come.
SendsSeen(c) ==
    /\ completed[RoomOf(c)] = RoomSize(RoomOf(c))
    /\ Cardinality(got[c]) >= successful[RoomOf(c)]

\* receiveBroadcasts: the end, the deadline, or a packet or none.
RxTimesOut(c) == rx[c] = "receive" /\ ~SendsSeen(c) /\ late /\ RxFails(c)

RxFinishes(c) ==
    /\ rx[c] = "receive" /\ SendsSeen(c)
    /\ RxGoes(c, "ended")
    /\ UNCHANGED <<countVars, tx, sequence, successful, completed, nextTicket,
                   progress, roomFailed, wire, got, rxFailed, txFailed>>

RxReceives(c) ==
    /\ rx[c] = "receive" /\ ~SendsSeen(c) /\ ~late
    /\ \E m \in wire[c] :
         /\ \/ wire' = [wire EXCEPT ![c] = @ \ {m}]
            \/ ~Reliable /\ UNCHANGED wire
         /\ got' = [got EXCEPT ![c] = @ \cup {m}]
         /\ RxGoes(c, IF m \in got[c] \/ ~Paced THEN "receive" ELSE "tell")
    /\ UNCHANGED <<countVars, tx, sequence, successful, completed, nextTicket,
                   progress, roomFailed, rxFailed, txFailed>>

RecordReceiveProgress(c) ==
    /\ rx[c] = "tell"
    /\ progress' = [progress EXCEPT ![c] = Cardinality(got[c])]
    /\ RxGoes(c, "receive")
    /\ UNCHANGED <<countVars, tx, sequence, successful, completed, nextTicket,
                   roomFailed, wire, got, rxFailed, txFailed>>

RxDropped(c) == ~Reliable /\ rx[c] = "receive" /\ RxFails(c)

-----------------------------------------------------------------------------
TxFails(c) ==
    /\ TxGoes(c, "complete") /\ txFailed' = txFailed \cup {c} /\ FailRoom(c)
    /\ UNCHANGED <<countVars, rx, sequence, successful, completed, nextTicket,
                   progress, wire, got, rxFailed>>

TxArrives(c) ==
    /\ tx[c] = "new"
    /\ \/ TxGoes(c, "ready") /\ UNCHANGED <<txFailed, roomFailed>>
       \/ /\ "hook" \in Failures /\ TxGoes(c, "unready")
          /\ txFailed' = txFailed \cup {c} /\ FailRoom(c)
    /\ UNCHANGED <<countVars, rx, sequence, successful, completed, nextTicket,
                   progress, wire, got, rxFailed>>

AfterBarrierMutant(c) == IF tx[c] = "ready" THEN "pace" ELSE "ended"

\* A sender that is not ready still reports that it is done.
AfterBarrier(c) == IF tx[c] = "ready" THEN "pace" ELSE "complete"

TxStarts(c) ==
    /\ BarrierOpen /\ tx[c] \in {"ready", "unready"}
    /\ TxGoes(c, AfterBarrier(c))
    /\ UNCHANGED <<countVars, rx, sequence, successful, completed, nextTicket,
                   progress, roomFailed, wire, got, rxFailed, txFailed>>

\* waitForSendTime.
WaitForSendTime(c) ==
    /\ tx[c] = "pace"
    /\ \/ Paced /\ (late \/ roomFailed[RoomOf(c)]) /\ TxFails(c)
       \/ /\ Paced => ~late /\ ~roomFailed[RoomOf(c)]
          /\ TxGoes(c, IF Window > 0 THEN "permit" ELSE "send")
          /\ UNCHANGED <<countVars, rx, sequence, successful, completed, nextTicket,
                         progress, roomFailed, wire, got, rxFailed, txFailed>>

Ticket(c) == sequence[c] * RoomSize(RoomOf(c)) + c \div RoomCount

MinimumReceived(r) == Min({progress[c] : c \in InRoom(r)})

MayTakeTicketMutant(c) ==
    LET r == RoomOf(c) IN
    Ticket(c) = nextTicket[r] /\ nextTicket[r] <= MinimumReceived(r) + Window

MayTakeTicket(c) ==
    LET r == RoomOf(c) IN
    Ticket(c) = nextTicket[r] /\ nextTicket[r] < MinimumReceived(r) + Window

\* acquireSendPermit.
AcquireSendPermit(c) ==
    /\ tx[c] = "permit"
    /\ \/ roomFailed[RoomOf(c)] /\ TxFails(c)
       \/ late /\ ~MayTakeTicket(c) /\ TxFails(c)
       \/ /\ ~roomFailed[RoomOf(c)] /\ MayTakeTicket(c)
          /\ nextTicket' = [nextTicket EXCEPT ![RoomOf(c)] = @ + 1]
          /\ TxGoes(c, "send")
          /\ UNCHANGED <<countVars, rx, sequence, successful, completed, progress,
                         roomFailed, wire, got, rxFailed, txFailed>>

\* sendChat: the broadcast goes to every client of the room, unless it is lost.
SendChat(c) ==
    /\ tx[c] = "send"
    /\ \/ late /\ TxFails(c)
       \/ (~Reliable \/ "hook" \in Failures) /\ TxFails(c)   \* before_send
       \/ /\ ~late
          /\ \E to \in SUBSET InRoom(RoomOf(c)) :
               /\ Reliable => to = InRoom(RoomOf(c))
               /\ wire' = [d \in Clients |->
                             IF d \in to THEN wire[d] \cup {<<c, sequence[c]>>} ELSE wire[d]]
          /\ sequence' = [sequence EXCEPT ![c] = @ + 1]
          /\ TxGoes(c, "record")
          /\ UNCHANGED <<countVars, rx, successful, completed, nextTicket, progress,
                         roomFailed, got, rxFailed, txFailed>>

RecordSuccessfulSend(c) ==
    /\ tx[c] = "record"
    /\ successful' = [successful EXCEPT ![RoomOf(c)] = @ + 1]
    /\ TxGoes(c, IF sequence[c] = options.messages THEN "complete" ELSE "pace")
    /\ UNCHANGED <<countVars, rx, sequence, completed, nextTicket, progress,
                   roomFailed, wire, got, rxFailed, txFailed>>

RecordSenderCompleted(c) ==
    /\ tx[c] = "complete"
    /\ completed' = [completed EXCEPT ![RoomOf(c)] = @ + 1]
    /\ TxGoes(c, "ended")
    /\ UNCHANGED <<countVars, rx, sequence, successful, nextTicket, progress,
                   roomFailed, wire, got, rxFailed, txFailed>>

Receiver(c) ==
    \/ RxArrives(c) \/ RxStarts(c) \/ RxTimesOut(c) \/ RxFinishes(c) \/ RxReceives(c)
    \/ RecordReceiveProgress(c) \/ RxDropped(c)

Sender(c) ==
    \/ TxArrives(c) \/ TxStarts(c) \/ WaitForSendTime(c) \/ AcquireSendPermit(c)
    \/ SendChat(c) \/ RecordSuccessfulSend(c) \/ RecordSenderCompleted(c)

-----------------------------------------------------------------------------
Joined == \A c \in Clients : rx[c] \in {"unlaunched", "ended"} /\ tx[c] \in {"unlaunched", "ended"}

\* Clients that failed are simply closed, the others may fail to close in time.
Graceful == Clients \ (rxFailed \cup txFailed)

\* The results, and with an external server the cleanup.
Collect ==
    /\ main = "join" /\ Joined
    /\ \E failing \in SUBSET Graceful :
         /\ failing # {} => options.external
         /\ failedClients' = Cardinality(rxFailed \cup txFailed) + Cardinality(failing)
    /\ main' = "ended"
    /\ UNCHANGED <<setup, taskVars, late>>

Rethrow ==
    /\ main = "abandon" /\ Joined
    /\ main' = "thrown"
    /\ UNCHANGED <<setup, taskVars, failedClients, late>>

Main == SetupCall \/ SetupFails \/ Launch \/ LaunchFails \/ Collect \/ Rethrow

DeadlinePasses ==
    /\ options.deadline /\ BarrierOpen /\ ~late
    /\ late' = TRUE
    /\ UNCHANGED <<main, setup, taskVars, failedClients>>

Next ==
    /\ Main \/ DeadlinePasses \/ \E c \in Clients : Receiver(c) \/ Sender(c)
    /\ UNCHANGED options

Spec == Init /\ [][Next]_vars

\* Threads run and time passes.
FairSpec ==
    /\ Spec /\ WF_runVars(Main) /\ WF_runVars(DeadlinePasses)
    /\ \A c \in UNION {0..(o.fast - 1) : o \in Runs} :
         /\ WF_runVars(c \in Clients /\ Receiver(c))
         /\ WF_runVars(c \in Clients /\ Sender(c))

-----------------------------------------------------------------------------
\* The first counts[s] messages of every client s of the room.
FirstMessages(r, counts) ==
    {m \in InRoom(r) \X (0..options.messages) : m[2] < counts[m[1]]}

SentIn(r) == FirstMessages(r, sequence)

\* A report without failed clients misses nothing: a receiver that left without
\* failing has had every broadcast of its room, those sent while it was looking
\* at the senders' counters too, and as many as the report expects of it.
CleanIsComplete ==
    main = "ended" /\ failedClients = 0 =>
      \A c \in Clients :
        got[c] = SentIn(RoomOf(c)) /\ Cardinality(got[c]) = successful[RoomOf(c)]

\* The senders of a room are together never more than the window ahead of its
\* slowest receiver, although permits are given before the messages are sent and
\* receipts counted after they are taken.
WithinWindow ==
    Window > 0 =>
      \A c \in Clients :
        Cardinality(SentIn(RoomOf(c))) <= Cardinality(got[c]) + Window

\* The run always ends: a task that fails, a thread that is not started, a lost
\* broadcast leave nobody at the barrier, in a permit or waiting for a packet.
RunEnds == <>(main \in {"ended", "thrown", "setupFailed"})
=============================================================================
