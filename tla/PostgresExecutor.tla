-------------------------- MODULE PostgresExecutor --------------------------
(***************************************************************************)
(* rss::persistence::postgres: PostgresExecutor, a pool of threads with one  *)
(* database connection each behind a bounded queue, and the                  *)
(* PostgresUserRepository whose tasks it runs                                *)
(* (libs/server-persistence-postgres/src).                                  *)
(*                                                                          *)
(* Callers of findOrCreateByNormalizedName, the threads and the thread that  *)
(* starts and stops the executor interleave; a step is one operation on the  *)
(* flag, the queue, a connection or the database.  start() has returned      *)
(* before the first request (apps/server/src/main.cpp).  The database is the *)
(* table of users under READ COMMITTED: a statement sees the rows of its     *)
(* start and conflicts with those of its end.                               *)
(***************************************************************************)
EXTENDS Naturals, Sequences, FiniteSets

CONSTANTS Threads,        \* one for each of worker_count_
          Names,          \* normalized user names
          PerName,        \* bound: requests for each name
          QueueCapacity,
          FaultSets       \* what may fail, of "connect", "thread", "submit", "database"

ASSUME ExecutorAssumption ==
    /\ IsFiniteSet(Threads) /\ Threads # {} /\ QueueCapacity \in Nat \ {0}
    /\ IsFiniteSet(Names) /\ PerName \in Nat

\* A request is a pair of its name and a number; NoRequest is none.
Requests == Names \X (1..PerName)
NoRequest == <<>>
Errors == {"Busy", "Stopping", "Unavailable", "Timeout", "Constraint", "InvalidData"}

\* UserResult: an error or a user.
NoAnswer == <<"none", 0>>
Failure(kind) == <<kind, 0>>
User(id) == <<"user", id>>

VARIABLES
    faults,      \* what may fail in this behaviour
    life,        \* where start() and stop() are
    connection,  \* of each thread: "none", "ok", "bad" or "finished"
    spawned,     \* threads_
    accepting,   \* accepting_
    tasks, closed, \* tasks_
    thread,      \* position of each thread in run(): "out", "pop", "query", "insert", "retry"
    task, saw,   \* its task, and whether its statement saw the row at its start
    caller,      \* position of each caller: "idle", "submit", "refused", "done"
    table, nextUser, \* the table of users; the next user id
    answer       \* what each callback was called with

lifeVars == <<life, spawned>>
queueVars == <<accepting, tasks, closed>>
threadVars == <<thread, task, saw>>
database == <<table, nextUser>>
runVars == <<lifeVars, connection, queueVars, threadVars, caller, database, answer>>
vars == <<faults, runVars>>

Init ==
    /\ faults \in FaultSets
    /\ life = "off" /\ spawned = {}
    /\ connection = [w \in Threads |-> "none"]
    /\ accepting = FALSE /\ tasks = <<>> /\ closed = FALSE
    /\ thread = [w \in Threads |-> "out"]
    /\ task = [w \in Threads |-> NoRequest] /\ saw = [w \in Threads |-> FALSE]
    /\ caller = [q \in Requests |-> "idle"]
    /\ table = [n \in Names |-> 0] /\ nextUser = 1
    /\ answer = [q \in Requests |-> NoAnswer]

-----------------------------------------------------------------------------
\* start(), first half: all connections, or none and an exception.
Connect ==
    /\ life = "off" /\ ~closed
    /\ \/ \E w \in Threads :
            /\ connection[w] = "none"
            /\ connection' = [connection EXCEPT ![w] = "ok"]
            /\ IF \A v \in Threads : connection'[v] = "ok"
               THEN life' = "spawning" /\ accepting' = TRUE
               ELSE UNCHANGED <<life, accepting>>
       \/ /\ "connect" \in faults
          /\ connection' = [w \in Threads |-> "none"]
          /\ UNCHANGED <<life, accepting>>
    /\ UNCHANGED <<spawned, tasks, closed, threadVars, caller, database, answer>>

\* start(), second half: a thread for each connection, or all is taken back.
Spawn ==
    /\ life = "spawning"
    /\ \/ \E w \in Threads \ spawned :
            /\ spawned' = spawned \cup {w}
            /\ thread' = [thread EXCEPT ![w] = "pop"]
            /\ life' = IF spawned' = Threads THEN "on" ELSE life
            /\ UNCHANGED <<accepting, closed>>
       \/ /\ "thread" \in faults
          /\ life' = "undoing" /\ accepting' = FALSE /\ closed' = TRUE
          /\ UNCHANGED <<spawned, thread>>
    /\ UNCHANGED <<connection, tasks, task, saw, caller, database, answer>>

\* stop() clears accepting_ ...
Stop ==
    /\ life = "on"
    /\ life' = "closing" /\ accepting' = FALSE
    /\ UNCHANGED <<spawned, connection, tasks, closed, threadVars, caller, database, answer>>

\* ... and closes tasks_, both under its mutex.
CloseTasks ==
    /\ life = "closing"
    /\ life' = "joining" /\ closed' = TRUE
    /\ UNCHANGED <<spawned, connection, accepting, tasks, threadVars, caller, database,
                   answer>>

JoinedMutant == TRUE

\* Every thread has left run().
Joined == \A w \in spawned : thread[w] = "out"

\* The end of stop() and of a start() that failed: the threads are joined, then
\* the connections finished.
Finish ==
    /\ life \in {"joining", "undoing"} /\ Joined
    /\ life' = (IF life = "joining" THEN "stopped" ELSE "failed") /\ spawned' = {}
    /\ connection' = [w \in Threads |-> "finished"]
    /\ UNCHANGED <<queueVars, threadVars, caller, database, answer>>

-----------------------------------------------------------------------------
\* findOrCreateByNormalizedName: submit() reads accepting_ ...
Ask(q) ==
    /\ caller[q] = "idle" /\ life \in {"on", "closing", "joining", "stopped"}
    /\ caller' = [caller EXCEPT ![q] = IF accepting THEN "submit" ELSE "refused"]
    /\ UNCHANGED <<lifeVars, connection, queueVars, threadVars, database, answer>>

HasRoom == ~closed /\ Len(tasks) < QueueCapacity

\* ... then tryPush, which a full or closed queue refuses; an exception on the
\* way is answered at once.
Submit(q) ==
    /\ caller[q] = "submit"
    /\ \/ /\ HasRoom
          /\ tasks' = Append(tasks, q)
          /\ caller' = [caller EXCEPT ![q] = "done"]
          /\ UNCHANGED answer
       \/ /\ ~HasRoom
          /\ caller' = [caller EXCEPT ![q] = "refused"]
          /\ UNCHANGED <<tasks, answer>>
       \/ /\ "submit" \in faults
          /\ caller' = [caller EXCEPT ![q] = "done"]
          /\ answer' = [answer EXCEPT ![q] = Failure("Unavailable")]
          /\ UNCHANGED tasks
    /\ UNCHANGED <<lifeVars, connection, accepting, closed, threadVars, database>>

RefuseMutant(q) ==
    /\ caller[q] = "refused"
    /\ caller' = [caller EXCEPT ![q] = "done"]
    /\ answer' = IF accepting THEN [answer EXCEPT ![q] = Failure("Busy")] ELSE answer
    /\ UNCHANGED <<lifeVars, connection, queueVars, threadVars, database>>

\* Not accepted: isRunning() tells Busy from Stopping.
Refuse(q) ==
    /\ caller[q] = "refused"
    /\ caller' = [caller EXCEPT ![q] = "done"]
    /\ answer' = [answer EXCEPT ![q] = Failure(IF accepting THEN "Busy" ELSE "Stopping")]
    /\ UNCHANGED <<lifeVars, connection, queueVars, threadVars, database>>

-----------------------------------------------------------------------------
\* pop() of a closed queue fails only when it is empty.
NoMore == closed /\ tasks = <<>>

\* run(): the next task, and a reset of a connection that is not OK.
Pop(w) ==
    /\ thread[w] = "pop"
    /\ \/ /\ NoMore
          /\ thread' = [thread EXCEPT ![w] = "out"]
          /\ UNCHANGED <<connection, tasks, task>>
       \/ /\ tasks # <<>>
          /\ tasks' = Tail(tasks)
          /\ task' = [task EXCEPT ![w] = Head(tasks)]
          /\ thread' = [thread EXCEPT ![w] = "query"]
          /\ \/ UNCHANGED connection
             \/ /\ connection[w] = "bad"
                /\ connection' = [connection EXCEPT ![w] = "ok"]
    /\ UNCHANGED <<lifeVars, accepting, closed, saw, caller, database, answer>>

\* deliver(): the task ends with the answer a.
Deliver(w, a) ==
    /\ answer' = [answer EXCEPT ![task[w]] = a]
    /\ thread' = [thread EXCEPT ![w] = "pop"]
    /\ task' = [task EXCEPT ![w] = NoRequest]

\* kFindOrCreateSql starts, and with it its snapshot.
Query(w) ==
    /\ thread[w] = "query"
    /\ saw' = [saw EXCEPT ![w] = table[task[w][1]] # 0]
    /\ thread' = [thread EXCEPT ![w] = "insert"]
    /\ UNCHANGED <<lifeVars, connection, queueVars, task, caller, database, answer>>

NewRowMutant(n) == table' = [table EXCEPT ![n] = nextUser] /\ nextUser' = nextUser + 1

\* The insert does nothing if the name is there ...
NewRow(n) ==
    IF table[n] = 0
    THEN table' = [table EXCEPT ![n] = nextUser] /\ nextUser' = nextUser + 1
    ELSE UNCHANGED database

RetriesMutant(w) == FALSE

\* ... and the statement returns no row if it was not there at its start.
Retries(w) == table[task[w][1]] # 0 /\ ~saw[w]

Insert(w) ==
    /\ thread[w] = "insert" /\ connection[w] = "ok"
    /\ NewRow(task[w][1])
    /\ \/ /\ Retries(w)
          /\ thread' = [thread EXCEPT ![w] = "retry"]
          /\ UNCHANGED <<task, answer>>
       \/ /\ ~Retries(w)
          /\ Deliver(w, IF table[task[w][1]] = 0 \/ saw[w] THEN User(table'[task[w][1]])
                        ELSE Failure("InvalidData"))
    /\ saw' = [saw EXCEPT ![w] = FALSE]
    /\ UNCHANGED <<lifeVars, connection, queueVars, caller>>

\* kFindSql.
Retry(w) ==
    /\ thread[w] = "retry" /\ connection[w] = "ok"
    /\ Deliver(w, User(table[task[w][1]]))
    /\ UNCHANGED <<lifeVars, connection, queueVars, saw, caller, database>>

\* A statement fails: the connection is not OK, or is lost before or after the
\* database has committed, or the statement is cancelled, violates a constraint or
\* is refused (resultErrorKind).
StatementFails(w) ==
    /\ thread[w] \in {"insert", "retry"}
    /\ \/ /\ connection[w] # "ok"
          /\ Deliver(w, Failure("Unavailable"))
          /\ UNCHANGED <<connection, database>>
       \/ /\ connection[w] = "ok" /\ "database" \in faults
          /\ \/ /\ connection' = [connection EXCEPT ![w] = "bad"]
                /\ Deliver(w, Failure("Unavailable"))
                /\ IF thread[w] = "insert" THEN NewRow(task[w][1]) \/ UNCHANGED database
                   ELSE UNCHANGED database
             \/ /\ \E kind \in {"Timeout", "Constraint", "Unavailable"} : Deliver(w, Failure(kind))
                /\ UNCHANGED <<connection, database>>
    /\ saw' = [saw EXCEPT ![w] = FALSE]
    /\ UNCHANGED <<lifeVars, queueVars, caller>>

\* The database closes a connection nobody is using.
ConnectionLost(w) ==
    /\ "database" \in faults /\ connection[w] = "ok" /\ thread[w] = "pop"
    /\ connection' = [connection EXCEPT ![w] = "bad"]
    /\ UNCHANGED <<lifeVars, queueVars, threadVars, caller, database, answer>>

Thread(w) == Pop(w) \/ Query(w) \/ Insert(w) \/ Retry(w) \/ StatementFails(w)
Caller(q) == Submit(q) \/ Refuse(q)

Next ==
    /\ \/ Connect \/ Spawn \/ Stop \/ CloseTasks \/ Finish
       \/ \E q \in Requests : Ask(q) \/ Caller(q)
       \/ \E w \in Threads : Thread(w) \/ ConnectionLost(w)
    /\ UNCHANGED faults

Spec == Init /\ [][Next]_vars

\* Callers and threads run on; stop() is not called for ever.
FairSpec ==
    /\ Spec
    /\ \A q \in Requests : WF_runVars(Caller(q))
    /\ \A w \in Threads : WF_runVars(Thread(w))

-----------------------------------------------------------------------------
\* Types; the queue is within its capacity.
TypeOK ==
    /\ life \in {"off", "spawning", "on", "closing", "joining", "stopped", "undoing",
                "failed"}
    /\ connection \in [Threads -> {"none", "ok", "bad", "finished"}]
    /\ Len(tasks) <= QueueCapacity
    /\ \A w \in Threads : task[w] \in Requests \cup {NoRequest}
    /\ \A q \in Requests :
         \/ answer[q][1] \in Errors \cup {"none"}
         \/ answer[q][1] = "user" /\ answer[q][2] \in 1..Cardinality(Names)

\* A thread that runs a task has a connection that is not finished (stop() joins
\* before finishConnections, PostgresExecutor.cpp:111-116), in a state of the
\* types above.
NoUseAfterFinish ==
    /\ TypeOK
    /\ \A w \in Threads : thread[w] # "out" => connection[w] \in {"ok", "bad"}

\* Two requests that make the same user at once both get it: without a fault the
\* only errors are Busy and Stopping (the retry with kFindSql).
RaceIsNoError ==
    faults = {} => \A q \in Requests :
                     answer[q][1] \notin {"Unavailable", "Timeout", "Constraint", "InvalidData"}

\* Every request is answered, whatever fails, however submit() races with stop()
\* (PostgresExecutor.cpp:93), and also when the executor is stopped between the
\* refusal and the question why (PostgresUserRepository.cpp:171).
EveryRequestAnswered ==
    \A q \in Requests : caller[q] # "idle" ~> answer[q] # NoAnswer

\* One user for each name, and one answer to each request.
Repository == INSTANCE UserRepository WITH registry <- table, answers <- answer
ImplementsRepository == Repository!Spec
=============================================================================
