----------------------- MODULE PostgresExecutorProofs -----------------------
(***************************************************************************)
(* PostgresExecutor never uses a finished connection, a race to make a user  *)
(* is no error, and the repository gives each name one user and each request *)
(* one answer, for any number of threads, names and requests.                *)
(***************************************************************************)
EXTENDS PostgresExecutor, FiniteSetTheorems, TLAPS

\* The thread has a task.
Busy(w) == thread[w] \in {"query", "insert", "retry"}

Types ==
    /\ life \in {"off", "spawning", "on", "closing", "joining", "stopped", "undoing",
                "failed"}
    /\ spawned \subseteq Threads
    /\ connection \in [Threads -> {"none", "ok", "bad", "finished"}]
    /\ accepting \in BOOLEAN /\ closed \in BOOLEAN
    /\ tasks \in Seq(Requests) /\ Len(tasks) <= QueueCapacity
    /\ thread \in [Threads -> {"out", "pop", "query", "insert", "retry"}]
    /\ task \in [Threads -> Requests \cup {NoRequest}]
    /\ saw \in [Threads -> BOOLEAN]
    /\ caller \in [Requests -> {"idle", "submit", "refused", "done"}]
    /\ table \in [Names -> Nat] /\ nextUser \in Nat \ {0}
    /\ answer \in [Requests -> (Errors \cup {"none", "user"}) \X Nat]
    /\ \A w \in Threads : Busy(w) => task[w] \in Requests

\* Threads are in run() only between start() and the end of stop(), where all have
\* their connection.
Alive ==
    /\ life \in {"spawning", "on", "closing", "joining", "undoing"} =>
          \A w \in Threads : connection[w] \in {"ok", "bad"}
    /\ \A w \in Threads : thread[w] # "out" =>
          w \in spawned /\ life \in {"spawning", "on", "closing", "joining", "undoing"}
    /\ life = "off" => \A w \in Threads : connection[w] \in {"none", "ok"}

\* Without a fault no connection is lost.
NoFault == faults = {} => \A w \in Threads : connection[w] # "bad"

\* The rows of the table are numbered one after the other, so there are as many user
\* ids as names with a user.
Rows == {n \in Names : table[n] # 0}
Numbered ==
    /\ \A n \in Names : table[n] < nextUser
    /\ nextUser = Cardinality(Rows) + 1

\* A user that was answered is the row of the name.
Answered ==
    \A q \in Requests :
        answer[q][1] = "user" => answer[q][2] = table[q[1]] /\ table[q[1]] # 0

\* The row that a statement saw, or that made it return none, is there for good.
RowSeen ==
    \A w \in Threads :
        ((thread[w] = "insert" /\ saw[w]) \/ thread[w] = "retry") =>
            table[task[w][1]] # 0

\* A request is with its caller, in the queue or with a thread, in one place and
\* until it is answered.
Once ==
    /\ \A q \in Requests : caller[q] # "done" =>
          /\ answer[q] = NoAnswer
          /\ \A i \in DOMAIN tasks : tasks[i] # q
          /\ \A w \in Threads : Busy(w) => task[w] # q
    /\ \A i \in DOMAIN tasks :
          /\ answer[tasks[i]] = NoAnswer
          /\ \A j \in DOMAIN tasks : tasks[j] = tasks[i] => j = i
          /\ \A w \in Threads : Busy(w) => task[w] # tasks[i]
    /\ \A w \in Threads : Busy(w) =>
          /\ answer[task[w]] = NoAnswer
          /\ \A v \in Threads : Busy(v) /\ task[v] = task[w] => v = w

ExecutorInv ==
    /\ Types /\ Alive /\ NoFault /\ Numbered /\ Answered /\ RowSeen /\ Once
    /\ RaceIsNoError

LEMMA RequestName == \A q \in Requests : q[1] \in Names
  BY DEF Requests

LEMMA NoAnswerType == NoAnswer \in (Errors \cup {"none", "user"}) \X Nat
                      /\ NoAnswer[1] = "none"
  BY DEF NoAnswer

\* The requests of a step that takes none up and answers none.
LEMMA KeepRequests ==
  ASSUME ExecutorInv,
         UNCHANGED <<faults, caller, tasks, answer, table, nextUser, task, saw>>,
         \A w \in Threads : thread'[w] = thread[w] \/ (~Busy(w) /\ ~Busy(w)')
  PROVE  /\ Numbered' /\ Answered' /\ RowSeen' /\ Once' /\ RaceIsNoError'
         /\ \A w \in Threads : Busy(w)' => Busy(w)
  <1>1. \A w \in Threads : Busy(w)' <=> Busy(w)
    BY DEF Busy
  <1>2. Numbered' /\ Answered' /\ RaceIsNoError'
    BY DEF ExecutorInv, Numbered, Rows, Answered, RaceIsNoError
  <1>3. RowSeen'
    BY DEF ExecutorInv, RowSeen, Busy
  <1>4. Once'
    BY <1>1 DEF ExecutorInv, Once
  <1> QED
    BY <1>1, <1>2, <1>3, <1>4

LEMMA InitExecutor == Init => ExecutorInv
  <1> SUFFICES ASSUME Init PROVE ExecutorInv
    OBVIOUS
  <1>1. \A w \in Threads : ~Busy(w) /\ thread[w] = "out"
    BY DEF Init, Busy
  <1>2. Types
    <2>1. /\ tasks \in Seq(Requests) /\ Len(tasks) <= QueueCapacity
      BY ExecutorAssumption DEF Init
    <2>2. answer \in [Requests -> (Errors \cup {"none", "user"}) \X Nat]
      BY NoAnswerType DEF Init
    <2>3. task \in [Threads -> Requests \cup {NoRequest}]
      BY DEF Init
    <2>4. saw \in [Threads -> BOOLEAN] /\ accepting \in BOOLEAN
          /\ closed \in BOOLEAN
      BY DEF Init
    <2> QED
      BY <1>1, <2>1, <2>2, <2>3, <2>4 DEF Init, Types
  <1>3. Alive /\ NoFault /\ RowSeen
    BY <1>1 DEF Init, Alive, NoFault, RowSeen
  <1>4. Numbered
    <2>1. Rows = {}
      BY DEF Init, Rows
    <2> QED
      BY <2>1, FS_EmptySet DEF Init, Numbered
  <1>5. Answered /\ RaceIsNoError
    BY NoAnswerType DEF Init, Answered, RaceIsNoError
  <1>6. Once
    BY <1>1 DEF Init, Once
  <1> QED
    BY <1>2, <1>3, <1>4, <1>5, <1>6 DEF ExecutorInv

-----------------------------------------------------------------------------
(* start() and stop().                                                      *)

LEMMA ConnectKeeps ==
  ASSUME ExecutorInv, Connect, UNCHANGED faults
  PROVE  ExecutorInv'
  <1> USE DEF Connect, threadVars, database
  <1>1. /\ Numbered' /\ Answered' /\ RowSeen' /\ Once' /\ RaceIsNoError'
        /\ \A w \in Threads : Busy(w)' => Busy(w)
    BY KeepRequests
  <1>2. Types'
    BY <1>1 DEF ExecutorInv, Types
  <1>3. Alive'
    BY ZenonT(60) DEF ExecutorInv, Types, Alive
  <1>4. NoFault'
    BY DEF ExecutorInv, Types, NoFault
  <1> QED
    BY <1>1, <1>2, <1>3, <1>4 DEF ExecutorInv

LEMMA SpawnKeeps ==
  ASSUME ExecutorInv, Spawn, UNCHANGED faults
  PROVE  ExecutorInv'
  <1> USE DEF Spawn, database
  <1>1. \A w \in Threads : thread'[w] = thread[w] \/ (~Busy(w) /\ ~Busy(w)')
    BY DEF ExecutorInv, Types, Alive, Busy
  <1>2. /\ Numbered' /\ Answered' /\ RowSeen' /\ Once' /\ RaceIsNoError'
        /\ \A w \in Threads : Busy(w)' => Busy(w)
    BY <1>1, KeepRequests
  <1>3. Types'
    BY ZenonT(60), <1>2 DEF ExecutorInv, Types
  <1>4. Alive'
    BY DEF ExecutorInv, Types, Alive
  <1>5. NoFault'
    BY DEF ExecutorInv, NoFault
  <1> QED
    BY <1>2, <1>3, <1>4, <1>5 DEF ExecutorInv

LEMMA StopKeeps ==
  ASSUME ExecutorInv, Stop \/ CloseTasks \/ Finish, UNCHANGED faults
  PROVE  ExecutorInv'
  <1> USE DEF Stop, CloseTasks, Finish, Joined, database, threadVars, queueVars
  <1>0. UNCHANGED <<caller, tasks, answer, table, nextUser, thread, task, saw>>
    OBVIOUS
  <1>1. /\ Numbered' /\ Answered' /\ RowSeen' /\ Once' /\ RaceIsNoError'
        /\ \A w \in Threads : Busy(w)' => Busy(w)
    BY <1>0, KeepRequests
  <1>2. Types'
    <2>1. /\ spawned' \subseteq Threads
          /\ connection' \in [Threads -> {"none", "ok", "bad", "finished"}]
          /\ life' \in {"closing", "joining", "stopped", "failed"}
          /\ accepting' \in BOOLEAN /\ closed' \in BOOLEAN
      BY ZenonT(60) DEF ExecutorInv, Types
    <2> QED
      BY <1>0, <1>1, <2>1 DEF ExecutorInv, Types
  <1>3. Alive'
    BY DEF ExecutorInv, Types, Alive
  <1>4. NoFault'
    BY DEF ExecutorInv, NoFault
  <1> QED
    BY <1>1, <1>2, <1>3, <1>4 DEF ExecutorInv

LEMMA ConnectionLostKeeps ==
  ASSUME ExecutorInv, NEW w \in Threads, ConnectionLost(w), UNCHANGED faults
  PROVE  ExecutorInv'
  <1> USE DEF ConnectionLost, database, threadVars, queueVars, lifeVars
  <1>1. /\ Numbered' /\ Answered' /\ RowSeen' /\ Once' /\ RaceIsNoError'
        /\ \A v \in Threads : Busy(v)' => Busy(v)
    BY KeepRequests
  <1>2. Types'
    BY <1>1 DEF ExecutorInv, Types
  <1>3. Alive'
    BY DEF ExecutorInv, Types, Alive
  <1>4. NoFault'
    BY DEF ExecutorInv, NoFault
  <1> QED
    BY <1>1, <1>2, <1>3, <1>4 DEF ExecutorInv

-----------------------------------------------------------------------------
(* The callers.                                                             *)

LEMMA AskKeeps ==
  ASSUME ExecutorInv, NEW q \in Requests, Ask(q) \/ Refuse(q), UNCHANGED faults
  PROVE  ExecutorInv'
  <1> USE DEF lifeVars, queueVars, threadVars, database
  <1>1. /\ UNCHANGED <<life, spawned, connection, accepting, tasks, closed,
                       thread, task, saw, table, nextUser>>
        /\ \A w \in Threads : Busy(w)' <=> Busy(w)
    BY DEF Ask, Refuse, Busy
  <1>2. /\ caller \in [Requests -> {"idle", "submit", "refused", "done"}]
        /\ answer \in [Requests -> (Errors \cup {"none", "user"}) \X Nat]
        /\ caller[q] # "done"
    BY DEF ExecutorInv, Types, Ask, Refuse
  <1>3. PICK a \in (Errors \cup {"none", "user"}) \X Nat,
             c \in {"submit", "refused", "done"} :
            /\ a[1] \in {"none", "Busy", "Stopping"}
            /\ answer' = [answer EXCEPT ![q] = a]
            /\ caller' = [caller EXCEPT ![q] = c]
            /\ c # "done" => a = NoAnswer
    <2>1. CASE Ask(q)
      <3>1. answer[q] = NoAnswer
        BY <1>2 DEF ExecutorInv, Once
      <3>2. answer' = [answer EXCEPT ![q] = NoAnswer]
        BY <1>2, <2>1, <3>1 DEF Ask
      <3>3. \/ caller' = [caller EXCEPT ![q] = "submit"]
            \/ caller' = [caller EXCEPT ![q] = "refused"]
        BY <2>1 DEF Ask
      <3>4. NoAnswer[1] \in {"none", "Busy", "Stopping"}
        BY NoAnswerType
      <3> QED
        BY <3>2, <3>3, <3>4, NoAnswerType
    <2>2. CASE Refuse(q)
      <3>1. ASSUME NEW e \in {"Busy", "Stopping"}
            PROVE  /\ Failure(e) \in (Errors \cup {"none", "user"}) \X Nat
                   /\ Failure(e)[1] \in {"none", "Busy", "Stopping"}
        BY DEF Failure, Errors
      <3>2. \/ answer' = [answer EXCEPT ![q] = Failure("Busy")]
            \/ answer' = [answer EXCEPT ![q] = Failure("Stopping")]
        BY <2>2 DEF Refuse
      <3>3. caller' = [caller EXCEPT ![q] = "done"]
        BY <2>2 DEF Refuse
      <3> QED
        BY <3>1, <3>2, <3>3
    <2> QED
      BY <2>1, <2>2
  <1>4. Types'
    <2>1. /\ answer' \in [Requests -> (Errors \cup {"none", "user"}) \X Nat]
          /\ caller' \in [Requests -> {"idle", "submit", "refused", "done"}]
      BY <1>2, <1>3
    <2> QED
      BY <1>1, <2>1 DEF ExecutorInv, Types
  <1>5. Alive' /\ NoFault' /\ Numbered' /\ RowSeen'
    BY <1>1 DEF ExecutorInv, Alive, NoFault, Numbered, Rows, RowSeen
  <1>6. Answered' /\ RaceIsNoError'
    BY <1>1, <1>2, <1>3 DEF ExecutorInv, Answered, RaceIsNoError
  <1>7. Once'
    <2>1. /\ \A i \in DOMAIN tasks : tasks[i] # q
          /\ \A w \in Threads : Busy(w) => task[w] # q
      BY <1>2 DEF ExecutorInv, Once
    <2>2. \A p \in Requests \ {q} : answer'[p] = answer[p] /\ caller'[p] = caller[p]
      BY <1>2, <1>3
    <2>3. caller'[q] # "done" => answer'[q] = NoAnswer
      BY <1>2, <1>3
    <2>4. /\ \A i \in DOMAIN tasks : tasks[i] \in Requests
          /\ \A w \in Threads : Busy(w) => task[w] \in Requests
      BY DEF ExecutorInv, Types
    <2> QED
      BY <1>1, <2>1, <2>2, <2>3, <2>4 DEF ExecutorInv, Once
  <1> QED
    BY <1>4, <1>5, <1>6, <1>7 DEF ExecutorInv

LEMMA SubmitKeeps ==
  ASSUME ExecutorInv, NEW q \in Requests, Submit(q), UNCHANGED faults
  PROVE  ExecutorInv'
  <1> USE DEF lifeVars, threadVars, database
  <1>1. /\ UNCHANGED <<life, spawned, connection, accepting, closed,
                       thread, task, saw, table, nextUser>>
        /\ \A w \in Threads : Busy(w)' <=> Busy(w)
    BY DEF Submit, Busy
  <1>2. /\ caller \in [Requests -> {"idle", "submit", "refused", "done"}]
        /\ answer \in [Requests -> (Errors \cup {"none", "user"}) \X Nat]
        /\ tasks \in Seq(Requests) /\ Len(tasks) <= QueueCapacity
        /\ caller[q] = "submit"
        /\ \A w \in Threads : Busy(w) => task[w] \in Requests
    BY DEF ExecutorInv, Types, Submit
  <1>3. /\ answer[q] = NoAnswer
        /\ \A i \in DOMAIN tasks : tasks[i] # q
        /\ \A w \in Threads : Busy(w) => task[w] # q
    BY <1>2 DEF ExecutorInv, Once
  <1>4. Alive' /\ NoFault' /\ Numbered' /\ RowSeen'
    BY <1>1 DEF ExecutorInv, Alive, NoFault, Numbered, Rows, RowSeen
  <1>5. CASE HasRoom /\ tasks' = Append(tasks, q) /\ UNCHANGED answer
             /\ caller' = [caller EXCEPT ![q] = "done"]
    <2>1. /\ tasks' \in Seq(Requests) /\ Len(tasks') <= QueueCapacity
          /\ \A i \in DOMAIN tasks' :
                \/ i \in DOMAIN tasks /\ tasks'[i] = tasks[i]
                \/ i = Len(tasks) + 1 /\ tasks'[i] = q
      BY <1>2, <1>5, ExecutorAssumption DEF HasRoom
    <2>2. Types'
      BY <1>1, <1>5, <2>1 DEF ExecutorInv, Types
    <2>3. Answered' /\ RaceIsNoError'
      BY <1>1, <1>5 DEF ExecutorInv, Answered, RaceIsNoError
    <2>4. \A p \in Requests : caller'[p] # "done" => caller[p] # "done" /\ p # q
      BY <1>2, <1>5
    <2>5. Once'
      <3>1. \A p \in Requests : caller'[p] # "done" =>
                /\ answer'[p] = NoAnswer
                /\ \A i \in DOMAIN tasks' : tasks'[i] # p
                /\ \A w \in Threads : Busy(w)' => task'[w] # p
        BY <1>1, <1>5, <2>1, <2>4 DEF ExecutorInv, Once
      <3>2. ASSUME NEW i \in DOMAIN tasks'
            PROVE  /\ answer'[tasks'[i]] = NoAnswer
                   /\ \A j \in DOMAIN tasks' : tasks'[j] = tasks'[i] => j = i
                   /\ \A w \in Threads : Busy(w)' => task'[w] # tasks'[i]
        <4>1. CASE i \in DOMAIN tasks /\ tasks'[i] = tasks[i]
          BY <1>1, <1>3, <1>5, <2>1, <4>1 DEF ExecutorInv, Once
        <4>2. CASE i = Len(tasks) + 1 /\ tasks'[i] = q
          BY <1>1, <1>3, <1>5, <2>1, <4>2
        <4> QED
          BY <2>1, <4>1, <4>2
      <3>3. \A w \in Threads : Busy(w)' =>
                /\ answer'[task'[w]] = NoAnswer
                /\ \A v \in Threads : Busy(v)' /\ task'[v] = task'[w] => v = w
        BY <1>1, <1>5 DEF ExecutorInv, Once
      <3> QED
        BY <3>1, <3>2, <3>3 DEF Once
    <2> QED
      BY <1>4, <2>2, <2>3, <2>5 DEF ExecutorInv
  <1>6. CASE UNCHANGED <<tasks, answer>> /\ caller' = [caller EXCEPT ![q] = "refused"]
    <2>1. Types'
      BY <1>1, <1>2, <1>6 DEF ExecutorInv, Types
    <2>2. Answered' /\ RaceIsNoError'
      BY <1>1, <1>6 DEF ExecutorInv, Answered, RaceIsNoError
    <2>3. \A p \in Requests : caller'[p] # "done" => caller[p] # "done"
      BY <1>2, <1>6
    <2>4. Once'
      BY <1>1, <1>6, <2>3 DEF ExecutorInv, Once
    <2> QED
      BY <1>4, <2>1, <2>2, <2>4 DEF ExecutorInv
  <1>7. CASE /\ "submit" \in faults /\ UNCHANGED tasks
             /\ caller' = [caller EXCEPT ![q] = "done"]
             /\ answer' = [answer EXCEPT ![q] = Failure("Unavailable")]
    <2>1. /\ Failure("Unavailable") \in (Errors \cup {"none", "user"}) \X Nat
          /\ Failure("Unavailable")[1] = "Unavailable"
      BY DEF Failure, Errors
    <2>2. Types'
      <3>1. /\ answer' \in [Requests -> (Errors \cup {"none", "user"}) \X Nat]
            /\ caller' \in [Requests -> {"idle", "submit", "refused", "done"}]
        BY <1>2, <1>7, <2>1
      <3> QED
        BY <1>1, <1>7, <3>1 DEF ExecutorInv, Types
    <2>3. Answered'
      BY <1>1, <1>2, <1>7, <2>1 DEF ExecutorInv, Answered
    <2>4. RaceIsNoError'
      BY <1>7 DEF RaceIsNoError
    <2>5. /\ \A p \in Requests \ {q} : answer'[p] = answer[p]
          /\ \A p \in Requests : caller'[p] # "done" => caller[p] # "done" /\ p # q
          /\ \A i \in DOMAIN tasks : tasks[i] \in Requests
      BY <1>2, <1>7
    <2>6. Once'
      BY <1>1, <1>2, <1>3, <1>7, <2>5 DEF ExecutorInv, Once
    <2> QED
      BY <1>4, <2>2, <2>3, <2>4, <2>6 DEF ExecutorInv
  <1> QED
    BY <1>5, <1>6, <1>7 DEF Submit

-----------------------------------------------------------------------------
(* The threads.                                                             *)

LEMMA PopKeeps ==
  ASSUME ExecutorInv, NEW w \in Threads, Pop(w), UNCHANGED faults
  PROVE  ExecutorInv'
  <1> USE DEF lifeVars, database
  <1>1. /\ UNCHANGED <<life, spawned, accepting, closed, saw, caller, table,
                       nextUser, answer>>
        /\ thread[w] = "pop" /\ ~Busy(w)
    BY DEF Pop, Busy
  <1>2. /\ thread \in [Threads -> {"out", "pop", "query", "insert", "retry"}]
        /\ task \in [Threads -> Requests \cup {NoRequest}]
        /\ connection \in [Threads -> {"none", "ok", "bad", "finished"}]
        /\ tasks \in Seq(Requests) /\ Len(tasks) <= QueueCapacity
        /\ \A v \in Threads : Busy(v) => task[v] \in Requests
    BY DEF ExecutorInv, Types
  <1>3. Numbered' /\ Answered' /\ RaceIsNoError'
    BY <1>1 DEF ExecutorInv, Numbered, Rows, Answered, RaceIsNoError
  <1>4. CASE /\ thread' = [thread EXCEPT ![w] = "out"]
             /\ UNCHANGED <<connection, tasks, task>>
    <2>1. \A v \in Threads : Busy(v)' <=> Busy(v)
      BY <1>1, <1>2, <1>4 DEF Busy
    <2>2. Types' /\ Alive' /\ NoFault'
      BY <1>1, <1>2, <1>4, <2>1 DEF ExecutorInv, Types, Alive, NoFault
    <2>3. RowSeen'
      BY <1>1, <1>2, <1>4 DEF ExecutorInv, RowSeen
    <2>4. Once'
      BY <1>1, <1>4, <2>1 DEF ExecutorInv, Once
    <2> QED
      BY <1>3, <2>2, <2>3, <2>4 DEF ExecutorInv
  <1>5. CASE /\ tasks # <<>> /\ tasks' = Tail(tasks)
             /\ task' = [task EXCEPT ![w] = Head(tasks)]
             /\ thread' = [thread EXCEPT ![w] = "query"]
             /\ \/ UNCHANGED connection
                \/ connection' = [connection EXCEPT ![w] = "ok"]
    <2>1. /\ 1 \in DOMAIN tasks /\ Head(tasks) = tasks[1]
          /\ tasks[1] \in Requests /\ tasks' \in Seq(Requests)
          /\ Len(tasks') <= QueueCapacity
          /\ \A i \in DOMAIN tasks' :
                i + 1 \in DOMAIN tasks /\ tasks'[i] = tasks[i + 1] /\ i + 1 # 1
      BY <1>2, <1>5, ExecutorAssumption
    <2>2. /\ task'[w] = tasks[1] /\ Busy(w)'
          /\ \A v \in Threads \ {w} : /\ task'[v] = task[v]
                                      /\ thread'[v] = thread[v]
                                      /\ Busy(v)' <=> Busy(v)
      BY <1>2, <1>5, <2>1 DEF Busy
    <2>3. connection' \in [Threads -> {"none", "ok", "bad", "finished"}]
      BY <1>2, <1>5
    <2>4. Types'
      BY <1>1, <1>2, <1>5, <2>1, <2>2, <2>3 DEF ExecutorInv, Types
    <2>5. Alive'
      BY <1>1, <1>2, <1>5, <2>2 DEF ExecutorInv, Alive
    <2>6. NoFault'
      BY <1>2, <1>5 DEF ExecutorInv, NoFault
    <2>7. RowSeen'
      BY <1>1, <1>2, <1>5, <2>2 DEF ExecutorInv, RowSeen
    <2>8. Once'
      <3>1. \A q \in Requests : caller'[q] # "done" =>
                /\ answer'[q] = NoAnswer
                /\ \A i \in DOMAIN tasks' : tasks'[i] # q
                /\ \A v \in Threads : Busy(v)' => task'[v] # q
        BY <1>1, <2>1, <2>2 DEF ExecutorInv, Once
      <3>2. ASSUME NEW i \in DOMAIN tasks'
            PROVE  /\ answer'[tasks'[i]] = NoAnswer
                   /\ \A j \in DOMAIN tasks' : tasks'[j] = tasks'[i] => j = i
                   /\ \A v \in Threads : Busy(v)' => task'[v] # tasks'[i]
        <4>1. \A j \in DOMAIN tasks' : j + 1 = i + 1 => j = i
          BY <2>1
        <4>2. \A j \in DOMAIN tasks' : tasks'[j] = tasks'[i] => j = i
          BY <2>1, <4>1 DEF ExecutorInv, Once
        <4>3. answer'[tasks'[i]] = NoAnswer
          BY <1>1, <2>1 DEF ExecutorInv, Once
        <4>4. \A v \in Threads : Busy(v)' => task'[v] # tasks'[i]
          BY <2>1, <2>2 DEF ExecutorInv, Once
        <4> QED
          BY <4>2, <4>3, <4>4
      <3>3. ASSUME NEW v \in Threads, Busy(v)'
            PROVE  /\ answer'[task'[v]] = NoAnswer
                   /\ \A u \in Threads : Busy(u)' /\ task'[u] = task'[v] => u = v
        BY <1>1, <2>1, <2>2, <3>3 DEF ExecutorInv, Once
      <3> QED
        BY <3>1, <3>2, <3>3 DEF Once
    <2> QED
      BY <1>3, <2>4, <2>5, <2>6, <2>7, <2>8 DEF ExecutorInv
  <1> QED
    BY <1>4, <1>5 DEF Pop

LEMMA QueryKeeps ==
  ASSUME ExecutorInv, NEW w \in Threads, Query(w), UNCHANGED faults
  PROVE  ExecutorInv'
  <1> USE DEF lifeVars, queueVars, database
  <1>1. /\ UNCHANGED <<life, spawned, connection, accepting, tasks, closed, task,
                       caller, table, nextUser, answer>>
        /\ thread' = [thread EXCEPT ![w] = "insert"] /\ thread[w] = "query"
        /\ saw' = [saw EXCEPT ![w] = table[task[w][1]] # 0]
    BY DEF Query
  <1>2. /\ thread \in [Threads -> {"out", "pop", "query", "insert", "retry"}]
        /\ saw \in [Threads -> BOOLEAN]
    BY DEF ExecutorInv, Types
  <1>3. \A v \in Threads : Busy(v)' <=> Busy(v)
    BY <1>1, <1>2 DEF Busy
  <1>4. Types'
    <2>1. saw' \in [Threads -> BOOLEAN]
          /\ thread' \in [Threads -> {"out", "pop", "query", "insert", "retry"}]
      BY <1>1, <1>2
    <2> QED
      BY <1>1, <1>3, <2>1 DEF ExecutorInv, Types
  <1>5. Alive' /\ NoFault' /\ Numbered' /\ Answered' /\ RaceIsNoError'
    BY <1>1, <1>2
       DEF ExecutorInv, Alive, NoFault, Numbered, Rows, Answered, RaceIsNoError
  <1>6. RowSeen'
    BY <1>1, <1>2 DEF ExecutorInv, RowSeen
  <1>7. Once'
    BY <1>1, <1>3 DEF ExecutorInv, Once
  <1> QED
    BY <1>4, <1>5, <1>6, <1>7 DEF ExecutorInv

\* A row is made for a name that has none, with the next number.
LEMMA NewRowKeeps ==
  ASSUME Types, Numbered, NEW n \in Names, NewRow(n) \/ UNCHANGED database
  PROVE  /\ Numbered' /\ table' \in [Names -> Nat] /\ nextUser' \in Nat \ {0}
         /\ \A m \in Names : table[m] # 0 => table'[m] = table[m]
         /\ \A m \in Names \ {n} : table'[m] = table[m]
         /\ NewRow(n) => table'[n] # 0
         /\ table[n] = 0 /\ NewRow(n) =>
                table'[n] = nextUser /\ \A m \in Names : table[m] # nextUser
  <1>1. /\ table \in [Names -> Nat] /\ nextUser \in Nat \ {0}
        /\ \A m \in Names : table[m] < nextUser
        /\ nextUser = Cardinality(Rows) + 1
    BY DEF Types, Numbered
  <1>2. \A m \in Names : table[m] # nextUser
    BY <1>1
  <1>3. CASE UNCHANGED database
    <2>1. UNCHANGED <<table, nextUser>>
      BY <1>3 DEF database
    <2>2. Rows' = Rows
      BY <2>1 DEF Rows
    <2> QED
      BY <1>1, <1>2, <2>1, <2>2 DEF Numbered, NewRow
  <1>4. CASE /\ table[n] = 0 /\ table' = [table EXCEPT ![n] = nextUser]
             /\ nextUser' = nextUser + 1
    <2>1. /\ table'[n] = nextUser
          /\ \A m \in Names \ {n} : table'[m] = table[m]
      BY <1>1, <1>4
    <2>2. Rows' = Rows \cup {n} /\ n \notin Rows
      BY <1>1, <1>4, <2>1 DEF Rows
    <2>3. Rows \subseteq Names
      BY DEF Rows
    <2>4. IsFiniteSet(Rows)
      BY <2>3, ExecutorAssumption, FS_Subset
    <2>5. Cardinality(Rows') = Cardinality(Rows) + 1
      BY <2>2, <2>4, FS_AddElement
    <2>6. \A m \in Names : table'[m] < nextUser'
      BY <1>1, <1>4, <2>1
    <2>7. Numbered'
      BY <1>1, <1>4, <2>5, <2>6 DEF Numbered
    <2> QED
      BY <1>1, <1>2, <1>4, <2>1, <2>7
  <1> QED
    BY <1>3, <1>4 DEF NewRow

\* A task ends with its answer, and the database may have a row more.
LEMMA DeliverKeeps ==
  ASSUME ExecutorInv, UNCHANGED faults, NEW w \in Threads, Busy(w),
         NEW a \in (Errors \cup {"user"}) \X Nat, Deliver(w, a),
         UNCHANGED <<life, spawned, accepting, tasks, closed, caller>>,
         saw' = saw \/ saw' = [saw EXCEPT ![w] = FALSE],
         NewRow(task[w][1]) \/ UNCHANGED database,
         a[1] = "user" => a[2] = table'[task[w][1]] /\ a[2] # 0,
         faults = {} => a[1] \notin {"Unavailable", "Timeout", "Constraint", "InvalidData"},
         \/ UNCHANGED connection
         \/ faults # {} /\ connection[w] = "ok"
            /\ connection' = [connection EXCEPT ![w] = "bad"]
  PROVE  ExecutorInv'
  <1>1. /\ thread \in [Threads -> {"out", "pop", "query", "insert", "retry"}]
        /\ task \in [Threads -> Requests \cup {NoRequest}]
        /\ connection \in [Threads -> {"none", "ok", "bad", "finished"}]
        /\ answer \in [Requests -> (Errors \cup {"none", "user"}) \X Nat]
        /\ saw \in [Threads -> BOOLEAN]
        /\ \A v \in Threads : Busy(v) => task[v] \in Requests
        /\ \A i \in DOMAIN tasks : tasks[i] \in Requests
    BY DEF ExecutorInv, Types
  <1>2. PICK q \in Requests : q = task[w]
    BY <1>1
  <1>3. q[1] \in Names
    BY RequestName
  <1>4. /\ answer' = [answer EXCEPT ![q] = a]
        /\ thread' = [thread EXCEPT ![w] = "pop"]
        /\ task' = [task EXCEPT ![w] = NoRequest]
        /\ thread[w] # "out"
    BY <1>2 DEF Deliver, Busy
  <1>5. /\ Numbered' /\ table' \in [Names -> Nat] /\ nextUser' \in Nat \ {0}
        /\ \A m \in Names : table[m] # 0 => table'[m] = table[m]
    BY <1>2, <1>3, NewRowKeeps DEF ExecutorInv
  <1>6. /\ ~Busy(w)'
        /\ \A v \in Threads \ {w} : /\ Busy(v)' <=> Busy(v)
                                    /\ thread'[v] = thread[v]
                                    /\ task'[v] = task[v] /\ saw'[v] = saw[v]
    BY <1>1, <1>4 DEF Busy
  <1>7. /\ answer'[q] = a
        /\ \A p \in Requests \ {q} : answer'[p] = answer[p]
    BY <1>1, <1>4
  <1>8. Types'
    <2>1. /\ thread' \in [Threads -> {"out", "pop", "query", "insert", "retry"}]
          /\ task' \in [Threads -> Requests \cup {NoRequest}]
      BY <1>1, <1>4
    <2>2. connection' \in [Threads -> {"none", "ok", "bad", "finished"}]
      BY <1>1
    <2>3. answer' \in [Requests -> (Errors \cup {"none", "user"}) \X Nat]
      <3>1. a \in (Errors \cup {"none", "user"}) \X Nat
        OBVIOUS
      <3> QED
        BY <1>1, <1>4, <3>1
    <2>4. saw' \in [Threads -> BOOLEAN]
      BY <1>1
    <2>5. \A v \in Threads : Busy(v)' => task'[v] \in Requests
      BY <1>1, <1>6
    <2> QED
      BY <1>5, <2>1, <2>2, <2>3, <2>4, <2>5 DEF ExecutorInv, Types
  <1>9. Alive'
    BY <1>1, <1>4, <1>6 DEF ExecutorInv, Alive
  <1>10. NoFault'
    BY <1>1 DEF ExecutorInv, NoFault
  <1>11. Answered'
    <2>1. ASSUME NEW p \in Requests, answer'[p][1] = "user"
          PROVE  answer'[p][2] = table'[p[1]] /\ table'[p[1]] # 0
      <3>1. CASE p = q
        BY <1>2, <1>7, <2>1, <3>1
      <3>2. CASE p # q
        <4>1. answer[p][2] = table[p[1]] /\ table[p[1]] # 0 /\ p[1] \in Names
          BY <1>7, <2>1, <3>2, RequestName DEF ExecutorInv, Answered
        <4> QED
          BY <1>5, <1>7, <3>2, <4>1
      <3> QED
        BY <3>1, <3>2
    <2> QED
      BY <2>1 DEF Answered
  <1>12. RaceIsNoError'
    BY <1>7 DEF ExecutorInv, RaceIsNoError
  <1>13. RowSeen'
    <2>1. ASSUME NEW v \in Threads,
                 (thread'[v] = "insert" /\ saw'[v]) \/ thread'[v] = "retry"
          PROVE  table'[task'[v][1]] # 0
      <3>1. v # w /\ Busy(v)
        BY <1>1, <1>4, <2>1 DEF Busy
      <3>2. PICK p \in Requests : p = task[v] /\ p[1] \in Names
        BY <1>1, <3>1, RequestName
      <3>3. table[p[1]] # 0
        BY <1>6, <2>1, <3>1, <3>2 DEF ExecutorInv, RowSeen
      <3>4. table'[p[1]] # 0
        BY <1>5, <3>2, <3>3
      <3> QED
        BY <1>6, <3>1, <3>2, <3>4
    <2> QED
      BY <2>1 DEF RowSeen
  <1>14. Once'
    <2>1. /\ caller[q] = "done"
          /\ \A i \in DOMAIN tasks : tasks[i] # q
          /\ \A v \in Threads \ {w} : Busy(v) => task[v] # q
      <3>1. caller \in [Requests -> {"idle", "submit", "refused", "done"}]
        BY DEF ExecutorInv, Types
      <3> QED
        BY <1>2, <3>1 DEF ExecutorInv, Once
    <2>2. \A p \in Requests : caller'[p] # "done" =>
              /\ answer'[p] = NoAnswer
              /\ \A i \in DOMAIN tasks' : tasks'[i] # p
              /\ \A v \in Threads : Busy(v)' => task'[v] # p
      BY <1>6, <1>7, <2>1 DEF ExecutorInv, Once
    <2>3. \A i \in DOMAIN tasks' :
              /\ answer'[tasks'[i]] = NoAnswer
              /\ \A j \in DOMAIN tasks' : tasks'[j] = tasks'[i] => j = i
              /\ \A v \in Threads : Busy(v)' => task'[v] # tasks'[i]
      BY <1>1, <1>6, <1>7, <2>1 DEF ExecutorInv, Once
    <2>4. \A v \in Threads : Busy(v)' =>
              /\ answer'[task'[v]] = NoAnswer
              /\ \A u \in Threads : Busy(u)' /\ task'[u] = task'[v] => u = v
      BY <1>1, <1>6, <1>7, <2>1 DEF ExecutorInv, Once
    <2> QED
      BY <2>2, <2>3, <2>4 DEF Once
  <1> QED
    BY <1>5, <1>8, <1>9, <1>10, <1>11, <1>12, <1>13, <1>14 DEF ExecutorInv

\* The answers of a thread.
LEMMA AnswerTypes ==
  /\ \A e \in Errors : /\ Failure(e) \in (Errors \cup {"user"}) \X Nat
                       /\ Failure(e)[1] = e /\ e # "user"
  /\ \A id \in Nat : /\ User(id) \in (Errors \cup {"user"}) \X Nat
                     /\ User(id)[1] = "user" /\ User(id)[2] = id
  BY DEF Failure, User, Errors

\* With a connection that is OK a statement ends with a user or is retried.
LEMMA InsertEffect ==
  ASSUME ExecutorInv, NEW w \in Threads, Insert(w)
  PROVE  \E q \in Requests :
            /\ task[w] = q /\ Busy(w) /\ q[1] \in Names /\ NewRow(q[1])
            /\ saw' = [saw EXCEPT ![w] = FALSE]
            /\ UNCHANGED <<life, spawned, connection, accepting, tasks, closed,
                           caller>>
            /\ \/ /\ Deliver(w, User(table'[q[1]]))
                  /\ table'[q[1]] # 0 /\ table'[q[1]] \in Nat
               \/ /\ table[q[1]] # 0 /\ UNCHANGED <<task, answer, table, nextUser>>
                  /\ thread[w] = "insert"
                  /\ thread' = [thread EXCEPT ![w] = "retry"]
  <1>1. Busy(w) /\ thread[w] = "insert"
    BY DEF Insert, Busy
  <1>2. PICK q \in Requests : task[w] = q
    BY <1>1 DEF ExecutorInv, Types
  <1>3. q[1] \in Names
    BY RequestName
  <1>4. /\ NewRow(q[1]) /\ saw' = [saw EXCEPT ![w] = FALSE]
        /\ UNCHANGED <<life, spawned, connection, accepting, tasks, closed,
                       caller>>
    BY <1>2 DEF Insert, lifeVars, queueVars
  <1>5. table'[q[1]] # 0 /\ table' \in [Names -> Nat]
    BY <1>3, <1>4, NewRowKeeps DEF ExecutorInv
  <1>6. table'[q[1]] \in Nat
    BY <1>3, <1>5
  <1>7. CASE Retries(w) /\ thread' = [thread EXCEPT ![w] = "retry"]
             /\ UNCHANGED <<task, answer>>
    <2>1. table[q[1]] # 0
      BY <1>2, <1>7 DEF Retries
    <2>2. UNCHANGED <<table, nextUser>>
      BY <1>4, <2>1 DEF NewRow, database
    <2> QED
      BY <1>1, <1>2, <1>3, <1>4, <1>7, <2>1, <2>2
  <1>8. CASE /\ ~Retries(w)
             /\ Deliver(w, IF table[q[1]] = 0 \/ saw[w] THEN User(table'[q[1]])
                           ELSE Failure("InvalidData"))
    <2>1. table[q[1]] = 0 \/ saw[w]
      BY <1>2, <1>8 DEF Retries
    <2>2. Deliver(w, User(table'[q[1]]))
      BY <1>8, <2>1
    <2> QED
      BY <1>1, <1>2, <1>3, <1>4, <1>5, <1>6, <2>2
  <1> QED
    BY <1>2, <1>7, <1>8 DEF Insert

LEMMA InsertKeeps ==
  ASSUME ExecutorInv, NEW w \in Threads, Insert(w), UNCHANGED faults
  PROVE  ExecutorInv'
  <1>1. PICK q \in Requests :
            /\ task[w] = q /\ Busy(w) /\ q[1] \in Names /\ NewRow(q[1])
            /\ saw' = [saw EXCEPT ![w] = FALSE]
            /\ UNCHANGED <<life, spawned, connection, accepting, tasks, closed,
                           caller>>
            /\ \/ /\ Deliver(w, User(table'[q[1]]))
                  /\ table'[q[1]] # 0 /\ table'[q[1]] \in Nat
               \/ /\ table[q[1]] # 0 /\ UNCHANGED <<task, answer, table, nextUser>>
                  /\ thread[w] = "insert"
                  /\ thread' = [thread EXCEPT ![w] = "retry"]
    BY InsertEffect
  <1>2. CASE /\ Deliver(w, User(table'[q[1]]))
             /\ table'[q[1]] # 0 /\ table'[q[1]] \in Nat
    <2>1. PICK a \in (Errors \cup {"user"}) \X Nat :
              /\ a[1] = "user" /\ a[2] = table'[q[1]] /\ Deliver(w, a)
      BY <1>2, AnswerTypes
    <2> QED
      BY <1>1, <1>2, <2>1, DeliverKeeps
  <1>3. CASE /\ table[q[1]] # 0 /\ UNCHANGED <<task, answer, table, nextUser>>
             /\ thread[w] = "insert" /\ thread' = [thread EXCEPT ![w] = "retry"]
    <2>1. /\ thread \in [Threads -> {"out", "pop", "query", "insert", "retry"}]
          /\ saw \in [Threads -> BOOLEAN]
      BY DEF ExecutorInv, Types
    <2>2. \A v \in Threads : Busy(v)' <=> Busy(v)
      BY <1>1, <1>3, <2>1 DEF Busy
    <2>3. Types'
      <3>1. /\ saw' \in [Threads -> BOOLEAN]
            /\ thread' \in [Threads -> {"out", "pop", "query", "insert", "retry"}]
        BY <1>1, <1>3, <2>1
      <3> QED
        BY <1>1, <1>3, <2>2, <3>1 DEF ExecutorInv, Types
    <2>4. Alive' /\ NoFault' /\ Numbered' /\ Answered' /\ RaceIsNoError'
      BY <1>1, <1>3, <2>1
       DEF ExecutorInv, Alive, NoFault, Numbered, Rows, Answered, RaceIsNoError
    <2>5. RowSeen'
      BY <1>1, <1>3, <2>1 DEF ExecutorInv, RowSeen
    <2>6. Once'
      BY <1>1, <1>3, <2>2 DEF ExecutorInv, Once
    <2> QED
      BY <2>3, <2>4, <2>5, <2>6 DEF ExecutorInv
  <1> QED
    BY <1>1, <1>2, <1>3

LEMMA RetryEffect ==
  ASSUME ExecutorInv, NEW w \in Threads, Retry(w)
  PROVE  \E q \in Requests :
            /\ task[w] = q /\ Busy(w) /\ q[1] \in Names
            /\ table[q[1]] # 0 /\ table[q[1]] \in Nat
            /\ Deliver(w, User(table[q[1]]))
            /\ UNCHANGED <<life, spawned, connection, accepting, tasks, closed,
                           caller, saw, table, nextUser>>
  <1>1. Busy(w) /\ thread[w] = "retry"
    BY DEF Retry, Busy
  <1>2. PICK q \in Requests : task[w] = q
    BY <1>1 DEF ExecutorInv, Types
  <1>3. q[1] \in Names
    BY RequestName
  <1>4. table[q[1]] # 0 /\ table[q[1]] \in Nat
    BY <1>1, <1>2, <1>3 DEF ExecutorInv, RowSeen, Types
  <1> QED
    BY <1>1, <1>2, <1>3, <1>4 DEF Retry, lifeVars, queueVars, database

LEMMA RetryKeeps ==
  ASSUME ExecutorInv, NEW w \in Threads, Retry(w), UNCHANGED faults
  PROVE  ExecutorInv'
  <1>1. PICK q \in Requests :
            /\ task[w] = q /\ Busy(w) /\ q[1] \in Names
            /\ table[q[1]] # 0 /\ table[q[1]] \in Nat
            /\ Deliver(w, User(table[q[1]]))
            /\ UNCHANGED <<life, spawned, connection, accepting, tasks, closed,
                           caller, saw, table, nextUser>>
    BY RetryEffect
  <1>2. PICK a \in (Errors \cup {"user"}) \X Nat :
            /\ a[1] = "user" /\ a[2] = table[q[1]] /\ Deliver(w, a)
    BY <1>1, AnswerTypes
  <1> QED
    BY <1>1, <1>2, DeliverKeeps DEF database

LEMMA StatementFailsEffect ==
  ASSUME ExecutorInv, NEW w \in Threads, StatementFails(w)
  PROVE  \E q \in Requests, e \in {"Unavailable", "Timeout", "Constraint"} :
            /\ task[w] = q /\ Busy(w) /\ q[1] \in Names
            /\ Deliver(w, Failure(e)) /\ faults # {}
            /\ NewRow(q[1]) \/ UNCHANGED database
            /\ saw' = [saw EXCEPT ![w] = FALSE]
            /\ UNCHANGED <<life, spawned, accepting, tasks, closed, caller>>
            /\ \/ UNCHANGED connection
               \/ connection[w] = "ok"
                  /\ connection' = [connection EXCEPT ![w] = "bad"]
  <1>1. Busy(w)
    BY DEF StatementFails, Busy
  <1>2. PICK q \in Requests : task[w] = q
    BY <1>1 DEF ExecutorInv, Types
  <1>3. q[1] \in Names
    BY RequestName
  <1>4. /\ saw' = [saw EXCEPT ![w] = FALSE]
        /\ UNCHANGED <<life, spawned, accepting, tasks, closed, caller>>
    BY DEF StatementFails, lifeVars, queueVars
  <1>5. CASE /\ connection[w] # "ok" /\ Deliver(w, Failure("Unavailable"))
             /\ UNCHANGED <<connection, database>>
    <2>1. connection[w] = "bad"
      BY <1>1, <1>5 DEF ExecutorInv, Alive, Busy
    <2>2. faults # {}
      BY <2>1 DEF ExecutorInv, NoFault
    <2> QED
      BY <1>1, <1>2, <1>3, <1>4, <1>5, <2>2
  <1>6. CASE /\ connection[w] = "ok" /\ "database" \in faults
             /\ connection' = [connection EXCEPT ![w] = "bad"]
             /\ Deliver(w, Failure("Unavailable"))
             /\ NewRow(q[1]) \/ UNCHANGED database
    BY <1>1, <1>2, <1>3, <1>4, <1>6
  <1>7. CASE /\ "database" \in faults
             /\ \E kind \in {"Timeout", "Constraint", "Unavailable"} :
                   Deliver(w, Failure(kind))
             /\ UNCHANGED <<connection, database>>
    BY <1>1, <1>2, <1>3, <1>4, <1>7
  <1> QED
    BY <1>2, <1>5, <1>6, <1>7 DEF StatementFails

LEMMA StatementFailsKeeps ==
  ASSUME ExecutorInv, NEW w \in Threads, StatementFails(w), UNCHANGED faults
  PROVE  ExecutorInv'
  <1>1. PICK q \in Requests, e \in {"Unavailable", "Timeout", "Constraint"} :
            /\ task[w] = q /\ Busy(w) /\ q[1] \in Names
            /\ Deliver(w, Failure(e)) /\ faults # {}
            /\ NewRow(q[1]) \/ UNCHANGED database
            /\ saw' = [saw EXCEPT ![w] = FALSE]
            /\ UNCHANGED <<life, spawned, accepting, tasks, closed, caller>>
            /\ \/ UNCHANGED connection
               \/ connection[w] = "ok"
                  /\ connection' = [connection EXCEPT ![w] = "bad"]
    BY StatementFailsEffect
  <1>2. PICK a \in (Errors \cup {"user"}) \X Nat :
            a[1] # "user" /\ Deliver(w, a)
    <2>1. e \in Errors
      BY DEF Errors
    <2> QED
      BY <1>1, <2>1, AnswerTypes
  <1> QED
    BY <1>1, <1>2, DeliverKeeps

LEMMA NextExecutor == ExecutorInv /\ [Next]_vars => ExecutorInv'
  <1> SUFFICES ASSUME ExecutorInv, [Next]_vars PROVE ExecutorInv'
    OBVIOUS
  <1>1. CASE Next
    BY <1>1, ConnectKeeps, SpawnKeeps, StopKeeps, AskKeeps, SubmitKeeps, PopKeeps,
       QueryKeeps, InsertKeeps, RetryKeeps, StatementFailsKeeps,
       ConnectionLostKeeps DEF Next, Thread, Caller
  <1>2. CASE UNCHANGED vars
    <2>1. UNCHANGED <<faults, life, spawned, connection, accepting, tasks, closed,
                      thread, task, saw, caller, table, nextUser, answer>>
      BY <1>2 DEF vars, runVars, lifeVars, queueVars, threadVars, database
    <2>2. /\ Numbered' /\ Answered' /\ RowSeen' /\ Once' /\ RaceIsNoError'
          /\ \A w \in Threads : Busy(w)' => Busy(w)
      BY <2>1, KeepRequests
    <2>3. Types' /\ Alive' /\ NoFault'
      BY <2>1, <2>2 DEF ExecutorInv, Types, Alive, NoFault
    <2> QED
      BY <2>2, <2>3 DEF ExecutorInv
  <1> QED
    BY <1>1, <1>2

\* There are no more users than names.
LEMMA UsersWithinNames ==
  ASSUME ExecutorInv
  PROVE  TypeOK
  <1>1. ASSUME NEW q \in Requests
        PROVE  \/ answer[q][1] \in Errors \cup {"none"}
               \/ answer[q][1] = "user" /\ answer[q][2] \in 1..Cardinality(Names)
    <2>1. /\ answer[q] \in (Errors \cup {"none", "user"}) \X Nat
          /\ nextUser \in Nat \ {0}
      BY DEF ExecutorInv, Types
    <2>2. CASE answer[q][1] = "user"
      <3>1. /\ answer[q][2] = table[q[1]] /\ table[q[1]] # 0
            /\ table[q[1]] < nextUser /\ table[q[1]] \in Nat
            /\ nextUser = Cardinality(Rows) + 1
        BY <2>2, RequestName DEF ExecutorInv, Answered, Numbered, Types
      <3>2. Rows \subseteq Names
        BY DEF Rows
      <3>3. /\ Cardinality(Rows) <= Cardinality(Names)
            /\ Cardinality(Rows) \in Nat /\ Cardinality(Names) \in Nat
        BY <3>2, ExecutorAssumption, FS_Subset, FS_CardinalityType
      <3> QED
        BY <2>1, <2>2, <3>1, <3>3
    <2>3. CASE answer[q][1] # "user"
      BY <2>1, <2>3
    <2> QED
      BY <2>2, <2>3
  <1> QED
    BY <1>1 DEF ExecutorInv, Types, TypeOK

LEMMA ExecutorInvSafe == ExecutorInv => NoUseAfterFinish /\ RaceIsNoError
  BY UsersWithinNames DEF ExecutorInv, NoUseAfterFinish, Alive

\* stop() finishes a connection only after the thread that uses it has left run(),
\* however the failures of start(), the tasks and the stop interleave
\* (PostgresExecutor.cpp, start, stop and run).
THEOREM NeverUsedAfterFinish == Spec => []NoUseAfterFinish
  BY InitExecutor, NextExecutor, ExecutorInvSafe, PTL DEF Spec

\* Without a fault of the database no request gets an error for having raced with
\* another one for the same name: the statement that returned no row is retried, and
\* the row is there (PostgresUserRepository.cpp, kFindOrCreateSql and kFindSql).
THEOREM RaceNeverAnError == Spec => []RaceIsNoError
  BY InitExecutor, NextExecutor, ExecutorInvSafe, PTL DEF Spec

-----------------------------------------------------------------------------
(* The repository.                                                          *)

\* A row made for a name, or found.
LEMMA RowIsUser ==
  ASSUME ExecutorInv, NEW n \in Names, NewRow(n)
  PROVE  Repository!HasUser(n)
  <1>1. CASE table[n] # 0
    BY <1>1 DEF NewRow, Repository!HasUser, database
  <1>2. CASE table[n] = 0
    <2>1. /\ table' = [table EXCEPT ![n] = nextUser] /\ table'[n] = nextUser
          /\ \A m \in Names : table[m] # nextUser
          /\ nextUser # 0
      BY <1>2, NewRowKeeps DEF NewRow, ExecutorInv, Types
    <2>2. nextUser \in {table'[n]} \ ({0} \cup {table[m] : m \in Names})
      BY <2>1
    <2> QED
      BY <1>2, <2>1, <2>2 DEF Repository!HasUser
  <1> QED
    BY <1>1, <1>2

LEMMA NextRepository ==
  ExecutorInv /\ [Next]_vars => [Repository!Next]_(Repository!vars)
  <1> SUFFICES ASSUME ExecutorInv, [Next]_vars
               PROVE  Repository!Next \/ UNCHANGED Repository!vars
    OBVIOUS
  <1>1. ASSUME UNCHANGED <<table, answer>>
        PROVE  UNCHANGED Repository!vars
    BY <1>1 DEF Repository!vars
  <1>2. ASSUME NEW q \in Requests, answer[q] = NoAnswer, NEW e \in Errors,
               \/ UNCHANGED table \/ Repository!HasUser(q[1]),
               answer' = [answer EXCEPT ![q] = Failure(e)]
        PROVE  Repository!Next
    <2>1. Repository!Fail(q)
      BY <1>2 DEF Repository!Fail, Repository!Name, Repository!NoAnswer, NoAnswer,
                  Failure
    <2> QED
      BY <2>1 DEF Repository!Next
  <1>3. ASSUME NEW q \in Requests, answer[q] = NoAnswer,
               Repository!HasUser(q[1]),
               answer' = [answer EXCEPT ![q] = User(table'[q[1]])]
        PROVE  Repository!Next
    <2>1. Repository!Serve(q)
      BY <1>3 DEF Repository!Serve, Repository!Name, Repository!NoAnswer,
                  NoAnswer, User
    <2> QED
      BY <2>1 DEF Repository!Next
  <1>4. CASE Connect \/ Spawn \/ Stop \/ CloseTasks \/ Finish \/ UNCHANGED vars
    BY <1>1, <1>4 DEF Connect, Spawn, Stop, CloseTasks, Finish, vars, runVars, database
  <1>5. ASSUME NEW q \in Requests, Ask(q) \/ Caller(q)
        PROVE  Repository!Next \/ UNCHANGED Repository!vars
    <2>1. UNCHANGED table
      BY <1>5 DEF Ask, Caller, Submit, Refuse, database
    <2>2. caller[q] # "done" /\ answer[q] = NoAnswer
      BY <1>5 DEF Ask, Caller, Submit, Refuse, ExecutorInv, Once
    <2>3. UNCHANGED answer
              \/ \E e \in Errors : answer' = [answer EXCEPT ![q] = Failure(e)]
      <3>1. {"Busy", "Stopping", "Unavailable"} \subseteq Errors
        BY DEF Errors
      <3> QED
        BY <1>5, <3>1 DEF Ask, Caller, Submit, Refuse
    <2> QED
      BY <1>1, <1>2, <2>1, <2>2, <2>3
  <1>6. ASSUME NEW w \in Threads, Thread(w) \/ ConnectionLost(w)
        PROVE  Repository!Next \/ UNCHANGED Repository!vars
    <2>1. CASE Pop(w) \/ Query(w) \/ ConnectionLost(w)
      BY <1>1, <2>1 DEF Pop, Query, ConnectionLost, database
    <2>2. CASE Insert(w)
      <3>1. PICK q \in Requests :
                /\ task[w] = q /\ Busy(w) /\ q[1] \in Names /\ NewRow(q[1])
                /\ \/ Deliver(w, User(table'[q[1]]))
                   \/ UNCHANGED <<table, answer>>
        BY <2>2, InsertEffect
      <3>2. answer[q] = NoAnswer
        BY <3>1 DEF ExecutorInv, Once
      <3> QED
        BY <1>1, <1>3, <3>1, <3>2, RowIsUser DEF Deliver
    <2>3. CASE Retry(w)
      <3>1. PICK q \in Requests :
                /\ task[w] = q /\ Busy(w) /\ q[1] \in Names /\ table[q[1]] # 0
                /\ Deliver(w, User(table[q[1]])) /\ table' = table
        BY <2>3, RetryEffect
      <3>2. answer[q] = NoAnswer
        BY <3>1 DEF ExecutorInv, Once
      <3>3. Repository!HasUser(q[1])
        BY <3>1 DEF Repository!HasUser
      <3> QED
        BY <1>3, <3>1, <3>2, <3>3 DEF Deliver
    <2>4. CASE StatementFails(w)
      <3>1. PICK q \in Requests, e \in {"Unavailable", "Timeout", "Constraint"} :
                /\ task[w] = q /\ Busy(w) /\ q[1] \in Names
                /\ Deliver(w, Failure(e))
                /\ NewRow(q[1]) \/ UNCHANGED table
        BY <2>4, StatementFailsEffect DEF database
      <3>2. answer[q] = NoAnswer /\ e \in Errors
        BY <3>1 DEF ExecutorInv, Once, Errors
      <3> QED
        BY <1>2, <3>1, <3>2, RowIsUser DEF Deliver
    <2> QED
      BY <1>6, <2>1, <2>2, <2>3, <2>4 DEF Thread
  <1> QED
    BY <1>4, <1>5, <1>6 DEF Next

LEMMA InitRepository == Init => Repository!Init
  BY DEF Init, Repository!Init, Repository!NoAnswer, NoAnswer

\* What the executor and its callers do is what UserRepository promises: a name gets
\* one user, once and for ever, and a request at most one answer, with the user of its
\* name or an error, whatever races, fails or stops
\* (PostgresUserRepository::findOrCreateByNormalizedName).
THEOREM RepositoryImplemented == Spec => ImplementsRepository
  <1>1. Init => Repository!Init
    BY InitRepository
  <1>2. ExecutorInv /\ [Next]_vars => [Repository!Next]_(Repository!vars)
    BY NextRepository
  <1> QED
    BY <1>1, <1>2, InitExecutor, NextExecutor, PTL
       DEF Spec, ImplementsRepository, Repository!Spec

=============================================================================
