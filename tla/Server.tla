------------------------------- MODULE Server -------------------------------
(***************************************************************************)
(* The worker processes of the backend.  Each makes sure at startup that   *)
(* the bucket exists, then serves requests on one event loop: a request    *)
(* passes the logging middleware, waits for one of the process's database  *)
(* sessions, checks a connection out of the pool for its statements, and   *)
(* gives both back when the dependency is closed.                          *)
(***************************************************************************)
EXTENDS Naturals, Sequences, FiniteSets

CONSTANTS
    Workers,     \* uvicorn's worker processes
    Requests,
    Permits,     \* db_semaphore of a process
    PoolMax,     \* pool_size + max_overflow of its engine
    MaxFaults,   \* bound: crashes and storage errors
    Null

VARIABLES
    worker,   \* how far each process is
    bucket,   \* whether the bucket exists
    on,       \* the process that serves a request
    at,       \* how far the request is
    commits,  \* the transactions it has committed
    free,     \* the value of each process's semaphore
    queue,    \* those waiting for it
    buffer,   \* what the middleware and the task it started have recorded
    printed,  \* the records dumped for a request
    faults

requestVars == <<on, at, commits, free, queue, buffer, printed>>
vars == <<worker, bucket, requestVars, faults>>

-----------------------------------------------------------------------------
ASSUME PermitsFitPool ==
    /\ Permits \in Nat \ {0} /\ PoolMax \in Nat
    /\ Permits <= PoolMax

ASSUME NullIsNoWorker == Null \notin Workers

ASSUME RequestsAreFinite == IsFiniteSet(Requests)

\* With a session; of these, with a connection.
Connected == {"connected", "responding", "closing", "failing"}
InSession == {"session"} \union Connected
Steps == {"idle", "queued", "refused", "crashed", "answered"} \union InSession

Records == {"started", "handler", "completed", "unhandled", "server_error"}
NoRecords == [middleware |-> {}, task |-> {}]

Holders(w) == {r \in Requests : on[r] = w /\ at[r] \in InSession}
Connections(w) == {r \in Requests : on[r] = w /\ at[r] \in Connected}

ServerInit ==
    /\ worker = [w \in Workers |-> "down"]
    /\ bucket \in BOOLEAN
    /\ on = [r \in Requests |-> Null]
    /\ at = [r \in Requests |-> "idle"]
    /\ commits = [r \in Requests |-> 0]
    /\ free = [w \in Workers |-> Permits]
    /\ queue = [w \in Workers |-> <<>>]
    /\ buffer = [r \in Requests |-> NoRecords]
    /\ printed = [r \in Requests |-> {}]
    /\ faults = 0

-----------------------------------------------------------------------------
\* The supervisor, or the container's restart policy, starts a process.
StartWorker(w) ==
    /\ worker[w] = "down"
    /\ worker' = [worker EXCEPT ![w] = "starting"]
    /\ UNCHANGED <<bucket, requestVars, faults>>

\* ensure_minio_bucket_ready: list the buckets.
ListBuckets(w) ==
    /\ worker[w] = "starting"
    /\ worker' = [worker EXCEPT ![w] = IF bucket THEN "serving" ELSE "creating"]
    /\ UNCHANGED <<bucket, requestVars, faults>>

\* Mutant: the loser tries again to create the bucket.
CreateBucketAgain(w) ==
    /\ worker[w] = "creating"
    /\ worker' = [worker EXCEPT ![w] = IF bucket THEN "creating" ELSE "serving"]
    /\ bucket' = TRUE
    /\ UNCHANGED <<requestVars, faults>>

\* Create the missing one.  If another process was faster, the storage refuses
\* and the startup fails.
CreateBucket(w) ==
    /\ worker[w] = "creating"
    /\ worker' = [worker EXCEPT ![w] = IF bucket THEN "down" ELSE "serving"]
    /\ bucket' = TRUE
    /\ UNCHANGED <<requestVars, faults>>

\* A call to the storage fails, and with it the startup.
StorageFails(w) ==
    /\ worker[w] \in {"starting", "creating"}
    /\ faults < MaxFaults
    /\ faults' = faults + 1
    /\ worker' = [worker EXCEPT ![w] = "down"]
    /\ UNCHANGED <<bucket, requestVars>>

\* The process dies with its requests, its semaphore and its connections.
Crash(w) ==
    /\ worker[w] = "serving"
    /\ faults < MaxFaults
    /\ faults' = faults + 1
    /\ worker' = [worker EXCEPT ![w] = "down"]
    /\ on' = [r \in Requests |-> IF on[r] = w THEN Null ELSE on[r]]
    /\ at' = [r \in Requests |-> IF on[r] = w THEN "idle" ELSE at[r]]
    /\ commits' = [r \in Requests |-> IF on[r] = w THEN 0 ELSE commits[r]]
    /\ free' = [free EXCEPT ![w] = Permits]
    /\ queue' = [queue EXCEPT ![w] = <<>>]
    /\ buffer' = [r \in Requests |-> IF on[r] = w THEN NoRecords ELSE buffer[r]]
    /\ UNCHANGED <<bucket, printed>>

-----------------------------------------------------------------------------
\* Mutant: a permit is taken without waiting for one.
ArriveUnlimited(r) ==
    /\ at[r] \in {"idle", "answered"}
    /\ \E w \in Workers :
        /\ worker[w] = "serving"
        /\ on' = [on EXCEPT ![r] = w]
    /\ at' = [at EXCEPT ![r] = "session"]
    /\ buffer' = [buffer EXCEPT ![r] =
                    [middleware |-> {"started"}, task |-> {"started"}]]
    /\ printed' = [printed EXCEPT ![r] = {}]
    /\ UNCHANGED <<worker, bucket, commits, free, queue, faults>>

\* The middleware clears its context, binds the request and hands it to a task
\* with a copy of the context.  Without a valid token the request is refused;
\* otherwise the task comes to get_db: it takes a permit, or waits behind those
\* that came before.
Arrive(r) ==
    /\ at[r] \in {"idle", "answered"}
    /\ \E w \in Workers :
        /\ worker[w] = "serving"
        /\ on' = [on EXCEPT ![r] = w]
        /\ \/ /\ at' = [at EXCEPT ![r] = "refused"]
              /\ UNCHANGED <<free, queue>>
           \/ /\ free[w] > 0
              /\ at' = [at EXCEPT ![r] = "session"]
              /\ free' = [free EXCEPT ![w] = @ - 1]
              /\ UNCHANGED queue
           \/ /\ free[w] = 0
              /\ at' = [at EXCEPT ![r] = "queued"]
              /\ queue' = [queue EXCEPT ![w] = Append(@, r)]
              /\ UNCHANGED free
    /\ buffer' = [buffer EXCEPT ![r] =
                    [middleware |-> {"started"}, task |-> {"started"}]]
    /\ printed' = [printed EXCEPT ![r] = {}]
    /\ UNCHANGED <<worker, bucket, commits, faults>>

\* The first statement of a transaction checks a connection out.  What is
\* recorded here and by the handler is recorded in the task's own context.
CheckOut(r) ==
    /\ at[r] = "session"
    /\ Cardinality(Connections(on[r])) < PoolMax
    /\ at' = [at EXCEPT ![r] = "connected"]
    /\ buffer' = [buffer EXCEPT ![r].task = @ \union {"handler"}]
    /\ UNCHANGED <<worker, bucket, on, commits, free, queue, printed, faults>>

\* COMMIT returns it; the synchronisation of the user and the handler commit
\* at most once each, and each reads its row again afterwards.
Commit(r) ==
    /\ at[r] = "connected"
    /\ commits[r] < 2
    /\ commits' = [commits EXCEPT ![r] = @ + 1]
    /\ at' = [at EXCEPT ![r] = "session"]
    /\ UNCHANGED <<worker, bucket, on, free, queue, buffer, printed, faults>>

\* The handler returns, its transaction still open.
Return(r) ==
    /\ at[r] = "connected"
    /\ at' = [at EXCEPT ![r] = "responding"]
    /\ commits' = [commits EXCEPT ![r] = 0]
    /\ UNCHANGED <<worker, bucket, on, free, queue, buffer, printed, faults>>

\* Or it raises, or the role guard does before any statement.
Raise(r) ==
    /\ at[r] \in {"session", "connected"}
    /\ at' = [at EXCEPT ![r] = "failing"]
    /\ commits' = [commits EXCEPT ![r] = 0]
    /\ UNCHANGED <<worker, bucket, on, free, queue, buffer, printed, faults>>

\* Mutant: middleware and task share one context.
DumpShared(r, record) ==
    /\ printed' = [printed EXCEPT ![r] =
                    @ \union buffer[r].middleware \union buffer[r].task
                      \union {record}]
    /\ buffer' = [buffer EXCEPT ![r] = NoRecords]

\* dump() prints what its own context holds, and clear_context empties it; the
\* task's ends with the task.
Dump(r, record) ==
    /\ printed' = [printed EXCEPT ![r] =
                    @ \union buffer[r].middleware \union {record}]
    /\ buffer' = [buffer EXCEPT ![r] = NoRecords]

\* The response passes the middleware, which records its status and dumps;
\* only then is the session closed.
SendResponse(r) ==
    /\ at[r] = "responding"
    /\ at' = [at EXCEPT ![r] = "closing"]
    /\ Dump(r, "completed")
    /\ UNCHANGED <<worker, bucket, on, commits, free, queue, faults>>

\* Mutant: the value is counted up for those who wait, too.
ReleaseTwice(w) ==
    /\ free' = [free EXCEPT ![w] = @ + 1]
    /\ queue' = [queue EXCEPT ![w] = IF @ = <<>> THEN @ ELSE Tail(@)]

\* Leaving db_semaphore wakes the first in the queue and gives it the permit.
Release(w) ==
    IF queue[w] = <<>>
    THEN free' = [free EXCEPT ![w] = @ + 1] /\ UNCHANGED queue
    ELSE queue' = [queue EXCEPT ![w] = Tail(@)] /\ UNCHANGED free
Woken(r) ==
    queue[on[r]] # <<>> /\ r = Head(queue[on[r]])

\* Mutants: an exception keeps its permit; the permit comes back, but nobody is
\* woken for it.
CloseSessionOnSuccess(r) ==
    /\ at[r] \in {"closing", "failing"}
    /\ IF at[r] = "closing"
       THEN /\ at' = [q \in Requests |->
                        IF q = r THEN "answered"
                        ELSE IF on[q] = on[r] /\ Woken(q) THEN "session" ELSE at[q]]
            /\ on' = [on EXCEPT ![r] = Null]
            /\ Release(on[r])
       ELSE /\ at' = [at EXCEPT ![r] = "refused"]
            /\ UNCHANGED <<on, free, queue>>
    /\ UNCHANGED <<worker, bucket, commits, buffer, printed, faults>>
CloseSessionSilently(r) ==
    /\ at[r] \in {"closing", "failing"}
    /\ at' = [at EXCEPT ![r] = IF at[r] = "closing" THEN "answered" ELSE "refused"]
    /\ on' = [on EXCEPT ![r] = IF at[r] = "closing" THEN Null ELSE @]
    /\ free' = [free EXCEPT ![on[r]] = @ + 1]
    /\ UNCHANGED <<worker, bucket, commits, queue, buffer, printed, faults>>

\* The end of get_db: session.close() returns the connection.  An exception
\* goes on to its handler after that.
CloseSession(r) ==
    /\ at[r] \in {"closing", "failing"}
    /\ \E next \in IF at[r] = "closing" THEN {"answered"} ELSE {"refused", "crashed"} :
        at' = [q \in Requests |->
                IF q = r THEN next
                ELSE IF on[q] = on[r] /\ Woken(q) THEN "session" ELSE at[q]]
    /\ Release(on[r])
    /\ on' = [on EXCEPT ![r] = IF at[r] = "closing" THEN Null ELSE @]
    /\ UNCHANGED <<worker, bucket, commits, buffer, printed, faults>>

\* An HTTPException is answered inside the middleware.
AnswerError(r) ==
    /\ at[r] = "refused"
    /\ at' = [at EXCEPT ![r] = "answered"]
    /\ on' = [on EXCEPT ![r] = Null]
    /\ Dump(r, "completed")
    /\ UNCHANGED <<worker, bucket, commits, free, queue, faults>>

\* Any other exception passes the middleware, which dumps and raises it again
\* for unexpected_exception_handler, which records and dumps too.
AnswerCrash(r) ==
    /\ at[r] = "crashed"
    /\ at' = [at EXCEPT ![r] = "answered"]
    /\ on' = [on EXCEPT ![r] = Null]
    /\ printed' = [printed EXCEPT ![r] =
                    @ \union buffer[r].middleware
                      \union {"unhandled", "server_error"}]
    /\ buffer' = [buffer EXCEPT ![r] = NoRecords]
    /\ UNCHANGED <<worker, bucket, commits, free, queue, faults>>

WorkerStep(w) == StartWorker(w) \/ ListBuckets(w) \/ CreateBucket(w)
RequestStep(r) ==
    \/ CheckOut(r) \/ Commit(r) \/ Return(r) \/ Raise(r) \/ SendResponse(r)
    \/ CloseSession(r) \/ AnswerError(r) \/ AnswerCrash(r)

ServerNext ==
    \/ \E w \in Workers : WorkerStep(w) \/ StorageFails(w) \/ Crash(w)
    \/ \E r \in Requests : Arrive(r) \/ RequestStep(r)

\* A process that is down is started and starts; the event loop resumes every
\* request that can go on.
ServerFairness ==
    /\ \A w \in Workers : WF_vars(WorkerStep(w))
    /\ \A r \in Requests : WF_vars(RequestStep(r))

ServerSpec == ServerInit /\ [][ServerNext]_vars /\ ServerFairness

-----------------------------------------------------------------------------
ServerTypeOK ==
    /\ worker \in [Workers -> {"down", "starting", "creating", "serving"}]
    /\ bucket \in BOOLEAN
    /\ on \in [Requests -> Workers \union {Null}]
    /\ at \in [Requests -> Steps]
    /\ commits \in [Requests -> 0..2]
    /\ free \in [Workers -> 0..Permits]
    /\ queue \in [Workers -> Seq(Requests)]
    /\ buffer \in [Requests -> [middleware : SUBSET Records, task : SUBSET Records]]
    /\ printed \in [Requests -> SUBSET Records]
    /\ faults \in Nat

\* No permit is lost and none is made up: on every way out of a request,
\* through an answer, an error or the death of the process, the semaphore and
\* the sessions that are open account for all of them.
PermitsConserved ==
    \A w \in Workers : free[w] + Cardinality(Holders(w)) = Permits

\* A session never waits for the pool, whose timeout would fail the request
\* half way: the semaphore lets in no more than the pool has connections for,
\* although a request returns its connection with every commit.
PoolNeverExhausted ==
    \A r \in Requests :
        at[r] = "session" => Cardinality(Connections(on[r])) < PoolMax

\* What is printed of an answered request is that it started and how it ended,
\* with an answer or with a crash, and nothing its task has recorded.
AnswersAreLogged ==
    \A r \in Requests :
        at[r] = "answered" =>
            printed[r] \in { {"started", "completed"},
                             {"started", "unhandled", "server_error"} }

\* Whoever waits for a session gets an answer, or its process dies.
EveryRequestAnswered ==
    \A r \in Requests : at[r] = "queued" ~> at[r] \in {"answered", "idle"}

\* Every process comes to serve, the losers of the race for the bucket too,
\* and then the bucket is there.
EveryWorkerServes ==
    \A w \in Workers : <>[](worker[w] = "serving" /\ bucket)
=============================================================================
