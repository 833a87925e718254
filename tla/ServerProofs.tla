---------------------------- MODULE ServerProofs ----------------------------
(***************************************************************************)
(* Permits, connections, the queue and the log of the worker processes:    *)
(* for any number of processes and requests, any size of semaphore and     *)
(* pool, and any number of crashes.                                        *)
(***************************************************************************)
EXTENDS Server, FiniteSetTheorems, SequenceTheorems, TLAPS

Waiting(w) == {r \in Requests : on[r] = w /\ at[r] = "queued"}
InQueue(q) == {q[i] : i \in DOMAIN q}
OnceEach(q) == \A i, j \in DOMAIN q : q[i] = q[j] => i = j

\* A request is on a process from its arrival to its answer.
Placed == \A r \in Requests : on[r] = Null <=> at[r] \in {"idle", "answered"}

\* What has been recorded and printed of a request when it is that far.
Recorded(r) ==
    /\ at[r] \notin {"idle", "closing", "answered"} =>
        buffer[r].middleware = {"started"} /\ printed[r] = {}
    /\ at[r] = "closing" => printed[r] = {"started", "completed"}
    /\ at[r] = "answered" =>
        printed[r] \in { {"started", "completed"},
                         {"started", "unhandled", "server_error"} }

\* Every permit is free or held, and whoever waits stands in the queue.
Seat(value, holders, waiting, q) ==
    /\ IsFiniteSet(holders)
    /\ value + Cardinality(holders) = Permits
    /\ q # <<>> => value = 0
    /\ waiting = InQueue(q)
    /\ OnceEach(q)
Seated == \A w \in Workers : Seat(free[w], Holders(w), Waiting(w), queue[w])

\* The inductive invariant.
ServerInv ==
    /\ ServerTypeOK
    /\ Placed
    /\ Seated
    /\ \A r \in Requests : Recorded(r)

-----------------------------------------------------------------------------
\* Taking the head off a queue in which nobody stands twice.
LEMMA HeadLeaves ==
    ASSUME NEW S, NEW q \in Seq(S), q # <<>>, OnceEach(q)
    PROVE  /\ Tail(q) \in Seq(S) /\ Head(q) \in S
           /\ Head(q) \in InQueue(q)
           /\ InQueue(Tail(q)) = InQueue(q) \ {Head(q)}
           /\ OnceEach(Tail(q))
<1>1. /\ Len(q) \in Nat \ {0} /\ DOMAIN q = 1 .. Len(q) /\ Head(q) = q[1]
      /\ Head(q) \in S /\ Tail(q) \in Seq(S)
      /\ DOMAIN Tail(q) = 1 .. Len(q) - 1
      /\ \A i \in 1 .. Len(q) - 1 : Tail(q)[i] = q[i + 1]
  <2>1. Len(q) \in Nat \ {0} /\ DOMAIN q = 1 .. Len(q) /\ Head(q) = q[1]
    OBVIOUS
  <2>2. Head(q) \in S /\ Tail(q) \in Seq(S) /\ Len(Tail(q)) = Len(q) - 1
        /\ \A i \in 1 .. Len(Tail(q)) : Tail(q)[i] = q[i + 1]
    BY HeadTailProperties
  <2>3. DOMAIN Tail(q) = 1 .. Len(Tail(q))
    BY <2>2
  <2> QED
    BY <2>1, <2>2, <2>3
<1>2. Head(q) \in InQueue(q)
  BY <1>1 DEF InQueue
<1>3. InQueue(Tail(q)) = InQueue(q) \ {Head(q)}
  <2>1. ASSUME NEW x \in InQueue(Tail(q)) PROVE x \in InQueue(q) /\ x # Head(q)
    <3>1. PICK i \in 1 .. Len(q) - 1 : x = q[i + 1]
      BY <1>1 DEF InQueue
    <3>2. i + 1 \in DOMAIN q /\ 1 \in DOMAIN q /\ i + 1 # 1
      BY <1>1
    <3> QED
      BY <1>1, <3>1, <3>2 DEF InQueue, OnceEach
  <2>2. ASSUME NEW x \in InQueue(q), x # Head(q) PROVE x \in InQueue(Tail(q))
    <3>1. PICK i \in 1 .. Len(q) : x = q[i]
      BY <1>1 DEF InQueue
    <3>2. i - 1 \in 1 .. Len(q) - 1
      BY <1>1, <2>2, <3>1
    <3>3. Tail(q)[i - 1] = x /\ i - 1 \in DOMAIN Tail(q)
      <4>1. Tail(q)[i - 1] = q[(i - 1) + 1] /\ (i - 1) + 1 = i
        BY <1>1, <3>2
      <4> QED
        BY <1>1, <3>1, <3>2, <4>1
    <3> QED
      BY <3>3 DEF InQueue
  <2> QED
    BY <2>1, <2>2
<1>4. OnceEach(Tail(q))
  <2> SUFFICES ASSUME NEW i \in 1 .. Len(q) - 1, NEW j \in 1 .. Len(q) - 1,
                      q[i + 1] = q[j + 1]
               PROVE  i = j
    BY <1>1 DEF OnceEach
  <2>1. i + 1 \in DOMAIN q /\ j + 1 \in DOMAIN q
    BY <1>1
  <2>2. i + 1 = j + 1
    BY <2>1 DEF OnceEach
  <2> QED
    BY <2>2
<1> QED
  BY <1>1, <1>2, <1>3, <1>4

\* Queueing behind the others.
LEMMA OneMoreWaits ==
    ASSUME NEW S, NEW q \in Seq(S), OnceEach(q), NEW x \in S, x \notin InQueue(q)
    PROVE  /\ Append(q, x) \in Seq(S)
           /\ InQueue(Append(q, x)) = InQueue(q) \union {x}
           /\ OnceEach(Append(q, x))
<1>1. /\ Len(q) \in Nat /\ DOMAIN q = 1 .. Len(q)
      /\ Append(q, x) \in Seq(S)
      /\ DOMAIN Append(q, x) = 1 .. Len(q) + 1
      /\ \A i \in 1 .. Len(q) : Append(q, x)[i] = q[i]
      /\ Append(q, x)[Len(q) + 1] = x
  BY AppendProperties
<1>2. \A i \in 1 .. Len(q) + 1 : i \in 1 .. Len(q) \/ i = Len(q) + 1
  BY <1>1
<1>3. 1 .. Len(q) \subseteq 1 .. Len(q) + 1 /\ Len(q) + 1 \in 1 .. Len(q) + 1
  BY <1>1
<1> DEFINE a == Append(q, x)
<1> HIDE DEF a
<1>4. InQueue(a) = InQueue(q) \union {x}
  BY <1>1, <1>2, <1>3 DEF InQueue, a
<1>5. OnceEach(a)
  <2> SUFFICES ASSUME NEW i \in DOMAIN a, NEW j \in DOMAIN a, a[i] = a[j]
               PROVE  i = j
    BY DEF OnceEach
  <2>1. CASE i \in DOMAIN q /\ j \in DOMAIN q
    BY <1>1, <2>1 DEF OnceEach, a
  <2>2. CASE i \notin DOMAIN q \/ j \notin DOMAIN q
    BY <1>1, <1>2, <2>2 DEF InQueue, a
  <2> QED
    BY <2>1, <2>2
<1> QED
  BY <1>1, <1>4, <1>5 DEF a

-----------------------------------------------------------------------------
\* The permits, the queue and those who stand in it stay when nobody sits
\* down, rises or queues.
LEMMA SameSeats ==
    ASSUME Seated, UNCHANGED <<free, queue>>,
           \A w \in Workers : Holders(w)' = Holders(w) /\ Waiting(w)' = Waiting(w)
    PROVE  Seated'
BY DEF Seated

\* The holders of a process are finitely many, being requests.
LEMMA HoldersAreFinite ==
    ASSUME NEW w PROVE IsFiniteSet(Holders(w))
<1>1. Holders(w) \subseteq Requests
  BY DEF Holders
<1> QED
  BY <1>1, RequestsAreFinite, FS_Subset

\* A value of the semaphore between the bounds is all Seated leaves.
LEMMA FreeInBounds ==
    ASSUME NEW f \in Int, NEW S, IsFiniteSet(S), f + Cardinality(S) = Permits
    PROVE  f <= Permits
<1>1. Cardinality(S) \in Nat
  BY FS_CardinalityType
<1> QED
  BY <1>1, PermitsFitPool

\* A step that leaves a request where it sits, in a session or out of one, and
\* types the variables it writes.
LEMMA SeatedStep ==
    ASSUME ServerInv, NEW r \in Requests, NEW step \in Steps, NEW place,
           at' = [at EXCEPT ![r] = step], on' = [on EXCEPT ![r] = place],
           UNCHANGED <<free, queue>>,
           at[r] \notin {"queued"}, step # "queued",
           \/ place = on[r] /\ (step \in InSession <=> at[r] \in InSession)
           \/ at[r] \notin InSession /\ step \notin InSession
    PROVE  Seated'
<1>1. /\ \A q \in Requests \ {r} : at'[q] = at[q] /\ on'[q] = on[q]
      /\ at'[r] = step /\ on'[r] = place
  BY DEF ServerInv, ServerTypeOK
<1>2. ASSUME NEW w \in Workers
      PROVE  Holders(w)' = Holders(w) /\ Waiting(w)' = Waiting(w)
  BY <1>1 DEF Holders, Waiting
<1> QED
  BY <1>2, SameSeats DEF ServerInv

\* What was recorded of the other requests stays.
LEMMA OthersRecorded ==
    ASSUME ServerInv, NEW q \in Requests,
           at'[q] = at[q] \/ {at[q], at'[q]} \subseteq {"queued", "session"},
           buffer'[q] = buffer[q], printed'[q] = printed[q]
    PROVE  Recorded(q)'
<1>1. Recorded(q)
  BY DEF ServerInv
<1> QED
  BY <1>1 DEF Recorded

Entries == [middleware : SUBSET Records, task : SUBSET Records]
Endings == { {"started", "completed"}, {"started", "unhandled", "server_error"} }

\* A step of a request that neither takes a permit nor gives one back: what it
\* writes is the request's own, and in order.
LEMMA OwnStepKeepsServer ==
    ASSUME ServerInv, NEW r \in Requests, NEW step \in Steps, NEW b \in Entries,
           NEW p \in SUBSET Records, NEW place,
           at' = [at EXCEPT ![r] = step], on' = [on EXCEPT ![r] = place],
           buffer' = [buffer EXCEPT ![r] = b], printed' = [printed EXCEPT ![r] = p],
           UNCHANGED <<worker, bucket, free, queue, faults>>,
           commits' \in [Requests -> 0..2],
           \/ /\ place = on[r] /\ {step, at[r]} \subseteq InSession
              /\ step # "closing" => b.middleware = {"started"} /\ p = {}
              /\ step = "closing" => p = {"started", "completed"}
           \/ /\ place = Null /\ at[r] \in {"refused", "crashed"}
              /\ step = "answered" /\ p \in Endings
    PROVE  ServerInv'
<1> USE DEF InSession, Connected
<1>1. ServerTypeOK
  BY DEF ServerInv
<1>2. /\ at'[r] = step /\ on'[r] = place /\ buffer'[r] = b /\ printed'[r] = p
      /\ \A q \in Requests \ {r} :
            /\ at'[q] = at[q] /\ on'[q] = on[q]
            /\ buffer'[q] = buffer[q] /\ printed'[q] = printed[q]
  BY <1>1 DEF ServerTypeOK
<1>3. ServerTypeOK'
  BY <1>1 DEF ServerTypeOK, Entries
<1>4. Placed'
  BY <1>1, <1>2 DEF ServerInv, Placed, ServerTypeOK
<1>5. Seated'
  BY SeatedStep
<1>6. Recorded(r)'
  BY <1>2 DEF Recorded, Endings
<1> QED
  BY <1>2, <1>3, <1>4, <1>5, <1>6, OthersRecorded DEF ServerInv

\* The seven steps of that kind.
LEMMA QuietStepKeepsServer ==
    ASSUME ServerInv, NEW r \in Requests,
           \/ CheckOut(r) \/ Commit(r) \/ Return(r) \/ Raise(r)
           \/ SendResponse(r) \/ AnswerError(r) \/ AnswerCrash(r)
    PROVE  ServerInv'
<1>1. /\ ServerTypeOK /\ Recorded(r)
      /\ buffer[r] \in Entries /\ printed[r] \in SUBSET Records /\ NoRecords \in Entries
  BY DEF ServerInv, ServerTypeOK, NoRecords, Entries
<1>2. /\ on = [on EXCEPT ![r] = on[r]] /\ buffer = [buffer EXCEPT ![r] = buffer[r]]
      /\ printed = [printed EXCEPT ![r] = printed[r]] /\ commits \in [Requests -> 0..2]
  BY <1>1 DEF ServerTypeOK
<1>3. {"session", "connected", "responding", "closing", "failing", "answered"} \subseteq Steps
  BY DEF Steps, InSession, Connected
<1>4. CASE CheckOut(r)
  <2> DEFINE b == [buffer[r] EXCEPT !.task = @ \union {"handler"}]
  <2>1. b \in Entries /\ b.middleware = {"started"} /\ printed[r] = {}
    BY <1>1, <1>4 DEF CheckOut, Recorded, Records, Entries
  <2>2. /\ buffer' = [buffer EXCEPT ![r] = b] /\ at' = [at EXCEPT ![r] = "connected"]
        /\ at[r] = "session"
        /\ UNCHANGED <<worker, bucket, on, commits, free, queue, printed, faults>>
    BY <1>4 DEF CheckOut
  <2> HIDE DEF b
  <2> QED
    BY <1>1, <1>2, <1>3, <2>1, <2>2, OwnStepKeepsServer DEF InSession, Connected
<1>5. CASE Commit(r) \/ Return(r) \/ Raise(r)
  <2>1. PICK step \in {"session", "responding", "failing"} : at' = [at EXCEPT ![r] = step]
    BY <1>5 DEF Commit, Return, Raise
  <2>2. at[r] \in {"session", "connected"}
        /\ UNCHANGED <<worker, bucket, on, free, queue, buffer, printed, faults>>
    BY <1>5 DEF Commit, Return, Raise
  <2>3. buffer[r].middleware = {"started"} /\ printed[r] = {}
    BY <1>1, <2>2 DEF Recorded
  <2>4. commits' \in [Requests -> 0..2]
    <3>1. PICK n \in 0..2 : commits' = [commits EXCEPT ![r] = n]
      <4>1. CASE Commit(r)
        <5>1. commits[r] + 1 \in 0..2
          BY <1>2, <4>1 DEF Commit
        <5> QED
          BY <4>1, <5>1 DEF Commit
      <4>2. CASE Return(r) \/ Raise(r)
        BY <4>2 DEF Return, Raise
      <4> QED
        BY <1>5, <4>1, <4>2
    <3> QED
      BY <1>2, <3>1
  <2>5. step \in Steps /\ step # "closing" /\ {step, at[r]} \subseteq InSession
    BY <1>3, <2>1, <2>2 DEF InSession, Connected
  <2>6. /\ on' = [on EXCEPT ![r] = on[r]] /\ buffer' = [buffer EXCEPT ![r] = buffer[r]]
        /\ printed' = [printed EXCEPT ![r] = printed[r]]
    BY <1>2, <2>2
  <2>7. buffer[r] \in Entries /\ printed[r] \in SUBSET Records
    BY <1>1
  <2>8. UNCHANGED <<worker, bucket, free, queue, faults>>
    BY <2>2
  <2> QED
    BY <2>1, <2>3, <2>4, <2>5, <2>6, <2>7, <2>8, OwnStepKeepsServer
<1>6. CASE SendResponse(r) \/ AnswerError(r)
  <2> DEFINE p == printed[r] \union buffer[r].middleware \union {"completed"}
  <2>1. p = {"started", "completed"}
    BY <1>1, <1>6 DEF SendResponse, AnswerError, Recorded
  <2>2. p \in SUBSET Records
    BY <2>1 DEF Records
  <2>3. /\ printed' = [printed EXCEPT ![r] = p] /\ buffer' = [buffer EXCEPT ![r] = NoRecords]
        /\ UNCHANGED <<worker, bucket, commits, free, queue, faults>>
    BY <1>6 DEF SendResponse, AnswerError, Dump
  <2> HIDE DEF p
  <2>4. CASE SendResponse(r)
    <3>1. at[r] = "responding" /\ at' = [at EXCEPT ![r] = "closing"] /\ on' = on
      BY <2>4 DEF SendResponse
    <3> QED
      BY <1>1, <1>2, <1>3, <2>1, <2>2, <2>3, <3>1, OwnStepKeepsServer DEF InSession, Connected
  <2>5. CASE AnswerError(r)
    <3>1. /\ at[r] = "refused" /\ at' = [at EXCEPT ![r] = "answered"]
          /\ on' = [on EXCEPT ![r] = Null]
      BY <2>5 DEF AnswerError
    <3> QED
      BY <1>1, <1>2, <1>3, <2>1, <2>2, <2>3, <3>1, OwnStepKeepsServer DEF Endings
  <2> QED
    BY <1>6, <2>4, <2>5
<1>7. CASE AnswerCrash(r)
  <2> DEFINE p == printed[r] \union buffer[r].middleware
                      \union {"unhandled", "server_error"}
  <2>1. p = {"started", "unhandled", "server_error"}
    BY <1>1, <1>7 DEF AnswerCrash, Recorded
  <2>2. p \in SUBSET Records /\ p \in Endings
    BY <2>1 DEF Records, Endings
  <2>3. /\ printed' = [printed EXCEPT ![r] = p] /\ buffer' = [buffer EXCEPT ![r] = NoRecords]
        /\ at[r] = "crashed" /\ at' = [at EXCEPT ![r] = "answered"]
        /\ on' = [on EXCEPT ![r] = Null]
        /\ UNCHANGED <<worker, bucket, commits, free, queue, faults>>
    BY <1>7 DEF AnswerCrash
  <2> HIDE DEF p
  <2> QED
    BY <1>1, <1>2, <1>3, <2>2, <2>3, OwnStepKeepsServer
<1> QED
  BY <1>4, <1>5, <1>6, <1>7
\* Starting, and failing to: nothing of the requests.
LEMMA StartupKeepsServer ==
    ASSUME ServerInv, UNCHANGED requestVars,
           worker' \in [Workers -> {"down", "starting", "creating", "serving"}],
           bucket' \in BOOLEAN, faults' \in Nat
    PROVE  ServerInv'
<1> USE DEF requestVars
<1>1. ServerTypeOK' /\ Placed'
  BY DEF ServerInv, ServerTypeOK, Placed
<1>2. Seated'
  <2>1. \A w \in Workers : Holders(w)' = Holders(w) /\ Waiting(w)' = Waiting(w)
    BY DEF Holders, Waiting
  <2> QED
    BY <2>1, SameSeats DEF ServerInv
<1>3. \A r \in Requests : Recorded(r)'
  BY OthersRecorded
<1> QED
  BY <1>1, <1>2, <1>3 DEF ServerInv

\* A process that dies frees everything it has: a new semaphore is full, the
\* new queue empty.
LEMMA CrashKeepsServer ==
    ASSUME ServerInv, NEW w \in Workers, Crash(w)
    PROVE  ServerInv'
<1>1. ServerTypeOK
  BY DEF ServerInv
<1>2. /\ worker' = [worker EXCEPT ![w] = "down"] /\ faults' = faults + 1
      /\ on' = [r \in Requests |-> IF on[r] = w THEN Null ELSE on[r]]
      /\ at' = [r \in Requests |-> IF on[r] = w THEN "idle" ELSE at[r]]
      /\ commits' = [r \in Requests |-> IF on[r] = w THEN 0 ELSE commits[r]]
      /\ free' = [free EXCEPT ![w] = Permits] /\ queue' = [queue EXCEPT ![w] = <<>>]
      /\ buffer' = [r \in Requests |-> IF on[r] = w THEN NoRecords ELSE buffer[r]]
      /\ UNCHANGED <<bucket, printed>>
  BY DEF Crash
<1>3. ServerTypeOK'
  <2>1. /\ worker' \in [Workers -> {"down", "starting", "creating", "serving"}]
        /\ on' \in [Requests -> Workers \union {Null}]
        /\ commits' \in [Requests -> 0..2] /\ faults' \in Nat
    BY <1>1, <1>2 DEF ServerTypeOK
  <2>2. at' \in [Requests -> Steps]
    BY <1>1, <1>2 DEF ServerTypeOK, Steps
  <2>3. free' \in [Workers -> 0..Permits] /\ queue' \in [Workers -> Seq(Requests)]
    BY <1>1, <1>2, PermitsFitPool DEF ServerTypeOK
  <2>4. buffer' \in [Requests -> [middleware : SUBSET Records, task : SUBSET Records]]
    BY <1>1, <1>2 DEF ServerTypeOK, NoRecords
  <2> QED
    BY <1>1, <1>2, <2>1, <2>2, <2>3, <2>4 DEF ServerTypeOK
<1>4. Placed'
  BY <1>1, <1>2 DEF ServerInv, Placed, ServerTypeOK
<1>5. Seated'
  <2>1. ASSUME NEW v \in Workers, v # w
        PROVE  /\ Holders(v)' = Holders(v) /\ Waiting(v)' = Waiting(v)
               /\ free'[v] = free[v] /\ queue'[v] = queue[v]
    BY <1>1, <1>2, <2>1, NullIsNoWorker DEF Holders, Waiting, ServerTypeOK
  <2>2. ASSUME NEW v, v = w PROVE Holders(v)' = {} /\ Waiting(v)' = {}
    BY <1>2, <2>2, NullIsNoWorker DEF Holders, Waiting
  <2>3. free'[w] = Permits /\ queue'[w] = <<>> /\ InQueue(<<>>) = {} /\ OnceEach(<<>>)
    BY <1>1, <1>2 DEF ServerTypeOK, InQueue, OnceEach
  <2>4. IsFiniteSet({}) /\ Cardinality({}) = 0
    BY FS_EmptySet
  <2>5. ASSUME NEW v \in Workers
        PROVE  Seat(free'[v], Holders(v)', Waiting(v)', queue'[v])
    <3>1. CASE v = w
      <4>1. Seat(Permits, {}, {}, <<>>)
        BY <2>3, <2>4, PermitsFitPool DEF Seat
      <4>2. Holders(v)' = {} /\ Waiting(v)' = {} /\ free'[v] = Permits /\ queue'[v] = <<>>
        BY <2>2, <2>3, <3>1
      <4> QED
        BY <4>1, <4>2
    <3>2. CASE v # w
      <4>1. Seat(free[v], Holders(v), Waiting(v), queue[v])
        BY DEF ServerInv, Seated
      <4>2. /\ Holders(v)' = Holders(v) /\ Waiting(v)' = Waiting(v)
            /\ free'[v] = free[v] /\ queue'[v] = queue[v]
        BY <2>1, <3>2
      <4> QED
        BY <4>1, <4>2
    <3> QED
      BY <3>1, <3>2
  <2> QED
    BY <2>5 DEF Seated
<1>6. ASSUME NEW r \in Requests PROVE Recorded(r)'
  <2>1. CASE on[r] = w
    BY <1>2, <2>1 DEF Recorded
  <2>2. CASE on[r] # w
    BY <1>2, <2>2, OthersRecorded
  <2> QED
    BY <2>1, <2>2
<1> QED
  BY <1>3, <1>4, <1>5, <1>6 DEF ServerInv
\* One seat less, one waiting less or one more: what is left of Seat.
LEMMA SeatFreed ==
    ASSUME NEW f \in Nat, NEW h, NEW r \in h, NEW q, Seat(f, h, {}, q), q = <<>>
    PROVE  Seat(f + 1, h \ {r}, {}, q) /\ f + 1 \in 0..Permits
<1>1. IsFiniteSet(h \ {r}) /\ Cardinality(h \ {r}) = Cardinality(h) - 1
  BY FS_RemoveElement DEF Seat
<1>2. Cardinality(h) \in Nat /\ Cardinality(h \ {r}) \in Nat
  BY <1>1, FS_CardinalityType DEF Seat
<1> QED
  BY <1>1, <1>2, PermitsFitPool DEF Seat

LEMMA SeatPassedOn ==
    ASSUME NEW f \in Nat, NEW h, NEW r \in h, NEW S, NEW q \in Seq(S), q # <<>>,
           Seat(f, h, InQueue(q), q), Head(q) \notin h
    PROVE  Seat(f, (h \ {r}) \union {Head(q)}, InQueue(q) \ {Head(q)}, Tail(q))
<1> DEFINE rest == h \ {r}
<1>1. IsFiniteSet(rest) /\ Cardinality(rest) = Cardinality(h) - 1 /\ Head(q) \notin rest
  BY FS_RemoveElement DEF Seat
<1>2. /\ IsFiniteSet(rest \union {Head(q)})
      /\ Cardinality(rest \union {Head(q)}) = Cardinality(rest) + 1
  BY <1>1, FS_AddElement
<1>3. Cardinality(h) \in Nat
  BY FS_CardinalityType DEF Seat
<1>4. f + Cardinality(rest \union {Head(q)}) = Permits
  BY <1>1, <1>2, <1>3, PermitsFitPool DEF Seat
<1>5. InQueue(Tail(q)) = InQueue(q) \ {Head(q)} /\ OnceEach(Tail(q)) /\ f = 0
  BY HeadLeaves DEF Seat
<1> QED
  BY <1>2, <1>4, <1>5 DEF Seat

\* The end of a session gives its permit to the first in the queue, or back.
LEMMA CloseKeepsServer ==
    ASSUME ServerInv, NEW r \in Requests, CloseSession(r)
    PROVE  ServerInv'
<1>1. ServerTypeOK /\ at[r] \in {"closing", "failing"}
  BY DEF ServerInv, CloseSession
<1>2. PICK w \in Workers : on[r] = w
  BY <1>1 DEF ServerInv, Placed, ServerTypeOK
<1>3. /\ Seat(free[w], Holders(w), Waiting(w), queue[w]) /\ r \in Holders(w)
      /\ free[w] \in Nat /\ queue[w] \in Seq(Requests)
  BY <1>1, <1>2 DEF ServerInv, Seated, Holders, InSession, Connected, ServerTypeOK
<1>4. PICK next \in {"answered", "refused", "crashed"} :
        /\ next = "answered" <=> at[r] = "closing"
        /\ at' = [q \in Requests |->
                    IF q = r THEN next
                    ELSE IF on[q] = w /\ Woken(q) THEN "session" ELSE at[q]]
  BY <1>1, <1>2 DEF CloseSession
<1>5. /\ on' = [on EXCEPT ![r] = IF at[r] = "closing" THEN Null ELSE w]
      /\ Release(w) /\ UNCHANGED <<worker, bucket, commits, buffer, printed, faults>>
  BY <1>1, <1>2 DEF CloseSession
<1>6. \A q \in Requests \ {r} : on'[q] = on[q]
  BY <1>1, <1>5 DEF ServerTypeOK
<1>7. at' \in [Requests -> Steps] /\ on' \in [Requests -> Workers \union {Null}]
  BY <1>1, <1>2, <1>4, <1>5 DEF ServerTypeOK, Steps, InSession, Connected
<1>8. ASSUME NEW q \in Requests \ {r}
      PROVE  \/ at'[q] = at[q] /\ ~(on[q] = w /\ Woken(q))
             \/ /\ on[q] = w /\ queue[w] # <<>> /\ q = Head(queue[w])
                /\ at[q] = "queued" /\ at'[q] = "session"
  <2>1. CASE on[q] = w /\ Woken(q)
    <3>1. queue[w] # <<>> /\ q = Head(queue[w]) /\ at'[q] = "session"
      BY <1>4, <2>1 DEF Woken
    <3>2. q \in Waiting(w)
      BY <1>3, <3>1, HeadLeaves DEF Seat
    <3> QED
      BY <2>1, <3>1, <3>2 DEF Waiting
  <2> QED
    BY <1>4, <2>1
<1>9. ASSUME NEW v \in Workers, v # w
      PROVE  Holders(v)' = Holders(v) /\ Waiting(v)' = Waiting(v)
  <2>1. /\ r \notin Holders(v) /\ r \notin Waiting(v)
        /\ r \notin Holders(v)' /\ r \notin Waiting(v)'
    BY <1>1, <1>2, <1>4, <1>9 DEF Holders, Waiting, InSession, Connected
  <2>2. ASSUME NEW q \in Requests \ {r}
        PROVE  /\ q \in Holders(v)' <=> q \in Holders(v)
               /\ q \in Waiting(v)' <=> q \in Waiting(v)
    BY <1>6, <1>8, <1>9 DEF Holders, Waiting
  <2> QED
    BY <2>1, <2>2 DEF Holders, Waiting
<1>10. r \notin Holders(w)' /\ r \notin Waiting(w)' /\ r \notin Waiting(w)
  BY <1>1, <1>4 DEF Holders, Waiting, InSession, Connected
<1>11. /\ Seat(free'[w], Holders(w)', Waiting(w)', queue'[w])
       /\ \A v \in Workers \ {w} : free'[v] = free[v] /\ queue'[v] = queue[v]
       /\ free' \in [Workers -> 0..Permits] /\ queue' \in [Workers -> Seq(Requests)]
  <2>1. CASE queue[w] = <<>>
    <3>1. free' = [free EXCEPT ![w] = @ + 1] /\ queue' = queue
      BY <1>5, <2>1 DEF Release
    <3>2. Waiting(w) = {}
      BY <1>3, <2>1 DEF Seat, InQueue
    <3>3. Seat(free[w] + 1, Holders(w) \ {r}, {}, queue[w]) /\ free[w] + 1 \in 0..Permits
      BY <1>3, <2>1, <3>2, SeatFreed
    <3>4. ASSUME NEW q \in Requests \ {r}
          PROVE  /\ q \in Holders(w)' <=> q \in Holders(w)
                 /\ q \notin Waiting(w)'
      BY <1>6, <1>8, <2>1, <3>2 DEF Holders, Waiting
    <3>5. Holders(w)' = Holders(w) \ {r} /\ Waiting(w)' = {}
      BY <1>10, <3>4 DEF Holders, Waiting
    <3>6. free'[w] = free[w] + 1 /\ free' \in [Workers -> 0..Permits]
      BY <1>1, <1>2, <3>1, <3>3 DEF ServerTypeOK
    <3> QED
      BY <1>1, <3>1, <3>3, <3>5, <3>6 DEF ServerTypeOK
  <2>2. CASE queue[w] # <<>>
    <3> DEFINE h == Head(queue[w])
    <3>1. queue' = [queue EXCEPT ![w] = Tail(@)] /\ free' = free
      BY <1>5, <2>2 DEF Release
    <3>2. Waiting(w) = InQueue(queue[w]) /\ h \in Waiting(w) /\ Tail(queue[w]) \in Seq(Requests)
      BY <1>3, <2>2, HeadLeaves DEF Seat
    <3>3. h \in Requests \ {r} /\ on[h] = w /\ at[h] = "queued"
      BY <1>10, <3>2 DEF Waiting
    <3>4. at'[h] = "session"
      BY <1>4, <2>2, <3>3 DEF Woken
    <3>5. h \notin Holders(w)
      BY <3>3 DEF Holders, InSession, Connected
    <3>6. Seat(free[w], (Holders(w) \ {r}) \union {h}, Waiting(w) \ {h}, Tail(queue[w]))
      BY <1>3, <2>2, <3>2, <3>5, SeatPassedOn
    <3>7. Holders(w)' = (Holders(w) \ {r}) \union {h}
      <4>1. h \in Holders(w)'
        BY <1>6, <3>3, <3>4 DEF Holders, InSession
      <4>2. ASSUME NEW q \in Requests \ {r, h}
            PROVE  q \in Holders(w)' <=> q \in Holders(w)
        BY <1>6, <1>8 DEF Holders
      <4> QED
        BY <1>10, <3>3, <4>1, <4>2 DEF Holders
    <3>8. Waiting(w)' = Waiting(w) \ {h}
      <4>1. h \notin Waiting(w)'
        BY <3>4 DEF Waiting
      <4>2. ASSUME NEW q \in Requests \ {r, h}
            PROVE  q \in Waiting(w)' <=> q \in Waiting(w)
        BY <1>6, <1>8 DEF Waiting
      <4> QED
        BY <1>10, <4>1, <4>2 DEF Waiting
    <3>9. queue'[w] = Tail(queue[w]) /\ queue' \in [Workers -> Seq(Requests)]
      BY <1>1, <1>2, <3>1, <3>2 DEF ServerTypeOK
    <3> QED
      BY <1>1, <3>1, <3>6, <3>7, <3>8, <3>9 DEF ServerTypeOK
  <2> QED
    BY <2>1, <2>2
<1>12. ServerTypeOK'
  BY <1>1, <1>5, <1>7, <1>11 DEF ServerTypeOK
<1>13. Placed'
  <2>1. on'[r] = Null <=> at'[r] \in {"idle", "answered"}
    BY <1>1, <1>2, <1>4, <1>5, NullIsNoWorker DEF ServerTypeOK
  <2>2. ASSUME NEW q \in Requests \ {r}
        PROVE  on'[q] = Null <=> at'[q] \in {"idle", "answered"}
    BY <1>2, <1>6, <1>8, NullIsNoWorker DEF ServerInv, Placed
  <2> QED
    BY <2>1, <2>2 DEF Placed
<1>14. Seated'
  <2>1. ASSUME NEW v \in Workers, v # w
        PROVE  Seat(free'[v], Holders(v)', Waiting(v)', queue'[v])
    <3>1. Seat(free[v], Holders(v), Waiting(v), queue[v])
      BY DEF ServerInv, Seated
    <3> QED
      BY <1>9, <1>11, <2>1, <3>1
  <2>2. ASSUME NEW v \in Workers, v = w
        PROVE  Seat(free'[v], Holders(v)', Waiting(v)', queue'[v])
    BY <1>11, <2>2 DEF Holders, Waiting
  <2> QED
    BY <2>1, <2>2 DEF Seated
<1>15. \A q \in Requests : Recorded(q)'
  <2>1. Recorded(r)'
    <3>1. Recorded(r) /\ at'[r] = next
      BY <1>4 DEF ServerInv
    <3> QED
      BY <1>1, <1>4, <1>5, <3>1 DEF Recorded
  <2>2. ASSUME NEW q \in Requests \ {r} PROVE Recorded(q)'
    BY <1>5, <1>8, OthersRecorded
  <2> QED
    BY <2>1, <2>2
<1> QED
  BY <1>12, <1>13, <1>14, <1>15 DEF ServerInv
\* Sitting down on a free permit, and queueing when there is none.
LEMMA SeatTaken ==
    ASSUME NEW f \in Nat, f > 0, NEW h, NEW r, r \notin h, NEW wt, NEW q, Seat(f, h, wt, q)
    PROVE  Seat(f - 1, h \union {r}, wt, q)
<1>1. IsFiniteSet(h \union {r}) /\ Cardinality(h \union {r}) = Cardinality(h) + 1
  BY FS_AddElement DEF Seat
<1>2. Cardinality(h) \in Nat
  BY FS_CardinalityType DEF Seat
<1>3. q = <<>>
  BY DEF Seat
<1> QED
  BY <1>1, <1>2, <1>3, PermitsFitPool DEF Seat

LEMMA SeatAwaited ==
    ASSUME NEW h, NEW S, NEW r \in S, NEW wt, r \notin wt, NEW q \in Seq(S),
           Seat(0, h, wt, q)
    PROVE  Seat(0, h, wt \union {r}, Append(q, r))
BY OneMoreWaits DEF Seat

\* An arrival takes a permit, queues, or is refused before it needs one.
LEMMA ArriveKeepsServer ==
    ASSUME ServerInv, NEW r \in Requests, Arrive(r)
    PROVE  ServerInv'
<1> DEFINE Started == [middleware |-> {"started"}, task |-> {"started"}]
<1>1. ServerTypeOK /\ on[r] = Null /\ at[r] \in {"idle", "answered"}
  BY DEF ServerInv, Placed, Arrive
<1>2. PICK w \in Workers :
        /\ on' = [on EXCEPT ![r] = w]
        /\ \/ at' = [at EXCEPT ![r] = "refused"] /\ UNCHANGED <<free, queue>>
           \/ /\ free[w] > 0 /\ at' = [at EXCEPT ![r] = "session"]
              /\ free' = [free EXCEPT ![w] = @ - 1] /\ UNCHANGED queue
           \/ /\ free[w] = 0 /\ at' = [at EXCEPT ![r] = "queued"]
              /\ queue' = [queue EXCEPT ![w] = Append(@, r)] /\ UNCHANGED free
  BY DEF Arrive
<1>3. /\ buffer' = [buffer EXCEPT ![r] = Started] /\ printed' = [printed EXCEPT ![r] = {}]
      /\ UNCHANGED <<worker, bucket, commits, faults>>
  BY DEF Arrive
<1>4. PICK step \in {"refused", "session", "queued"} : at' = [at EXCEPT ![r] = step]
  BY <1>2
<1>5. /\ at'[r] = step /\ on'[r] = w /\ buffer'[r] = Started /\ printed'[r] = {}
      /\ \A q \in Requests \ {r} :
            /\ at'[q] = at[q] /\ on'[q] = on[q]
            /\ buffer'[q] = buffer[q] /\ printed'[q] = printed[q]
  BY <1>1, <1>2, <1>3, <1>4 DEF ServerTypeOK
<1>6. /\ Seat(free[w], Holders(w), Waiting(w), queue[w])
      /\ free[w] \in 0..Permits /\ queue[w] \in Seq(Requests)
  BY <1>1 DEF ServerInv, Seated, ServerTypeOK
<1>7. r \notin Holders(w) /\ r \notin Waiting(w)
  BY <1>1 DEF Holders, Waiting, InSession, Connected
<1>8. /\ Holders(w)' = IF step = "session" THEN Holders(w) \union {r} ELSE Holders(w)
      /\ Waiting(w)' = IF step = "queued" THEN Waiting(w) \union {r} ELSE Waiting(w)
  BY <1>5, <1>7 DEF Holders, Waiting, InSession, Connected
<1>9. /\ Seat(free'[w], Holders(w)', Waiting(w)', queue'[w])
      /\ \A v \in Workers \ {w} : free'[v] = free[v] /\ queue'[v] = queue[v]
      /\ free' \in [Workers -> 0..Permits] /\ queue' \in [Workers -> Seq(Requests)]
  <2>1. CASE step = "refused"
    <3>1. UNCHANGED <<free, queue>>
      BY <1>1, <1>2, <1>4, <1>5, <2>1 DEF ServerTypeOK
    <3> QED
      BY <1>1, <1>6, <1>8, <2>1, <3>1 DEF ServerTypeOK
  <2>2. CASE step = "session"
    <3>1. free[w] > 0 /\ free' = [free EXCEPT ![w] = @ - 1] /\ UNCHANGED queue
      BY <1>1, <1>2, <1>4, <1>5, <2>2 DEF ServerTypeOK
    <3>2. free[w] \in Nat /\ free[w] - 1 \in 0..Permits
      BY <1>6, <3>1, PermitsFitPool
    <3>3. Seat(free[w] - 1, Holders(w) \union {r}, Waiting(w), queue[w])
      BY <1>6, <1>7, <3>1, <3>2, SeatTaken
    <3>4. free'[w] = free[w] - 1 /\ free' \in [Workers -> 0..Permits]
      BY <1>1, <3>1, <3>2 DEF ServerTypeOK
    <3> QED
      BY <1>1, <1>8, <2>2, <3>1, <3>3, <3>4 DEF ServerTypeOK
  <2>3. CASE step = "queued"
    <3>1. free[w] = 0 /\ queue' = [queue EXCEPT ![w] = Append(@, r)] /\ UNCHANGED free
      BY <1>1, <1>2, <1>4, <1>5, <2>3 DEF ServerTypeOK
    <3>2. Append(queue[w], r) \in Seq(Requests)
      BY <1>6, AppendProperties
    <3>3. Seat(free[w], Holders(w), Waiting(w) \union {r}, Append(queue[w], r))
      BY <1>6, <1>7, <3>1, SeatAwaited
    <3>4. queue'[w] = Append(queue[w], r) /\ queue' \in [Workers -> Seq(Requests)]
      BY <1>1, <3>1, <3>2 DEF ServerTypeOK
    <3> QED
      BY <1>1, <1>8, <2>3, <3>1, <3>3, <3>4 DEF ServerTypeOK
  <2> QED
    BY <2>1, <2>2, <2>3
<1>10. ServerTypeOK'
  <2>1. step \in Steps /\ Started \in [middleware : SUBSET Records, task : SUBSET Records]
    BY DEF Steps, InSession, Records
  <2>2. at' \in [Requests -> Steps] /\ on' \in [Requests -> Workers \union {Null}]
    BY <1>1, <1>2, <1>4, <2>1 DEF ServerTypeOK
  <2>3. /\ buffer' \in [Requests -> [middleware : SUBSET Records, task : SUBSET Records]]
        /\ printed' \in [Requests -> SUBSET Records]
    BY <1>1, <1>3, <2>1 DEF ServerTypeOK
  <2> QED
    BY <1>1, <1>3, <1>9, <2>2, <2>3 DEF ServerTypeOK
<1>11. Placed'
  BY <1>5, NullIsNoWorker DEF ServerInv, Placed
<1>12. Seated'
  <2>1. ASSUME NEW v \in Workers, v # w
        PROVE  Seat(free'[v], Holders(v)', Waiting(v)', queue'[v])
    <3>1. Seat(free[v], Holders(v), Waiting(v), queue[v])
      BY DEF ServerInv, Seated
    <3>2. Holders(v)' = Holders(v) /\ Waiting(v)' = Waiting(v)
      BY <1>1, <1>5, <2>1, NullIsNoWorker DEF Holders, Waiting
    <3> QED
      BY <1>9, <2>1, <3>1, <3>2
  <2>2. ASSUME NEW v \in Workers, v = w
        PROVE  Seat(free'[v], Holders(v)', Waiting(v)', queue'[v])
    BY <1>9, <2>2 DEF Holders, Waiting
  <2> QED
    BY <2>1, <2>2 DEF Seated
<1>13. \A q \in Requests : Recorded(q)'
  BY <1>5, OthersRecorded DEF Recorded
<1> QED
  BY <1>10, <1>11, <1>12, <1>13 DEF ServerInv

-----------------------------------------------------------------------------
\* All permits are free at the start.
LEMMA InitHasServer == ServerInit => ServerInv
<1> SUFFICES ASSUME ServerInit PROVE ServerInv
  OBVIOUS
<1> USE DEF ServerInit
<1>1. ServerTypeOK
  BY PermitsFitPool DEF ServerTypeOK, Steps, NoRecords
<1>2. Placed /\ \A r \in Requests : Recorded(r)
  BY DEF Placed, Recorded
<1>3. ASSUME NEW w \in Workers PROVE Seat(free[w], Holders(w), Waiting(w), queue[w])
  <2>1. Holders(w) = {} /\ Waiting(w) = {}
    BY DEF Holders, Waiting, InSession, Connected
  <2>2. InQueue(<<>>) = {} /\ OnceEach(<<>>)
    BY DEF InQueue, OnceEach
  <2>3. Seat(Permits, {}, {}, <<>>)
    BY <2>2, FS_EmptySet, PermitsFitPool DEF Seat
  <2> QED
    BY <2>1, <2>3
<1> QED
  BY <1>1, <1>2, <1>3 DEF ServerInv, Seated

LEMMA ServerInvariant == ServerSpec => []ServerInv
<1>1. ServerInv /\ [ServerNext]_vars => ServerInv'
  <2> SUFFICES ASSUME ServerInv, [ServerNext]_vars PROVE ServerInv'
    OBVIOUS
  <2>1. ServerTypeOK
    BY DEF ServerInv
  <2>2. CASE UNCHANGED vars
    <3>1. /\ worker' \in [Workers -> {"down", "starting", "creating", "serving"}]
          /\ bucket' \in BOOLEAN /\ faults' \in Nat /\ UNCHANGED requestVars
      BY <2>1, <2>2 DEF vars, ServerTypeOK
    <3> QED
      BY <3>1, StartupKeepsServer
  <2>3. ASSUME NEW w \in Workers,
               StartWorker(w) \/ ListBuckets(w) \/ CreateBucket(w) \/ StorageFails(w)
        PROVE  ServerInv'
    <3>1. PICK state \in {"down", "starting", "creating", "serving"} :
            worker' = [worker EXCEPT ![w] = state]
      BY <2>3 DEF StartWorker, ListBuckets, CreateBucket, StorageFails
    <3>2. UNCHANGED requestVars /\ (UNCHANGED bucket \/ bucket' = TRUE)
          /\ (UNCHANGED faults \/ faults' = faults + 1)
      BY <2>3 DEF StartWorker, ListBuckets, CreateBucket, StorageFails
    <3>3. worker' \in [Workers -> {"down", "starting", "creating", "serving"}]
      BY <2>1, <3>1 DEF ServerTypeOK
    <3>4. faults' \in Nat
      BY <2>1, <3>2 DEF ServerTypeOK
    <3>5. bucket' \in BOOLEAN
      BY <2>1, <3>2, Zenon DEF ServerTypeOK
    <3> QED
      BY <3>2, <3>3, <3>4, <3>5, StartupKeepsServer
  <2>4. CASE ServerNext
    BY <2>3, <2>4, CrashKeepsServer, ArriveKeepsServer, QuietStepKeepsServer, CloseKeepsServer
       DEF ServerNext, WorkerStep, RequestStep
  <2> QED
    BY <2>2, <2>4
<1> QED
  BY <1>1, InitHasServer, PTL DEF ServerSpec

\* The processes, the requests and their records keep their types.
THEOREM ServerTyped == ServerSpec => []ServerTypeOK
<1>1. ServerInv => ServerTypeOK
  BY DEF ServerInv
<1> QED
  BY <1>1, ServerInvariant, PTL

\* Whatever dies or fails, free permits and open sessions add up.
THEOREM ServerPermitsConserved == ServerSpec => []PermitsConserved
<1>1. ServerInv => PermitsConserved
  BY DEF ServerInv, Seated, Seat, PermitsConserved
<1> QED
  BY <1>1, ServerInvariant, PTL

\* A pool no smaller than the semaphore always has a connection left for a
\* session that has none.
THEOREM ServerPoolNeverExhausted == ServerSpec => []PoolNeverExhausted
<1>1. ServerInv => PoolNeverExhausted
  <2> SUFFICES ASSUME ServerInv, NEW r \in Requests, at[r] = "session"
               PROVE  Cardinality(Connections(on[r])) < PoolMax
    BY DEF PoolNeverExhausted
  <2> DEFINE h == Holders(on[r])
             c == Connections(on[r])
  <2>1. on[r] \in Workers
    BY DEF ServerInv, ServerTypeOK, Placed
  <2>2. /\ IsFiniteSet(h) /\ free[on[r]] + Cardinality(h) = Permits
        /\ free[on[r]] \in Nat
    BY <2>1 DEF ServerInv, Seated, Seat, ServerTypeOK
  <2>3. c \subseteq h /\ r \in h /\ r \notin c
    BY DEF Holders, Connections, InSession, Connected
  <2> HIDE DEF c, h
  <2>4. /\ Cardinality(c) <= Cardinality(h) /\ Cardinality(c) # Cardinality(h)
        /\ Cardinality(h) \in Nat /\ Cardinality(c) \in Nat
    BY <2>2, <2>3, FS_Subset, FS_CardinalityType
  <2>5. Cardinality(c) < PoolMax
    BY <2>2, <2>4, PermitsFitPool
  <2> QED
    BY <2>5 DEF c
<1> QED
  BY <1>1, ServerInvariant, PTL

\* What is printed of an answered request is its start and its end.
THEOREM ServerAnswersAreLogged == ServerSpec => []AnswersAreLogged
<1>1. ServerInv => AnswersAreLogged
  BY DEF ServerInv, Recorded, AnswersAreLogged
<1> QED
  BY <1>1, ServerInvariant, PTL
=============================================================================
