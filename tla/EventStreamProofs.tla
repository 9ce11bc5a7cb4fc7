--------------------------- MODULE EventStreamProofs ---------------------------
(***************************************************************************)
(* What EventStream promises on every instance: its types, where a stream  *)
(* resumes, which deadline a read has, how often an iteration recovers,    *)
(* how long a wait may be and how the waits escalate.  Delays are powers   *)
(* of two; their arithmetic is that of the subsets of a finite set.        *)
(***************************************************************************)
EXTENDS EventStream, FiniteSetTheorems, TLAPS

\* TypeOK without the connection, its failures and their delay.
Types ==
    /\ pc \in {"idle", "sending", "refusing", "reading", "parsing", "finalizing", "releasing", "waiting"}
    /\ closed \in BOOLEAN
    /\ lastId \in Ids \ {EmptyId}
    /\ header \in Ids \ {EmptyId}
    /\ retry \in Nat /\ serverMax \in Nat
    /\ deadline \in Nat /\ timeout \in Nat
    /\ consumed \in BOOLEAN
    /\ log \in Seq(Frames) /\ Len(log) <= MaxFrames
    /\ mark \in 0..Len(log)
    /\ recoveries \in 0..2

\* A recovery spends the budget, which only a new iteration renews.
BudgetInv ==
    /\ recoveries \in 0..1
    /\ recoveries = 1 => consumed

\* id is that of the last frame of l that has one.
IdAfter(l, id) ==
    \/ id = NoId /\ \A k \in 1..Len(l) : l[k].id = NoId
    \/ \E n \in 1..Len(l) :
          /\ l[n].id # NoId
          /\ \A k \in (n + 1)..Len(l) : l[k].id = NoId
          /\ id = IF l[n].id = EmptyId THEN NoId ELSE l[n].id

\* The id of the stream is that of its last identified frame, and the request under way has it.
IdInv ==
    /\ pc = "sending" => header = lastId
    /\ IdAfter(log, lastId)

\* d is the deadline of the last frame of l after the first m that has a keepalive.
DeadlineAfter(l, m, d) ==
    \/ d = 0 /\ \A k \in (m + 1)..Len(l) : ~(l[k].keepalive > 0)
    \/ \E n \in (m + 1)..Len(l) :
          /\ l[n].keepalive > 0
          /\ \A k \in (n + 1)..Len(l) : ~(l[k].keepalive > 0)
          /\ d = Armed(l[n])

\* A connection has the deadline of its own frames, from the first to the last, and a read has
\* that of the frames before it.
DeadlineInv ==
    /\ pc \in {"reading", "parsing"} => DeadlineAfter(log, mark, deadline)
    /\ pc = "reading" => timeout = deadline
-----------------------------------------------------------------------------
LEMMA FrameFields ==
    ASSUME NEW f \in Frames
    PROVE  f.retry \in Nat /\ f.retryMax \in Nat /\ f.keepalive \in Nat /\ f.id \in Ids
BY StreamAssumption DEF Ids

\* A number chosen as the greatest of a set is the one known to be.
LEMMA Greatest ==
    ASSUME NEW I \in SUBSET Nat, NEW n \in I, \A k \in I : k <= n
    PROVE  (CHOOSE j \in I : \A k \in I : k <= j) = n
<1>1. \E j \in I : \A k \in I : k <= j
    OBVIOUS
<1>2. PICK j \in I : (CHOOSE i \in I : \A k \in I : k <= i) = j /\ \A k \in I : k <= j
    BY <1>1
<1>3. j <= n /\ n <= j /\ j \in Nat /\ n \in Nat
    BY <1>2
<1> QED
    BY <1>2, <1>3

LEMMA TypesInit == Init => Types
<1> SUFFICES ASSUME Init PROVE Types
    OBVIOUS
<1>1. BaseRetry \in Nat /\ MaxFrames \in Nat /\ NoId # EmptyId
    BY StreamAssumption
<1>2. NoId \in Ids \ {EmptyId}
    BY <1>1 DEF Ids
<1>3. log \in Seq(Frames) /\ Len(log) = 0
    BY DEF Init
<1>4. lastId = NoId /\ header = NoId /\ retry = BaseRetry /\ mark = 0
    BY DEF Init
<1>5. mark \in 0..Len(log) /\ Len(log) <= MaxFrames
    BY <1>1, <1>3, <1>4
<1>6. lastId \in Ids \ {EmptyId} /\ header \in Ids \ {EmptyId}
    BY <1>2, <1>4
<1>7. retry \in Nat /\ serverMax \in Nat /\ deadline \in Nat /\ timeout \in Nat /\ recoveries \in 0..2
    BY <1>1, <1>4 DEF Init
<1>8. closed \in BOOLEAN /\ consumed \in BOOLEAN
    BY DEF Init
<1>9. pc = "idle"
    BY DEF Init
<1> QED
    BY <1>3, <1>5, <1>6, <1>7, <1>8, <1>9 DEF Types

\* Steps that leave the frames, their controls and the budget alone.
Quiet ==
    /\ UNCHANGED <<lastId, retry, serverMax, deadline, consumed, historyVars>>
    /\ timeout' \in {timeout, deadline}
    /\ pc' = "reading" => timeout' = deadline \/ (pc = "reading" /\ timeout' = timeout)

LEMMA QuietSteps ==
    ASSUME Refused \/ RefusalRead \/ Fatal \/ ConnectFails \/ ConnectFailsClosed \/ Chunk \/ NextChunk \/ EndOfBody
               \/ Finalized \/ ReadFails \/ Silence \/ Abandoned \/ Released \/ Interrupted \/ Reconnect \/ Aclose
    PROVE  Quiet
<1>1. CASE NextChunk
    BY <1>1 DEF NextChunk, NextTimeout, Quiet, policyVars, historyVars
<1>2. CASE Refused \/ RefusalRead \/ Fatal \/ ConnectFails \/ ConnectFailsClosed
    BY <1>2 DEF Refused, RefusalRead, Fatal, ConnectFails, ConnectFailsClosed, Quiet, Release, Wait,
       timerVars, policyVars, historyVars
<1>3. CASE Chunk \/ EndOfBody \/ Finalized \/ ReadFails \/ Silence \/ Abandoned
    BY <1>3 DEF Chunk, EndOfBody, Finalized, ReadFails, Silence, Abandoned, Quiet, Release,
       timerVars, policyVars, historyVars
<1>4. CASE Released \/ Interrupted \/ Reconnect \/ Aclose
    BY <1>4 DEF Released, Interrupted, Reconnect, Connect, Aclose, Quiet, Release, Wait,
       timerVars, policyVars, historyVars
<1> QED
    BY <1>1, <1>2, <1>3, <1>4

\* What a delivered frame changes.
LEMMA DeliverOne ==
    ASSUME Types, Deliver
    PROVE  \E f \in Frames :
               /\ Apply(f)
               /\ log' \in Seq(Frames)
               /\ Len(log') = Len(log) + 1 /\ Len(log') <= MaxFrames
               /\ log'[Len(log')] = f
               /\ \A k \in 1..Len(log) : log'[k] = log[k]
<1>1. PICK f \in Frames : Apply(f)
    BY DEF Deliver
<1>2. log \in Seq(Frames) /\ log' = Append(log, f) /\ Len(log) < MaxFrames
    BY <1>1 DEF Apply, Types
<1>3. Len(log) \in Nat /\ MaxFrames \in Nat
    BY <1>2, StreamAssumption
<1>4. log' \in Seq(Frames) /\ Len(log') = Len(log) + 1
    BY <1>2
<1>5. log'[Len(log')] = f /\ \A k \in 1..Len(log) : log'[k] = log[k]
    BY <1>2, <1>4
<1> QED
    BY <1>1, <1>2, <1>3, <1>4, <1>5

LEMMA TypesStep == Types /\ [Next]_vars => Types'
<1> SUFFICES ASSUME Types, [Next]_vars PROVE Types'
    OBVIOUS
<1>s. NoId # EmptyId /\ NoId \in Ids \ {EmptyId} /\ BaseRetry \in Nat /\ MaxFrames \in Nat
    BY StreamAssumption DEF Ids
<1>l. log \in Seq(Frames) /\ Len(log) \in Nat
    BY DEF Types
<1>1. CASE Iterate
    <2>1. log' = <<>> /\ log' \in Seq(Frames) /\ Len(log') = 0
        BY <1>1 DEF Iterate
    <2>2. mark' \in 0..Len(log') /\ Len(log') <= MaxFrames
        BY <1>1, <1>s, <2>1 DEF Iterate
    <2>3. lastId' \in Ids \ {EmptyId} /\ header' \in Ids \ {EmptyId}
        BY <1>1, <1>s DEF Iterate
    <2>4. pc' = "sending" /\ closed' \in BOOLEAN /\ consumed' \in BOOLEAN
        BY <1>1 DEF Iterate, Types
    <2>5. retry' \in Nat /\ serverMax' \in Nat /\ deadline' \in Nat /\ timeout' \in Nat /\ recoveries' \in 0..2
        BY <1>1, <1>s DEF Iterate, Types, timerVars
    <2> QED
        BY <2>1, <2>2, <2>3, <2>4, <2>5 DEF Types
<1>2. CASE Recover
    BY <1>2 DEF Recover, Types, connectionVars, policyVars, timerVars
<1>3. CASE Opened
    <2>1. mark' = Len(log) /\ UNCHANGED <<log, lastId, header, retry, serverMax, closed, consumed, recoveries>>
        BY <1>3 DEF Opened
    <2>2. pc' = "reading" /\ deadline' = 0 /\ timeout' = 0
        BY <1>3 DEF Opened, OpenedState
    <2> QED
        BY <1>l, <2>1, <2>2 DEF Types
<1>4. CASE Deliver
    <2>1. PICK f \in Frames : Apply(f) /\ log' \in Seq(Frames) /\ Len(log') = Len(log) + 1 /\ Len(log') <= MaxFrames
        BY <1>4, DeliverOne
    <2>2. mark' = mark /\ mark \in 0..Len(log)
        BY <1>4 DEF Deliver, Types
    <2>3. f.retry \in Nat /\ f.retryMax \in Nat /\ f.keepalive \in Nat /\ f.id \in Ids /\ Floor \in Nat
        BY FrameFields, StreamAssumption
    <2>4. retry' \in Nat
        BY <2>1, <2>3 DEF Apply, Types
    <2>5. serverMax' \in Nat
        BY <2>1, <2>3 DEF Apply, Types
    <2>6. deadline' \in Nat /\ timeout' \in Nat
        BY <1>4, <2>1, <2>3 DEF Deliver, Apply, Types, Armed
    <2>7. lastId' \in Ids \ {EmptyId}
        BY <1>s, <2>1, <2>3 DEF Apply, Types, NextId
    <2>8. mark' \in 0..Len(log')
        BY <1>l, <2>1, <2>2
    <2>9. pc' = pc /\ closed' = closed /\ consumed' = consumed /\ header' = header /\ recoveries' = recoveries
        BY <1>4 DEF Deliver, connectionVars
    <2> QED
        BY <2>1, <2>4, <2>5, <2>6, <2>7, <2>8, <2>9 DEF Types
<1>5. CASE Refused \/ RefusalRead \/ Fatal \/ ConnectFails \/ ConnectFailsClosed \/ Chunk \/ NextChunk \/ EndOfBody
               \/ Finalized \/ ReadFails \/ Silence \/ Abandoned \/ Released \/ Interrupted \/ Reconnect \/ Aclose
    <2>1. Quiet
        BY <1>5, QuietSteps
    <2>2. header' \in {header, lastId} /\ closed' \in BOOLEAN
        BY <1>5 DEF Types, Refused, RefusalRead, Fatal, ConnectFails, ConnectFailsClosed, Chunk, NextChunk, EndOfBody, Finalized,
           ReadFails, Silence, Abandoned, Released, Interrupted, Reconnect, Connect, Aclose, connectionVars
    <2>3. pc' \in {"idle", "sending", "refusing", "reading", "parsing", "finalizing", "releasing", "waiting"}
        BY <1>5 DEF Types, Refused, RefusalRead, Fatal, ConnectFails, ConnectFailsClosed, Chunk, NextChunk, EndOfBody, Finalized,
           ReadFails, Silence, Abandoned, Released, Interrupted, Reconnect, Connect, Aclose, connectionVars, Release, Wait
    <2> QED
        BY <2>1, <2>2, <2>3 DEF Quiet, Types, historyVars
<1>6. CASE UNCHANGED vars
    BY <1>6 DEF Types, vars, connectionVars, policyVars, timerVars, historyVars
<1> QED
    BY <1>1, <1>2, <1>3, <1>4, <1>5, <1>6 DEF Next
-----------------------------------------------------------------------------
LEMMA BudgetStep == BudgetInv /\ [Next]_vars => BudgetInv'
<1> SUFFICES ASSUME BudgetInv, [Next]_vars PROVE BudgetInv'
    OBVIOUS
<1>1. CASE Iterate
    BY <1>1 DEF Iterate, BudgetInv
<1>2. CASE Recover
    BY <1>2 DEF Recover, BudgetLeft, BudgetInv
<1>3. CASE Opened
    BY <1>3 DEF Opened, BudgetInv
<1>4. CASE Deliver
    BY <1>4 DEF Deliver, BudgetInv
<1>5. CASE Refused \/ RefusalRead \/ Fatal \/ ConnectFails \/ ConnectFailsClosed \/ Chunk \/ NextChunk \/ EndOfBody
               \/ Finalized \/ ReadFails \/ Silence \/ Abandoned \/ Released \/ Interrupted \/ Reconnect \/ Aclose
    BY <1>5, QuietSteps DEF Quiet, BudgetInv, historyVars
<1>6. CASE UNCHANGED vars
    BY <1>6 DEF BudgetInv, vars, historyVars
<1> QED
    BY <1>1, <1>2, <1>3, <1>4, <1>5, <1>6 DEF Next

\* RecoversOnce for every server: all connections of one iteration share one recovery
\* (_security.py lines 143-153, _sse.py line 110).
THEOREM RecoversOnceHolds == Spec => []RecoversOnce
<1>1. Init => BudgetInv
    BY DEF Init, BudgetInv
<1>2. BudgetInv /\ [Next]_vars => BudgetInv'
    BY BudgetStep
<1>3. BudgetInv => RecoversOnce
    BY DEF BudgetInv, RecoversOnce
<1> QED
    BY <1>1, <1>2, <1>3, PTL DEF Spec
-----------------------------------------------------------------------------
LEMMA IdAppended ==
    ASSUME NEW l \in Seq(Frames), NEW f \in Frames, NEW id, IdAfter(l, id)
    PROVE  IdAfter(Append(l, f), IF f.id = NoId THEN id ELSE IF f.id = EmptyId THEN NoId ELSE f.id)
<1> DEFINE m == Append(l, f)
           new == IF f.id = NoId THEN id ELSE IF f.id = EmptyId THEN NoId ELSE f.id
<1>l. Len(l) \in Nat /\ Len(m) = Len(l) + 1 /\ m[Len(l) + 1] = f /\ \A k \in 1..Len(l) : m[k] = l[k]
    OBVIOUS
<1> HIDE DEF m
<1>1. CASE f.id # NoId
    <2>1. Len(l) + 1 \in 1..Len(m) /\ m[Len(l) + 1].id # NoId
        BY <1>l, <1>1
    <2>2. new = IF m[Len(l) + 1].id = EmptyId THEN NoId ELSE m[Len(l) + 1].id
        BY <1>l, <1>1
    <2>3. \A k \in ((Len(l) + 1) + 1)..Len(m) : m[k].id = NoId
        BY <1>l
    <2> QED
        BY <2>1, <2>2, <2>3 DEF IdAfter, m
<1>2. CASE f.id = NoId
    <2>1. new = id
        BY <1>2
    <2>2. CASE id = NoId /\ \A k \in 1..Len(l) : l[k].id = NoId
        <3>1. \A k \in 1..Len(m) : m[k].id = NoId
            BY <1>l, <1>2, <2>2
        <3> QED
            BY <2>1, <2>2, <3>1 DEF IdAfter, m
    <2>3. ASSUME NEW n \in 1..Len(l),
                 l[n].id # NoId,
                 \A k \in (n + 1)..Len(l) : l[k].id = NoId,
                 id = IF l[n].id = EmptyId THEN NoId ELSE l[n].id
          PROVE  IdAfter(m, new)
        <3>1. n \in 1..Len(m) /\ m[n] = l[n]
            BY <1>l
        <3>2. \A k \in (n + 1)..Len(m) : m[k].id = NoId
            BY <1>l, <1>2, <2>3
        <3> QED
            BY <2>1, <2>3, <3>1, <3>2 DEF IdAfter
    <2> QED
        BY <2>2, <2>3 DEF IdAfter, m
<1> QED
    BY <1>1, <1>2

LEMMA IdStep == Types /\ IdInv /\ [Next]_vars => IdInv'
<1> SUFFICES ASSUME Types, IdInv, [Next]_vars PROVE IdInv'
    OBVIOUS
<1>1. CASE Iterate
    <2>1. log' = <<>> /\ lastId' = NoId /\ header' = NoId
        BY <1>1 DEF Iterate
    <2>2. IdAfter(log', lastId')
        BY <2>1 DEF IdAfter
    <2> QED
        BY <2>1, <2>2 DEF IdInv
<1>2. CASE Deliver
    <2>1. PICK f \in Frames : Apply(f)
        BY <1>2 DEF Deliver
    <2>2. IdAfter(log', lastId')
        BY <2>1, IdAppended DEF Apply, NextId, Types, IdInv
    <2> QED
        BY <1>2, <2>2 DEF IdInv, Deliver
<1>3. CASE Recover \/ Opened \/ Refused \/ RefusalRead \/ Fatal \/ ConnectFails \/ ConnectFailsClosed \/ Chunk \/ NextChunk
               \/ EndOfBody \/ Finalized \/ ReadFails \/ Silence \/ Abandoned \/ Released \/ Interrupted
               \/ Reconnect \/ Aclose \/ UNCHANGED vars
    <2>1. UNCHANGED <<lastId, log>>
        BY <1>3, QuietSteps DEF Quiet, Recover, Opened, vars, historyVars
    <2>2. pc' = "sending" => header' = lastId'
        BY <1>3 DEF IdInv, Recover, Opened, Refused, RefusalRead, Fatal, ConnectFails, ConnectFailsClosed, Chunk, NextChunk, EndOfBody, Finalized,
           ReadFails, Silence, Abandoned, Released, Interrupted, Reconnect, Connect, Aclose, connectionVars, Release, Wait, vars
    <2> QED
        BY <2>1, <2>2 DEF IdInv
<1> QED
    BY <1>1, <1>2, <1>3 DEF Next

LEMMA IdMeaning ==
    ASSUME Types, IdInv, pc = "sending"
    PROVE  LET n == Latest(1, LAMBDA f : f.id # NoId) IN
           header = IF n = 0 \/ log[n].id = EmptyId THEN NoId ELSE log[n].id
<1> DEFINE I == {j \in 1..Len(log) : log[j].id # NoId}
           n == IF I = {} THEN 0 ELSE CHOOSE j \in I : \A k \in I : k <= j
<1>1. SUFFICES header = IF n = 0 \/ log[n].id = EmptyId THEN NoId ELSE log[n].id
    BY DEF Latest
<1>2. header = lastId /\ Len(log) \in Nat
    BY DEF IdInv, Types
<1>3. CASE lastId = NoId /\ \A k \in 1..Len(log) : log[k].id = NoId
    <2>1. I = {}
        BY <1>3
    <2> QED
        BY <1>2, <1>3, <2>1
<1>4. ASSUME NEW i \in 1..Len(log),
             log[i].id # NoId,
             \A k \in (i + 1)..Len(log) : log[k].id = NoId,
             lastId = IF log[i].id = EmptyId THEN NoId ELSE log[i].id
      PROVE  header = IF n = 0 \/ log[n].id = EmptyId THEN NoId ELSE log[n].id
    <2>1. I \in SUBSET Nat /\ i \in I
        BY <1>2, <1>4
    <2>2. \A k \in I : k <= i
        BY <1>2, <1>4
    <2> HIDE DEF I
    <2>3. n = i
        BY <2>1, <2>2, Greatest
    <2> HIDE DEF n
    <2> QED
        BY <1>2, <1>4, <2>3
<1> QED
    BY <1>3, <1>4 DEF IdInv, IdAfter

\* ResumesAfterLastId for every server: the Last-Event-ID of a request is the id of the last
\* frame that had one (_sse.py lines 119-121, 248-249).
THEOREM ResumesAfterLastIdHolds == Spec => []ResumesAfterLastId
<1>1. Init => Types /\ IdInv
    BY TypesInit DEF Init, IdInv, IdAfter
<1>2. Types /\ IdInv /\ [Next]_vars => Types' /\ IdInv'
    BY TypesStep, IdStep
<1>3. Types /\ IdInv => ResumesAfterLastId
    BY IdMeaning DEF ResumesAfterLastId
<1> QED
    BY <1>1, <1>2, <1>3, PTL DEF Spec
-----------------------------------------------------------------------------
LEMMA DeadlineAppended ==
    ASSUME NEW l \in Seq(Frames), NEW f \in Frames, NEW m \in 0..Len(l), NEW d, DeadlineAfter(l, m, d)
    PROVE  DeadlineAfter(Append(l, f), m, IF f.keepalive > 0 THEN Armed(f) ELSE d)
<1> DEFINE a == Append(l, f)
           new == IF f.keepalive > 0 THEN Armed(f) ELSE d
<1>l. Len(l) \in Nat /\ Len(a) = Len(l) + 1 /\ a[Len(l) + 1] = f /\ \A k \in 1..Len(l) : a[k] = l[k]
    OBVIOUS
<1>m. m \in Nat /\ m <= Len(l)
    BY <1>l
<1> HIDE DEF a
<1>1. CASE f.keepalive > 0
    <2>1. Len(l) + 1 \in (m + 1)..Len(a) /\ a[Len(l) + 1].keepalive > 0
        BY <1>l, <1>m, <1>1
    <2>2. new = Armed(a[Len(l) + 1])
        BY <1>l, <1>1
    <2>3. \A k \in ((Len(l) + 1) + 1)..Len(a) : ~(a[k].keepalive > 0)
        BY <1>l
    <2> HIDE DEF new
    <2>4. DeadlineAfter(a, m, new)
        BY <2>1, <2>2, <2>3 DEF DeadlineAfter
    <2> QED
        BY <2>4 DEF a, new
<1>2. CASE ~(f.keepalive > 0)
    <2>1. new = d
        BY <1>2
    <2>2. CASE d = 0 /\ \A k \in (m + 1)..Len(l) : ~(l[k].keepalive > 0)
        <3>1. \A k \in (m + 1)..Len(a) : ~(a[k].keepalive > 0)
            BY <1>l, <1>m, <1>2, <2>2
        <3> QED
            BY <2>1, <2>2, <3>1 DEF DeadlineAfter, a
    <2>3. ASSUME NEW n \in (m + 1)..Len(l),
                 l[n].keepalive > 0,
                 \A k \in (n + 1)..Len(l) : ~(l[k].keepalive > 0),
                 d = Armed(l[n])
          PROVE  DeadlineAfter(a, m, new)
        <3>1. n \in (m + 1)..Len(a) /\ a[n] = l[n]
            BY <1>l, <1>m
        <3>2. \A k \in (n + 1)..Len(a) : ~(a[k].keepalive > 0)
            BY <1>l, <1>m, <1>2, <2>3
        <3> HIDE DEF new
        <3> QED
            BY <2>1, <2>3, <3>1, <3>2 DEF DeadlineAfter
    <2> QED
        BY <2>2, <2>3 DEF DeadlineAfter, a
<1> QED
    BY <1>1, <1>2

LEMMA DeadlineStep == Types /\ DeadlineInv /\ [Next]_vars => DeadlineInv'
<1> SUFFICES ASSUME Types, DeadlineInv, [Next]_vars PROVE DeadlineInv'
    OBVIOUS
<1>1. CASE Iterate
    BY <1>1 DEF Iterate, DeadlineInv
<1>2. CASE Deliver
    <2>1. PICK f \in Frames : Apply(f)
        BY <1>2 DEF Deliver
    <2>2. CASE pc = "parsing"
        <3>1. DeadlineAfter(log, mark, deadline) /\ mark' = mark
            BY <1>2, <2>2 DEF Deliver, DeadlineInv
        <3>2. DeadlineAfter(log', mark', deadline')
            BY <2>1, <3>1, DeadlineAppended DEF Apply, Types
        <3> QED
            BY <1>2, <2>2, <3>2 DEF DeadlineInv, Deliver
    <2>3. CASE pc = "finalizing"
        BY <1>2, <2>3 DEF Deliver, DeadlineInv
    <2> QED
        BY <1>2, <2>2, <2>3 DEF Deliver
<1>3. CASE Opened
    <2>1. log' = log /\ mark' = Len(log) /\ deadline' = 0 /\ timeout' = 0 /\ Len(log) \in Nat
        BY <1>3 DEF Opened, OpenedState, Types
    <2>2. DeadlineAfter(log', mark', deadline')
        BY <2>1 DEF DeadlineAfter
    <2> QED
        BY <2>1, <2>2 DEF DeadlineInv
<1>4. CASE Recover
    BY <1>4 DEF Recover, DeadlineInv, timerVars
<1>5. CASE Refused \/ RefusalRead \/ Fatal \/ ConnectFails \/ ConnectFailsClosed \/ Chunk \/ NextChunk \/ EndOfBody
               \/ Finalized \/ ReadFails \/ Silence \/ Abandoned \/ Released \/ Interrupted \/ Reconnect \/ Aclose
    <2>1. UNCHANGED <<log, mark, deadline>>
        BY <1>5, QuietSteps DEF Quiet, historyVars
    <2>2. pc' \in {"reading", "parsing"} => pc \in {"reading", "parsing"}
        BY <1>5 DEF Refused, RefusalRead, Fatal, ConnectFails, ConnectFailsClosed, Chunk, NextChunk, EndOfBody, Finalized,
           ReadFails, Silence, Abandoned, Released, Interrupted, Reconnect, Connect, Aclose, Release, Wait
    <2>3. pc' = "reading" => timeout' = deadline
        BY <1>5, QuietSteps DEF Quiet, DeadlineInv
    <2> QED
        BY <2>1, <2>2, <2>3 DEF DeadlineInv
<1>6. CASE UNCHANGED vars
    BY <1>6 DEF DeadlineInv, vars, timerVars, historyVars
<1> QED
    BY <1>1, <1>2, <1>3, <1>4, <1>5, <1>6 DEF Next

LEMMA DeadlineMeaning ==
    ASSUME Types, DeadlineInv, pc \in {"reading", "parsing"}
    PROVE  LET n == Latest(mark + 1, LAMBDA f : f.keepalive > 0) IN
           deadline = IF n = 0 THEN 0 ELSE Armed(log[n])
<1> DEFINE I == {j \in (mark + 1)..Len(log) : log[j].keepalive > 0}
           n == IF I = {} THEN 0 ELSE CHOOSE j \in I : \A k \in I : k <= j
<1>1. SUFFICES deadline = IF n = 0 THEN 0 ELSE Armed(log[n])
    BY DEF Latest
<1>2. Len(log) \in Nat /\ mark \in Nat
    BY DEF Types
<1>3. CASE deadline = 0 /\ \A k \in (mark + 1)..Len(log) : ~(log[k].keepalive > 0)
    <2>1. I = {}
        BY <1>3
    <2> QED
        BY <1>3, <2>1
<1>4. ASSUME NEW i \in (mark + 1)..Len(log),
             log[i].keepalive > 0,
             \A k \in (i + 1)..Len(log) : ~(log[k].keepalive > 0),
             deadline = Armed(log[i])
      PROVE  deadline = IF n = 0 THEN 0 ELSE Armed(log[n])
    <2>1. I \in SUBSET Nat /\ i \in I
        BY <1>2, <1>4
    <2>2. \A k \in I : k <= i
        BY <1>2, <1>4
    <2>4. i # 0
        BY <1>2
    <2> HIDE DEF I
    <2>3. n = i
        BY <2>1, <2>2, Greatest
    <2> HIDE DEF n
    <2> QED
        BY <1>4, <2>3, <2>4
<1> QED
    BY <1>3, <1>4 DEF DeadlineInv, DeadlineAfter

\* DeadlineOfThisConnection for every server: the read under way times out by the last positive
\* keepalive of its own connection, and not at all before there was one (_sse.py lines 143-149,
\* 196-212).
THEOREM DeadlineOfThisConnectionHolds == Spec => []DeadlineOfThisConnection
<1>1. Init => Types /\ DeadlineInv
    BY TypesInit DEF Init, DeadlineInv
<1>2. Types /\ DeadlineInv /\ [Next]_vars => Types' /\ DeadlineInv'
    BY TypesStep, DeadlineStep
<1>3. Types /\ DeadlineInv => DeadlineOfThisConnection
    BY DeadlineMeaning DEF DeadlineOfThisConnection, DeadlineInv
<1> QED
    BY <1>1, <1>2, <1>3, PTL DEF Spec
-----------------------------------------------------------------------------
(* The delays: powers of two, capped. *)

\* Two to the n is the number of subsets of a set of n, so the facts of finite sets give its
\* arithmetic: it is a positive number, and the next one is its double.
LEMMA PowerOfTwo ==
    ASSUME NEW n \in Nat
    PROVE  /\ IsFiniteSet(SUBSET (1..n))
           /\ Cardinality(SUBSET (1..n)) = 2^n
           /\ 2^n \in Nat
<1>1. IsFiniteSet(1..n) /\ Cardinality(1..n) = n
    BY FS_Interval
<1>2. IsFiniteSet(SUBSET (1..n)) /\ Cardinality(SUBSET (1..n)) = 2^Cardinality(1..n)
    BY <1>1, FS_SUBSET
<1>3. Cardinality(SUBSET (1..n)) \in Nat
    BY <1>2, FS_CardinalityType
<1> QED
    BY <1>1, <1>2, <1>3

LEMMA PowerZero == 2^0 = 1
<1>1. SUBSET (1..0) = {{}}
    OBVIOUS
<1>2. Cardinality(SUBSET (1..0)) = 1
    BY <1>1, FS_Singleton
<1> QED
    BY <1>2, PowerOfTwo

LEMMA PowerDoubles ==
    ASSUME NEW n \in Nat
    PROVE  2^(n + 1) = 2 * 2^n
<1> DEFINE S == SUBSET (1..n)
           T == {s \cup {n + 1} : s \in S}
           f == [s \in S |-> s \cup {n + 1}]
<1>1. SUBSET (1..(n + 1)) = S \cup T
    <2>1. ASSUME NEW x \in SUBSET (1..(n + 1)) PROVE x \in S \cup T
        <3>1. CASE n + 1 \in x
            <4>1. x \ {n + 1} \in S /\ x = (x \ {n + 1}) \cup {n + 1}
                BY <2>1, <3>1
            <4> QED
                BY <4>1
        <3>2. CASE n + 1 \notin x
            <4>1. x \in S
                BY <2>1, <3>2
            <4> QED
                BY <4>1
        <3> QED
            BY <3>1, <3>2
    <2>2. ASSUME NEW x \in S PROVE x \in SUBSET (1..(n + 1))
        BY <2>2
    <2>3. ASSUME NEW x \in T PROVE x \in SUBSET (1..(n + 1))
        <3>1. PICK s \in S : x = s \cup {n + 1}
            BY <2>3
        <3> QED
            BY <3>1
    <2> QED
        BY <2>1, <2>2, <2>3
<1>2. S \cap T = {}
    <2>1. ASSUME NEW x \in S PROVE n + 1 \notin x
        BY <2>1
    <2> QED
        BY <2>1
<1>3. ExistsBijection(S, T)
    <2>1. f \in Surjection(S, T)
        BY DEF Surjection
    <2>2. ASSUME NEW a \in S, NEW b \in S, f[a] = f[b] PROVE a = b
        <3>1. n + 1 \notin a /\ n + 1 \notin b
            BY <2>2
        <3>2. a \cup {n + 1} = b \cup {n + 1}
            BY <2>2
        <3> QED
            BY <3>1, <3>2
    <2>3. f \in Injection(S, T)
        BY <2>1, <2>2 DEF Injection, IsInjective, Surjection
    <2> QED
        BY <2>1, <2>3 DEF ExistsBijection, Bijection
<1>4. IsFiniteSet(S) /\ Cardinality(S) = 2^n /\ 2^n \in Nat
    BY PowerOfTwo
<1>5. IsFiniteSet(T) /\ Cardinality(T) = 2^n
    BY <1>3, <1>4, FS_Bijection
<1>6. Cardinality(S \cup T) = Cardinality(S) + Cardinality(T) - Cardinality(S \cap T)
    BY <1>4, <1>5, FS_Union
<1>7. Cardinality(S \cap T) = 0
    BY <1>2, FS_EmptySet
<1>8. Cardinality(SUBSET (1..(n + 1))) = 2^(n + 1)
    <2>1. PICK m \in Nat : m = n + 1
        OBVIOUS
    <2>2. Cardinality(SUBSET (1..m)) = 2^m
        BY PowerOfTwo
    <2> QED
        BY <2>1, <2>2
<1>9. PICK p \in Nat : p = 2^n
    BY <1>4
<1> HIDE DEF S, T
<1>10. Cardinality(S \cup T) = p + p
    BY <1>4, <1>5, <1>6, <1>7, <1>9
<1>11. Cardinality(SUBSET (1..(n + 1))) = p + p
    BY <1>1, <1>10, Zenon
<1>12. 2^(n + 1) = p + p
    BY <1>8, <1>11, Zenon
<1> QED
    BY <1>9, <1>12

LEMMA PowerPositive ==
    ASSUME NEW n \in Nat
    PROVE  2^n \in Nat /\ 2^n >= 1
<1>1. {} \in SUBSET (1..n)
    OBVIOUS
<1>2. Cardinality(SUBSET (1..n)) # 0
    BY <1>1, PowerOfTwo, FS_EmptySet
<1>3. PICK p \in Nat : p = 2^n
    BY PowerOfTwo
<1>4. p # 0
    BY <1>2, <1>3, PowerOfTwo
<1> QED
    BY <1>3, <1>4

LEMMA Products ==
    ASSUME NEW r \in Nat, NEW p \in Nat, p >= 1
    PROVE  r * p \in Nat /\ r * p >= r /\ r * (2 * p) = 2 * (r * p)
<1>1. PICK m \in Nat : p = m + 1
    <2>1. p - 1 \in Nat
        OBVIOUS
    <2> QED
        BY <2>1
<1>2. r * p = r * m + r /\ r * m \in Nat
    BY <1>1
<1> QED
    BY <1>2

LEMMA MaximumType ==
    ASSUME retry \in Nat, serverMax \in Nat
    PROVE  EffectiveMax \in Nat
BY StreamAssumption DEF EffectiveMax

\* Whatever the number of failures, a capped delay is between the base and the maximum.
LEMMA CappedBounds ==
    ASSUME NEW n \in Nat, retry \in Nat, serverMax \in Nat
    PROVE  /\ CappedDelay(n) \in Nat
           /\ CappedDelay(n) <= EffectiveMax
           /\ CappedDelay(n) >= Least(retry, EffectiveMax)
<1>1. PICK p \in Nat : p = 2^n /\ p >= 1
    BY PowerPositive
<1>2. PICK q \in Nat : q = retry * p /\ q >= retry
    BY <1>1, Products
<1>3. PICK m \in Nat : m = EffectiveMax
    BY MaximumType
<1>4. CappedDelay(n) = IF retry = 0 \/ m = 0 THEN 0
                       ELSE IF retry >= m \/ q > Huge THEN m ELSE Least(q, m)
    BY <1>1, <1>2, <1>3 DEF CappedDelay
<1> QED
    BY <1>2, <1>3, <1>4, StreamAssumption DEF Least

\* Without a failure the delay is the base itself, or the maximum below it.
LEMMA CappedFirst ==
    ASSUME retry \in Nat, serverMax \in Nat, retry <= Huge
    PROVE  CappedDelay(0) = Least(retry, EffectiveMax)
<1>1. PICK m \in Nat : m = EffectiveMax
    BY MaximumType
<1>2. retry * 2^0 = retry
    BY PowerZero
<1>3. CappedDelay(0) = IF retry = 0 \/ m = 0 THEN 0
                       ELSE IF retry >= m \/ retry > Huge THEN m ELSE Least(retry, m)
    BY <1>1, <1>2 DEF CappedDelay
<1> QED
    BY <1>1, <1>3, StreamAssumption DEF Least

\* One more failure doubles the delay, up to the maximum.
LEMMA CappedDoubles ==
    ASSUME NEW n \in Nat, retry \in Nat, serverMax \in Nat
    PROVE  CappedDelay(n + 1) >= Least(2 * CappedDelay(n), EffectiveMax)
<1>1. PICK p \in Nat : p = 2^n /\ p >= 1
    BY PowerPositive
<1>2. PICK q \in Nat : q = retry * p /\ retry * (2 * p) = 2 * q
    BY <1>1, Products
<1>3. PICK m \in Nat : m = EffectiveMax
    BY MaximumType
<1>4. CappedDelay(n) = IF retry = 0 \/ m = 0 THEN 0
                       ELSE IF retry >= m \/ q > Huge THEN m ELSE Least(q, m)
    BY <1>1, <1>2, <1>3 DEF CappedDelay
<1>5. retry * 2^(n + 1) = 2 * q
    BY <1>1, <1>2, PowerDoubles
<1>6. CappedDelay(n + 1) = IF retry = 0 \/ m = 0 THEN 0
                           ELSE IF retry >= m \/ 2 * q > Huge THEN m ELSE Least(2 * q, m)
    BY <1>3, <1>5 DEF CappedDelay
<1> QED
    BY <1>2, <1>3, <1>4, <1>6, StreamAssumption DEF Least
-----------------------------------------------------------------------------
(* The reconnect policy and the waits. *)

\* TypeOK of the connection, its failures and their delay.
DelayTypes ==
    /\ response \in {"none", "open", "closed"}
    /\ after \in {"retry", "leave"}
    /\ connected \in BOOLEAN
    /\ failures \in 0..MaxFailures
    /\ delay \in Nat

\* v is the control c of the last frame of l that has one, or what held before.
ControlAfter(l, c, v, before) ==
    \/ v = before /\ \A k \in 1..Len(l) : ~(l[k][c] > 0)
    \/ \E n \in 1..Len(l) :
          /\ l[n][c] > 0
          /\ \A k \in (n + 1)..Len(l) : ~(l[k][c] > 0)
          /\ v = l[n][c]

\* The policy is that of the last frames that set it.
PolicyInv ==
    /\ ControlAfter(log, "retry", retry, BaseRetry)
    /\ ControlAfter(log, "retryMax", serverMax, 0)
    /\ retry <= Huge

\* A wait is within the policy in force; frames, which change the policy, come only while
\* connected, when no failure is counted; the last delay was computed from one failure less.
WaitInv ==
    /\ pc = "waiting" => delay <= 10 * EffectiveMax /\ delay >= 9 * Least(retry, EffectiveMax)
    /\ connected => failures = 0
    /\ pc = "sending" => ~connected
    /\ pc \in {"reading", "parsing", "finalizing"} => connected
    /\ failures > 0 => delay <= 10 * CappedDelay(failures - 1)

\* What a wait takes: nine or ten tenths of the capped delay, ten without a failure.
LEMMA Waited ==
    ASSUME Types, DelayTypes, NEW c \in BOOLEAN, Wait(c)
    PROVE  /\ delay' \in Nat
           /\ delay' <= 10 * CappedDelay(failures)
           /\ delay' >= 9 * CappedDelay(failures)
           /\ failures = 0 => delay' = 10 * CappedDelay(0)
           /\ failures' \in 0..MaxFailures
<1>1. failures \in Nat /\ MaxFailures \in Nat /\ failures <= MaxFailures
    BY StreamAssumption DEF DelayTypes
<1>2. PICK d \in Nat : d = CappedDelay(failures)
    BY <1>1, CappedBounds DEF Types
<1>3. PICK j \in Jitter(failures) : delay' = j * d
    BY <1>2 DEF Wait
<1>4. j \in {9, 10} /\ (failures = 0 => j = 10)
    BY <1>3 DEF Jitter
<1>5. delay' = 9 * d \/ delay' = 10 * d
    BY <1>3, <1>4
<1>6. failures = 0 => delay' = 10 * d
    BY <1>3, <1>4
<1>7. failures' \in 0..MaxFailures
    BY <1>1 DEF Wait
<1> QED
    BY <1>2, <1>5, <1>6, <1>7

LEMMA DelayTypesStep == Types /\ DelayTypes /\ [Next]_vars => DelayTypes'
<1> SUFFICES ASSUME Types, DelayTypes, [Next]_vars PROVE DelayTypes'
    OBVIOUS
<1>n. MaxFailures \in Nat
    BY StreamAssumption
<1>1. CASE Iterate
    <2>1. failures' = 0 /\ delay' = 0 /\ 0 \in 0..MaxFailures
        BY <1>1, <1>n DEF Iterate
    <2>2. response' = "none" /\ after' = after /\ connected' = FALSE
        BY <1>1 DEF Iterate
    <2> QED
        BY <2>1, <2>2 DEF DelayTypes
<1>2. CASE Opened
    BY <1>2, <1>n DEF Opened, OpenedState, DelayTypes
<1>3. CASE ConnectFails
    <2>1. delay' \in Nat /\ failures' \in 0..MaxFailures
        BY <1>3, Waited DEF ConnectFails
    <2> QED
        BY <1>3, <2>1 DEF ConnectFails, DelayTypes, connectionVars
<1>4. CASE Released
    <2>1. response' = "closed" /\ UNCHANGED <<after, connected>>
        BY <1>4 DEF Released
    <2>2. delay' \in Nat /\ failures' \in 0..MaxFailures
        BY <1>4, Waited DEF Released, DelayTypes
    <2> QED
        BY <2>1, <2>2 DEF DelayTypes
<1>5. CASE Recover \/ Fatal \/ ConnectFailsClosed \/ Chunk \/ Deliver \/ NextChunk \/ EndOfBody
    BY <1>5 DEF Recover, Fatal, ConnectFailsClosed, Chunk, Deliver, NextChunk, EndOfBody,
       DelayTypes, connectionVars, policyVars
<1>6. CASE Refused \/ RefusalRead \/ Finalized \/ ReadFails \/ Silence \/ Abandoned
    BY <1>6 DEF Refused, RefusalRead, Finalized, ReadFails, Silence, Abandoned, Release, DelayTypes, policyVars
<1>7. CASE Interrupted \/ Reconnect \/ Aclose
    BY <1>7 DEF Interrupted, Reconnect, Connect, Aclose, Release, DelayTypes, policyVars
<1>8. CASE UNCHANGED vars
    BY <1>8 DEF DelayTypes, vars, connectionVars, policyVars
<1> QED
    BY <1>1, <1>2, <1>3, <1>4, <1>5, <1>6, <1>7, <1>8 DEF Next

LEMMA DelayTypesInit == Init => DelayTypes
<1> SUFFICES ASSUME Init PROVE DelayTypes
    OBVIOUS
<1>1. 0 \in 0..MaxFailures
    BY StreamAssumption
<1>2. failures = 0 /\ delay = 0 /\ response = "none" /\ after = "leave" /\ connected = FALSE
    BY DEF Init
<1> QED
    BY <1>1, <1>2 DEF DelayTypes

\* TypeOK for every server: what is remembered of a stream stays within its types, an empty id is
\* never remembered, a delay is a number, and the log stays within its bound.
THEOREM TypeCorrect == Spec => []TypeOK
<1>1. Init => Types /\ DelayTypes
    BY TypesInit, DelayTypesInit
<1>2. Types /\ DelayTypes /\ [Next]_vars => Types' /\ DelayTypes'
    BY TypesStep, DelayTypesStep
<1>3. Types /\ DelayTypes => TypeOK
    BY DEF Types, DelayTypes, TypeOK
<1> QED
    BY <1>1, <1>2, <1>3, PTL DEF Spec
-----------------------------------------------------------------------------
LEMMA ControlAppended ==
    ASSUME NEW l \in Seq(Frames), NEW f \in Frames, NEW c \in {"retry", "retryMax"}, NEW v, NEW before,
           ControlAfter(l, c, v, before)
    PROVE  ControlAfter(Append(l, f), c, IF f[c] > 0 THEN f[c] ELSE v, before)
<1> DEFINE a == Append(l, f)
           new == IF f[c] > 0 THEN f[c] ELSE v
<1>l. Len(l) \in Nat /\ Len(a) = Len(l) + 1 /\ a[Len(l) + 1] = f /\ \A k \in 1..Len(l) : a[k] = l[k]
    OBVIOUS
<1> HIDE DEF a
<1>1. CASE f[c] > 0
    <2>1. Len(l) + 1 \in 1..Len(a) /\ a[Len(l) + 1][c] > 0
        BY <1>l, <1>1
    <2>2. new = a[Len(l) + 1][c]
        BY <1>l, <1>1
    <2>3. \A k \in ((Len(l) + 1) + 1)..Len(a) : ~(a[k][c] > 0)
        BY <1>l
    <2> HIDE DEF new
    <2>4. ControlAfter(a, c, new, before)
        BY <2>1, <2>2, <2>3 DEF ControlAfter
    <2> QED
        BY <2>4 DEF a, new
<1>2. CASE ~(f[c] > 0)
    <2>1. new = v
        BY <1>2
    <2>2. CASE v = before /\ \A k \in 1..Len(l) : ~(l[k][c] > 0)
        <3>1. \A k \in 1..Len(a) : ~(a[k][c] > 0)
            BY <1>l, <1>2, <2>2
        <3> QED
            BY <2>1, <2>2, <3>1 DEF ControlAfter, a
    <2>3. ASSUME NEW n \in 1..Len(l),
                 l[n][c] > 0,
                 \A k \in (n + 1)..Len(l) : ~(l[k][c] > 0),
                 v = l[n][c]
          PROVE  ControlAfter(a, c, new, before)
        <3>1. n \in 1..Len(a) /\ a[n] = l[n]
            BY <1>l
        <3>2. \A k \in (n + 1)..Len(a) : ~(a[k][c] > 0)
            BY <1>l, <1>2, <2>3
        <3> HIDE DEF new
        <3> QED
            BY <2>1, <2>3, <3>1, <3>2 DEF ControlAfter
    <2> QED
        BY <2>2, <2>3 DEF ControlAfter, a
<1> QED
    BY <1>1, <1>2

LEMMA PolicyInit == Init => PolicyInv
<1> SUFFICES ASSUME Init PROVE PolicyInv
    OBVIOUS
<1>1. log = <<>> /\ retry = BaseRetry /\ serverMax = 0
    BY DEF Init
<1>2. \A k \in 1..Len(log) : FALSE
    BY <1>1
<1> QED
    BY <1>1, <1>2, StreamAssumption DEF PolicyInv, ControlAfter

LEMMA PolicyStep == Types /\ PolicyInv /\ [Next]_vars => PolicyInv'
<1> SUFFICES ASSUME Types, PolicyInv, [Next]_vars PROVE PolicyInv'
    OBVIOUS
<1>1. CASE Iterate
    <2>1. log' = <<>> /\ retry' = BaseRetry /\ serverMax' = 0
        BY <1>1 DEF Iterate
    <2>2. \A k \in 1..Len(log') : FALSE
        BY <2>1
    <2> QED
        BY <2>1, <2>2, StreamAssumption DEF PolicyInv, ControlAfter
<1>2. CASE Deliver
    <2>1. PICK f \in Frames : Apply(f)
        BY <1>2 DEF Deliver
    <2>2. log \in Seq(Frames) /\ log' = Append(log, f)
        BY <2>1 DEF Apply, Types
    <2>3. ControlAfter(log', "retry", IF f["retry"] > 0 THEN f["retry"] ELSE retry, BaseRetry)
        BY <2>2, ControlAppended DEF PolicyInv
    <2>4. ControlAfter(log', "retryMax", IF f["retryMax"] > 0 THEN f["retryMax"] ELSE serverMax, 0)
        BY <2>2, ControlAppended DEF PolicyInv
    <2>5. /\ retry' = IF f["retry"] > 0 THEN f["retry"] ELSE retry
          /\ serverMax' = IF f["retryMax"] > 0 THEN f["retryMax"] ELSE serverMax
        BY <2>1 DEF Apply
    <2>6. retry' <= Huge
        BY <2>1, StreamAssumption DEF Apply, PolicyInv
    <2> QED
        BY <2>3, <2>4, <2>5, <2>6 DEF PolicyInv
<1>3. CASE Recover \/ Opened \/ Refused \/ RefusalRead \/ Fatal \/ ConnectFails \/ ConnectFailsClosed \/ Chunk \/ NextChunk
               \/ EndOfBody \/ Finalized \/ ReadFails \/ Silence \/ Abandoned \/ Released \/ Interrupted
               \/ Reconnect \/ Aclose \/ UNCHANGED vars
    <2>1. UNCHANGED <<log, retry, serverMax>>
        BY <1>3, QuietSteps DEF Quiet, Recover, Opened, vars, policyVars, historyVars
    <2> QED
        BY <2>1 DEF PolicyInv
<1> QED
    BY <1>1, <1>2, <1>3 DEF Next

\* A step that leaves the policy, the count and the delay alone and starts no wait.
LEMMA WaitKept ==
    ASSUME WaitInv, UNCHANGED <<policyVars, delay>>,
           pc' = "waiting" => pc = "waiting",
           connected' => connected,
           pc' = "sending" => ~connected',
           pc' \in {"reading", "parsing", "finalizing"} => connected'
    PROVE  WaitInv'
BY DEF WaitInv, policyVars, EffectiveMax, CappedDelay

\* A wait that starts leaves the invariant true, whether or not the connection had opened.
LEMMA WaitStarts ==
    ASSUME Types, DelayTypes, WaitInv, NEW c \in BOOLEAN, Wait(c), c = connected,
           UNCHANGED <<retry, serverMax, connected>>
    PROVE  WaitInv'
<1>1. failures \in Nat
    BY StreamAssumption DEF DelayTypes
<1>2. PICK d \in Nat : /\ d = CappedDelay(failures)
                       /\ d <= EffectiveMax
                       /\ d >= Least(retry, EffectiveMax)
    BY <1>1, CappedBounds DEF Types
<1>3. delay' \in Nat /\ delay' <= 10 * d /\ delay' >= 9 * d
    BY <1>2, Waited
<1>4. PICK m \in Nat : m = EffectiveMax
    BY MaximumType DEF Types
<1>5. EffectiveMax' = m
    BY <1>4 DEF EffectiveMax
<1>6. delay' <= 10 * m /\ delay' >= 9 * Least(retry, m)
    BY <1>2, <1>3, <1>4 DEF Types, Least
<1>7. pc' = "waiting"
    BY DEF Wait
<1>8. connected' => failures' = 0
    BY DEF WaitInv, Wait
<1>9. failures' > 0 => delay' <= 10 * CappedDelay(failures - 0)
    BY <1>1, <1>2, <1>3
<1>10. failures' > 0 => failures' = failures + 1
    BY <1>1 DEF Wait, WaitInv
<1>11. failures' > 0 => CappedDelay(failures - 1)' = d
    <2>1. SUFFICES ASSUME failures' > 0 PROVE CappedDelay(failures - 1)' = d
        OBVIOUS
    <2>2. failures' - 1 = failures
        BY <1>1, <1>10, <2>1
    <2> QED
        BY <1>2, <1>4, <1>5, <2>2 DEF CappedDelay
<1>12. EffectiveMax' = m /\ retry' = retry
    BY <1>5
<1> QED
    BY <1>3, <1>6, <1>7, <1>8, <1>11, <1>12, <1>2 DEF WaitInv

LEMMA WaitInit == Init => WaitInv
BY DEF Init, WaitInv

LEMMA WaitStep == Types /\ DelayTypes /\ WaitInv /\ [Next]_vars => WaitInv'
<1> SUFFICES ASSUME Types, DelayTypes, WaitInv, [Next]_vars PROVE WaitInv'
    OBVIOUS
<1>1. CASE Iterate
    BY <1>1 DEF Iterate, WaitInv
<1>2. CASE Opened
    BY <1>2 DEF Opened, OpenedState, WaitInv
<1>3. CASE ConnectFails
    <2>1. connected = FALSE /\ Wait(FALSE) /\ UNCHANGED <<retry, serverMax, connected>>
        BY <1>3 DEF ConnectFails, WaitInv, DelayTypes, connectionVars
    <2> QED
        BY <2>1, WaitStarts
<1>4. CASE Released
    <2>1. CASE pc' = "idle" /\ UNCHANGED <<failures, delay>>
        <3>1. UNCHANGED <<connected, policyVars, delay>>
            BY <1>4, <2>1 DEF Released, policyVars
        <3> QED
            BY <2>1, <3>1, WaitKept
    <2>2. CASE Wait(connected)
        <3>1. UNCHANGED <<retry, serverMax, connected>> /\ connected \in BOOLEAN
            BY <1>4 DEF Released, DelayTypes
        <3> QED
            BY <2>2, <3>1, WaitStarts
    <2> QED
        BY <1>4, <2>1, <2>2 DEF Released
<1>5. CASE Deliver
    <2>1. connected /\ failures = 0 /\ UNCHANGED <<pc, connected, failures>>
        BY <1>5 DEF Deliver, WaitInv, connectionVars
    <2>2. pc' # "waiting" /\ pc' # "sending"
        BY <1>5, <2>1 DEF Deliver
    <2> QED
        BY <2>1, <2>2 DEF WaitInv
<1>6. CASE Recover \/ Fatal \/ ConnectFailsClosed \/ Chunk \/ NextChunk \/ EndOfBody
    <2>1. UNCHANGED <<connected, policyVars, delay>>
        BY <1>6 DEF Recover, Fatal, ConnectFailsClosed, Chunk, NextChunk, EndOfBody, connectionVars
    <2>2. \/ pc' = pc
          \/ pc' = "idle"
          \/ pc \in {"reading", "parsing"} /\ pc' \in {"reading", "parsing", "finalizing"}
        BY <1>6 DEF Recover, Fatal, ConnectFailsClosed, Chunk, NextChunk, EndOfBody
    <2> QED
        BY <2>1, <2>2, WaitKept DEF WaitInv
<1>7. CASE Refused \/ RefusalRead \/ Finalized \/ ReadFails \/ Silence \/ Abandoned \/ Interrupted
    <2>1. UNCHANGED <<connected, policyVars, delay>> /\ pc' \in {"refusing", "releasing", "idle"}
        BY <1>7 DEF Refused, RefusalRead, Finalized, ReadFails, Silence, Abandoned, Interrupted, Release
    <2> QED
        BY <2>1, WaitKept
<1>8. CASE Reconnect
    <2>1. UNCHANGED <<policyVars, delay>> /\ pc' = "sending" /\ connected' = FALSE
        BY <1>8 DEF Reconnect, Connect
    <2> QED
        BY <2>1, WaitKept
<1>9. CASE Aclose \/ UNCHANGED vars
    <2>1. UNCHANGED <<pc, connected, policyVars, delay>>
        BY <1>9 DEF Aclose, vars, connectionVars
    <2> QED
        BY <2>1, WaitKept DEF WaitInv
<1> QED
    BY <1>1, <1>2, <1>3, <1>4, <1>5, <1>6, <1>7, <1>8, <1>9 DEF Next
-----------------------------------------------------------------------------
\* The latest frame with a control, as the properties name it, is the one the policy has.
LEMMA ControlMeaning ==
    ASSUME log \in Seq(Frames), NEW c \in {"retry", "retryMax"}, NEW v, NEW before,
           ControlAfter(log, c, v, before)
    PROVE  LET n == Latest(1, LAMBDA f : f[c] > 0) IN
           /\ n = 0 => v = before
           /\ n # 0 => n \in 1..Len(log) /\ log[n][c] > 0 /\ v = log[n][c]
<1> DEFINE I == {j \in 1..Len(log) : log[j][c] > 0}
           n == IF I = {} THEN 0 ELSE CHOOSE j \in I : \A k \in I : k <= j
<1>1. SUFFICES /\ n = 0 => v = before
               /\ n # 0 => n \in 1..Len(log) /\ log[n][c] > 0 /\ v = log[n][c]
    BY DEF Latest
<1>2. Len(log) \in Nat
    OBVIOUS
<1>3. CASE v = before /\ \A k \in 1..Len(log) : ~(log[k][c] > 0)
    <2>1. I = {}
        BY <1>3
    <2> QED
        BY <1>3, <2>1
<1>4. ASSUME NEW i \in 1..Len(log),
             log[i][c] > 0,
             \A k \in (i + 1)..Len(log) : ~(log[k][c] > 0),
             v = log[i][c]
      PROVE  /\ n = 0 => v = before
             /\ n # 0 => n \in 1..Len(log) /\ log[n][c] > 0 /\ v = log[n][c]
    <2>1. I \in SUBSET Nat /\ i \in I
        BY <1>2, <1>4
    <2>2. \A k \in I : k <= i
        BY <1>2, <1>4
    <2>3. i # 0
        BY <1>2
    <2> HIDE DEF I
    <2>4. n = i
        BY <2>1, <2>2, Greatest
    <2> HIDE DEF n
    <2> QED
        BY <1>4, <2>3, <2>4
<1> QED
    BY <1>3, <1>4 DEF ControlAfter

LEMMA DelayMeaning == Types /\ DelayTypes /\ PolicyInv /\ WaitInv => DelayBounded
<1> SUFFICES ASSUME Types, DelayTypes, PolicyInv, WaitInv PROVE DelayBounded
    OBVIOUS
<1> DEFINE r == Latest(1, LAMBDA f : f.retry > 0)
           m == Latest(1, LAMBDA f : f.retryMax > 0)
           base == IF r = 0 THEN BaseRetry ELSE log[r].retry
           maximum == IF m # 0 THEN log[m].retryMax
                      ELSE IF ConfiguredMax # 0 THEN ConfiguredMax ELSE base * 30
<1>1. log \in Seq(Frames)
    BY DEF Types
<1>2. /\ r = 0 => retry = BaseRetry
      /\ r # 0 => retry = log[r].retry
    BY <1>1, ControlMeaning DEF PolicyInv
<1>3. /\ m = 0 => serverMax = 0
      /\ m # 0 => serverMax = log[m].retryMax /\ log[m].retryMax > 0
    BY <1>1, ControlMeaning DEF PolicyInv
<1> HIDE DEF r, m
<1>4. base = retry
    BY <1>2
<1> HIDE DEF base
<1>5. maximum = EffectiveMax
    <2>1. CASE m = 0
        BY <1>3, <1>4, <2>1 DEF EffectiveMax
    <2>2. CASE m # 0
        <3>1. serverMax # 0
            BY <1>3, <2>2 DEF Types
        <3> QED
            BY <1>3, <2>2, <3>1 DEF EffectiveMax
    <2> QED
        BY <2>1, <2>2
<1> HIDE DEF maximum
<1>6. pc = "waiting" => delay <= 10 * maximum /\ delay >= 9 * Least(base, maximum)
    BY <1>4, <1>5 DEF WaitInv
<1> QED
    BY <1>6 DEF DelayBounded, maximum, base, r, m

\* DelayBounded for every server: no wait is longer than the maximum in force, nor shorter than
\* nine tenths of the base retry, however many connections failed and whatever positive controls
\* the server sent (_reconnect.py lines 31-72).
THEOREM DelayBoundedHolds == Spec => []DelayBounded
<1>1. Init => Types /\ DelayTypes /\ PolicyInv /\ WaitInv
    BY TypesInit, DelayTypesInit, PolicyInit, WaitInit
<1>2. Types /\ DelayTypes /\ PolicyInv /\ WaitInv /\ [Next]_vars
        => Types' /\ DelayTypes' /\ PolicyInv' /\ WaitInv'
    BY TypesStep, DelayTypesStep, PolicyStep, WaitStep
<1>3. Types /\ DelayTypes /\ PolicyInv /\ WaitInv => DelayBounded
    BY DelayMeaning
<1> QED
    BY <1>1, <1>2, <1>3, PTL DEF Spec
-----------------------------------------------------------------------------
\* Only a failed connection, or one that was released for a retry, starts a wait.
LEMMA WaitBegins ==
    ASSUME [Next]_vars, WaitInv, DelayTypes, pc # "waiting", pc' = "waiting"
    PROVE  Wait(connected) /\ UNCHANGED <<connected, retry, serverMax>>
<1>1. CASE ConnectFails
    BY <1>1 DEF ConnectFails, WaitInv, DelayTypes, connectionVars
<1>2. CASE Released
    BY <1>2 DEF Released
<1>3. ~ConnectFails /\ ~Released => pc' # "waiting"
    BY DEF Next, vars, Iterate, Recover, Opened, Refused, RefusalRead, Fatal, ConnectFailsClosed, Chunk, Deliver, NextChunk,
       EndOfBody, Finalized, ReadFails, Silence, Abandoned, Interrupted, Reconnect, Connect, Aclose, Release
<1> QED
    BY <1>1, <1>2, <1>3

LEMMA EscalatesStep ==
    ASSUME Types, DelayTypes, PolicyInv, WaitInv, [Next]_vars, pc # "waiting", pc' = "waiting"
    PROVE  /\ connected' => delay' = 10 * Least(retry, EffectiveMax)
           /\ (~connected' /\ failures > 0) => 10 * delay' >= 9 * Least(2 * delay, 10 * EffectiveMax)
<1>1. Wait(connected) /\ connected' = connected /\ connected \in BOOLEAN
    BY WaitBegins DEF DelayTypes
<1>2. PICK m \in Nat : m = EffectiveMax
    BY MaximumType DEF Types
<1>3. ASSUME connected PROVE delay' = 10 * Least(retry, m)
    <2>1. failures = 0 /\ delay' = 10 * CappedDelay(0)
        BY <1>1, <1>3, Waited DEF WaitInv
    <2>2. CappedDelay(0) = Least(retry, m)
        BY <1>2, CappedFirst DEF Types, PolicyInv
    <2> QED
        BY <2>1, <2>2
<1>4. ASSUME failures > 0 PROVE 10 * delay' >= 9 * Least(2 * delay, 10 * m)
    <2>1. PICK n \in Nat : failures = n + 1
        <3>1. failures - 1 \in Nat
            BY <1>4 DEF DelayTypes
        <3> QED
            BY <3>1 DEF DelayTypes
    <2>2. n = failures - 1
        BY <2>1 DEF DelayTypes
    <2>3. PICK c \in Nat : c = CappedDelay(n)
        BY CappedBounds DEF Types
    <2>4. PICK d \in Nat : d = CappedDelay(n + 1)
        BY CappedBounds DEF Types
    <2>5. d >= Least(2 * c, m)
        BY <1>2, <2>3, <2>4, CappedDoubles DEF Types
    <2>6. delay \in Nat /\ delay <= 10 * c
        BY <1>4, <2>2, <2>3 DEF WaitInv, DelayTypes
    <2>7. delay' \in Nat /\ delay' >= 9 * d
        BY <1>1, <2>1, <2>4, Waited
    <2>8. PICK e \in Nat : e = delay' /\ e >= 9 * d
        BY <2>7
    <2>9. PICK b \in Nat : b = delay /\ b <= 10 * c
        BY <2>6
    <2>10. Least(2 * b, 10 * m) = IF 2 * b <= 10 * m THEN 2 * b ELSE 10 * m
        BY DEF Least
    <2>11. (2 * c <= m => d >= 2 * c) /\ (~(2 * c <= m) => d >= m)
        BY <2>5 DEF Least
    <2>12. 10 * e >= 9 * (IF 2 * b <= 10 * m THEN 2 * b ELSE 10 * m)
        <3>1. e >= 9 * d /\ b <= 10 * c
            BY <2>8, <2>9
        <3>2. CASE 2 * c <= m
            <4>1. e >= 18 * c
                BY <2>11, <3>1, <3>2
            <4> QED
                BY <3>1, <3>2, <4>1
        <3>3. CASE ~(2 * c <= m)
            <4>1. e >= 9 * m
                BY <2>11, <3>1, <3>3
            <4> QED
                BY <3>1, <3>3, <4>1
        <3> QED
            BY <3>2, <3>3
    <2> QED
        BY <2>8, <2>9, <2>10, <2>12
<1> QED
    BY <1>1, <1>2, <1>3, <1>4

\* BackoffEscalates for every server: exactly the base after a connection that had opened; while
\* connections keep failing at least nine tenths of twice the last wait, up to the maximum
\* (_reconnect.py lines 48-60).
THEOREM BackoffEscalatesHolds == Spec => BackoffEscalates
<1> DEFINE Escalates ==
               (pc # "waiting" /\ pc' = "waiting") =>
                   /\ connected' => delay' = 10 * Least(retry, EffectiveMax)
                   /\ (~connected' /\ failures > 0) => 10 * delay' >= 9 * Least(2 * delay, 10 * EffectiveMax)
<1>1. Init => Types /\ DelayTypes /\ PolicyInv /\ WaitInv
    BY TypesInit, DelayTypesInit, PolicyInit, WaitInit
<1>2. Types /\ DelayTypes /\ PolicyInv /\ WaitInv /\ [Next]_vars
        => Types' /\ DelayTypes' /\ PolicyInv' /\ WaitInv'
    BY TypesStep, DelayTypesStep, PolicyStep, WaitStep
<1>3. Types /\ DelayTypes /\ PolicyInv /\ WaitInv /\ [Next]_vars => [Escalates]_vars
    BY EscalatesStep
<1> QED
    BY <1>1, <1>2, <1>3, PTL DEF Spec, BackoffEscalates
=============================================================================
