----------------------------- MODULE EventStream -----------------------------
(***************************************************************************)
(* One typed event stream (src/sunday/httpx/_sse.py, HttpxEventStream) with *)
(* its reconnect policy (_reconnect.py) and the authentication recovery     *)
(* budget its connections share (_security.py).                             *)
(*                                                                         *)
(* A frame is what the parser returns for one event: the controls it       *)
(* carries (0 or NoId when absent) and whether it has data.  Times are      *)
(* integers in a unit of the model; a delay counts tenths of that unit,     *)
(* because jitter takes at most a tenth off.                                *)
(***************************************************************************)
EXTENDS Integers, Sequences

CONSTANTS
    Frames,         \* frames the server may send
    BaseRetry,      \* EventStreamOptions.retry
    ConfiguredMax,  \* EventStreamOptions.retry_max, 0 when not given
    Floor,          \* _KEEPALIVE_TIMEOUT_FLOOR
    Huge,           \* the largest delay a float can hold
    NoId, EmptyId,  \* a frame without id, and one with an empty id
    MaxFrames,      \* bound of the model: frames of one iteration
    MaxFailures     \* bound of the model: connections that fail one after the other

ASSUME StreamAssumption ==
    /\ \A f \in Frames :
           /\ {f.retry, f.retryMax, f.keepalive} \subseteq Nat
           /\ f.data \in BOOLEAN
           /\ DOMAIN f = {"id", "retry", "retryMax", "keepalive", "data"}
    /\ {BaseRetry, ConfiguredMax, Floor, Huge, MaxFrames, MaxFailures} \subseteq Nat
    /\ NoId # EmptyId
    \* A float holds every base retry (sse.py lines 28 and 137-141).
    /\ BaseRetry <= Huge /\ \A f \in Frames : f.retry <= Huge

VARIABLES
    pc,         \* where the iteration of events() is suspended
    closed,     \* _closed: the close event is set and the cancel scope cancelled
    response,   \* the response of the current connection
    after,      \* what follows the release of the response: retry or leave
    connected,  \* local connected
    lastId,     \* local last_event_id
    header,     \* the Last-Event-ID header of the request being sent
    retry, serverMax, failures,     \* _ReconnectPolicy
    delay,      \* the delay of the current or the last wait
    deadline,   \* local timeout_state, 0 when None
    timeout,    \* local current_timeout of _chunks: that of the read under way, 0 when None
    consumed,   \* AuthenticationRecoveryBudget._used
    log,        \* history: the frames applied in this iteration
    mark,       \* history: how many of them before the current connection opened
    recoveries  \* history: authentication recoveries of this iteration, counted up to 2

policyVars     == <<retry, serverMax, failures>>
connectionVars == <<response, after, connected, header>>
timerVars      == <<deadline, timeout>>
historyVars    == <<log, mark, recoveries>>
vars == <<pc, closed, connectionVars, lastId, policyVars, delay, timerVars, consumed, historyVars>>

Ids == {f.id : f \in Frames} \cup {NoId}

TypeOK ==
    /\ pc \in {"idle", "sending", "refusing", "reading", "parsing", "finalizing", "releasing", "waiting"}
    /\ closed \in BOOLEAN
    /\ response \in {"none", "open", "closed"}
    /\ after \in {"retry", "leave"}
    /\ connected \in BOOLEAN
    /\ lastId \in Ids \ {EmptyId}
    /\ header \in Ids \ {EmptyId}
    /\ retry \in Nat /\ serverMax \in Nat /\ failures \in 0..MaxFailures
    /\ delay \in Nat
    /\ deadline \in Nat /\ timeout \in Nat
    /\ consumed \in BOOLEAN
    /\ log \in Seq(Frames) /\ Len(log) <= MaxFrames
    /\ mark \in 0..Len(log)
    /\ recoveries \in 0..2

Init ==
    /\ pc = "idle"
    /\ closed = FALSE
    /\ response = "none" /\ after = "leave" /\ connected = FALSE
    /\ lastId = NoId /\ header = NoId
    /\ retry = BaseRetry /\ serverMax = 0 /\ failures = 0
    /\ delay = 0
    /\ deadline = 0 /\ timeout = 0
    /\ consumed = FALSE
    /\ log = <<>> /\ mark = 0 /\ recoveries = 0
-----------------------------------------------------------------------------
(* _ReconnectPolicy *)

Least(m, n) == IF m <= n THEN m ELSE n

EffectiveMax ==
    IF serverMax # 0 THEN serverMax ELSE IF ConfiguredMax # 0 THEN ConfiguredMax ELSE retry * 30

\* Mutant: a base above the maximum is not capped.
CappedAboveBase(attempt) ==
    IF retry * 2^attempt > Huge THEN EffectiveMax
    ELSE IF attempt = 0 THEN retry ELSE Least(retry * 2^attempt, EffectiveMax)

\* ldexp overflows above Huge.
CappedDelay(attempt) ==
    IF retry = 0 \/ EffectiveMax = 0 THEN 0
    ELSE IF retry >= EffectiveMax \/ retry * 2^attempt > Huge THEN EffectiveMax
    ELSE Least(retry * 2^attempt, EffectiveMax)

\* Tenths of the capped delay that jitter leaves.
Jitter(attempt) == IF attempt = 0 THEN {10} ELSE {9, 10}

\* next_delay(failed=not connected), and the wait that follows it.
Wait(isConnected) ==
    /\ isConnected \/ failures < MaxFailures
    /\ delay' \in {j * CappedDelay(failures) : j \in Jitter(failures)}
    /\ failures' = IF isConnected THEN failures ELSE failures + 1
    /\ pc' = "waiting"
-----------------------------------------------------------------------------
(* The loop of events *)

\* The head of the loop, and the request it builds, adapts and sends.
Connect ==
    /\ header' = lastId
    /\ connected' = FALSE
    /\ pc' = "sending"

\* events() begins with a policy, a budget and no event id of its own; on a closed stream
\* it ends without a step.
Iterate ==
    /\ pc = "idle" /\ ~closed
    /\ pc' = "sending"
    /\ connected' = FALSE /\ header' = NoId /\ lastId' = NoId
    /\ retry' = BaseRetry /\ serverMax' = 0 /\ failures' = 0
    /\ consumed' = FALSE
    /\ log' = <<>> /\ mark' = 0 /\ recoveries' = 0
    /\ delay' = 0
    /\ response' = "none"
    /\ UNCHANGED <<closed, after, timerVars>>

\* Mutant: a budget for each connection.
BudgetRenewed == TRUE

BudgetLeft == ~consumed

\* A 401 with an invalid_token challenge: the response is closed, the rejected lease
\* invalidated, and the request sent again (AuthRecovery has the steps).
Recover ==
    /\ pc = "sending"
    /\ BudgetLeft
    /\ consumed' = TRUE
    /\ recoveries' = IF recoveries = 2 THEN 2 ELSE recoveries + 1
    /\ UNCHANGED <<pc, closed, connectionVars, lastId, policyVars, delay, timerVars, log, mark>>

\* Mutants of OpenedState: the escalation survives; the deadline of the last connection does.
OpenedEscalated == deadline' = 0 /\ UNCHANGED failures
OpenedArmed     == failures' = 0 /\ UNCHANGED deadline

OpenedState == failures' = 0 /\ deadline' = 0

\* A 2xx event stream.  An answer that is there already is taken though the scope was
\* cancelled meanwhile: the next checkpoint ends the loop.
Opened ==
    /\ pc = "sending"
    /\ response' = "open"
    /\ connected' = TRUE
    /\ OpenedState
    /\ timeout' = deadline'
    /\ mark' = Len(log)
    /\ pc' = "reading"
    /\ UNCHANGED <<closed, after, header, lastId, retry, serverMax, delay, consumed, log, recoveries>>

Release(next) ==
    /\ pc' = "releasing"
    /\ after' = next

\* 204 and a foreign media type end the stream; another status does once its body is read.
Refused ==
    /\ pc = "sending"
    /\ response' = "open"
    /\ Release("leave") \/ (pc' = "refusing" /\ UNCHANGED after)
    /\ UNCHANGED <<closed, connected, header, lastId, policyVars, delay, timerVars, consumed, historyVars>>

\* The body of a refusal is read and its problem raised, or the transport fails on it: the next
\* attempt follows then.
RefusalRead ==
    /\ pc = "refusing"
    /\ \E next \in {"leave", "retry"} : Release(next)
    /\ UNCHANGED <<closed, response, connected, header, lastId, policyVars, delay, timerVars, consumed, historyVars>>

\* A failure that is neither the transport's nor a temporary one of a provider.
Fatal ==
    /\ pc = "sending"
    /\ pc' = "idle"
    /\ UNCHANGED <<closed, connectionVars, lastId, policyVars, delay, timerVars, consumed, historyVars>>

\* A transport failure, or a temporary one of a provider, before there is a response.
ConnectFails ==
    /\ pc = "sending" /\ ~closed
    /\ Wait(FALSE)
    /\ UNCHANGED <<closed, connectionVars, lastId, retry, serverMax, timerVars, consumed, historyVars>>

ConnectFailsClosed ==
    /\ pc = "sending" /\ closed
    /\ pc' = "idle"
    /\ UNCHANGED <<closed, connectionVars, lastId, policyVars, delay, timerVars, consumed, historyVars>>

\* A chunk arrives, at least one byte.  What was received before a close is taken after it.
Chunk ==
    /\ pc = "reading"
    /\ pc' = "parsing"
    /\ UNCHANGED <<closed, connectionVars, lastId, policyVars, delay, timerVars, consumed, historyVars>>

\* Mutants of NextId: an empty id is an id; only an event with data sets the id.
NextIdKept(f) == IF f.id = NoId THEN lastId ELSE f.id
NextIdOfData(f) == IF f.id = NoId \/ ~f.data THEN lastId ELSE IF f.id = EmptyId THEN NoId ELSE f.id

NextId(f) == IF f.id = NoId THEN lastId ELSE IF f.id = EmptyId THEN NoId ELSE f.id

Armed(f) == LET interval == 3 * f.keepalive IN IF interval < Floor THEN Floor ELSE interval

\* _apply_controls for one event; the consumer has the decoded event before the next frame.
Apply(f) ==
    /\ Len(log) < MaxFrames
    /\ retry' = IF f.retry > 0 THEN f.retry ELSE retry
    /\ serverMax' = IF f.retryMax > 0 THEN f.retryMax ELSE serverMax
    /\ deadline' = IF f.keepalive > 0 THEN Armed(f) ELSE deadline
    /\ lastId' = NextId(f)
    /\ log' = Append(log, f)

\* The frames of a chunk are handed over to the last, also when the stream was closed while
\* the consumer had one; so is what finalize returns at the end of the response.
Deliver ==
    /\ pc \in {"parsing", "finalizing"}
    /\ \E f \in Frames : Apply(f)
    /\ UNCHANGED <<pc, closed, connectionVars, failures, delay, timeout, consumed, mark, recoveries>>

\* Mutant: the deadline is read once for all chunks.
NextTimeoutOnce == timeout

\* _chunks asks for the deadline before every read.
NextTimeout == deadline

NextChunk ==
    /\ pc = "parsing"
    /\ pc' = "reading"
    /\ timeout' = NextTimeout
    /\ UNCHANGED <<closed, connectionVars, lastId, policyVars, delay, deadline, consumed, historyVars>>

EndOfBody ==
    /\ pc = "reading"
    /\ pc' = "finalizing"
    /\ UNCHANGED <<closed, connectionVars, lastId, policyVars, delay, timerVars, consumed, historyVars>>

Finalized ==
    /\ pc = "finalizing"
    /\ Release("retry")
    /\ UNCHANGED <<closed, response, connected, header, lastId, policyVars, delay, timerVars, consumed, historyVars>>

\* The transport fails, or the silence lasts longer than the timeout of the read.
ReadFails ==
    /\ pc = "reading"
    /\ Release("retry")
    /\ UNCHANGED <<closed, response, connected, header, lastId, policyVars, delay, timerVars, consumed, historyVars>>

Silence ==
    /\ timeout # 0
    /\ ReadFails

\* Another error, one of the decoder or of a callback, a cancellation of the consumer, or its
\* closing of the generator at an event ends the iteration.
Abandoned ==
    /\ \/ pc \in {"refusing", "reading", "parsing", "finalizing"} /\ Release("leave")
       \/ pc = "waiting" /\ pc' = "idle" /\ UNCHANGED after
    /\ UNCHANGED <<closed, response, connected, header, lastId, policyVars, delay, timerVars, consumed, historyVars>>

\* The shielded close of the response ends: leave, also by an error of on_connecting, or wait
\* for the next attempt.
Released ==
    /\ pc = "releasing"
    /\ response' = "closed"
    /\ \/ /\ pc' = "idle"
          /\ UNCHANGED <<failures, delay>>
       \/ /\ after = "retry" /\ ~closed
          /\ Wait(connected)
    /\ UNCHANGED <<closed, after, connected, header, lastId, retry, serverMax, timerVars, consumed, historyVars>>

\* Mutant: the wait for a retry sleeps through a close.
InterruptibleRead == closed /\ pc \in {"sending", "refusing", "reading"}

Interruptible == closed /\ pc \in {"sending", "refusing", "reading", "waiting"}

\* The cancel scope or the close event reaches the suspended iteration.
Interrupted ==
    /\ Interruptible
    /\ IF pc \in {"refusing", "reading"} THEN Release("leave") ELSE pc' = "idle" /\ UNCHANGED after
    /\ UNCHANGED <<closed, response, connected, header, lastId, policyVars, delay, timerVars, consumed, historyVars>>

Reconnect ==
    /\ pc = "waiting" /\ ~closed
    /\ Connect
    /\ UNCHANGED <<closed, response, after, lastId, policyVars, delay, timerVars, consumed, historyVars>>
-----------------------------------------------------------------------------
\* aclose, at any time and by anyone: the scope is cancelled and the response closed.
Aclose ==
    /\ ~closed
    /\ closed' = TRUE
    /\ response' = IF response = "open" THEN "closed" ELSE response
    /\ UNCHANGED <<pc, after, connected, header, lastId, policyVars, delay, timerVars, consumed, historyVars>>

Next ==
    \/ Iterate
    \/ Recover
    \/ Opened
    \/ Refused
    \/ RefusalRead
    \/ Fatal
    \/ ConnectFails
    \/ ConnectFailsClosed
    \/ Chunk
    \/ Deliver
    \/ NextChunk
    \/ EndOfBody
    \/ Finalized
    \/ ReadFails
    \/ Silence
    \/ Abandoned
    \/ Released
    \/ Interrupted
    \/ Reconnect
    \/ Aclose

Spec == Init /\ [][Next]_vars

\* The event loop resumes a cancelled iteration, and the close of a response ends.
Fairness == WF_vars(Interrupted) /\ WF_vars(Released)

FairSpec == Spec /\ Fairness
-----------------------------------------------------------------------------
(* What an event stream promises. *)

\* The latest of the frames from i on that satisfies Has; 0 when none does.
Latest(i, Has(_)) ==
    LET I == {j \in i..Len(log) : Has(log[j])} IN
    IF I = {} THEN 0 ELSE CHOOSE j \in I : \A k \in I : k <= j

\* "Reconnect requests receive the SSE headers and Last-Event-ID" (README.md lines 224-226):
\* the id is that of the last frame that had one, on whichever connection it came and whether
\* or not the frame had data, and none when that id was empty (_sse.py lines 119-121, 248-249).
ResumesAfterLastId ==
    LET n == Latest(1, LAMBDA f : f.id # NoId) IN
    pc = "sending" => header = IF n = 0 \/ log[n].id = EmptyId THEN NoId ELSE log[n].id

\* "The keepalive promise applies only to the current connection" (README.md lines 236-240):
\* the read under way times out by the last positive keepalive of its own connection, the chunk
\* before it included, and not at all before there was one (_sse.py lines 143-149, 196-212).
DeadlineOfThisConnection ==
    LET n == Latest(mark + 1, LAMBDA f : f.keepalive > 0) IN
    pc = "reading" => timeout = IF n = 0 THEN 0 ELSE Armed(log[n])

\* No wait is longer than the maximum in force, nor shorter than nine tenths of the base
\* retry, whatever positive controls the server sent in whatever order and however many
\* connections failed (_reconnect.py lines 31-72).
DelayBounded ==
    LET r == Latest(1, LAMBDA f : f.retry > 0)
        m == Latest(1, LAMBDA f : f.retryMax > 0)
        base == IF r = 0 THEN BaseRetry ELSE log[r].retry
        maximum == IF m # 0 THEN log[m].retryMax
                   ELSE IF ConfiguredMax # 0 THEN ConfiguredMax ELSE base * 30
    IN pc = "waiting" => delay <= 10 * maximum /\ delay >= 9 * Least(base, maximum)

\* Successive waits: exactly the base after a connection that had opened; while connections
\* keep failing at least nine tenths of twice the last wait, until the maximum is reached
\* (_reconnect.py lines 48-60).
BackoffEscalates ==
    [][(pc # "waiting" /\ pc' = "waiting") =>
           /\ connected' => delay' = 10 * Least(retry, EffectiveMax)
           /\ (~connected' /\ failures > 0) => 10 * delay' >= 9 * Least(2 * delay, 10 * EffectiveMax)]_vars

\* All connections of one iteration share one authentication recovery (_security.py lines
\* 143-153, _sse.py line 110): a server that answers every reconnection with a challenge does
\* not make the stream renew its token forever.
RecoversOnce == recoveries <= 1

\* aclose interrupts reads, sends and waits: unless the consumer holds it at an event, which
\* may come of a response or a chunk that had arrived, the iteration ends and leaves no response
\* open (_sse.py lines 88-100, 178-186).
AcloseSettles ==
    closed ~> (pc \in {"parsing", "finalizing"} \/ (pc = "idle" /\ response # "open"))
=============================================================================
