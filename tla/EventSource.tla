----------------------------- MODULE EventSource -----------------------------
(***************************************************************************)
(* Callback event sources and the transport that owns them                 *)
(* (src/sunday/httpx/_sse.py HttpxEventSource, with the connection loop of *)
(* HttpxEventStream.events, and the registration and aclose of             *)
(* src/sunday/httpx/_transport.py).                                        *)
(*                                                                         *)
(* connect() creates an event stream and a task that iterates it: the pair *)
(* is one connection here.  A step is what asyncio runs between two        *)
(* suspension points.  A native cancellation (Task.cancel) is delivered at *)
(* any suspension point, those in shielded anyio scopes included; the      *)
(* cancel scope of a closed stream only at those outside a shield.         *)
(***************************************************************************)
EXTENDS FiniteSets

CONSTANTS
    Sources,        \* event sources of the transport
    Connections,    \* identities of stream and task pairs; a collected one is reused
    NoConnection,
    Patient         \* sources whose application calls connect() again only once the old task ended

ASSUME SourceAssumption ==
    /\ NoConnection \notin Connections
    /\ Patient \subseteq Sources

VARIABLES
    ready,      \* HttpxEventSource._ready_state
    current,    \* HttpxEventSource._stream and ._task
    owner,      \* the source a connection was created by
    task,       \* where the task of a connection is suspended
    cancel,     \* a native cancellation not yet delivered
    closed,     \* HttpxEventStream._closed: its close event set, its scope cancelled
    response,   \* the response of a stream: "closing" from the call of aclose to its end
    after,      \* what follows the release of a response: reconnect or leave the loop
    target,     \* the stream whose aclose the finally of _run awaits
    registered, \* HttpxTransport._event_sources
    transport,  \* "open", "closing" (_closed is set, aclose waits), "closed" (client closed)
    awaited     \* the tasks that aclose waits for

sourceVars     == <<ready, current>>
connectionVars == <<owner, task, cancel, closed, response, after, target>>
transportVars  == <<registered, transport, awaited>>
vars           == <<sourceVars, connectionVars, transportVars>>

\* Suspended in the loop of events, outside a shield.
Looping == {"connecting", "reading", "backoff"}
Live    == Looping \cup {"created", "releasing", "cleanup"}

TypeOK ==
    /\ ready \in [Sources -> {"closed", "connecting", "open"}]
    /\ current \in [Sources -> Connections \cup {NoConnection}]
    /\ owner \in [Connections -> Sources]
    /\ task \in [Connections -> Live \cup {"ended", "unused"}]
    /\ cancel \in [Connections -> BOOLEAN]
    /\ closed \in [Connections -> BOOLEAN]
    /\ response \in [Connections -> {"none", "open", "closing", "closed"}]
    /\ after \in [Connections -> {"retry", "leave"}]
    /\ target \in [Connections -> Connections \cup {NoConnection}]
    /\ registered \subseteq Sources
    /\ transport \in {"open", "closing", "closed"}
    /\ awaited \subseteq Connections

Init ==
    /\ ready = [s \in Sources |-> "closed"]
    /\ current = [s \in Sources |-> NoConnection]
    /\ owner \in {[g \in Connections |-> s] : s \in Sources}
    /\ task = [g \in Connections |-> "unused"]
    /\ cancel = [g \in Connections |-> FALSE]
    /\ closed = [g \in Connections |-> FALSE]
    /\ response = [g \in Connections |-> "none"]
    /\ after = [g \in Connections |-> "leave"]
    /\ target = [g \in Connections |-> NoConnection]
    /\ registered = Sources
    /\ transport = "open"
    /\ awaited = {}
-----------------------------------------------------------------------------
(* connect and close *)

\* connect() is refused by an open source and by a closed transport.
MayConnect(s) == ready[s] = "closed" /\ transport = "open"

\* Mutant: a source is not registered again.
RegisterNothing(s) == UNCHANGED registered

Register(s) == registered' = registered \cup {s}

Previous(s) == current[s] # NoConnection /\ task[current[s]] \in Live

\* Bound: the application does not connect a source again while an earlier task of it is
\* about to take its first step, which would iterate the newer stream.
AboutToBegin(s) == \E g \in Connections : owner[g] = s /\ task[g] = "created" /\ ~cancel[g]

Connect(s, g) ==
    /\ MayConnect(s)
    /\ s \in Patient => ~Previous(s)
    /\ ~AboutToBegin(s)
    /\ task[g] = "unused"
    /\ Register(s)
    /\ ready' = [ready EXCEPT ![s] = "connecting"]
    /\ current' = [current EXCEPT ![s] = g]
    /\ owner' = [owner EXCEPT ![g] = s]
    /\ task' = [task EXCEPT ![g] = "created"]
    /\ UNCHANGED <<cancel, closed, response, after, target, transport, awaited>>

\* Connections that close() of these sources interrupts.
Running(S) == {current[s] : s \in S} \cap {g \in Connections : task[g] \in Live}

\* Mutant: close() sets the state and leaves the task alone.
InterruptNothing(S) == UNCHANGED <<closed, cancel>>

\* _close_nowait of the stream and cancel of the task.
Interrupt(S) ==
    /\ closed' = [g \in Connections |-> closed[g] \/ g \in {current[s] : s \in S}]
    /\ cancel' = [g \in Connections |-> cancel[g] \/ g \in Running(S)]

\* A source that never connected has no task to end: close() unregisters it at once.
NeverConnected(S) == {s \in S : current[s] = NoConnection}

CloseAll(S) ==
    /\ ready' = [s \in Sources |-> IF s \in S THEN "closed" ELSE ready[s]]
    /\ Interrupt(S)
    /\ registered' = registered \ NeverConnected(S)

Close(s) ==
    /\ CloseAll({s})
    /\ UNCHANGED <<current, owner, task, response, after, target, transport, awaited>>
-----------------------------------------------------------------------------
(* The task of a connection: _run around events. *)

\* Mutant: the source stays as it was when its task ends.
SettleNothing(s) == UNCHANGED ready

Settle(s) == ready' = [ready EXCEPT ![s] = "closed"]

\* The finally of _run (lines 351-355) closes whatever stream the source has by now; when
\* that stream has an open response the task waits for it, else it ends in this step.
Leave(g, responses) ==
    LET s == owner[g]
        stream == current[s] IN
    /\ closed' = [closed EXCEPT ![stream] = TRUE]
    /\ \/ /\ responses[stream] = "open"
          /\ response' = [responses EXCEPT ![stream] = "closing"]
          /\ task' = [task EXCEPT ![g] = "cleanup"]
          /\ target' = [target EXCEPT ![g] = stream]
          /\ UNCHANGED <<ready, registered>>
       \/ /\ responses[stream] # "open"
          /\ response' = responses
          /\ task' = [task EXCEPT ![g] = "ended"]
          /\ Settle(s)
          /\ registered' = registered \ {s}
          /\ UNCHANGED target

\* Cancelled before its first step, a task never runs _run.
NeverBegun(g) ==
    /\ task[g] = "created"
    /\ cancel[g]
    /\ task' = [task EXCEPT ![g] = "ended"]
    /\ cancel' = [cancel EXCEPT ![g] = FALSE]
    /\ UNCHANGED <<sourceVars, owner, closed, response, after, target, transportVars>>

Begin(g) ==
    /\ task[g] = "created"
    /\ ~cancel[g]
    /\ \/ /\ ~closed[g]
          /\ task' = [task EXCEPT ![g] = "connecting"]
          /\ UNCHANGED <<ready, registered, closed, response, target>>
       \/ /\ closed[g]
          /\ Leave(g, response)
    /\ UNCHANGED <<current, owner, cancel, after, transport, awaited>>

\* Mutant: the wait for a retry sleeps through a close.
InterruptibleRequest(g) == task[g] \in {"connecting", "reading"} /\ (cancel[g] \/ closed[g])

Interruptible(g) == task[g] \in Looping /\ (cancel[g] \/ closed[g])

\* An event stream answered: on_open.
Opened(g) ==
    /\ task[g] = "connecting"
    /\ ~Interruptible(g)
    /\ response' = [response EXCEPT ![g] = "open"]
    /\ task' = [task EXCEPT ![g] = "reading"]
    /\ ready' = [ready EXCEPT ![owner[g]] = "open"]
    /\ UNCHANGED <<current, owner, cancel, closed, after, target, transportVars>>

\* The finally of one attempt starts to close its response (lines 179-183).
Release(g, next) ==
    /\ task' = [task EXCEPT ![g] = "releasing"]
    /\ response' = [response EXCEPT ![g] = "closing"]
    /\ after' = [after EXCEPT ![g] = next]

\* 204, a status or a media type that ends the stream, or a failure while reading that is not
\* one of the transport: on_error is called by _run.
Refused(g) ==
    /\ task[g] \in {"connecting", "reading"}
    /\ ~Interruptible(g)
    /\ Release(g, "leave")
    /\ UNCHANGED <<sourceVars, owner, cancel, closed, target, transportVars>>

\* The same before there is a response.
Fatal(g) ==
    /\ task[g] = "connecting"
    /\ ~Interruptible(g)
    /\ Leave(g, response)
    /\ UNCHANGED <<current, owner, cancel, after, transport, awaited>>

\* Lines 185-190, after an attempt: on_connecting and the wait for a retry, or, when the stream
\* was closed meanwhile, the end of the loop.
Proceed(g, isClosed, responses) ==
    \/ /\ ~isClosed
       /\ response' = responses
       /\ task' = [task EXCEPT ![g] = "backoff"]
       /\ ready' = [ready EXCEPT ![owner[g]] = "connecting"]
       /\ UNCHANGED <<registered, closed, target>>
    \/ isClosed /\ Leave(g, responses)

\* The server ended the stream; reading to the end closed the response.
StreamEnds(g) ==
    /\ task[g] = "reading"
    /\ ~Interruptible(g)
    /\ Proceed(g, FALSE, [response EXCEPT ![g] = "closed"])
    /\ UNCHANGED <<current, owner, cancel, after, transport, awaited>>

\* A transport failure, a timeout or a temporary provider failure before there is a response:
\* on_error is called, which may close the source.
ConnectFails(g) ==
    /\ task[g] = "connecting"
    /\ ~Interruptible(g)
    /\ \E closedByHandler \in BOOLEAN : Proceed(g, closedByHandler, response)
    /\ UNCHANGED <<current, owner, cancel, after, transport, awaited>>

\* The same while reading: the response is released after on_error returned.
ReadFails(g) ==
    LET s == owner[g] IN
    /\ task[g] = "reading"
    /\ ~Interruptible(g)
    /\ \/ /\ ready' = [ready EXCEPT ![s] = "connecting"]
          /\ UNCHANGED <<closed, cancel>>
       \/ /\ ready' = [ready EXCEPT ![s] = "closed"]
          /\ Interrupt({s})
    /\ Release(g, "retry")
    /\ UNCHANGED <<current, owner, target, transportVars>>

Released(g) ==
    LET responses == [response EXCEPT ![g] = "closed"] IN
    /\ task[g] = "releasing"
    /\ ~cancel[g]
    /\ \/ after[g] = "retry" /\ Proceed(g, closed[g], responses)
       \/ after[g] = "leave" /\ Leave(g, responses)
    /\ UNCHANGED <<current, owner, cancel, after, transport, awaited>>

\* The shield of the release holds against cancel scopes, not against Task.cancel: the
\* response is marked closed and is not closed again.
ReleaseInterrupted(g) ==
    /\ task[g] = "releasing"
    /\ cancel[g]
    /\ Leave(g, response)
    /\ cancel' = [cancel EXCEPT ![g] = FALSE]
    /\ UNCHANGED <<current, owner, after, transport, awaited>>

Reconnect(g) ==
    /\ task[g] = "backoff"
    /\ ~Interruptible(g)
    /\ task' = [task EXCEPT ![g] = "connecting"]
    /\ UNCHANGED <<sourceVars, owner, cancel, closed, response, after, target, transportVars>>

\* Task.cancel, the cancel scope or the close event of a closed stream ends the loop.
Interrupted(g) ==
    /\ Interruptible(g)
    /\ cancel' = [cancel EXCEPT ![g] = FALSE]
    /\ \/ /\ response[g] = "open"
          /\ Release(g, "leave")
          /\ UNCHANGED <<ready, registered, closed, target>>
       \/ /\ response[g] # "open"
          /\ Leave(g, response)
          /\ UNCHANGED after
    /\ UNCHANGED <<current, owner, transport, awaited>>

\* The close of the newer stream's response ends; Task.cancel reaches only the newer task.
CleanedUp(g) ==
    /\ task[g] = "cleanup"
    /\ response' = [response EXCEPT ![target[g]] = "closed"]
    /\ task' = [task EXCEPT ![g] = "ended"]
    /\ target' = [target EXCEPT ![g] = NoConnection]
    /\ Settle(owner[g])
    /\ registered' = registered \ {owner[g]}
    /\ UNCHANGED <<current, owner, cancel, closed, after, transport, awaited>>

\* Nobody refers to an ended connection: its identity may be reused.
Collect(g) ==
    /\ task[g] = "ended"
    /\ g \notin {current[s] : s \in Sources} \cup awaited \cup {target[h] : h \in Connections}
    /\ task' = [task EXCEPT ![g] = "unused"]
    /\ cancel' = [cancel EXCEPT ![g] = FALSE]
    /\ closed' = [closed EXCEPT ![g] = FALSE]
    /\ response' = [response EXCEPT ![g] = "none"]
    /\ after' = [after EXCEPT ![g] = "leave"]
    /\ UNCHANGED <<sourceVars, owner, target, transportVars>>
-----------------------------------------------------------------------------
(* HttpxTransport.aclose *)

\* Mutant: aclose awaits the missing task of a source that never connected.
TasksOfAll(S) == {current[s] : s \in S}

\* _wait_closed.
TasksOf(S) == {current[s] : s \in S} \ {NoConnection}

CloseTransport ==
    /\ transport = "open"
    /\ transport' = "closing"
    /\ CloseAll(registered)
    /\ awaited' = TasksOf(registered)
    /\ UNCHANGED <<current, owner, task, response, after, target>>

\* Every task aclose waits for has ended: the owned client is closed.
CloseClient ==
    /\ transport = "closing"
    /\ \A g \in awaited : task[g] \notin Live
    /\ transport' = "closed"
    /\ awaited' = {}
    /\ UNCHANGED <<sourceVars, connectionVars, registered>>
-----------------------------------------------------------------------------
TaskStep(g) ==
    \/ NeverBegun(g)
    \/ Begin(g)
    \/ Opened(g)
    \/ Refused(g)
    \/ Fatal(g)
    \/ StreamEnds(g)
    \/ ReadFails(g)
    \/ ConnectFails(g)
    \/ Released(g)
    \/ ReleaseInterrupted(g)
    \/ Reconnect(g)
    \/ Interrupted(g)
    \/ CleanedUp(g)
    \/ Collect(g)

Next ==
    \/ \E s \in Sources, g \in Connections : Connect(s, g)
    \/ \E s \in Sources : Close(s)
    \/ \E g \in Connections : TaskStep(g)
    \/ CloseTransport
    \/ CloseClient

Spec == Init /\ [][Next]_vars

\* The event loop runs every task that is ready: interrupted tasks run, and the close of
\* a response ends.  Nothing makes a server answer or an application act.
EndingStep(g) ==
    \/ NeverBegun(g)
    \/ Begin(g)
    \/ Released(g)
    \/ ReleaseInterrupted(g)
    \/ Interrupted(g)
    \/ CleanedUp(g)

Fairness == (\A g \in Connections : WF_vars(EndingStep(g))) /\ WF_vars(CloseClient)

FairSpec == Spec /\ Fairness
-----------------------------------------------------------------------------
(* What sources and transport promise. *)

\* Once closed, a source leaves the closed state only through connect(): no late on_open,
\* on_error or on_connecting of a stream being closed revives it (lines 175-188, 326-330).
ClosedStaysClosed ==
    [][\A s \in Patient :
          (ready[s] = "closed" /\ ready'[s] # "closed") => current'[s] # current[s]]_vars

\* A source that says it is connecting or open has a task at work (lines 305-324, 351-355).
ReadyMeansRunning ==
    \A s \in Patient : ready[s] # "closed" => (current[s] # NoConnection /\ task[current[s]] \in Live)

\* The transport closes its client only after every event-source task has ended, so none reads
\* from a closed client (_transport.py lines 544-555).
ClientClosedLast ==
    transport = "closed" => \A g \in Connections : owner[g] \in Patient => task[g] \notin Live

\* close() gets every connection to its end, whatever it was waiting for (lines 88-100, 326-334).
CloseEnds == \A g \in Connections : (task[g] \in Live /\ closed[g]) ~> task[g] \notin Live

\* aclose of the transport returns (_transport.py lines 544-555).
AcloseReturns == (transport = "closing") ~> (transport = "closed")

\* "Begin connecting without blocking the calling event loop" (event_source.py line 55): a
\* connection whose task starts uncancelled connects, that is, its stream is not closed already.
ConnectBegins ==
    \A g \in Connections : (task[g] = "created" /\ closed[g]) => cancel[g]

\* "closing is idempotent and immediately changes the state to closed while response cleanup
\* completes on the loop" (README.md lines 221-222): an ended task has closed its response.
CleanupCompletes ==
    \A g \in Connections : task[g] = "ended" => response[g] \in {"none", "closed"}
=============================================================================
