--------------------------- MODULE EventSourceProofs ---------------------------
(***************************************************************************)
(* What EventSource promises on every instance: type correctness for all   *)
(* sources, and for those whose application waits for the old task before  *)
(* it connects again, that ready states tell the truth, that closed        *)
(* sources stay closed, and that the client closes last.                   *)
(***************************************************************************)
EXTENDS EventSource, TLAPS

ReadyStates == {"closed", "connecting", "open"}
Tasks       == Live \cup {"ended", "unused"}
Responses   == [Connections -> {"none", "open", "closing", "closed"}]

\* A source refers to a connection of its own that is in use; an unused one is as new.
Ownership ==
    /\ \A s \in Sources : current[s] # NoConnection => owner[current[s]] = s /\ task[current[s]] # "unused"
    /\ \A g \in Connections : task[g] = "unused" => ~cancel[g] /\ ~closed[g]

\* A connection at work for a patient application.
Working(g) == task[g] \in Live /\ owner[g] \in Patient

\* It is the only one of its source, which says closed when the connection is cancelled, and
\* has closed it when it says so; the transport knows of it.
Attended(g) ==
    /\ current[owner[g]] = g
    /\ ready[owner[g]] = "closed" => closed[g]
    /\ cancel[g] => ready[owner[g]] = "closed"
    /\ transport = "open" => owner[g] \in registered
    /\ transport = "closing" => g \in awaited
    /\ transport # "closed"

IInv ==
    /\ TypeOK
    /\ Ownership
    /\ \A g \in Connections : Working(g) => Attended(g)
    /\ ReadyMeansRunning
-----------------------------------------------------------------------------
(* The steps of a task, by what they do to its source. *)

\* A task moves; it may close the stream of its source and consume its cancellation.
Move(g) ==
    /\ task[g] \in Live
    /\ task' = [task EXCEPT ![g] = task'[g]] /\ task'[g] \in Live \cup {"ended"}
    /\ UNCHANGED <<owner, current, transport, awaited>>

CloseStream(g) ==
    \/ UNCHANGED closed
    \/ closed' = [closed EXCEPT ![current[owner[g]]] = TRUE]

TakeCancel(g) ==
    \/ UNCHANGED cancel
    \/ cancel' = [cancel EXCEPT ![g] = FALSE]

\* Nothing is said.
Silent(g) ==
    /\ Move(g) /\ CloseStream(g) /\ TakeCancel(g)
    /\ task'[g] \in Live
    /\ UNCHANGED <<ready, registered>>

\* The source says open or connecting.
Announce(g) ==
    /\ Move(g) /\ task'[g] \in Live
    /\ ~closed[g] /\ ~cancel[g]
    /\ \E state \in {"open", "connecting"} : ready' = [ready EXCEPT ![owner[g]] = state]
    /\ UNCHANGED <<closed, cancel, registered>>

\* A handler closes the source.
CloseOwn(g) ==
    /\ Move(g) /\ task'[g] \in Live
    /\ ready' = [ready EXCEPT ![owner[g]] = "closed"]
    /\ Interrupt({owner[g]})
    /\ UNCHANGED registered

\* The task ends, and its source with it.
End(g) ==
    /\ Move(g) /\ CloseStream(g) /\ TakeCancel(g)
    /\ task'[g] = "ended"
    /\ ready' = [ready EXCEPT ![owner[g]] = "closed"]
    /\ registered' = registered \ {owner[g]}

Kinds(g) == Silent(g) \/ Announce(g) \/ CloseOwn(g) \/ End(g) \/ NeverBegun(g)

LEMMA Leaving ==
    ASSUME TypeOK, NEW g \in Connections, task[g] \in Live, NEW responses, Leave(g, responses),
           TakeCancel(g), UNCHANGED <<owner, current, transport, awaited>>
    PROVE  Silent(g) \/ End(g)
<1>1. CloseStream(g)
    BY DEF Leave, CloseStream
<1>2. CASE task' = [task EXCEPT ![g] = "cleanup"] /\ UNCHANGED <<ready, registered>>
    BY <1>1, <1>2 DEF Silent, Move, TypeOK, Live
<1>3. CASE task' = [task EXCEPT ![g] = "ended"] /\ Settle(owner[g]) /\ registered' = registered \ {owner[g]}
    BY <1>1, <1>3 DEF End, Move, Settle, TypeOK
<1> QED
    BY <1>2, <1>3 DEF Leave

LEMMA Proceeding ==
    ASSUME TypeOK, NEW g \in Connections, task[g] \in Live, NEW isClosed \in BOOLEAN, NEW responses,
           Proceed(g, isClosed, responses), ~isClosed => ~closed[g] /\ ~cancel[g],
           UNCHANGED <<owner, current, cancel, transport, awaited>>
    PROVE  Silent(g) \/ End(g) \/ Announce(g)
<1>1. CASE isClosed /\ Leave(g, responses)
    BY <1>1, Leaving DEF TakeCancel
<1>2. CASE /\ ~isClosed
           /\ task' = [task EXCEPT ![g] = "backoff"]
           /\ ready' = [ready EXCEPT ![owner[g]] = "connecting"]
           /\ UNCHANGED <<registered, closed, target>>
    BY <1>2 DEF Announce, Move, TypeOK, Live, Looping
<1> QED
    BY <1>1, <1>2 DEF Proceed

LEMMA KindOfStep ==
    ASSUME TypeOK, NEW g \in Connections, TaskStep(g), ~Collect(g)
    PROVE  Kinds(g)
<1>l. Looping \subseteq Live /\ {"created", "releasing", "cleanup", "connecting", "reading", "backoff"} \subseteq Live
    BY DEF Live, Looping
<1>i. task[g] \in Looping /\ ~Interruptible(g) => ~closed[g] /\ ~cancel[g]
    BY DEF Interruptible, TypeOK
<1>1. CASE Begin(g)
    <2>1. CASE ~closed[g] /\ task' = [task EXCEPT ![g] = "connecting"] /\ UNCHANGED <<ready, registered, closed>>
        BY <1>1, <1>l, <2>1 DEF Begin, Silent, Move, CloseStream, TakeCancel, Kinds, TypeOK
    <2>2. CASE Leave(g, response)
        BY <1>1, <1>l, <2>2, Leaving DEF Begin, TakeCancel, Kinds
    <2> QED
        BY <1>1, <2>1, <2>2 DEF Begin
<1>2. CASE Opened(g)
    BY <1>2, <1>i, <1>l DEF Opened, Announce, Move, Kinds, TypeOK, Looping, transportVars
<1>3. CASE Refused(g)
    BY <1>3, <1>l DEF Refused, Release, Silent, Move, CloseStream, TakeCancel, Kinds, TypeOK, sourceVars, transportVars
<1>4. CASE Fatal(g)
    BY <1>4, <1>l, Leaving DEF Fatal, TakeCancel, Kinds
<1>5. CASE StreamEnds(g)
    BY <1>5, <1>i, <1>l, Proceeding DEF StreamEnds, Kinds, Looping
<1>6. CASE ConnectFails(g)
    <2>1. PICK byHandler \in BOOLEAN : Proceed(g, byHandler, response)
        BY <1>6 DEF ConnectFails
    <2> QED
        BY <1>6, <1>i, <1>l, <2>1, Proceeding DEF ConnectFails, Kinds, Looping
<1>7. CASE ReadFails(g)
    <2>1. /\ Move(g) /\ task'[g] \in Live
          /\ UNCHANGED registered
          /\ ~closed[g] /\ ~cancel[g]
        BY <1>7, <1>i, <1>l DEF ReadFails, Release, Move, TypeOK, Looping, transportVars
    <2>2. CASE ready' = [ready EXCEPT ![owner[g]] = "connecting"] /\ UNCHANGED <<closed, cancel>>
        BY <2>1, <2>2 DEF Announce, Kinds
    <2>3. CASE ready' = [ready EXCEPT ![owner[g]] = "closed"] /\ Interrupt({owner[g]})
        BY <2>1, <2>3 DEF CloseOwn, Kinds
    <2> QED
        BY <1>7, <2>2, <2>3 DEF ReadFails
<1>8. CASE Released(g)
    <2>1. task[g] \in Live /\ ~cancel[g] /\ UNCHANGED <<owner, current, cancel, transport, awaited>>
        BY <1>8, <1>l DEF Released
    <2>2. CASE Proceed(g, closed[g], [response EXCEPT ![g] = "closed"])
        BY <2>1, <2>2, Proceeding DEF Kinds, TypeOK
    <2>3. CASE Leave(g, [response EXCEPT ![g] = "closed"])
        BY <2>1, <2>3, Leaving DEF Kinds, TakeCancel
    <2> QED
        BY <1>8, <2>2, <2>3 DEF Released
<1>9. CASE ReleaseInterrupted(g)
    BY <1>9, <1>l, Leaving DEF ReleaseInterrupted, TakeCancel, Kinds
<1>10. CASE Reconnect(g)
    BY <1>10, <1>l DEF Reconnect, Silent, Move, CloseStream, TakeCancel, Kinds, TypeOK, sourceVars, transportVars
<1>11. CASE Interrupted(g)
    <2>1. task[g] \in Live /\ TakeCancel(g) /\ UNCHANGED <<owner, current, transport, awaited>>
        BY <1>11, <1>l DEF Interrupted, Interruptible, TakeCancel
    <2>2. CASE Release(g, "leave") /\ UNCHANGED <<ready, registered, closed>>
        BY <1>l, <2>1, <2>2 DEF Release, Silent, Move, CloseStream, Kinds, TypeOK
    <2>3. CASE Leave(g, response)
        BY <2>1, <2>3, Leaving DEF Kinds
    <2> QED
        BY <1>11, <2>2, <2>3 DEF Interrupted
<1>12. CASE CleanedUp(g)
    BY <1>12, <1>l DEF CleanedUp, Settle, End, Move, CloseStream, TakeCancel, Kinds, TypeOK
<1> QED
    BY <1>1, <1>2, <1>3, <1>4, <1>5, <1>6, <1>7, <1>8, <1>9, <1>10, <1>11, <1>12 DEF TaskStep, Kinds
-----------------------------------------------------------------------------
LEMMA LeaveTypes ==
    ASSUME TypeOK, NEW g \in Connections, NEW responses \in Responses, Leave(g, responses)
    PROVE  /\ ready' \in [Sources -> ReadyStates]
           /\ task' \in [Connections -> Tasks]
           /\ closed' \in [Connections -> BOOLEAN]
           /\ response' \in Responses
           /\ target' \in [Connections -> Connections \cup {NoConnection}]
           /\ registered' \subseteq Sources
<1>1. closed' \in [Connections -> BOOLEAN]
    BY DEF Leave, TypeOK
<1>2. response' \in Responses
    BY DEF Leave, Responses
<1>3. task' \in [Connections -> Tasks]
    BY DEF Leave, TypeOK, Tasks, Live
<1>4. current[owner[g]] \in Connections \cup {NoConnection}
    BY DEF TypeOK
<1>5. target' \in [Connections -> Connections \cup {NoConnection}]
    BY <1>4 DEF Leave, TypeOK
<1>6. ready' \in [Sources -> ReadyStates] /\ registered' \subseteq Sources
    BY DEF Leave, Settle, TypeOK, ReadyStates
<1> QED
    BY <1>1, <1>2, <1>3, <1>5, <1>6

LEMMA ProceedTypes ==
    ASSUME TypeOK, NEW g \in Connections, NEW isClosed \in BOOLEAN, NEW responses \in Responses, Proceed(g, isClosed, responses)
    PROVE  /\ ready' \in [Sources -> ReadyStates]
           /\ task' \in [Connections -> Tasks]
           /\ closed' \in [Connections -> BOOLEAN]
           /\ response' \in Responses
           /\ target' \in [Connections -> Connections \cup {NoConnection}]
           /\ registered' \subseteq Sources
<1>1. CASE Leave(g, responses)
    BY <1>1, LeaveTypes
<1>2. CASE /\ response' = responses
           /\ task' = [task EXCEPT ![g] = "backoff"]
           /\ ready' = [ready EXCEPT ![owner[g]] = "connecting"]
           /\ UNCHANGED <<registered, closed, target>>
    BY <1>2 DEF TypeOK, Tasks, Live, Looping, ReadyStates
<1> QED
    BY <1>1, <1>2 DEF Proceed

LEMMA InterruptTypes ==
    ASSUME TypeOK, NEW S \in SUBSET Sources, Interrupt(S)
    PROVE  closed' \in [Connections -> BOOLEAN] /\ cancel' \in [Connections -> BOOLEAN]
BY DEF Interrupt, TypeOK

LEMMA TypesStep == TypeOK /\ [Next]_vars => TypeOK'
<1> SUFFICES ASSUME TypeOK, [Next]_vars PROVE TypeOK'
    OBVIOUS
<1> USE DEF sourceVars, connectionVars, transportVars
<1>l. Tasks = {"connecting", "reading", "backoff", "created", "releasing", "cleanup", "ended", "unused"}
    BY DEF Tasks, Live, Looping
<1>r. \A g \in Connections, v \in {"none", "open", "closing", "closed"} : [response EXCEPT ![g] = v] \in Responses
    BY DEF TypeOK, Responses
<1>1. ASSUME NEW s \in Sources, NEW g \in Connections, Connect(s, g) PROVE TypeOK'
    BY <1>1, <1>l DEF Connect, Register, TypeOK, Tasks
<1>2. ASSUME NEW s \in Sources, Close(s) PROVE TypeOK'
    <2>1. ready' \in [Sources -> ReadyStates] /\ registered' \subseteq Sources
        BY <1>2 DEF Close, CloseAll, TypeOK, ReadyStates
    <2>2. closed' \in [Connections -> BOOLEAN] /\ cancel' \in [Connections -> BOOLEAN]
        BY <1>2, InterruptTypes DEF Close, CloseAll
    <2> QED
        BY <1>2, <2>1, <2>2 DEF Close, TypeOK, ReadyStates
<1>3. ASSUME NEW g \in Connections, TaskStep(g) PROVE TypeOK'
    <2>1. CASE NeverBegun(g)
        BY <1>l, <2>1 DEF NeverBegun, TypeOK, Tasks
    <2>2. CASE Begin(g)
        <3>1. CASE task' = [task EXCEPT ![g] = "connecting"] /\ UNCHANGED <<ready, registered, closed, response, target>>
            BY <1>l, <2>2, <3>1 DEF Begin, TypeOK, Tasks
        <3>2. CASE Leave(g, response)
            BY <2>2, <3>2, LeaveTypes DEF Begin, TypeOK, Tasks, Responses, ReadyStates
        <3> QED
            BY <2>2, <3>1, <3>2 DEF Begin
    <2>3. CASE Opened(g)
        BY <1>l, <2>3 DEF Opened, TypeOK, Tasks
    <2>4. CASE Refused(g)
        BY <1>l, <2>4 DEF Refused, Release, TypeOK, Tasks
    <2>5. CASE Fatal(g)
        BY <2>5, LeaveTypes DEF Fatal, TypeOK, Tasks, Responses, ReadyStates
    <2>6. CASE StreamEnds(g)
        BY <1>r, <2>6, ProceedTypes DEF StreamEnds, TypeOK, Tasks, Responses, ReadyStates
    <2>7. CASE ConnectFails(g)
        BY <2>7, ProceedTypes DEF ConnectFails, TypeOK, Tasks, Responses, ReadyStates
    <2>8. CASE ReadFails(g)
        <3>1. ready' \in [Sources -> ReadyStates]
            BY <2>8 DEF ReadFails, TypeOK, ReadyStates
        <3>2. closed' \in [Connections -> BOOLEAN] /\ cancel' \in [Connections -> BOOLEAN]
            BY <2>8, InterruptTypes DEF ReadFails, TypeOK
        <3> QED
            BY <1>l, <2>8, <3>1, <3>2 DEF ReadFails, Release, TypeOK, Tasks, ReadyStates
    <2>9. CASE Released(g)
        <3>1. CASE Proceed(g, closed[g], [response EXCEPT ![g] = "closed"])
            <4>1. closed[g] \in BOOLEAN /\ [response EXCEPT ![g] = "closed"] \in Responses
                BY <1>r DEF TypeOK
            <4>2. /\ ready' \in [Sources -> ReadyStates] /\ task' \in [Connections -> Tasks]
                  /\ closed' \in [Connections -> BOOLEAN] /\ response' \in Responses
                  /\ target' \in [Connections -> Connections \cup {NoConnection}] /\ registered' \subseteq Sources
                BY <3>1, <4>1, ProceedTypes
            <4> QED
                BY <2>9, <4>2 DEF Released, TypeOK, Tasks, Responses, ReadyStates
        <3>2. CASE Leave(g, [response EXCEPT ![g] = "closed"])
            BY <1>r, <2>9, <3>2, LeaveTypes DEF Released, TypeOK, Tasks, Responses, ReadyStates
        <3> QED
            BY <2>9, <3>1, <3>2 DEF Released
    <2>10. CASE ReleaseInterrupted(g)
        BY <2>10, LeaveTypes DEF ReleaseInterrupted, TypeOK, Tasks, Responses, ReadyStates
    <2>11. CASE Reconnect(g)
        BY <1>l, <2>11 DEF Reconnect, TypeOK, Tasks
    <2>12. CASE Interrupted(g)
        <3>1. CASE Release(g, "leave") /\ UNCHANGED <<ready, registered, closed, target>>
            BY <1>l, <2>12, <3>1 DEF Interrupted, Release, TypeOK, Tasks
        <3>2. CASE Leave(g, response) /\ UNCHANGED after
            BY <2>12, <3>2, LeaveTypes DEF Interrupted, TypeOK, Tasks, Responses, ReadyStates
        <3> QED
            BY <2>12, <3>1, <3>2 DEF Interrupted
    <2>13. CASE CleanedUp(g)
        BY <1>l, <2>13 DEF CleanedUp, Settle, TypeOK, Tasks
    <2>14. CASE Collect(g)
        BY <1>l, <2>14 DEF Collect, TypeOK, Tasks
    <2> QED
        BY <1>3, <2>1, <2>2, <2>3, <2>4, <2>5, <2>6, <2>7, <2>8, <2>9, <2>10, <2>11, <2>12, <2>13, <2>14 DEF TaskStep
<1>4. CASE CloseTransport
    <2>1. ready' \in [Sources -> ReadyStates] /\ registered' \subseteq Sources /\ awaited' \subseteq Connections
        BY <1>4 DEF CloseTransport, CloseAll, TasksOf, TypeOK, ReadyStates
    <2>2. closed' \in [Connections -> BOOLEAN] /\ cancel' \in [Connections -> BOOLEAN]
        BY <1>4, InterruptTypes DEF CloseTransport, CloseAll, TypeOK
    <2> QED
        BY <1>4, <2>1, <2>2 DEF CloseTransport, TypeOK, ReadyStates
<1>5. CASE CloseClient
    BY <1>5 DEF CloseClient, TypeOK
<1>6. CASE UNCHANGED vars
    BY <1>6 DEF vars, TypeOK
<1> QED
    BY <1>1, <1>2, <1>3, <1>4, <1>5, <1>6 DEF Next
-----------------------------------------------------------------------------
LEMMA KindStep ==
    ASSUME IInv, NEW g \in Connections, Kinds(g), TypeOK'
    PROVE  IInv'
<1>t. TypeOK /\ Ownership /\ ReadyMeansRunning /\ \A h \in Connections : Working(h) => Attended(h)
    BY DEF IInv
<1>m. /\ task[g] \in Live /\ task'[g] # "unused"
      /\ \A h \in Connections : h # g => task'[h] = task[h]
      /\ UNCHANGED <<owner, current, transport, awaited>>
    <2>1. CASE Move(g)
        BY <1>t, <2>1 DEF Move, TypeOK, Live, Looping
    <2>2. CASE NeverBegun(g)
        BY <1>t, <2>2 DEF NeverBegun, TypeOK, Live, sourceVars, transportVars
    <2> QED
        BY <2>1, <2>2 DEF Kinds, Silent, Announce, CloseOwn, End
<1>c. \A h \in Connections : /\ closed[h] => closed'[h]
                             /\ (closed'[h] /\ ~closed[h]) => h = current[owner[g]]
                             /\ (cancel'[h] /\ ~cancel[h]) => h = current[owner[g]] /\ task[h] \in Live /\ CloseOwn(g)
    <2>1. CASE Silent(g) \/ End(g)
        BY <1>t, <2>1 DEF Silent, End, CloseStream, TakeCancel, TypeOK
    <2>2. CASE Announce(g)
        BY <2>2 DEF Announce
    <2>3. CASE CloseOwn(g)
        BY <1>t, <2>3 DEF CloseOwn, Interrupt, Running, TypeOK
    <2>4. CASE NeverBegun(g)
        BY <1>t, <2>4 DEF NeverBegun, TypeOK
    <2> QED
        BY <2>1, <2>2, <2>3, <2>4 DEF Kinds
<1>r. /\ \A s \in Sources : s # owner[g] => ready'[s] = ready[s] /\ (s \in registered => s \in registered')
      /\ owner[g] \in Sources
    BY <1>t DEF Kinds, Silent, Announce, CloseOwn, End, NeverBegun, TypeOK, sourceVars, transportVars
<1>1. Ownership'
    <2>1. ASSUME NEW s \in Sources, current'[s] # NoConnection
          PROVE  owner'[current'[s]] = s /\ task'[current'[s]] # "unused"
        BY <1>m, <1>t, <2>1 DEF Ownership, TypeOK
    <2>2. ASSUME NEW h \in Connections, task'[h] = "unused"
          PROVE  ~cancel'[h] /\ ~closed'[h]
        <3>1. h # g /\ task[h] = "unused" /\ ~cancel[h] /\ ~closed[h] /\ task[h] \notin Live
            BY <1>m, <1>t, <2>2 DEF Ownership, Live, Looping
        <3>2. h # current[owner[g]]
            BY <1>r, <1>t, <3>1, SourceAssumption DEF Ownership
        <3> QED
            BY <1>c, <3>1, <3>2
    <2> QED
        BY <2>1, <2>2 DEF Ownership
<1>2. ASSUME NEW h \in Connections, Working(h)' PROVE Attended(h)'
    <2>1. CASE h = g
        <3>1. Working(g) /\ Attended(g) /\ current[owner[g]] = g
            BY <1>m, <1>t, <1>2, <2>1 DEF Working, Attended
        <3>2. owner[g] \in Sources
            BY <1>r
        <3>3. CASE Silent(g)
            <4>1. cancel'[g] => cancel[g]
                BY <1>t, <3>3 DEF Silent, TakeCancel, TypeOK
            <4> QED
                BY <1>c, <1>m, <2>1, <3>1, <3>3, <4>1 DEF Silent, Attended
        <3>4. CASE Announce(g)
            BY <1>m, <1>t, <2>1, <3>1, <3>2, <3>4 DEF Announce, Attended, TypeOK
        <3>5. CASE CloseOwn(g)
            <4>1. ready'[owner[g]] = "closed"
                BY <1>t, <3>2, <3>5 DEF CloseOwn, TypeOK
            <4>2. g \in {current[q] : q \in {owner[g]}}
                BY <3>1
            <4>3. closed'[g]
                BY <3>5, <4>2 DEF CloseOwn, Interrupt
            <4> QED
                BY <1>m, <2>1, <3>1, <3>5, <4>1, <4>3 DEF CloseOwn, Attended
        <3>6. ~(End(g) \/ NeverBegun(g))
            BY <1>2, <1>t, <2>1 DEF End, NeverBegun, Working, Live, Looping, TypeOK
        <3> QED
            BY <3>3, <3>4, <3>5, <3>6 DEF Kinds
    <2>2. CASE h # g
        <3>1. Working(h) /\ Attended(h)
            BY <1>m, <1>t, <1>2, <2>2 DEF Working
        <3>2. owner[h] # owner[g] /\ owner[h] \in Sources
            BY <1>m, <1>t, <2>2, <3>1 DEF Working, Attended, TypeOK
        <3>3. h # current[owner[g]]
            BY <1>r, <1>t, <3>2, SourceAssumption DEF Ownership
        <3> QED
            BY <1>c, <1>m, <1>r, <3>1, <3>2, <3>3 DEF Attended
    <2> QED
        BY <2>1, <2>2
<1>3. ASSUME NEW s \in Patient, ready'[s] # "closed"
      PROVE  current'[s] # NoConnection /\ task'[current'[s]] \in Live
    <2>s. s \in Sources
        BY SourceAssumption
    <2>1. CASE s = owner[g]
        <3>1. Attended(g) /\ current[s] = g
            BY <1>m, <1>t, <2>1 DEF Working, Attended
        <3>2. ~End(g)
            BY <1>3, <1>t, <2>1, <2>s DEF End, TypeOK
        <3>3. ~NeverBegun(g)
            BY <1>3, <2>1, <3>1 DEF NeverBegun, Attended, sourceVars
        <3>4. task'[g] \in Live
            BY <3>2, <3>3 DEF Kinds, Silent, Announce, CloseOwn
        <3> QED
            BY <1>m, <3>1, <3>4, SourceAssumption
    <2>2. CASE s # owner[g]
        <3>1. current[s] # NoConnection /\ task[current[s]] \in Live /\ current[s] # g
            BY <1>3, <1>r, <1>t, <2>2, <2>s DEF ReadyMeansRunning, Ownership
        <3> QED
            BY <1>m, <1>t, <2>s, <3>1 DEF TypeOK
    <2> QED
        BY <2>1, <2>2
<1> QED
    BY <1>1, <1>2, <1>3 DEF IInv, ReadyMeansRunning

\* Closing sources from outside.
LEMMA CloseStep ==
    ASSUME IInv, NEW S \in SUBSET Sources, CloseAll(S), UNCHANGED <<current, owner, task>>, TypeOK',
           \/ UNCHANGED <<transport, awaited>>
           \/ transport = "open" /\ transport' = "closing" /\ S = registered /\ awaited' = TasksOf(registered)
    PROVE  IInv'
<1>t. TypeOK /\ Ownership /\ ReadyMeansRunning /\ \A h \in Connections : Working(h) => Attended(h)
    BY DEF IInv
<1>c. \A h \in Connections : /\ closed'[h] = (closed[h] \/ h \in {current[s] : s \in S})
                             /\ cancel'[h] = (cancel[h] \/ (h \in {current[s] : s \in S} /\ task[h] \in Live))
    BY DEF CloseAll, Interrupt, Running
<1>r. \A s \in Sources : ready'[s] = IF s \in S THEN "closed" ELSE ready[s]
    BY DEF CloseAll
<1>1. Ownership'
    <2>1. ASSUME NEW h \in Connections, task'[h] = "unused"
          PROVE  ~cancel'[h] /\ ~closed'[h]
        <3>1. h \notin {current[s] : s \in S}
            BY <1>t, <2>1, SourceAssumption DEF Ownership
        <3> QED
            BY <1>c, <1>t, <2>1, <3>1 DEF Ownership
    <2> QED
        BY <1>t, <2>1 DEF Ownership
<1>2. ASSUME NEW h \in Connections, Working(h)' PROVE Attended(h)'
    <2>1. Working(h) /\ Attended(h) /\ owner[h] \in Sources /\ current[owner[h]] = h
        BY <1>t, <1>2 DEF Working, Attended, TypeOK
    <2>2. h \in {current[s] : s \in S} <=> owner[h] \in S
        BY <1>t, <2>1, SourceAssumption DEF Ownership
    <2>3. ready'[owner[h]] = "closed" => closed'[h]
        BY <1>c, <1>r, <2>1, <2>2 DEF Attended
    <2>4. cancel'[h] => ready'[owner[h]] = "closed"
        BY <1>c, <1>r, <2>1, <2>2 DEF Attended
    <2>5. transport' = "open" => owner[h] \in registered'
        BY <2>1, SourceAssumption DEF CloseAll, NeverConnected, Attended
    <2>6. transport' = "closing" => h \in awaited'
        BY <2>1, SourceAssumption DEF TasksOf, Attended
    <2>7. transport' # "closed"
        BY <2>1 DEF Attended
    <2> QED
        BY <2>1, <2>3, <2>4, <2>5, <2>6, <2>7 DEF Attended
<1>3. ReadyMeansRunning'
    BY <1>r, <1>t, SourceAssumption DEF ReadyMeansRunning
<1> QED
    BY <1>1, <1>2, <1>3 DEF IInv

LEMMA ConnectStep ==
    ASSUME IInv, NEW s \in Sources, NEW g \in Connections, Connect(s, g), TypeOK'
    PROVE  IInv'
<1>t. TypeOK /\ Ownership /\ ReadyMeansRunning /\ \A h \in Connections : Working(h) => Attended(h)
    BY DEF IInv
<1>g. /\ task[g] = "unused" /\ ~cancel[g] /\ ~closed[g]
      /\ \A q \in Sources : current[q] # g
    BY <1>t, SourceAssumption DEF Connect, Ownership
<1>p. /\ owner'[g] = s /\ task'[g] = "created" /\ current'[s] = g /\ ready'[s] = "connecting"
      /\ \A h \in Connections : h # g => owner'[h] = owner[h] /\ task'[h] = task[h]
      /\ \A q \in Sources : q # s => current'[q] = current[q] /\ ready'[q] = ready[q]
      /\ UNCHANGED <<cancel, closed, transport, awaited>>
      /\ registered' = registered \cup {s} /\ transport = "open"
    BY <1>t DEF Connect, Register, MayConnect, TypeOK
<1>n. "created" \in Live /\ "unused" \notin Live
    BY DEF Live, Looping
<1>1. Ownership'
    <2>1. ASSUME NEW q \in Sources, current'[q] # NoConnection
          PROVE  owner'[current'[q]] = q /\ task'[current'[q]] # "unused"
        <3>1. CASE q = s
            BY <1>p, <3>1
        <3>2. CASE q # s
            BY <1>g, <1>p, <1>t, <2>1, <3>2 DEF Ownership, TypeOK
        <3> QED
            BY <3>1, <3>2
    <2> QED
        BY <1>g, <1>p, <1>t, <2>1 DEF Ownership
<1>2. ASSUME NEW h \in Connections, Working(h)' PROVE Attended(h)'
    <2>1. CASE h = g
        BY <1>g, <1>p, <2>1 DEF Attended
    <2>2. CASE h # g
        <3>1. Working(h) /\ Attended(h) /\ owner[h] \in Sources
            BY <1>p, <1>t, <1>2, <2>2 DEF Working, TypeOK
        <3>2. owner[h] # s
            BY <1>t, <3>1, SourceAssumption DEF Connect, Previous, Working, Attended
        <3> QED
            BY <1>p, <2>2, <3>1, <3>2 DEF Attended
    <2> QED
        BY <2>1, <2>2
<1>3. ASSUME NEW q \in Patient, ready'[q] # "closed"
      PROVE  current'[q] # NoConnection /\ task'[current'[q]] \in Live
    <2>1. CASE q = s
        BY <1>n, <1>p, <2>1, SourceAssumption
    <2>2. CASE q # s
        <3>1. q \in Sources /\ current[q] # NoConnection /\ task[current[q]] \in Live
            BY <1>3, <1>p, <1>t, <2>2, SourceAssumption DEF ReadyMeansRunning
        <3> QED
            BY <1>g, <1>p, <1>t, <2>2, <3>1 DEF TypeOK
    <2> QED
        BY <2>1, <2>2
<1> QED
    BY <1>1, <1>2, <1>3 DEF IInv, ReadyMeansRunning

LEMMA CollectStep ==
    ASSUME IInv, NEW g \in Connections, Collect(g), TypeOK'
    PROVE  IInv'
<1>t. TypeOK /\ Ownership /\ ReadyMeansRunning /\ \A h \in Connections : Working(h) => Attended(h)
    BY DEF IInv
<1>g. /\ task[g] = "ended" /\ task'[g] = "unused" /\ ~cancel'[g] /\ ~closed'[g]
      /\ \A q \in Sources : current[q] # g
      /\ \A h \in Connections : h # g => task'[h] = task[h] /\ cancel'[h] = cancel[h] /\ closed'[h] = closed[h]
      /\ UNCHANGED <<ready, current, owner, transport, awaited, registered>>
    BY <1>t DEF Collect, TypeOK, sourceVars, transportVars
<1>n. "unused" \notin Live
    BY DEF Live, Looping
<1>1. Ownership'
    BY <1>g, <1>t DEF Ownership, TypeOK
<1>2. ASSUME NEW h \in Connections, Working(h)' PROVE Attended(h)'
    BY <1>g, <1>n, <1>t, <1>2 DEF Working, Attended
<1>3. ReadyMeansRunning'
    BY <1>g, <1>t, SourceAssumption DEF ReadyMeansRunning, TypeOK
<1> QED
    BY <1>1, <1>2, <1>3 DEF IInv

LEMMA Inductive == IInv /\ [Next]_vars => IInv'
<1> SUFFICES ASSUME IInv, [Next]_vars PROVE IInv'
    OBVIOUS
<1>t. TypeOK'
    BY TypesStep DEF IInv
<1>1. ASSUME NEW s \in Sources, NEW g \in Connections, Connect(s, g) PROVE IInv'
    BY <1>t, <1>1, ConnectStep
<1>2. ASSUME NEW s \in Sources, Close(s) PROVE IInv'
    <2>1. CloseAll({s}) /\ UNCHANGED <<current, owner, task, transport, awaited>>
        BY <1>2 DEF Close
    <2> QED
        BY <1>t, <2>1, CloseStep
<1>3. ASSUME NEW g \in Connections, TaskStep(g) PROVE IInv'
    <2>1. CASE Collect(g)
        BY <1>t, <2>1, CollectStep
    <2>2. CASE ~Collect(g)
        <3>1. Kinds(g)
            BY <1>3, <2>2, KindOfStep DEF IInv
        <3> QED
            BY <1>t, <3>1, KindStep
    <2> QED
        BY <2>1, <2>2
<1>4. CASE CloseTransport
    <2>1. registered \in SUBSET Sources
        BY DEF IInv, TypeOK
    <2> QED
        BY <1>t, <1>4, <2>1, CloseStep DEF CloseTransport
<1>5. CASE CloseClient
    <2>1. \A h \in Connections : ~Working(h)
        BY <1>5 DEF CloseClient, IInv, Working, Attended
    <2> QED
        BY <1>t, <1>5, <2>1 DEF CloseClient, IInv, Ownership, ReadyMeansRunning, Working, sourceVars, connectionVars
<1>6. CASE UNCHANGED vars
    BY <1>t, <1>6 DEF vars, IInv, Ownership, ReadyMeansRunning, Working, Attended, sourceVars, connectionVars, transportVars
<1> QED
    BY <1>1, <1>2, <1>3, <1>4, <1>5, <1>6 DEF Next

LEMMA Initial == Init => IInv
<1> SUFFICES ASSUME Init PROVE IInv
    OBVIOUS
<1>1. TypeOK
    BY DEF Init, TypeOK, Live, Looping
<1>2. \A h \in Connections : task[h] = "unused" /\ task[h] \notin Live
    BY DEF Init, Live, Looping
<1> QED
    BY <1>1, <1>2, SourceAssumption DEF Init, IInv, Ownership, Working, ReadyMeansRunning

LEMMA Invariant == Spec => []IInv
BY Initial, Inductive, PTL DEF Spec

\* TypeOK for any sources, connections and applications, patient or not.
THEOREM TypeCorrect == Spec => []TypeOK
BY Invariant, PTL DEF IInv

\* ReadyMeansRunning for any number of sources: a source that says it is connecting or open has
\* a task at work (_sse.py lines 305-324, 351-355).
THEOREM ReadyMeansRunningHolds == Spec => []ReadyMeansRunning
BY Invariant, PTL DEF IInv

\* ClientClosedLast for any number of sources: aclose of the transport misses no task
\* (_transport.py lines 544-555).
THEOREM ClientClosedLastHolds == Spec => []ClientClosedLast
<1>1. IInv => ClientClosedLast
    BY DEF IInv, Working, Attended, ClientClosedLast
<1> QED
    BY <1>1, Invariant, PTL

\* ClosedStaysClosed for any number of sources: only connect(), which brings a connection of its
\* own, leads out of the closed state (_sse.py lines 175-188, 326-330).
THEOREM ClosedStaysClosedHolds == Spec => ClosedStaysClosed
<1> DEFINE Revived(s) == ready[s] = "closed" /\ ready'[s] # "closed"
<1>1. IInv /\ [Next]_vars => [\A s \in Patient : Revived(s) => current'[s] # current[s]]_vars
    <2> SUFFICES ASSUME IInv, [Next]_vars, NEW s \in Patient, Revived(s) PROVE current'[s] # current[s]
        OBVIOUS
    <2>t. TypeOK /\ Ownership /\ s \in Sources /\ \A h \in Connections : Working(h) => Attended(h)
        BY SourceAssumption DEF IInv
    <2>1. ASSUME NEW q \in Sources, NEW g \in Connections, Connect(q, g) PROVE current'[s] # current[s]
        <3>1. q = s
            BY <2>t, <2>1 DEF Connect, TypeOK
        <3>2. current'[s] = g /\ task[g] = "unused"
            BY <2>t, <2>1, <3>1 DEF Connect, TypeOK
        <3> QED
            BY <2>t, <3>2, SourceAssumption DEF Ownership
    <2>2. ASSUME NEW g \in Connections, TaskStep(g) PROVE FALSE
        <3>1. CASE Collect(g)
            BY <3>1 DEF Collect, sourceVars
        <3>2. CASE ~Collect(g)
            <4>1. Kinds(g) /\ task[g] \in Live
                BY <2>t, <2>2, <3>2, KindOfStep DEF Kinds, Silent, Announce, CloseOwn, End, NeverBegun, Move, Live
            <4>2. ~Silent(g) /\ ~CloseOwn(g) /\ ~End(g) /\ ~NeverBegun(g)
                BY <2>t DEF Silent, CloseOwn, End, NeverBegun, TypeOK, sourceVars
            <4>3. Announce(g) /\ owner[g] = s
                BY <2>t, <4>1, <4>2 DEF Kinds, Announce, TypeOK
            <4> QED
                BY <2>t, <4>1, <4>3 DEF Announce, Working, Attended
        <3> QED
            BY <3>1, <3>2
    <2>3. ~CloseTransport /\ ~CloseClient /\ ~UNCHANGED vars /\ \A q \in Sources : ~Close(q)
        BY <2>t DEF CloseTransport, CloseClient, Close, CloseAll, vars, sourceVars
    <2> QED
        BY <2>1, <2>2, <2>3 DEF Next
<1> QED
    BY <1>1, Invariant, PTL DEF Spec, ClosedStaysClosed
=============================================================================
