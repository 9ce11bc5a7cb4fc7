---------------------------- MODULE AuthRecovery ----------------------------
(***************************************************************************)
(* Authorized sending of requests (src/sunday/httpx/_transport.py          *)
(* _authorize_request, _send_authorized, _send_httpx and _security.py),    *)
(* composed with the credential service its leases come from.              *)
(*                                                                         *)
(* A caller of the service is the coroutine that sends one native request. *)
(* A binding of the selected alternative is named by its cache key; a      *)
(* request carries one credential per binding: the number of the provider  *)
(* answer whose access token is attached, Own for one the application put  *)
(* there itself, 0 for none.                                               *)
(***************************************************************************)
EXTENDS CredentialService, Sequences

CONSTANTS
    Bearer,         \* the binding that is an Authorization header with the Bearer prefix
    Alternatives    \* sequences of bindings a request may have selected

ASSUME AlternativesAssumption ==
    /\ MaxIssued \in [Keys -> Nat]
    /\ Bearer \in Keys
    /\ Alternatives \subseteq Seq(Keys)

Own == -1

VARIABLES
    bindings,   \* RequestSecurity.bindings of a request
    replayable, \* GET, HEAD or OPTIONS, and no body
    step,       \* where its coroutine is suspended
    leases,     \* leases acquired so far by this authorize
    receipts,   \* RequestSecurity.leases: the leases of the last authorize
    attached,   \* the credentials in the native request
    used,       \* AuthenticationRecoveryBudget._used
    sent,       \* history: the credentials of each send of this invocation
    replays,    \* history: replays under the budget in use
    spent,      \* history: the answers for Bearer out of use when a replay was authorized
    unclosed,   \* history: responses received, not returned, and not closed
    outcome,    \* what the invocation ended with
    shut        \* HttpxTransport._closed

requestVars == <<bindings, replayable>>
replayVars == <<used, replays, spent>>
sendVars == <<requestVars, replayVars, step, leases, receipts, attached, sent, unclosed, outcome, shut>>
vars == <<serviceVars, sendVars>>

Selected(r) == {bindings[r][i] : i \in DOMAIN bindings[r]}

Token(k) == 1..MaxIssued[k]

Credential == {Own, 0} \cup UNION {Token(k) : k \in Keys}

TypeOK ==
    /\ bindings \in [Callers -> Alternatives]
    /\ replayable \in [Callers -> BOOLEAN]
    /\ step \in [Callers -> {"idle", "acquiring", "sending", "closing", "rejecting", "replaying"}]
    /\ \A r \in Callers :
           /\ leases[r] \in Seq(Credential) /\ Len(leases[r]) <= Len(bindings[r])
           /\ receipts[r] \in Seq(Credential) /\ Len(receipts[r]) \in {0, Len(bindings[r])}
           /\ sent[r] \in Seq([Keys -> Credential])
           /\ step[r] \notin {"acquiring", "rejecting"} => phase[r] = "idle"
    /\ attached \in [Callers -> [Keys -> Credential]]
    /\ used \in [Callers -> BOOLEAN]
    /\ replays \in [Callers -> 0..1]
    /\ spent \in [Callers -> SUBSET Nat]
    /\ unclosed \in [Callers -> 0..1]
    /\ outcome \in [Callers -> {"none", "returned", "raised", "interrupted"}]
    /\ shut \in BOOLEAN

\* A request may come with a credential of the application.
Init ==
    /\ issued = [k \in Keys |-> 0]
    /\ ServiceInit
    /\ bindings \in [Callers -> Alternatives]
    /\ replayable \in [Callers -> BOOLEAN]
    /\ step = [r \in Callers |-> "idle"]
    /\ leases = [r \in Callers |-> <<>>]
    /\ receipts = [r \in Callers |-> <<>>]
    /\ attached \in [Callers -> {[k \in Keys |-> 0]} \cup {[k \in Keys |-> IF k = j THEN Own ELSE 0] : j \in Keys}]
    /\ used = [r \in Callers |-> FALSE]
    /\ sent = [r \in Callers |-> <<>>]
    /\ replays = [r \in Callers |-> 0]
    /\ spent = [r \in Callers |-> {}]
    /\ unclosed = [r \in Callers |-> 0]
    /\ outcome = [r \in Callers |-> "none"]
    /\ shut = FALSE
-----------------------------------------------------------------------------
(* authorize *)

\* Mutant: a credential attached by the last authorize is a conflict.
ConflictAnyway(r) == \E k \in Selected(r) : attached[r][k] # 0

\* A credential of the application in the place of a binding, an Authorization header no
\* binding claims, or two bindings in one place.  What the last authorize attached is
\* replaced.
Conflict(r) ==
    \/ receipts[r] = <<>> /\ \E k \in Selected(r) : attached[r][k] # 0
    \/ Bearer \notin Selected(r) /\ attached[r][Bearer] # 0
    \/ \E i, j \in DOMAIN bindings[r] : i # j /\ bindings[r][i] = bindings[r][j]

End(r, how) ==
    /\ step' = [step EXCEPT ![r] = "idle"]
    /\ outcome' = [outcome EXCEPT ![r] = how]
    /\ leases' = [leases EXCEPT ![r] = <<>>]

Raise(r) == End(r, "raised")

\* _send_httpx: refused by a closed transport, else the client is called.  The second send of
\* an invocation is its replay.
Send(r, credentials) ==
    \/ shut /\ Raise(r) /\ UNCHANGED <<sent, replays>>
    \/ /\ ~shut
       /\ \/ /\ sent[r] = <<>>
             /\ step' = [step EXCEPT ![r] = "sending"]
             /\ UNCHANGED replays
          \/ /\ sent[r] # <<>>
             /\ step' = [step EXCEPT ![r] = "replaying"]
             /\ replays' = [replays EXCEPT ![r] = @ + 1]
       /\ sent' = [sent EXCEPT ![r] = Append(@, credentials)]
       /\ leases' = [leases EXCEPT ![r] = <<>>]
       /\ UNCHANGED outcome

\* A request without bindings is sent as it is; one in conflict, or without a token
\* manager, fails before anything is awaited; else the first lease is asked for.
Authorize(r) ==
    \/ /\ bindings[r] = <<>>
       /\ Send(r, attached[r])
       /\ UNCHANGED serviceVars
    \/ /\ bindings[r] # <<>> /\ Conflict(r)
       /\ Raise(r)
       /\ UNCHANGED <<serviceVars, sent, replays>>
    \/ /\ bindings[r] # <<>> /\ ~Conflict(r)
       /\ Ask(r, bindings[r][1])
       /\ step' = [step EXCEPT ![r] = "acquiring"]
       /\ leases' = [leases EXCEPT ![r] = <<>>]
       /\ UNCHANGED <<sent, replays, outcome>>

\* One invocation of _send_authorized.
Invoke(r) ==
    /\ step[r] = "idle" /\ outcome[r] = "none"
    /\ Authorize(r)
    /\ UNCHANGED <<requestVars, used, spent, receipts, attached, unclosed, shut>>

\* The same native request is to be sent again: by the application, with a budget of its own,
\* or for the next connection of an event stream, all of which share one.
Reuse(r) ==
    /\ step[r] = "idle" /\ outcome[r] # "none"
    /\ outcome' = [outcome EXCEPT ![r] = "none"]
    /\ sent' = [sent EXCEPT ![r] = <<>>]
    /\ spent' = [spent EXCEPT ![r] = {}]
    /\ unclosed' = [unclosed EXCEPT ![r] = 0]
    /\ \/ /\ used' = [used EXCEPT ![r] = FALSE]
          /\ replays' = [replays EXCEPT ![r] = 0]
       \/ UNCHANGED <<used, replays>>
    /\ UNCHANGED <<serviceVars, requestVars, step, leases, receipts, attached, shut>>

\* Mutant: each lease is attached when it arrives.
AttachEach(r, tokens) ==
    attached' = [attached EXCEPT ![r] =
        [k \in Keys |-> IF \E i \in DOMAIN tokens : bindings[r][i] = k
                        THEN tokens[CHOOSE i \in DOMAIN tokens : bindings[r][i] = k] ELSE @[k]]]

\* The credentials of a request once every binding has a lease.
Attach(r, tokens) ==
    attached' = [attached EXCEPT ![r] =
        [k \in Keys |-> IF Len(tokens) = Len(bindings[r]) /\ k \in Selected(r)
                        THEN tokens[CHOOSE i \in DOMAIN tokens : bindings[r][i] = k] ELSE @[k]]]

\* The next lease is asked for after the last one came; the request changes after all of them.
LeaseArrives(r) ==
    /\ step[r] = "acquiring" /\ phase[r] = "idle"
    /\ result[r].kind = "leased"
    /\ LET tokens == Append(leases[r], result[r].access)
           n == Len(tokens) IN
       /\ Attach(r, tokens)
       /\ \/ /\ n < Len(bindings[r])
             /\ Ask(r, bindings[r][n + 1])
             /\ leases' = [leases EXCEPT ![r] = tokens]
             /\ UNCHANGED <<step, receipts, sent, replays, outcome>>
          \/ /\ n = Len(bindings[r])
             /\ receipts' = [receipts EXCEPT ![r] = tokens]
             /\ Send(r, attached'[r])
             /\ UNCHANGED serviceVars
    /\ UNCHANGED <<requestVars, used, spent, unclosed, shut>>

LeaseFails(r) ==
    /\ step[r] = "acquiring" /\ phase[r] = "idle"
    /\ result[r].kind # "leased"
    /\ Raise(r)
    /\ UNCHANGED <<serviceVars, requestVars, replayVars, receipts, attached, sent, unclosed, shut>>
-----------------------------------------------------------------------------
(* _send_authorized after the first send *)

\* The client raises, or its caller is cancelled.
SendFails(r) ==
    /\ step[r] \in {"sending", "replaying"}
    /\ Raise(r)
    /\ UNCHANGED <<serviceVars, requestVars, replayVars, receipts, attached, sent, unclosed, shut>>

\* Mutant: no budget.
RecoverableAlways(r) == replayable[r] /\ Bearer \in Selected(r)

\* rejected_leases is not empty for a challenge, and the budget is left.
Recoverable(r) == replayable[r] /\ Bearer \in Selected(r) /\ ~used[r]

\* The response is returned: it is no challenge, or one there is no recovery from.  The
\* response to a replay is not examined.
Responds(r) ==
    /\ step[r] \in {"sending", "replaying"}
    /\ End(r, "returned")
    /\ UNCHANGED <<serviceVars, requestVars, replayVars, receipts, attached, sent, unclosed, shut>>

\* A challenge to recover from: the budget is consumed, and the response is to be closed.
Challenged(r) ==
    /\ step[r] = "sending"
    /\ Recoverable(r)
    /\ step' = [step EXCEPT ![r] = "closing"]
    /\ used' = [used EXCEPT ![r] = TRUE]
    /\ unclosed' = [unclosed EXCEPT ![r] = @ + 1]
    /\ UNCHANGED <<serviceVars, requestVars, replays, spent, leases, receipts, attached, sent, outcome, shut>>

\* Mutant: the challenged response is dropped.
DropResponse(r) == UNCHANGED unclosed

CloseResponse(r) == unclosed' = [unclosed EXCEPT ![r] = @ - 1]

\* Mutant: the lease of the first binding is rejected.
FirstReceipt(r) == receipts[r][1]

\* At most one binding is the Authorization header: one lease is rejected.
BearerReceipt(r) == receipts[r][CHOOSE i \in DOMAIN receipts[r] : bindings[r][i] = Bearer]

ResponseClosed(r) ==
    /\ step[r] = "closing"
    /\ CloseResponse(r)
    /\ RejectToken(r, Bearer, BearerReceipt(r))
    /\ step' = [step EXCEPT ![r] = "rejecting"]
    /\ UNCHANGED <<requestVars, replayVars, leases, receipts, attached, sent, outcome, shut>>

\* The close raises, or a native cancellation, which an anyio scope does not keep away, cuts
\* it short: the response may stay open, and nothing closes it again.
CloseInterrupted(r) ==
    /\ step[r] = "closing"
    /\ unclosed' \in {unclosed, [unclosed EXCEPT ![r] = @ - 1]}
    /\ End(r, "interrupted")
    /\ UNCHANGED <<serviceVars, requestVars, replayVars, receipts, attached, sent, shut>>

Replay(r) ==
    /\ step[r] = "rejecting" /\ phase[r] = "idle"
    /\ result[r].kind = "leased"
    /\ Authorize(r)
    /\ spent' = [spent EXCEPT ![r] = rejected[Bearer]]
    /\ UNCHANGED <<requestVars, receipts, attached, used, unclosed, shut>>

InvalidateFails(r) ==
    /\ step[r] = "rejecting" /\ phase[r] = "idle"
    /\ result[r].kind # "leased"
    /\ Raise(r)
    /\ UNCHANGED <<serviceVars, requestVars, replayVars, receipts, attached, sent, unclosed, shut>>

CloseTransport ==
    /\ ~shut
    /\ shut' = TRUE
    /\ UNCHANGED <<serviceVars, requestVars, replayVars, step, leases, receipts, attached, sent, unclosed, outcome>>

RequestStep(r) ==
    \/ Invoke(r)
    \/ Reuse(r)
    \/ LeaseArrives(r)
    \/ LeaseFails(r)
    \/ SendFails(r)
    \/ Responds(r)
    \/ Challenged(r)
    \/ ResponseClosed(r)
    \/ CloseInterrupted(r)
    \/ Replay(r)
    \/ InvalidateFails(r)

Next ==
    \/ \E r \in Callers : RequestStep(r)
    \/ (ServiceStep \/ \E r \in Callers : CancelCaller(r)) /\ UNCHANGED sendVars
    \/ CloseTransport

Spec == Init /\ [][Next]_vars
-----------------------------------------------------------------------------
(* What authorized sending promises. *)

\* The replay of a challenged request carries what the provider answered after the challenged
\* token, and none of the answers that were out of use when the replay was authorized, whoever
\* else renews, rejects or is cancelled meanwhile.  It is the same request again only when the
\* provider gave that access token again after the rejection, as a static one does
\* (_transport.py lines 317-324 with token_manager.py lines 96-104, client_settings.py 174-188).
ReplayAvoidsRejected ==
    \A r \in Callers : Len(sent[r]) = 2 =>
        /\ sent[r][2][Bearer] > sent[r][1][Bearer]
        /\ sent[r][2][Bearer] \notin spent[r]

\* "bodyless GET, HEAD, or OPTIONS requests ... may renew and replay once; POST, streamed
\* bodies and 403 never" (README.md): under one budget, also that of a stream over all of its
\* connections, there is one replay, and none of a request that is not replayable.
AtMostOneReplay ==
    \A r \in Callers : replays[r] <= IF replayable[r] THEN 1 ELSE 0

\* "Attach the entire credential set after every provider succeeds" (_security.py line 29): a
\* request carries tokens of the manager for all of its bindings, those of its receipts, or
\* for none, also while a provider fails half-way; so does every send.
AllOrNothing ==
    \A r \in Callers :
        /\ receipts[r] = <<>> => \A k \in Keys : attached[r][k] <= 0
        /\ \A i \in DOMAIN receipts[r] : attached[r][bindings[r][i]] = receipts[r][i]
        /\ \A n \in DOMAIN sent[r], k \in Selected(r) : sent[r][n][k] > 0

\* A response is not left open, whichever of the steps of a recovery fails: it is returned, or
\* closed before the rejection.  Only a close that was itself cut short, by an error or by a
\* native cancellation, may leave one (_transport.py lines 318-324).
ResponseAccounted ==
    \A r \in Callers :
        unclosed[r] > 0 => step[r] = "closing" \/ outcome[r] = "interrupted"

\* A recovery ends without a second send only when the invalidation, a provider or the closed
\* transport is in the way: the credentials of the first send do not count as a conflict with
\* those of the second (_security.py lines 37-53).
ReplayNotRefused ==
    [][\A r \in Callers :
          (step[r] = "rejecting" /\ outcome'[r] = "raised" /\ ~shut)
              => result[r].kind # "leased"]_vars
=============================================================================
