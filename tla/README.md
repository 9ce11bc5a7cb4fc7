# Verification of sunday-python

TLA+ models of the sunday HTTP client framework (`src/sunday`), checked with TLC on small
instances and, where a property matters for every instance, proved with TLAPS.

## The system

sunday is an asyncio client library: generated service clients describe operations, a transport
turns them into HTTP requests, decodes the answers, keeps server-sent event streams connected and
attaches credentials that a token manager obtains and renews. Everything runs on one event loop:
there are no threads, and interleaving happens only where a coroutine awaits. What makes it hard is
cancellation (any `await` may raise `CancelledError`, and an awaited call may swallow it), shared
work (many callers await one renewal task), callbacks that re-enter the object that calls them, and
cleanup that itself awaits.

| component | code | state | operations | interacts through |
|---|---|---|---|---|
| token manager | `token_manager.py`, `token_provider.py` | stored tokens, renewals with waiter counts, reference-counted locks, attempted grants | `credentials`, `invalidate`, the `_renew` task, `_finished` | awaits provider and store; called by the transport before and after a request |
| cache identity | `_resolve`, `security.py`, `token_manager_factory.py` | none | building keys and requests | keys of the token manager |
| OAuth provider | `httpx/_oauth.py`, `_oauth_wire.py` | consumed authorization codes | `acquire`, `refresh`, discovery | called by `_renew`; own HTTP client |
| authentication recovery | `httpx/_transport.py:289-327`, `_security.py`, `credentials.py` | recovery budget, leases of a request | `_send_authorized`, `rejected_leases`, one replay | token manager, HTTP client |
| callback event source | `httpx/_sse.py:259-387`, `event_source.py` | ready state, current stream and task, listeners | `connect`, `close`, `_run`, handlers | owns a stream; registered with the transport |
| event stream | `httpx/_sse.py:34-256`, `_reconnect.py` | closed flag, cancel scope, response, last event id, keepalive, backoff | `events`, `aclose`, `_close_nowait` | transport, parser, handlers of a source |
| event parser | `sse.py` | partial line, partial frame, decoder | `feed`, `finalize` | event stream |
| transport lifecycle | `httpx/_transport.py` | closed flag, registered event sources, client | `aclose`, `event_source_from` | event sources, client |
| client settings | `client_settings.py` | immutable configuration | selection, validation, ownership of providers | transport construction, cache keys |
| request building | `_transport.py:83-287`, `parameters.py`, `specs.py` | the request under construction | serialization, negotiation, choice of the content | codecs, adapters |
| media types, codecs | `media.py`, `codecs.py`, `cbor.py`, `xml.py`, `yaml.py` | registries | matching, registration, lookup | building and decoding |
| responses, problems | `_transport.py:397-505`, `problems.py`, `operations.py` | problem registry | decision table of `decode`, `raise_problem`, nullification | codecs |
| multipart, streaming | `multipart.py`, `streaming.py` | open or closed body | framing, `close` | request building |
| models, patches, observers, Litestar | the rest | none | conversions, hooks, events | Pydantic and other libraries |

What makes each correct:

* token manager: one coroutine at a time works on the tokens of a key; at most one wanted renewal
  per key; a renewal runs exactly as long as somebody wants it, except that saving is never cut
  short; a code is presented once; tokens only move forward; a replay gets what the provider answered
  after the rejection, and no earlier answer with the rejected token; callers are cancelled only by
  their own cancellation; every call ends.
* event source and transport: what `close()` closed stays closed; a source that says it is
  connecting or open has a task at work; closing ends tasks; the client closes last; `aclose`
  returns.
* event stream: deadlines and ids belong to the right connection; backoff stays capped; parsing
  does not depend on chunk boundaries.
* authentication recovery: at most one replay per budget, only of replayable requests, only after
  every rejected lease was invalidated; a request carries all of its credentials or none; no
  challenged response stays open.
* OAuth provider: a code is exchanged once, the history never overflows, and nothing is sent to an
  endpoint that was discovered but not verified.
* cache identity and settings: bindings that must not share credentials do not.
* exchange: what is asked for can be decoded, a body is what its header says, and parameters arrive
  as they were given.

`PROJECT.json` lists each hazard at its line with the properties that watch it; the few without one
say why.

## Modules

| module | what it is |
|---|---|
| `CredentialService` | what callers of the token manager may rely on, without tasks, locks or store |
| `TokenManager` | the token manager with its callers, renewal tasks, locks, store and provider; implements `CredentialService` |
| `AuthRecovery` | authorized sending with its one replay, composed with `CredentialService` |
| `EventSource` | event sources, the tasks they run, and the transport that owns them |
| `EventStream` | one connection loop in detail: controls, ids, deadlines, backoff, recovery budget |
| `EventParser` | the incremental parser of events, and the events of a text as a whole |
| `OAuthProvider` | concurrent calls of the OAuth provider, its discovery and its consumed codes |
| `ClientSettings` | settings of clients that share a token store, and the cache keys of their bindings |
| `Parameters` | serialization of parameters and the request target (operators only) |
| `MediaTypes` | media types and the codec registries (operators only) |
| `Exchange` | one operation from its specification to its result, on the two modules above |
| `MCTokenManager`, `MCEventSource`, `MCEventStream`, `MCAuthRecovery`, `MCLibrary` | the instances for TLC |
| `TokenManagerProofs`, `TokenStoreProofs`, `OAuthProofs`, `EventStreamProofs`, `AuthProofs`, `EventSourceProofs`, `LibraryProofs`, `ParametersProofs` | the proofs |

How they compose: `TokenManager` implements `CredentialService`; `AuthRecovery` extends
`CredentialService` and adds the requests that use it, so it relies on promises the token manager
is proved to keep. `EventStream` counts the recovery of a connection as one step, whose detail is in
`AuthRecovery`; `EventSource` shows the same connection loop from outside, as the task that can be
cancelled. `Exchange` builds on `Parameters` and `MediaTypes`.

In every module one action is what asyncio runs between two suspension points. Operators whose
comment begins with "Mutant" are wrong variants of the definition that follows them: each property
was seen to fail when the definition is replaced by its mutant, and no run uses them otherwise.

### TokenManager

Callers are coroutines that call `credentials`, then possibly `invalidate` with the lease they got.
A renewal task runs `_renew`. `pc` says at which `await` a coroutine is suspended:

| `pc` | suspended at |
|---|---|
| `entering` | the `sleep(0)` of `credentials` (line 80) |
| `waiting` | the shielded await of the renewal (90) |
| `created` | a task before its first step |
| `locking` | `async with entry.lock` (152) |
| `loading`, `saving` | `store.load`, `store.save` of `invalidate` (100, 102) or `_renew` (163, 204) |
| `refreshing`, `acquiring`, `yielding`, `removing` | lines 168, 176 and 187, 174, 175 |
| `done`, `finished` | a task that ended, before and after its done callback `_finished` (211) |

`renewals`, `waiters`, `committing`, `attempts` and `locks` are the fields of the same names;
`lockOf[u]` records which lock object `u` uses, so the user count of an entry is the number of its
users (`LockUsers`). Token sets are records of two numbers and a freshness bit: a token set names the
provider answers its access and its refresh token came in, so "later" can be stated. The access token
itself is `AccessToken[k][n]`, a constant: two answers may carry the same one, and those of a static
provider (`client_settings.py:174-188`) all do. The code compares access tokens in one place, when it
invalidates (line 101), and so does the model (`SameToken`); nothing compares an answer with what was
rejected before (lines 187-205), in the code or here. `acquires`, `rejected` and `barred` are history
variables that no guard reads: `rejected` has the answers that completed invalidations put out of use,
which are the rejected one, older ones, and those given by then with the same access token
(`OutOfUse`). A provider that gives the token again later puts it back into use.

Cancellation is modelled as asyncio does it. A request is `"pending"` until the coroutine runs
again; at an external call the callee may swallow it (`"swallowed"`), after which
`task.cancelling()` still reports it. A task cancelled before its first step never runs its body.
The shield of line 90 keeps a caller's cancellation away from the task.

Providers and stores are the application's. Each call answers, raises, is interrupted or swallows
the cancellation; a `save` or `remove` that raises or is interrupted may have taken effect. A
provider's answer carries an access token of its choice, a new refresh token or none, and may already
be inside the expiry skew; unusable answers (lines 188-192) are failures. `asyncio.Lock` is modelled
without its queue: any waiter may get a released lock, which allows more behaviours than FIFO.
`Call` waits for pending done callbacks (`CallbacksRun`): that is what `sleep(0)` is for, and the
property that depends on it is violated without it.

The refinement maps a caller that is `entering` or `waiting` to one that asks, every other suspended
caller to one that rejects, and a pending cancellation to `asked` (`PhaseOf`, `SubjectOf`); tasks,
locks and the store disappear. Answers, results, `rejected` and `barred` are the same on both sides.

### CredentialService and AuthRecovery

A caller of the service is the coroutine that sends one native request. A request has bindings, a
sequence of cache keys; `attached` has one credential per key: the number of the answer whose access
token it is, `Own` for a credential the application put there, or none. `step` is where
`_send_authorized` is suspended: acquiring the next lease, sending, closing a challenged response,
rejecting its lease, or replaying; the response to a replay is not examined again. `Conflict`
is the test of `authorize` before anything is awaited. Leases are acquired one after another and
attached together (`Attach`). Any await can fail or be cancelled; `CloseTransport` can come between
any two. A factory may give the same native request again (`Reuse`), with what was attached to it
and, for the next connection of an event stream, with the budget of the last. The close of a
challenged response can be cut short, by an error or by a native cancellation that its shield does
not keep away (`CloseInterrupted`): the request ends and the response may stay open, since nothing
closes it again. `ResponseAccounted` excepts that step and no other.

With a static provider a recovery sends the same access token again: it invalidates, acquires and
replays, and no line compares. The service therefore promises answers, not tokens: what a replay
carries the provider gave after the challenged token, and it is no answer that was out of use when the
replay was authorized (`ReplayAvoidsRejected`). Only a provider that repeats itself after the
rejection makes it the same request again, once (`AtMostOneReplay`).

Whether a response is an `invalid_token` challenge is the server's choice; the grammar of the
header is left out. At most one binding is an `Authorization` header with the Bearer prefix, so at
most one lease is rejected.

### EventSource

A *connection* is the pair of a stream and the task that iterates it, created together by
`connect()`. `task` says where the task is suspended: `created`, `connecting` (sending the
request), `reading`, `backoff`, `releasing` (the shielded close of a response, lines 181-182),
`cleanup` (the finally of `_run` closing an open response, line 353). `closed` is the stream's
`_closed` together with its cancel scope and close event; `cancel` is a `Task.cancel` not yet
delivered. The two differ at a shield: the scope waits, `Task.cancel` does not. `Leave` is the
finally of `_run`: it closes whatever stream the source has *by then*, which need not be its own.

Error handlers may call `close()`, as applications do. A handler that also calls `connect()` is
covered only as a separate step after it. Event contents, listeners, controls and delays are left
out. The server may answer, fail or end a stream at any time. HTTPX closes a response itself when it
has been read to its end; every other close takes time.

`Patient` is the set of sources whose application calls `connect()` again only after the old task
has ended; the others may do so at once. In both, the application does not replace a task that is
about to take its first step uncancelled (`AboutToBegin`).

### EventStream and EventParser

`EventStream` is the body of `events()`: `sending`, `reading` a chunk, `parsing` it frame by frame
(each is handed to the consumer before the next is applied, so `aclose` can come in between),
`finalizing` at the end of the body, `refusing` while the body of a response with another status is
read, `releasing` the response, `waiting` for the next attempt. A chunk that was received before a
close is taken after it. An error of the decoder or of a callback, a native cancellation of the
consumer and its closing of the generator end the iteration (`Abandoned`).
A frame carries any of the controls id, retry, retry-max and keepalive, and data or none; `Apply`
updates the policy, `lastId` and `deadline` in the order of the code. A deadline is armed from the
keepalive (`Armed`) and belongs to a connection: `Opened` clears it. `timeout` is the deadline of the
read under way, which `_chunks` asks for before each (`NextTimeout`). The policy counts failures of
connections that never opened, doubles the delay up to the maximum in force and takes up to a tenth
off (`Jitter`); `ldexp` overflowing is the bound `Huge`. `log`, `mark` and `recoveries` are history.

`EventParser` feeds bytes in chunks cut anywhere, also inside CR LF and inside the two pieces of a
byte order mark. `EventsOfWholeText` compares what it returned with a definition of the events of
the whole text that knows no chunks and no state: decode, split into lines, cut at blank lines.
Each of these three picks elements at some places of a sequence (`Picked`), which is also how the
proof takes it apart. Values that the abstract bytes cannot form are left out: an id with a NUL, which
the code ignores, a retry-max of 0, and numbers above 2^53 - 1 (`sse.py:98-104, 137-141`).

### OAuthProvider and ClientSettings

A call of the provider is suspended in discovery, in the application's authorization callback or
in the exchange (`frame`). The bound and the set of consumed codes are tested before and after the
callback; `Granted` is the part after it, up to the await of the exchange. `Answered` decides which
answers of a server are tokens: scopes, type and lifetime; `Refused` translates error codes.

`ClientSettings` configures clients one after another. `Configure` has the guards of `resolve`,
`validate_credentials` and the ownership of provider names; `Attach` takes a token from the shared
store under `CacheKey` or acquires one. A token is recorded by what was paid for it, so that two
bindings sharing a key they must not share would show.

### Parameters, MediaTypes and Exchange

A text is a sequence of characters that are unreserved, reserved or others; on the wire each is raw
or percent-encoded. `Parameters` has every style and location, the expansion of templates (one
parameter after the other, each in the text the last one left) and the target with its query. A plain
template keeps a placeholder that no parameter fills; a URI template without a value for it is refused.
While a URI template is expanded, the text `__SUNDAY_PATH_PARAMETER_<index>__` stands for each path
parameter (`_transport.py:133-153`); in the models each of these texts is one character (`PathTokens`),
placed by `TemplateText` and replaced by its placeholder wherever it is in the expanded path
(`Restored`), also where a supplied value contains it. `MediaTypes` has ranges with structured suffixes and the lookup
in registries. `Exchange` runs one operation: `Execute` builds the request (validation, parameters,
negotiation of `Accept`, choice of encoder and content type), adapters run once, the response goes
through the decision table of `decode`, or becomes a problem, null or a failure. Codecs can be
registered and the transport and the body closed between any two steps. Which codecs decode which
bytes is a parameter of the answer. The types asked for are a set: their order in the `Accept`
header is left out.

## Runs

| run | question | instance | states |
|---|---|---|---|
| `TokenRenewal` | locking, coalescing, abandonment, persistence, cancellation | 2 callers, 2 tasks, 2 lock objects, 1 key, 1 answer | 0.4 M |
| `TokenStore` | is nothing leased that an invalidation put out of use, with a provider that repeats its access token | 2 callers, 2 tasks, 2 answers, provider without `refresh` | 1.8 M |
| `TokenRefresh` | does the stored token set only move forward, do invalidations expire only what was rejected; is the manager a credential service | 2 callers, 1 task, 3 answers with 2 access tokens, refreshing provider | 1.0 M |
| `TokenCode` | grants presented once, history bounded | 1 caller, 2 tasks, 2 authorization-code keys, history of 1 | 1.1 M |
| `TokenLive` | is every call answered | 1 caller, 2 tasks, fairness, no symmetry | 0.1 M |
| `Recovery` | replays, the budget, partial failure, closed responses | 2 requests, a Bearer and an API key binding together, one double binding, 3 answers | 1.1 M |
| `StreamReconnect` | ids, deadlines, backoff, budget, end of a closed iteration | 6 frames with each control, 3 frames and 6 failures in an iteration, fairness | 1.2 M |
| `SourceLifecycle` | does closing end connections that overlap | 1 source, 2 connections, impatient application | 4.5 k |
| `TransportClose` | ready states, order of closing, end of `aclose` | 2 sources, 3 connections, patient applications | 0.1 M |
| `Library` | codes and endpoints, chunking, negotiation, content, parameters, isolation | 2 calls and 2 codes; texts of 5, chunks of 2; `SampleOperations`; 2 clients | 0.4 M |
| `SourceReconnect` | a disagreement with the documentation, below | 1 source, impatient | |
| `SourceCleanup` | a disagreement with the documentation, below | 1 source, patient | |

`MCLibrary` puts four components that share nothing beside each other: `part` says which of them a
behaviour is about, and the others stay as they began. A behaviour of one is checked as it would be
alone.

Bounds. Two callers and two tasks give every race the manager can have for one key: a first and a
last waiter, an abandoned task and the one that replaces it, a renewal and an invalidation. With two
lock objects a wrongly dropped entry shows as two coroutines inside. Two provider answers on top of
a token set that may be in the store already give an old, a current and a next token. `MaxAttempts`
and `MaxCodes` stand for 1024; with one place and two grants or codes the bound is reached.
`MaxIssued` is a bound of the model only: at it the provider fails instead of answering. `acquires`
and `presented` count to two, which is enough to see a second presentation. Identities of tasks and
connections are reused once nothing refers to them (`Collect`), so runs are not cut short by their
number. `TokenRefresh` gives up the second task to keep three answers and the rotation of refresh tokens
within reach: with the second answer repeating the first one's access token and the third one not, an
invalidation meets a stored answer that is the rejected one, another with its token, and another
token. In `TokenStore` all answers have one access token, so that each answer given before the
rejection is out of use with it, and the next one brings the token back.

In `Recovery` three answers for the Bearer key, the first two with one access token, are one to be
challenged, one for the replay and one that another request renews meanwhile. In `StreamReconnect` the base retry is 1, a control raises it
to 5 above a server maximum of 3, and 6 failures reach the default maximum of 30 times the base;
`Huge` of 155 is above every maximum and below the last doubling of a base of 5, so `ldexp`
overflows. A keepalive is below the floor of 4 or above it. Three frames are enough for one before a reconnect, one after it and one that replaces it.
A text of five bytes has a field, its value and a blank line with room for a CR LF or a byte order
mark; every cut of it is tried. `SampleOperations` has each location and style of a parameter with
values that contain delimiters and placeholders, each kind of body with types that are declared,
encodable, invalid or absent, and each form of declared responses.

Deadlock is checked in every run but three. A bounded number of frames and failures
(`StreamReconnect`), of requests (`Recovery`) and of executions and clients (`Library`) lets those
systems come to a rightful end.

Fairness (`FairSpec`). Each caller and each task that can run does (the event loop never starves a
ready coroutine), external calls end, and a waiter of an `asyncio.Lock` gets its turn, which FIFO
wakening guarantees and strong fairness of `LockGranted` expresses. In `EventSource` only steps that
follow a closing are fair, with the close of a response and `aclose`; in `EventStream` only
`Interrupted` and `Released`: no server is assumed to answer. Nothing makes an application call,
cancel or close.

## What the runs show

All properties above hold on these instances. Two runs show where code and documentation part:

* `SourceReconnect`. `close()` sets the state to closed at once, so `connect()` is accepted at
  once, while the cancelled task still has its `finally` to run. That `finally` reads
  `self._stream`, now the stream of the new connection: it closes it, sets the source to closed and
  unregisters it from the transport. The new connection never sends its request and no handler
  hears of it. `event_source.py:55` and `README.md:220` promise that `connect()` begins connecting.
  Because the source is also unregistered, `ClientClosedLast` and `ClosedStaysClosed` hold only for
  the patient application; they are checked for that one.
* `SourceCleanup`. `README.md:221-222` says that closing is idempotent while response cleanup
  completes. A `Task.cancel` that arrives during the shielded close of a response pierces the shield
  (anyio shields hold back cancel scopes only), and the task ends without closing the response
  again. Whether anything leaks then depends on how far HTTPX got. The close of a challenged response
  (`_transport.py:319-320`) is cut short in the same way; no documentation speaks of that one.

The models also show limits that no documentation denies; properties except them by name:

* A binary response declared without content types makes every declared type acceptable, so an
  operation may ask for what it has no decoder for (`NegotiatedDecodes` excepts binary responses).
* The text that stands for a path parameter while a URI template is expanded is replaced in supplied
  values too: `/a/{id}/{x}` with `id` 1 and `x` `__SUNDAY_PATH_PARAMETER_0__` becomes `/a/1/1`.
  `ParametersArrive` is about texts without it (`TokenFree`).
* Static credentials (Bearer, API key, Basic) repeat the rejected token: a 401 with an `invalid_token`
  challenge makes the client send the same request with the same token once more. `NoRejectedLease`
  and `ReplayAvoidsRejected` are therefore about answers of the provider.
* Usable answers that are never fresh, because their lifetime is below the skew, make every call renew.
* A text response with an unknown charset raises `LookupError` instead of a decoding failure
  (`"fault"` in `Exchange`).
* Nullification looks at the `status` member of the problem before the status of the response.
* With `label` and explode, or `spaceDelimited`, a value that contains the delimiter cannot be told
  from two values; headers and cookies are not quoted; `allow_reserved` leaves delimiters as they
  are. `ParametersArrive` is about the others.

## Proofs

The proofs hold for any sets of callers, tasks, sources, frames, keys or codes and any bounds, from
the named assumptions of the modules alone. TLC checked each property first.

1. `TokenManagerProofs`. `TypeCorrect`: `TypeOK` is inductive. `MutualExclusionHolds`: the
   strengthening `LockInv` says that a coroutine in `_exclusive` uses the lock object that `_locks`
   holds for its key, that an entry of `_locks` has a user, that different keys have different
   objects, and that whoever is inside has its object locked and is alone inside it. The users must
   be part of it: an entry is popped only when its last user leaves, so whoever arrives meets the
   users inside.
2. `SingleFlightHolds`, `NoOrphanHolds`, `PersistenceProtectedHolds`: `PointsOK` says at which
   suspension points callers and tasks can be. `RenewInv` says that a live task that is not being
   cancelled is the renewal of its key, that the waiters of a task are the callers whose `awaited`
   it is, and that a committing task is neither cancelled nor replaced. A replacement is made only
   for a task on which cancellation was requested, and the commit test reads the same three facts
   in the step that sets `committing`.
3. `CancelledOnlyIfAskedHolds`: an action property, from the same invariant: a task with a waiter
   that was not cancelled is never cancelled, so what the waiter sees is not `Cancelled`.
4. `GrantOnceHolds`, `GrantHistoryBoundedHolds`: `GrantInv` says that every grant
   ever presented is in `attempts`, which grows before the exchange starts and is never evicted; a
   presentation requires absence from it and room in it.
5. `TokenStoreProofs`. `KeyInv` ties a renewal and its waiters to one key. `StoreInv` relates answers
   wherever they are: nothing stored or rejected is later than what was issued, and what is fresh is
   not out of use (`Tokens`); a task about to save holds the latest answer, later than what is stored
   and not out of use (`TaskWork`); an invalidation about to save holds what is stored, and that has
   the rejected access token (`CallerWork`); a lease is not later than the store (`Leased`); and the
   answer a caller has, or waits for, was not out of use when it asked (`Barred`, `Due`). Nothing is
   assumed of `AccessToken`: an answer about to be saved is not out of use because an invalidation
   counts only answers given before it ends, and the lock keeps the two apart. A coroutine outside `_exclusive` changes none of it and one inside is alone with
   its key, so `Framed` reduces a step to what it does to its own key. `NoRejectedLeaseHolds`,
   `StoreMovesForwardHolds` and `ExpiresOnlyRejectedHolds` follow.
6. `TokenStoreProofs`, the service. `ImplementsServiceHolds`: a step of `TokenManager` is one step of
   `CredentialService`, or no caller sees it (`NextService`). An answer of a provider is `Issue`; the
   end of a call is `Grant`, `Fail`, `EndCancelled` or `Rejected`. That a granted lease was not
   out of use when its caller asked is `Due`; that a caller who was not cancelled never ends cancelled is `RenewInv`;
   that a task that ended has an answer is `OutcomeInv`.
7. `OAuthProofs`. `CodesOnce`, `CodesBounded`, `EndpointsVerified`: a presented code is consumed
   (`CodesInv`), consumed codes are finitely many (`BoundInv`, with the library's facts on
   cardinality), and a call suspended in discovery has an issuer to compare with (`VerifiedInv`).
8. `AuthProofs`. One invariant per request, `CallerInv`: `Counting` relates the sends of an
   invocation to the step, `Budgeted` the budget and the unclosed response; `Attached` says that the
   receipts of the last `authorize` are exactly what is attached, and that bindings with receipts are
   distinct; `Newer` says that after a rejection the answers out of use, among them the challenged one
   and all before it, are barred from what the service leases for the Bearer key. The last one is what
   carries the promise of the service through the other requests' renewals and rejections. All
   properties of `Recovery` follow.
9. `EventStreamProofs`. `TypeCorrect` holds for the whole of `TypeOK`. `RecoversOnceHolds` is from
   `BudgetInv`. For `ResumesAfterLastIdHolds` and `DeadlineOfThisConnectionHolds` the property is a
   `CHOOSE` over the log; `IdAfter` and `DeadlineAfter` say the same without it, and are kept by a
   frame that is appended (`IdAppended`) and by every other step; during a read, `timeout` is the
   deadline. `DelayBoundedHolds` and
   `BackoffEscalatesHolds` rest on two invariants: `PolicyInv` says that the policy is that of the
   last frames with a control, and `WaitInv` that a wait is within the policy in force. The second
   needs to know why no frame can lower a maximum during a wait: frames come only while connected,
   and no failure is counted then. The delay is a power of two; `PowerDoubles` gets its growth
   from the number of subsets of a set with one more element. That a float holds every base retry
   is assumed (`BaseRetry` and `f.retry` at most `Huge`).
10. `EventSourceProofs`. `IInv` says who owns a connection, and that one at work for a patient
   application is the only one of its source, registered with the transport, awaited by a transport
   that closes, and closed when its source says so (`Attended`). `ReadyMeansRunningHolds`,
   `ClientClosedLastHolds` and `ClosedStaysClosedHolds` follow. Patience is needed: the
   disagreement above is a step that breaks `Attended`.
11. `LibraryProofs`. The parser: a fold of the library is a recursive function on sets of positions,
   of which exactly one exists (`FoldExists`, `FoldsAgree`, for every fold of the project); an
   induction on numbers, derived from the least element of a set, gives that one more byte folds one more step (`FoldAppend`) and that folds compose
   (`FoldConcat`). `ChunkIndependent` follows: however a text is cut, parser and events are those of
   feeding it at once. `EventsOfWholeTextHolds` goes on to say which events those are. `Told` is what
   the characters handed on so far come to in terms of the definition on whole texts: the open line,
   the open frame and the events. One lemma per layer says what one more element does to that
   definition (`OneMoreByte`, `OneMoreCharacter`, `OneMoreLine`, all from `PickedAppend`: a place after
   the others appends its element), and one per routine that the code does the same (`ByteTold`,
   `CharacterTold`, `LineProcessed`); `EndTold` is `finalize`.
12. `LibraryProofs`, exchanges: `NegotiatedDecodesHolds` from `AcceptInv`: for every type asked for
   some decoder fits, also after others were registered (`RegisteredKeeps`); what a range accepts, a
   wider one accepts (`MatchesTransitive`), so a response of such a type has a decoder too.
   `BodyMatchesContentTypeHolds` from `ContentInv`: the chosen encoder supports the named type.
   Assumed: the content types of operations are media types.
13. `LibraryProofs`, settings: `CredentialsIsolatedHolds` from `SettingsInv`: every binding of a
   client has a credential in its wallet, bindings of one provider are of one scheme (`ClientsInv`), and
   every stored token was paid for with what its cache key names (`StoreInv`). Assumed: bindings and
   credentials have their fields.
14. `ParametersProofs`. `ParametersArriveHolds`, for texts, templates and parameters of any number
   and length. Splitting and expanding are folds, so the induction of the parser serves again
   (`SplitAppend`, `ExpandAppend`).
   * Split undoes join: a piece ends where the delimiter first ends (`SplitsInto`, `SplitFirst`), so
     texts without the delimiter come back as they were joined (`SplitJoined`). What is sent has the
     delimiter nowhere else because quoting keeps only unreserved characters raw (`Kept`, `Quiet`).
     The query starts behind the first `?` of the target, also when the template has one of its own
     (`QueryFollows`, `PairsArrive`), and a list comes back at its commas (`ItemsArrive`).
   * Placeholders are replaced once: a path under expansion is a sequence of tokens, each a
     placeholder or a text without a raw closing brace (`Tokens`). Then `{name}` ends only where its token
     ends, so one replacement fills the tokens of that name and no others (`PlaceholdersFilled`); the
     text that is filled in has no raw brace, so a value that looks like a placeholder stays a value. In
     a URI template the texts that stood for path parameters during expansion are placeholders again
     (`TokensPlaced`, `PieceRestored`), and nothing else is, because no other text has one (`TokenFree`
     in the property). By
     induction over the parameters of the path, expansion gives every piece the first value of its name
     (`PathExpanded`).
   * `TargetInv` carries both from the step that builds the request to the one that sends it.

   Assumed (`ExchangeAssumption`): parameters have their fields, and neither the literal pieces of a
   template nor the names of path parameters have a brace, no path parameter is named after one of the
   texts that stand for them, and there are enough of these (the code makes one for each). The code
   tests neither of the first two: a name with braces could match across pieces.

Only model-checked: liveness (`Answered`, `CloseEnds`, `AcloseReturns`, `AcloseSettles`), which is out
of the prover's reach. Every other property of the passing runs is a theorem.

## What is left

A native cancellation during the release of a response inside `EventStream` (today in `EventSource`
only, so the two are not yet one refinement); handlers and observers as actors that may raise or
re-enter.

## Not modelled

Encodings of codecs, Pydantic schemas, models, patches and model modes, typed problems whose payload
does not validate, the framing of multipart bodies and the Litestar adapters: they keep no state
between calls, and their meaning is mostly that of the libraries they call. The operators of
RFC 6570 templates belong to their library. Observers record events; what happens when one raises is
left out, as are async context managers, a second consumer of one stream, and the cancellation of
the caller of `aclose`. Secrets, redaction and wording of errors are left out. HTTPX, anyio and
asyncio are modelled from how the code uses them.
