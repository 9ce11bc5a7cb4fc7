---------------------------- MODULE TokenManager ----------------------------
(***************************************************************************)
(* The token manager (src/sunday/token_manager.py): callers of credentials *)
(* and invalidate, the shared renewal tasks they await, the reference-     *)
(* counted lock of each cache key, the token store and the provider.       *)
(*                                                                         *)
(* A step is what asyncio runs between two suspension points.  A           *)
(* cancellation is requested in one step ("pending") and reaches the       *)
(* coroutine when that coroutine next runs; a provider or a store may      *)
(* swallow it and answer later.  A token set names the provider answers    *)
(* its access and its refresh token came from by their numbers, 0 for none *)
(* yet.  Different answers may carry the same access token, as those of a  *)
(* _StaticProvider do (client_settings.py:174-188): AccessToken says which.*)
(***************************************************************************)
EXTENDS Integers, FiniteSets

CONSTANTS
    Callers,            \* coroutines that call credentials and invalidate
    Tasks,              \* identities of renewal tasks; a collected one is reused
    Locks,              \* identities of lock objects; an unused one is reused
    Keys,               \* cache keys
    AuthorizationCode,  \* keys of the authorizationCode flow; the rest: clientCredentials
    Refreshing,         \* keys whose provider has a refresh method
    MaxAttempts,        \* bound on remembered authorization attempts (1024)
    MaxIssued,          \* bound of the model: provider answers per key
    AccessToken,        \* AccessToken[k][n]: the access token in the n-th answer for k
    NoTask, NoLock

ASSUME ConstantsAssumption ==
    /\ AuthorizationCode \subseteq Keys
    /\ Refreshing \subseteq Keys
    /\ MaxAttempts \in Nat
    /\ MaxIssued \in Nat
    /\ Callers \cap Tasks = {}
    /\ NoTask \notin Tasks
    /\ NoLock \notin Locks

Users == Callers \cup Tasks

VARIABLES
    store,      \* the TokenStore: the token set of each key
    issued,     \* provider: answers given for each key
    acquires,   \* history: provider.acquire calls for each key, counted up to 2
    attempts,   \* _authorization_attempts
    renewals,   \* _renewals: the renewal task of each key
    waiters,    \* _Renewal.waiters: the callers the counter counts
    committing, \* _Renewal.committing
    locks,      \* _locks: the lock object of each key
    locked,     \* asyncio.Lock: whether a lock object is held
    lockOf,     \* the lock object a coroutine holds or waits for (its user count)
    pc,         \* where each coroutine is suspended
    key,        \* the key a coroutine works on
    cancel,     \* "pending" until delivered, "swallowed" when an awaited call ate it
    held,       \* local stored, current or tokens of a coroutine
    awaited,    \* the renewal a caller awaits
    result,     \* what a coroutine last returned or raised
    rejected,   \* history: the answers of a key that completed invalidates put out of use
    barred      \* history: rejected, as it was when the caller called credentials

storeVars  == <<store, issued, acquires, attempts>>
renewVars  == <<renewals, waiters, committing>>
lockVars   == <<locks, locked, lockOf>>
localVars  == <<pc, key, cancel, held, awaited, result>>
historyVars == <<rejected, barred>>
vars       == <<storeVars, renewVars, lockVars, localVars, historyVars>>

NoToken == [access |-> 0, refresh |-> 0, fresh |-> FALSE]
Token   == [access : 0..MaxIssued, refresh : 0..MaxIssued, fresh : BOOLEAN]

Nothing   == [kind |-> "none",      access |-> 0]
Failure   == [kind |-> "failed",    access |-> 0]
Cancelled == [kind |-> "cancelled", access |-> 0]
Lease(a)  == [kind |-> "leased",    access |-> a]
Result    == [kind : {"none", "failed", "cancelled", "leased"}, access : 0..MaxIssued]

\* Suspended in the body of _exclusive, the lock held.
Critical == {"loading", "refreshing", "yielding", "removing", "acquiring", "saving"}
\* Suspended in a call to the application's store or provider.
External == Critical \ {"yielding"}
Exclusive == Critical \cup {"locking"}
Live      == Exclusive \cup {"created"}

Cancelling(t) == cancel[t] # "no"

TypeOK ==
    /\ store \in [Keys -> Token]
    /\ issued \in [Keys -> 0..MaxIssued]
    /\ acquires \in [Keys -> 0..2]
    /\ attempts \subseteq AuthorizationCode
    /\ renewals \in [Keys -> Tasks \cup {NoTask}]
    /\ waiters \in [Tasks -> SUBSET Callers]
    /\ committing \in [Tasks -> BOOLEAN]
    /\ locks \in [Keys -> Locks \cup {NoLock}]
    /\ locked \in [Locks -> BOOLEAN]
    /\ lockOf \in [Users -> Locks \cup {NoLock}]
    /\ pc \in [Users -> Live \cup {"idle", "entering", "waiting", "done", "finished"}]
    /\ key \in [Users -> Keys]
    /\ cancel \in [Users -> {"no", "pending", "swallowed"}]
    /\ held \in [Users -> Token]
    /\ awaited \in [Callers -> Tasks \cup {NoTask}]
    /\ \A c \in Callers : pc[c] = "waiting" => awaited[c] \in Tasks
    /\ result \in [Users -> Result]
    /\ rejected \in [Keys -> SUBSET (1..MaxIssued)]
    /\ barred \in [Callers -> SUBSET (1..MaxIssued)]

\* A store may come with a token set that an earlier manager saved.
Init ==
    /\ store \in [Keys -> {s \in Token : s = NoToken \/ (s.access = 1 /\ s.refresh <= 1)}]
    /\ issued = [k \in Keys |-> store[k].access]
    /\ acquires = [k \in Keys |-> 0]
    /\ attempts = {}
    /\ renewals = [k \in Keys |-> NoTask]
    /\ waiters = [t \in Tasks |-> {}]
    /\ committing = [t \in Tasks |-> FALSE]
    /\ locks = [k \in Keys |-> NoLock]
    /\ locked = [l \in Locks |-> FALSE]
    /\ lockOf = [u \in Users |-> NoLock]
    /\ pc = [u \in Users |-> IF u \in Tasks THEN "finished" ELSE "idle"]
    /\ key \in {[u \in Users |-> k] : k \in Keys}
    /\ cancel = [u \in Users |-> "no"]
    /\ held = [u \in Users |-> NoToken]
    /\ awaited = [c \in Callers |-> NoTask]
    /\ result = [u \in Users |-> Nothing]
    /\ rejected = [k \in Keys |-> {}]
    /\ barred = [c \in Callers |-> {}]
-----------------------------------------------------------------------------
(* _exclusive *)

LockUsers(l) == {u \in Users : lockOf[u] = l}

\* setdefault, users += 1 and lock.acquire, which suspends only behind another user.
EnterExclusive(u, k) ==
    \E l \in Locks :
        /\ IF locks[k] = NoLock THEN LockUsers(l) = {} ELSE l = locks[k]
        /\ locks' = [locks EXCEPT ![k] = l]
        /\ lockOf' = [lockOf EXCEPT ![u] = l]
        /\ \/ /\ LockUsers(l) = {}
              /\ locked' = [locked EXCEPT ![l] = TRUE]
              /\ pc' = [pc EXCEPT ![u] = "loading"]
           \/ /\ LockUsers(l) # {}
              /\ pc' = [pc EXCEPT ![u] = "locking"]
              /\ UNCHANGED locked

\* Mutants of LeaveExclusive: the entry popped whatever its users; a cancelled body that
\* leaves without releasing.
LeavePopping(u) ==
    LET l == lockOf[u] IN
    /\ lockOf' = [lockOf EXCEPT ![u] = NoLock]
    /\ locked' = [locked EXCEPT ![l] = IF pc[u] \in Critical THEN FALSE ELSE @]
    /\ locks' = [locks EXCEPT ![key[u]] = NoLock]

LeaveLocked(u) ==
    LET l == lockOf[u] IN
    /\ lockOf' = [lockOf EXCEPT ![u] = NoLock]
    /\ locked' = [locked EXCEPT ![l] = IF pc[u] \in Critical /\ cancel[u] = "no" THEN FALSE ELSE @]
    /\ locks' = [locks EXCEPT ![key[u]] = IF LockUsers(l) = {u} THEN NoLock ELSE @]

\* Release the lock when it is held, users -= 1, and pop the entry at zero.
LeaveExclusive(u) ==
    LET l == lockOf[u] IN
    /\ lockOf' = [lockOf EXCEPT ![u] = NoLock]
    /\ locked' = [locked EXCEPT ![l] = IF pc[u] \in Critical THEN FALSE ELSE @]
    /\ locks' = [locks EXCEPT ![key[u]] = IF LockUsers(l) = {u} THEN NoLock ELSE @]

\* The lock was released and u is the waiter it wakes.  asyncio.Lock is FIFO:
\* any order is allowed here, and fairness gives each waiter its turn.
LockGranted(u) ==
    /\ pc[u] = "locking"
    /\ cancel[u] # "pending"
    /\ ~locked[lockOf[u]]
    /\ locked' = [locked EXCEPT ![lockOf[u]] = TRUE]
    /\ pc' = [pc EXCEPT ![u] = "loading"]
    /\ UNCHANGED <<storeVars, renewVars, locks, lockOf, key, cancel, held, awaited, result, historyVars>>

\* A coroutine that returns or raises out of the body of _exclusive.
Exit(u, r) ==
    /\ LeaveExclusive(u)
    /\ pc' = [pc EXCEPT ![u] = IF u \in Tasks THEN "done" ELSE "idle"]
    /\ cancel' = IF u \in Tasks THEN cancel ELSE [cancel EXCEPT ![u] = "no"]
    /\ held' = [held EXCEPT ![u] = NoToken]
    /\ result' = [result EXCEPT ![u] = r]
    /\ UNCHANGED <<key, awaited>>

\* What the store holds for the key of u when the store call u awaits takes effect.
Effect(u) ==
    IF pc[u] = "removing" THEN NoToken
    ELSE IF pc[u] = "saving" THEN IF u \in Tasks THEN held[u] ELSE [held[u] EXCEPT !.fresh = FALSE]
    ELSE store[key[u]]

\* A store call that fails or is interrupted may have taken effect.
MaybeEffect(u) == store' \in {store, [store EXCEPT ![key[u]] = Effect(u)]}

\* A pending cancellation reaches a coroutine suspended in _exclusive.
Interrupted(u) ==
    /\ pc[u] \in Exclusive
    /\ cancel[u] = "pending"
    /\ MaybeEffect(u)
    /\ Exit(u, Cancelled)
    /\ UNCHANGED <<issued, acquires, attempts, renewVars, historyVars>>

\* The awaited provider or store call eats the cancellation and goes on.
Swallowed(u) ==
    /\ pc[u] \in External
    /\ cancel[u] = "pending"
    /\ cancel' = [cancel EXCEPT ![u] = "swallowed"]
    /\ UNCHANGED <<storeVars, renewVars, lockVars, pc, key, held, awaited, result, historyVars>>

\* The awaited call raises, or the provider answers with unusable tokens.
CallFails(u) ==
    /\ pc[u] \in External
    /\ cancel[u] # "pending"
    /\ MaybeEffect(u)
    /\ Exit(u, Failure)
    /\ UNCHANGED <<issued, acquires, attempts, renewVars, historyVars>>
-----------------------------------------------------------------------------
(* credentials *)

\* Mutant: credentials without its sleep(0).
CallbacksPending == TRUE

\* The sleep(0) puts the entry of a call behind the done callbacks already queued: a call
\* that begins between the end of a task and its callback enters after the callback, and
\* is taken to begin after it too.
CallbacksRun == \A t \in Tasks : pc[t] # "done"

Call(c, k) ==
    /\ pc[c] = "idle"
    /\ CallbacksRun
    /\ pc' = [pc EXCEPT ![c] = "entering"]
    /\ key' = [key EXCEPT ![c] = k]
    /\ result' = [result EXCEPT ![c] = Nothing]
    /\ barred' = [barred EXCEPT ![c] = rejected[k]]
    /\ UNCHANGED <<storeVars, renewVars, lockVars, cancel, held, awaited, rejected>>

\* The application cancels a caller; it may do so again after one was swallowed.
CancelCaller(c) ==
    /\ pc[c] # "idle"
    /\ cancel[c] # "pending"
    /\ cancel' = [cancel EXCEPT ![c] = "pending"]
    /\ UNCHANGED <<storeVars, renewVars, lockVars, pc, key, held, awaited, result, historyVars>>

Return(c, r) ==
    /\ pc' = [pc EXCEPT ![c] = "idle"]
    /\ result' = [result EXCEPT ![c] = r]

\* The sleep(0) honours a pending cancellation before anything is created.
EntryCancelled(c) ==
    /\ pc[c] = "entering"
    /\ cancel[c] = "pending"
    /\ cancel' = [cancel EXCEPT ![c] = "no"]
    /\ Return(c, Cancelled)
    /\ UNCHANGED <<storeVars, renewVars, lockVars, key, held, awaited, historyVars>>

ResolveFails(c) ==
    /\ pc[c] = "entering"
    /\ cancel[c] = "no"
    /\ Return(c, Failure)
    /\ UNCHANGED <<storeVars, renewVars, lockVars, key, cancel, held, awaited, historyVars>>

\* Mutant: a renewal being cancelled is joined.
JoinableAny(k) == renewals[k] # NoTask

Joinable(k) == renewals[k] # NoTask /\ ~Cancelling(renewals[k])

\* Await a renewal in flight; one already done answers without suspending.
Join(c) ==
    LET t == renewals[key[c]] IN
    /\ pc[c] = "entering"
    /\ cancel[c] = "no"
    /\ Joinable(key[c])
    /\ \/ /\ pc[t] = "done"
          /\ Return(c, result[t])
          /\ UNCHANGED <<waiters, awaited>>
       \/ /\ pc[t] # "done"
          /\ pc' = [pc EXCEPT ![c] = "waiting"]
          /\ waiters' = [waiters EXCEPT ![t] = @ \cup {c}]
          /\ awaited' = [awaited EXCEPT ![c] = t]
          /\ UNCHANGED result
    /\ UNCHANGED <<storeVars, renewals, committing, lockVars, key, cancel, held, historyVars>>

Collected(t) == pc[t] = "finished" /\ waiters[t] = {} /\ result[t] = Nothing

\* No renewal, or one being cancelled: create the task that replaces it.
StartRenewal(c, t) ==
    /\ pc[c] = "entering"
    /\ cancel[c] = "no"
    /\ ~Joinable(key[c])
    /\ Collected(t)
    /\ renewals' = [renewals EXCEPT ![key[c]] = t]
    /\ waiters' = [waiters EXCEPT ![t] = {c}]
    /\ committing' = [committing EXCEPT ![t] = FALSE]
    /\ pc' = [pc EXCEPT ![c] = "waiting", ![t] = "created"]
    /\ key' = [key EXCEPT ![t] = key[c]]
    /\ cancel' = [cancel EXCEPT ![t] = "no"]
    /\ awaited' = [awaited EXCEPT ![c] = t]
    /\ UNCHANGED <<storeVars, lockVars, held, result, historyVars>>

\* Mutants of Abandoned: the counter read before it is decremented; committing ignored.
AbandonedEarly(c, t) == waiters[t] = {} /\ ~committing[t] /\ pc[t] \in Live
AbandonedAnyway(c, t) == waiters[t] = {c} /\ pc[t] \in Live

\* c is the last waiter of a renewal that is neither committing nor done.
Abandoned(c, t) == waiters[t] = {c} /\ ~committing[t] /\ pc[t] \in Live

\* The finally of credentials: the last waiter cancels the renewal.
Detach(c, r) ==
    LET t == awaited[c] IN
    /\ Return(c, r)
    /\ waiters' = [waiters EXCEPT ![t] = @ \ {c}]
    /\ cancel' = [cancel EXCEPT
                     ![c] = "no",
                     ![t] = IF Abandoned(c, t) THEN "pending" ELSE @]
    /\ awaited' = [awaited EXCEPT ![c] = NoTask]
    /\ UNCHANGED <<storeVars, renewals, committing, lockVars, key, held, historyVars>>

\* The shield wakes the caller after the done callbacks of the task have run.
Resume(c) ==
    /\ pc[c] = "waiting"
    /\ cancel[c] = "no"
    /\ pc[awaited[c]] = "finished"
    /\ Detach(c, result[awaited[c]])

\* The shield keeps the cancellation of a caller away from the task.
Abandon(c) ==
    /\ pc[c] = "waiting"
    /\ cancel[c] = "pending"
    /\ Detach(c, Cancelled)
-----------------------------------------------------------------------------
(* invalidate *)

Invalidate(c) ==
    /\ pc[c] = "idle"
    /\ result[c].kind = "leased"
    /\ EnterExclusive(c, key[c])
    /\ UNCHANGED <<storeVars, renewVars, key, cancel, held, awaited, result, historyVars>>

\* What an invalidate of the a-th answer of k puts out of use: that answer, the older ones,
\* and those already given with the same access token.
OutOfUse(k, a) ==
    (1..a) \cup {n \in 1..issued[k] : AccessToken[k][n] = AccessToken[k][a]}

Reject(c) ==
    rejected' = [rejected EXCEPT ![key[c]] = @ \cup OutOfUse(key[c], result[c].access)]

\* Mutant: whatever is stored is expired.
IsStored(c) == store[key[c]] # NoToken

\* Answers m and n of k carry the same access token.
SameToken(k, m, n) == AccessToken[k][m] = AccessToken[k][n]

\* Mutant: the answers are compared, not the access tokens in them.
IsSameAnswer(c) == store[key[c]] # NoToken /\ store[key[c]].access = result[c].access

\* The stored access token is still the rejected one.
IsRejected(c) ==
    store[key[c]] # NoToken /\ SameToken(key[c], store[key[c]].access, result[c].access)

InvalidateLoaded(c) ==
    /\ pc[c] = "loading"
    /\ cancel[c] # "pending"
    /\ \/ /\ IsRejected(c)
          /\ held' = [held EXCEPT ![c] = store[key[c]]]
          /\ pc' = [pc EXCEPT ![c] = "saving"]
          /\ UNCHANGED <<lockVars, key, cancel, awaited, result, rejected>>
       \/ /\ ~IsRejected(c)
          /\ Exit(c, result[c])
          /\ Reject(c)
    /\ UNCHANGED <<storeVars, renewVars, barred>>

InvalidateSaved(c) ==
    /\ pc[c] = "saving"
    /\ cancel[c] # "pending"
    /\ store' = [store EXCEPT ![key[c]] = Effect(c)]
    /\ Exit(c, result[c])
    /\ Reject(c)
    /\ UNCHANGED <<issued, acquires, attempts, renewVars, barred>>
-----------------------------------------------------------------------------
(* _renew *)

Begin(t) ==
    /\ pc[t] = "created"
    /\ cancel[t] = "no"
    /\ EnterExclusive(t, key[t])
    /\ UNCHANGED <<storeVars, renewVars, key, cancel, held, awaited, result, historyVars>>

\* asyncio: a task cancelled before its first step never runs its body.
NeverBegun(t) ==
    /\ pc[t] = "created"
    /\ cancel[t] = "pending"
    /\ pc' = [pc EXCEPT ![t] = "done"]
    /\ result' = [result EXCEPT ![t] = Cancelled]
    /\ UNCHANGED <<storeVars, renewVars, lockVars, key, cancel, held, awaited, historyVars>>

Counted(n) == IF n < 2 THEN n + 1 ELSE n

\* Await provider.acquire.
CallAcquire(t) ==
    /\ pc' = [pc EXCEPT ![t] = "acquiring"]
    /\ acquires' = [acquires EXCEPT ![key[t]] = Counted(@)]

CanRefresh(t) == store[key[t]].refresh # 0 /\ key[t] \in Refreshing

\* Mutant: one attempt more than the bound.
GrantUsableOver(t) ==
    \/ key[t] \notin AuthorizationCode
    \/ /\ store[key[t]] = NoToken
       /\ key[t] \notin attempts
       /\ Cardinality(attempts) <= MaxAttempts

\* Not a consumed grant, nor a session that cannot be refreshed; no attempt is ever evicted.
GrantUsable(t) ==
    \/ key[t] \notin AuthorizationCode
    \/ /\ store[key[t]] = NoToken
       /\ key[t] \notin attempts
       /\ Cardinality(attempts) < MaxAttempts

\* Mutants of RecordAttempt: every flow recorded; the attempt not recorded before it is made.
RecordEveryFlow(t) == attempts' = attempts \cup {key[t]}
RecordLate(t) == UNCHANGED attempts

RecordAttempt(t) == attempts' = attempts \cup ({key[t]} \cap AuthorizationCode)

Loaded(t) ==
    LET stored == store[key[t]] IN
    /\ pc[t] = "loading"
    /\ cancel[t] # "pending"
    /\ \/ /\ stored.fresh
          /\ Exit(t, Lease(stored.access))
          /\ UNCHANGED <<acquires, attempts>>
       \/ /\ ~stored.fresh /\ CanRefresh(t)
          /\ pc' = [pc EXCEPT ![t] = "refreshing"]
          /\ held' = [held EXCEPT ![t] = stored]
          /\ UNCHANGED <<acquires, attempts, lockVars, key, cancel, awaited, result>>
       \/ /\ ~stored.fresh /\ ~CanRefresh(t) /\ ~GrantUsable(t)
          /\ Exit(t, Failure)
          /\ UNCHANGED <<acquires, attempts>>
       \/ /\ ~stored.fresh /\ ~CanRefresh(t) /\ GrantUsable(t)
          /\ CallAcquire(t)
          /\ RecordAttempt(t)
          /\ UNCHANGED <<lockVars, key, cancel, held, awaited, result>>
    /\ UNCHANGED <<store, issued, renewVars, historyVars>>

MayCommit(t) == ~Cancelling(t) /\ renewals[key[t]] = t /\ waiters[t] # {}

\* Begin persistence, unless the renewal was cancelled or has been replaced.
Commit(t, tokens) ==
    \/ /\ MayCommit(t)
       /\ committing' = [committing EXCEPT ![t] = TRUE]
       /\ pc' = [pc EXCEPT ![t] = "saving"]
       /\ held' = [held EXCEPT ![t] = tokens]
       /\ UNCHANGED <<lockVars, key, cancel, awaited, result>>
    \/ /\ ~MayCommit(t)
       /\ Exit(t, Cancelled)
       /\ UNCHANGED committing

\* A usable answer: it carries AccessToken[k][issued[k] + 1], new or given before, a refresh
\* token of its own or none, and it may already be within the expiry skew.
Answer(k) == {[access |-> issued[k] + 1, refresh |-> r, fresh |-> f] :
                  r \in {0, issued[k] + 1}, f \in BOOLEAN}

ProviderAnswers(t) ==
    /\ cancel[t] # "pending"
    /\ issued[key[t]] < MaxIssued
    /\ issued' = [issued EXCEPT ![key[t]] = @ + 1]
    /\ UNCHANGED <<store, acquires, attempts, renewals, waiters, historyVars>>

\* Mutant: the answer is stored as it came.
RetainNothing(answer, stored) == answer

\* An answer without a refresh token retains the one it was obtained with.
Retain(answer, stored) ==
    IF answer.refresh = 0 THEN [answer EXCEPT !.refresh = stored.refresh] ELSE answer

Refreshed(t) ==
    /\ pc[t] = "refreshing"
    /\ ProviderAnswers(t)
    /\ \E answer \in Answer(key[t]) : Commit(t, Retain(answer, held[t]))

\* invalid_grant: client credentials start over, behind one more cancellation point.
RefreshRejected(t) ==
    /\ pc[t] = "refreshing"
    /\ cancel[t] # "pending"
    /\ \/ /\ key[t] \in AuthorizationCode
          /\ Exit(t, Failure)
       \/ /\ key[t] \notin AuthorizationCode
          /\ pc' = [pc EXCEPT ![t] = "yielding"]
          /\ UNCHANGED <<lockVars, key, cancel, held, awaited, result>>
    /\ UNCHANGED <<storeVars, renewVars, historyVars>>

Yielded(t) ==
    /\ pc[t] = "yielding"
    /\ cancel[t] # "pending"
    /\ pc' = [pc EXCEPT ![t] = "removing"]
    /\ UNCHANGED <<storeVars, renewVars, lockVars, key, cancel, held, awaited, result, historyVars>>

Removed(t) ==
    /\ pc[t] = "removing"
    /\ cancel[t] # "pending"
    /\ store' = [store EXCEPT ![key[t]] = Effect(t)]
    /\ CallAcquire(t)
    /\ held' = [held EXCEPT ![t] = NoToken]
    /\ UNCHANGED <<issued, attempts, renewVars, lockVars, key, cancel, awaited, result, historyVars>>

Acquired(t) ==
    /\ pc[t] = "acquiring"
    /\ ProviderAnswers(t)
    /\ \E answer \in Answer(key[t]) : Commit(t, answer)

Saved(t) ==
    /\ pc[t] = "saving"
    /\ cancel[t] # "pending"
    /\ store' = [store EXCEPT ![key[t]] = Effect(t)]
    /\ Exit(t, Lease(held[t].access))
    /\ UNCHANGED <<issued, acquires, attempts, renewVars, historyVars>>

\* Mutant: the callback forgets whatever renewal the key has.
ForgetAny(t) == renewals' = [renewals EXCEPT ![key[t]] = NoTask]

Forget(t) == renewals' = [renewals EXCEPT ![key[t]] = IF @ = t THEN NoTask ELSE @]

\* The first done callback of the task: forget it unless another replaced it.
Finished(t) ==
    /\ pc[t] = "done"
    /\ pc' = [pc EXCEPT ![t] = "finished"]
    /\ Forget(t)
    /\ UNCHANGED <<storeVars, waiters, committing, lockVars, key, cancel, held, awaited, result, historyVars>>

\* Nobody refers to a finished task: its identity may be reused.
Collect(t) ==
    /\ pc[t] = "finished"
    /\ waiters[t] = {}
    /\ result[t] # Nothing
    /\ result' = [result EXCEPT ![t] = Nothing]
    /\ cancel' = [cancel EXCEPT ![t] = "no"]
    /\ committing' = [committing EXCEPT ![t] = FALSE]
    /\ UNCHANGED <<storeVars, renewals, waiters, lockVars, pc, key, held, awaited, historyVars>>

\* Time passes: a stored token set comes within the expiry skew.
Age(k) ==
    /\ store[k].fresh
    /\ store' = [store EXCEPT ![k].fresh = FALSE]
    /\ UNCHANGED <<issued, acquires, attempts, renewVars, lockVars, localVars, historyVars>>
-----------------------------------------------------------------------------
CallerStep(c) ==
    \/ EntryCancelled(c)
    \/ ResolveFails(c)
    \/ Join(c)
    \/ \E t \in Tasks : StartRenewal(c, t)
    \/ Resume(c)
    \/ Abandon(c)
    \/ InvalidateLoaded(c)
    \/ InvalidateSaved(c)

TaskStep(t) ==
    \/ Begin(t)
    \/ NeverBegun(t)
    \/ Loaded(t)
    \/ Refreshed(t)
    \/ RefreshRejected(t)
    \/ Yielded(t)
    \/ Removed(t)
    \/ Acquired(t)
    \/ Saved(t)
    \/ Finished(t)
    \/ Collect(t)

SharedStep(u) == Interrupted(u) \/ CallFails(u)

Environment ==
    \/ \E c \in Callers, k \in Keys : Call(c, k)
    \/ \E c \in Callers : CancelCaller(c)
    \/ \E c \in Callers : Invalidate(c)
    \/ \E u \in Users : Swallowed(u)
    \/ \E k \in Keys : Age(k)

Next ==
    \/ \E c \in Callers : CallerStep(c)
    \/ \E t \in Tasks : TaskStep(t)
    \/ \E u \in Users : SharedStep(u)
    \/ \E u \in Users : LockGranted(u)
    \/ Environment

Spec == Init /\ [][Next]_vars

\* The event loop runs what is ready, asyncio.Lock wakes its waiters in order, and
\* every provider and store call returns, raises or is interrupted in the end.
Fairness ==
    /\ \A c \in Callers : WF_vars(CallerStep(c) \/ SharedStep(c))
    /\ \A t \in Tasks : WF_vars(TaskStep(t) \/ SharedStep(t))
    /\ \A u \in Users : SF_vars(LockGranted(u))

FairSpec == Spec /\ Fairness
-----------------------------------------------------------------------------
(* What the manager promises. *)

\* At most one coroutine is inside _exclusive for a key, through whichever lock object
\* it got there: a renewal that ignores its cancellation, the renewal that replaced it
\* and the invalidations of rejected tokens take turns (lines 99, 147-157, 162).
MutualExclusion ==
    \A u, v \in Users :
        (pc[u] \in Critical /\ pc[v] \in Critical /\ key[u] = key[v]) => u = v

\* Coalescing: a key never has two renewals in flight that are not being cancelled
\* (lines 82-86, 211-213).
SingleFlight ==
    \A t, u \in Tasks :
        /\ pc[t] \in Live /\ pc[u] \in Live /\ key[t] = key[u]
        /\ ~Cancelling(t) /\ ~Cancelling(u)
        => t = u

\* A renewal nobody waits for is being cancelled or is saving its tokens (lines 92-94).
NoOrphan ==
    \A t \in Tasks :
        (pc[t] \in Live /\ waiters[t] = {}) => (Cancelling(t) \/ committing[t])

\* A renewal that persists its tokens has not been cancelled and is not replaced while it
\* does, whatever its callers do (lines 52-57, 93, 193-204).
PersistenceProtected ==
    \A t \in Tasks :
        pc[t] = "saving" => (cancel[t] = "no" /\ renewals[key[t]] = t)

\* An authorization code is presented to the provider at most once per grant identity, even
\* when the exchange fails or is cancelled (lines 177-187).
GrantOnce == \A k \in AuthorizationCode : acquires[k] <= 1

\* The history of attempted grants is bounded and never evicted: beyond it no further code is
\* presented, and the manager fails closed (lines 183-186).
GrantHistoryBounded ==
    Cardinality({k \in AuthorizationCode : acquires[k] > 0}) <= MaxAttempts

\* A call of credentials begun after invalidate returned for a rejected lease never returns
\* the answer it came from, an older one, nor another answer that had been given by then with
\* the same access token: what a 401 is replayed with the provider gave after the token was
\* obtained that was refused.  It is a new access token unless the provider repeats itself, as
\* a static one does, whose token the code takes again (lines 80, 96-104, 187-205).
NoRejectedLease ==
    \A c \in Callers : result[c].kind = "leased" => result[c].access \notin barred[c]

\* What is stored for a key is replaced only by a later answer of the provider, whether or not
\* its access token differs, or expired in place: neither an invalidation nor a late renewal
\* brings an older token set back, and the refresh token of a refreshing provider is never
\* dropped (lines 96-104, 168-170, 193-204).
Forward(old, new, k) ==
    \/ new = NoToken
    \/ old = NoToken
    \/ new = old
    \/ new = [old EXCEPT !.fresh = FALSE]
    \/ new.access > old.access /\ (k \in Refreshing => new.refresh >= old.refresh)

StoreMovesForward == [][\A k \in Keys : Forward(store[k], store'[k], k)]_vars

\* Only a caller that was itself cancelled sees a cancellation: the one its neighbours asked
\* for, and the one of the renewal they abandoned, stay away from it (lines 83, 88-94).
CancelledOnlyIfAsked ==
    [][\A c \in Callers :
          (result'[c] = Cancelled /\ result[c] # Cancelled) => cancel[c] = "pending"]_vars

\* Saving an invalidation expires the access token that was rejected and nothing else
\* (lines 96-102).
ExpiresOnlyRejected ==
    [][\A c \in Callers :
          (pc[c] = "saving" /\ store' # store) =>
              \/ \E k \in Keys \ {key[c]} : store'[k] # store[k]
              \/ /\ SameToken(key[c], store[key[c]].access, result[c].access)
                 /\ store'[key[c]] = [store[key[c]] EXCEPT !.fresh = FALSE]]_vars

\* Every call of credentials and of invalidate is answered, whichever callers, renewals and
\* stores were cancelled meanwhile: no lock is left held and no waiter forgotten.
Answered == \A c \in Callers : pc[c] # "idle" ~> pc[c] = "idle"
-----------------------------------------------------------------------------
(* The promise to callers, without tasks, locks and store: CredentialService. *)

PhaseOf(c) ==
    CASE pc[c] = "idle" -> "idle"
      [] pc[c] \in {"entering", "waiting"} -> "asking"
      [] OTHER -> "rejecting"

SubjectOf(c) == IF PhaseOf(c) = "rejecting" THEN result[c].access ELSE 0

Service == INSTANCE CredentialService WITH
    MaxIssued <- [k \in Keys |-> MaxIssued],
    phase   <- [c \in Callers |-> PhaseOf(c)],
    key     <- [c \in Callers |-> key[c]],
    subject <- [c \in Callers |-> SubjectOf(c)],
    asked   <- [c \in Callers |-> cancel[c] = "pending"],
    result  <- [c \in Callers |-> result[c]]

\* Tasks, locks and store implement the credential service: every call is answered with an
\* answer given by the provider and not put out of use before the call, or fails, or ends in its
\* own cancellation, whatever the other callers and renewals do (lines 68-104, 159-204).
ImplementsService == Service!ServiceSpec
=============================================================================
