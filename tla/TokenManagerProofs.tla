------------------------- MODULE TokenManagerProofs -------------------------
(* What TokenManager promises, proved for every value of its constants. *)
EXTENDS TokenManager, FiniteSetTheorems, TLAPS

-----------------------------------------------------------------------------
(* Types *)

LEMMA InitTypeOK == Init => TypeOK
<1> SUFFICES ASSUME Init PROVE TypeOK
  OBVIOUS
<1>1. store \in [Keys -> Token] /\ issued \in [Keys -> 0..MaxIssued]
  BY ConstantsAssumption DEF Init, Token, NoToken
<1> QED
  BY <1>1, ConstantsAssumption
  DEF Init, TypeOK, Users, Live, Exclusive, Critical, Result, Nothing, NoToken, Token

\* The part of TypeOK about locks and coroutines.
LocalsOK ==
    /\ locks \in [Keys -> Locks \cup {NoLock}]
    /\ locked \in [Locks -> BOOLEAN]
    /\ lockOf \in [Users -> Locks \cup {NoLock}]
    /\ pc \in [Users -> Live \cup {"idle", "entering", "waiting", "done", "finished"}]
    /\ key \in [Users -> Keys]
    /\ cancel \in [Users -> {"no", "pending", "swallowed"}]
    /\ held \in [Users -> Token]
    /\ awaited \in [Callers -> Tasks \cup {NoTask}]
    /\ \A c \in Callers : pc[c] = "waiting" => awaited[c] \in Tasks
    /\ result \in [Users -> Result]

LEMMA EffectType ==
    ASSUME TypeOK, NEW u \in Users
    PROVE  Effect(u) \in Token
<1>1. NoToken \in Token
  BY ConstantsAssumption DEF NoToken, Token
<1>2. \A s \in Token : [s EXCEPT !.fresh = FALSE] \in Token
  BY DEF Token
<1>3. held[u] \in Token /\ store[key[u]] \in Token
  BY DEF TypeOK
<1> QED
  BY <1>1, <1>2, <1>3 DEF Effect

LEMMA ExitType ==
    ASSUME TypeOK, NEW u \in Users, NEW r \in Result, Exit(u, r)
    PROVE  LocalsOK'
<1>1. NoToken \in Token
  BY ConstantsAssumption DEF NoToken, Token
<1>2. locks' \in [Keys -> Locks \cup {NoLock}]
  BY DEF TypeOK, Exit, LeaveExclusive
<1>3. locked' \in [Locks -> BOOLEAN]
  BY DEF TypeOK, Exit, LeaveExclusive
<1>4. lockOf' \in [Users -> Locks \cup {NoLock}]
  BY DEF TypeOK, Exit, LeaveExclusive
<1>5. pc' \in [Users -> Live \cup {"idle", "entering", "waiting", "done", "finished"}]
  BY DEF TypeOK, Exit
<1>6. cancel' \in [Users -> {"no", "pending", "swallowed"}]
  BY DEF TypeOK, Exit
<1>7. held' \in [Users -> Token]
  BY <1>1 DEF TypeOK, Exit
<1>8. result' \in [Users -> Result]
  BY DEF TypeOK, Exit
<1>9. \A c \in Callers : pc'[c] = "waiting" => pc[c] = "waiting"
  BY DEF TypeOK, Exit, Users
<1> QED
  BY <1>2, <1>3, <1>4, <1>5, <1>6, <1>7, <1>8, <1>9 DEF TypeOK, Exit, LocalsOK
LEMMA ResultType ==
    /\ Nothing \in Result /\ Failure \in Result /\ Cancelled \in Result
    /\ \A a \in 0..MaxIssued : Lease(a) \in Result
BY ConstantsAssumption DEF Nothing, Failure, Cancelled, Lease, Result

LEMMA EnterType ==
    ASSUME TypeOK, NEW u \in Users, NEW k \in Keys, EnterExclusive(u, k)
    PROVE  /\ locks' \in [Keys -> Locks \cup {NoLock}]
           /\ locked' \in [Locks -> BOOLEAN]
           /\ lockOf' \in [Users -> Locks \cup {NoLock}]
           /\ pc' \in [Users -> Live \cup {"idle", "entering", "waiting", "done", "finished"}]
           /\ \A c \in Callers : pc'[c] = "waiting" => pc[c] = "waiting"
<1>1. PICK l \in Locks :
        /\ locks' = [locks EXCEPT ![k] = l]
        /\ lockOf' = [lockOf EXCEPT ![u] = l]
        /\ \/ locked' = [locked EXCEPT ![l] = TRUE] /\ pc' = [pc EXCEPT ![u] = "loading"]
           \/ UNCHANGED locked /\ pc' = [pc EXCEPT ![u] = "locking"]
  BY DEF EnterExclusive
<1> QED
  BY <1>1 DEF TypeOK, Live, Exclusive, Critical, Users

LEMMA AnswerType ==
    ASSUME TypeOK, NEW t \in Tasks, issued[key[t]] < MaxIssued,
           NEW answer \in Answer(key[t])
    PROVE  /\ answer \in Token
           /\ Retain(answer, held[t]) \in Token
<1>1. key[t] \in Keys /\ held[t] \in Token
  BY DEF TypeOK, Users
<1>2. issued[key[t]] \in 0..MaxIssued
  BY <1>1 DEF TypeOK
<1>3. answer \in Token
  BY <1>2, ConstantsAssumption DEF Answer, Token
<1>4. [answer EXCEPT !.refresh = held[t].refresh] \in Token
  BY <1>1, <1>3 DEF Token
<1> QED
  BY <1>3, <1>4 DEF Retain

LEMMA CommitType ==
    ASSUME TypeOK, NEW t \in Tasks, NEW tokens \in Token, Commit(t, tokens)
    PROVE  /\ committing' \in [Tasks -> BOOLEAN]
           /\ LocalsOK'
<1>1. t \in Users /\ Cancelled \in Result
  BY ResultType DEF Users
<1>2. CASE MayCommit(t)
  <2>1. /\ committing' = [committing EXCEPT ![t] = TRUE]
        /\ pc' = [pc EXCEPT ![t] = "saving"]
        /\ held' = [held EXCEPT ![t] = tokens]
        /\ UNCHANGED <<lockVars, key, cancel, awaited, result>>
    BY <1>2 DEF Commit
  <2> QED
    BY <1>1, <2>1 DEF TypeOK, LocalsOK, lockVars, Live, Exclusive, Critical, Users
<1>3. CASE ~MayCommit(t)
  <2>1. Exit(t, Cancelled) /\ UNCHANGED committing
    BY <1>3 DEF Commit
  <2> QED
    BY <1>1, <2>1, ExitType DEF TypeOK
<1> QED
  BY <1>2, <1>3

LEMMA DetachType ==
    ASSUME TypeOK, NEW c \in Callers, NEW r \in Result, Detach(c, r),
           pc[c] = "waiting"
    PROVE  TypeOK'
<1>1. c \in Users
  BY DEF Users
<1>2. pc' \in [Users -> Live \cup {"idle", "entering", "waiting", "done", "finished"}]
      /\ result' \in [Users -> Result]
  BY <1>1 DEF Detach, Return, TypeOK
<1>3. waiters' \in [Tasks -> SUBSET Callers]
  BY DEF Detach, TypeOK
<1>4. cancel' \in [Users -> {"no", "pending", "swallowed"}]
  BY DEF Detach, TypeOK
<1>5. awaited' \in [Callers -> Tasks \cup {NoTask}]
  BY DEF Detach, TypeOK
<1>6. \A d \in Callers : pc'[d] = "waiting" => awaited'[d] \in Tasks
  BY <1>1 DEF Detach, Return, TypeOK, Users
<1> QED
  BY <1>2, <1>3, <1>4, <1>5, <1>6 DEF Detach, TypeOK, storeVars, lockVars, historyVars

LEMMA RejectType ==
    ASSUME TypeOK, NEW c \in Callers, Reject(c)
    PROVE  rejected' \in [Keys -> SUBSET (1..MaxIssued)]
<1> DEFINE k == key[c]
           a == result[c].access
<1>1. result[c] \in Result /\ k \in Keys
  BY DEF TypeOK, Users
<1>2. a \in 0..MaxIssued
  BY <1>1 DEF Result
<1>3. issued[k] \in 0..MaxIssued
  BY <1>1 DEF TypeOK
<1> HIDE DEF k, a
<1>4. 1..a \subseteq 1..MaxIssued /\ 1..issued[k] \subseteq 1..MaxIssued
  BY <1>2, <1>3, ConstantsAssumption
<1>5. OutOfUse(k, a) \in SUBSET (1..MaxIssued)
  BY <1>4 DEF OutOfUse
<1>6. rejected' = [rejected EXCEPT ![k] = rejected[k] \cup OutOfUse(k, a)]
  BY DEF Reject, k, a
<1>7. rejected \in [Keys -> SUBSET (1..MaxIssued)]
  BY DEF TypeOK
<1>8. rejected[k] \cup OutOfUse(k, a) \in SUBSET (1..MaxIssued)
  BY <1>1, <1>5, <1>7
<1> QED
  BY <1>1, <1>6, <1>7, <1>8

\* Every step keeps the types of the variables.
LEMMA NextTypeOK == TypeOK /\ [Next]_vars => TypeOK'
<1> SUFFICES ASSUME TypeOK, [Next]_vars PROVE TypeOK'
  OBVIOUS
<1> USE DEF storeVars, renewVars, lockVars, localVars, historyVars
<1>u. Callers \subseteq Users /\ Tasks \subseteq Users
  BY DEF Users
<1>s. CASE UNCHANGED vars
  BY <1>s DEF TypeOK, vars
<1>1. ASSUME NEW c \in Callers, CallerStep(c) PROVE TypeOK'
  <2>1. CASE EntryCancelled(c)
    BY <2>1, <1>u, ResultType DEF EntryCancelled, Return, TypeOK
  <2>8. CASE ResolveFails(c)
    BY <2>8, <1>u, ResultType DEF ResolveFails, Return, TypeOK
  <2>2. CASE Join(c)
    <3> DEFINE t == renewals[key[c]]
    <3>1. key[c] \in Keys /\ t \in Tasks
      BY <2>2, <1>u DEF Join, Joinable, TypeOK
    <3>2. CASE Return(c, result[t]) /\ UNCHANGED <<waiters, awaited>>
      BY <2>2, <3>1, <3>2, <1>u DEF Join, Return, TypeOK
    <3>3. CASE /\ pc' = [pc EXCEPT ![c] = "waiting"]
               /\ waiters' = [waiters EXCEPT ![t] = @ \cup {c}]
               /\ awaited' = [awaited EXCEPT ![c] = t]
               /\ UNCHANGED result
      <4> HIDE DEF t
      <4>1. /\ pc' \in [Users -> Live \cup {"idle", "entering", "waiting", "done", "finished"}]
            /\ waiters' \in [Tasks -> SUBSET Callers]
            /\ awaited' \in [Callers -> Tasks \cup {NoTask}]
            /\ \A d \in Callers : pc'[d] = "waiting" => awaited'[d] \in Tasks
        BY <3>1, <3>3, <1>u DEF TypeOK
      <4> QED
        BY <2>2, <4>1, <3>3 DEF Join, TypeOK
    <3> QED
      BY <2>2, <3>2, <3>3 DEF Join
  <2>3. ASSUME NEW t \in Tasks, StartRenewal(c, t) PROVE TypeOK'
    BY <2>3, <1>u DEF StartRenewal, TypeOK, Live
  <2>4. CASE Resume(c)
    <3>1. result[awaited[c]] \in Result
      BY <2>4, <1>u DEF Resume, TypeOK
    <3> QED
      BY <2>4, <3>1, DetachType DEF Resume
  <2>5. CASE Abandon(c)
    BY <2>5, <1>u, DetachType, ResultType DEF Abandon
  <2>6. CASE InvalidateLoaded(c)
    <3>1. c \in Users /\ result[c] \in Result
      BY <1>u DEF TypeOK
    <3>2. CASE Exit(c, result[c]) /\ Reject(c)
      BY <2>6, <3>1, <3>2, ExitType, RejectType DEF InvalidateLoaded, TypeOK, LocalsOK
    <3>3. CASE IsRejected(c)
      <4>1. /\ held' = [held EXCEPT ![c] = store[key[c]]]
            /\ pc' = [pc EXCEPT ![c] = "saving"]
            /\ UNCHANGED <<lockVars, key, cancel, awaited, result, rejected>>
            /\ UNCHANGED <<storeVars, renewVars, barred>>
        BY <2>6, <3>3 DEF InvalidateLoaded
      <4>2. store[key[c]] \in Token
        BY <3>1 DEF TypeOK
      <4>3. /\ held' \in [Users -> Token]
            /\ pc' \in [Users -> Live \cup {"idle", "entering", "waiting", "done", "finished"}]
            /\ \A d \in Callers : pc'[d] = "waiting" => awaited'[d] \in Tasks
        BY <3>1, <4>1, <4>2, <1>u DEF TypeOK, Live, Exclusive, Critical
      <4> QED
        BY <4>1, <4>3 DEF TypeOK
    <3> QED
      BY <2>6, <3>2, <3>3 DEF InvalidateLoaded
  <2>7. CASE InvalidateSaved(c)
    <3>1. c \in Users /\ result[c] \in Result /\ Effect(c) \in Token
      BY <1>u, EffectType DEF TypeOK
    <3> QED
      BY <2>7, <3>1, ExitType, RejectType DEF InvalidateSaved, TypeOK, LocalsOK
  <2> QED
    BY <1>1, <2>1, <2>2, <2>3, <2>4, <2>5, <2>6, <2>7, <2>8 DEF CallerStep
<1>2. ASSUME NEW t \in Tasks, TaskStep(t) PROVE TypeOK'
  <2>1. CASE Begin(t)
    BY <2>1, <1>u, EnterType DEF Begin, TypeOK
  <2>2. CASE NeverBegun(t)
    BY <2>2, <1>u, ResultType DEF NeverBegun, TypeOK
  <2>3. CASE Loaded(t)
    <3>1. t \in Users /\ key[t] \in Keys /\ store[key[t]] \in Token
      BY <1>u DEF TypeOK
    <3>2. Lease(store[key[t]].access) \in Result /\ Failure \in Result
      BY <3>1, ResultType DEF Token
    <3>3. CASE \E r \in {Lease(store[key[t]].access), Failure} : Exit(t, r) /\ UNCHANGED <<acquires, attempts>>
      BY <2>3, <3>1, <3>2, <3>3, ExitType DEF Loaded, TypeOK, LocalsOK
    <3>4. CASE pc' = [pc EXCEPT ![t] = "refreshing"]
               /\ held' = [held EXCEPT ![t] = store[key[t]]]
               /\ UNCHANGED <<acquires, attempts, lockVars, key, cancel, awaited, result>>
      BY <2>3, <3>1, <3>4 DEF Loaded, TypeOK, Live, Exclusive, Critical
    <3>5. CASE /\ CallAcquire(t) /\ RecordAttempt(t)
               /\ UNCHANGED <<lockVars, key, cancel, held, awaited, result>>
      BY <2>3, <3>1, <3>5 DEF Loaded, CallAcquire, Counted, RecordAttempt, TypeOK, Live, Exclusive, Critical
    <3> QED
      BY <2>3, <3>3, <3>4, <3>5 DEF Loaded
  <2>4. CASE Refreshed(t)
    <3>1. PICK answer \in Answer(key[t]) : Commit(t, Retain(answer, held[t]))
      BY <2>4 DEF Refreshed
    <3>2. Retain(answer, held[t]) \in Token
      BY <2>4, <3>1, AnswerType DEF Refreshed, ProviderAnswers
    <3>3. LocalsOK' /\ committing' \in [Tasks -> BOOLEAN]
      BY <3>1, <3>2, CommitType
    <3>4. issued' \in [Keys -> 0..MaxIssued]
      BY <2>4, <1>u, ConstantsAssumption DEF Refreshed, ProviderAnswers, TypeOK
    <3> QED
      BY <2>4, <3>3, <3>4 DEF Refreshed, ProviderAnswers, TypeOK, LocalsOK
  <2>5. CASE RefreshRejected(t)
    <3>1. CASE Exit(t, Failure)
      BY <2>5, <3>1, <1>u, ExitType, ResultType DEF RefreshRejected, TypeOK, LocalsOK
    <3>2. CASE ~Exit(t, Failure)
      BY <2>5, <3>2, <1>u DEF RefreshRejected, TypeOK, Live, Exclusive, Critical
    <3> QED
      BY <3>1, <3>2
  <2>6. CASE Yielded(t)
    BY <2>6, <1>u DEF Yielded, TypeOK, Live, Exclusive, Critical
  <2>7. CASE Removed(t)
    BY <2>7, <1>u, EffectType, ConstantsAssumption
    DEF Removed, CallAcquire, Counted, TypeOK, Live, Exclusive, Critical, NoToken, Token
  <2>8. CASE Acquired(t)
    <3>1. PICK answer \in Answer(key[t]) : Commit(t, answer)
      BY <2>8 DEF Acquired
    <3>2. answer \in Token
      BY <2>8, <3>1, AnswerType DEF Acquired, ProviderAnswers
    <3>3. LocalsOK' /\ committing' \in [Tasks -> BOOLEAN]
      BY <3>1, <3>2, CommitType
    <3>4. issued' \in [Keys -> 0..MaxIssued]
      BY <2>8, <1>u, ConstantsAssumption DEF Acquired, ProviderAnswers, TypeOK
    <3> QED
      BY <2>8, <3>3, <3>4 DEF Acquired, ProviderAnswers, TypeOK, LocalsOK
  <2>9. CASE Saved(t)
    <3>1. t \in Users /\ Effect(t) \in Token /\ held[t] \in Token
      BY <1>u, EffectType DEF TypeOK
    <3>2. Lease(held[t].access) \in Result
      BY <3>1, ResultType DEF Token
    <3> QED
      BY <2>9, <3>1, <3>2, ExitType DEF Saved, TypeOK, LocalsOK
  <2>10. CASE Finished(t)
    BY <2>10, <1>u DEF Finished, Forget, TypeOK
  <2>11. CASE Collect(t)
    BY <2>11, <1>u, ResultType DEF Collect, TypeOK
  <2> QED
    BY <1>2, <2>1, <2>2, <2>3, <2>4, <2>5, <2>6, <2>7, <2>8, <2>9, <2>10, <2>11 DEF TaskStep
<1>3. ASSUME NEW u \in Users, SharedStep(u) \/ LockGranted(u) \/ Swallowed(u) PROVE TypeOK'
  <2>1. CASE Interrupted(u)
    <3>1. LocalsOK'
      BY <2>1, ExitType, ResultType DEF Interrupted
    <3>2. store' \in [Keys -> Token]
      BY <2>1, EffectType DEF Interrupted, MaybeEffect, TypeOK
    <3> QED
      BY <2>1, <3>1, <3>2 DEF Interrupted, TypeOK, LocalsOK
  <2>2. CASE CallFails(u)
    <3>1. LocalsOK'
      BY <2>2, ExitType, ResultType DEF CallFails
    <3>2. store' \in [Keys -> Token]
      BY <2>2, EffectType DEF CallFails, MaybeEffect, TypeOK
    <3> QED
      BY <2>2, <3>1, <3>2 DEF CallFails, TypeOK, LocalsOK
  <2>3. CASE LockGranted(u)
    BY <2>3 DEF LockGranted, TypeOK, Live, Exclusive, Critical, Users
  <2>4. CASE Swallowed(u)
    BY <2>4 DEF Swallowed, TypeOK
  <2> QED
    BY <1>3, <2>1, <2>2, <2>3, <2>4 DEF SharedStep
<1>4. CASE Environment
  <2>1. ASSUME NEW c \in Callers, NEW k \in Keys, Call(c, k) PROVE TypeOK'
    BY <2>1, <1>u, ResultType DEF Call, TypeOK
  <2>2. ASSUME NEW c \in Callers, CancelCaller(c) PROVE TypeOK'
    BY <2>2, <1>u DEF CancelCaller, TypeOK
  <2>3. ASSUME NEW c \in Callers, Invalidate(c) PROVE TypeOK'
    BY <2>3, <1>u, EnterType DEF Invalidate, TypeOK
  <2>4. ASSUME NEW k \in Keys, Age(k) PROVE TypeOK'
    <3>1. store[k] \in Token
      BY DEF TypeOK
    <3>2. [store[k] EXCEPT !.fresh = FALSE] \in Token
      BY <3>1 DEF Token
    <3> QED
      BY <2>4, <3>2 DEF Age, TypeOK
  <2> QED
    BY <1>3, <1>4, <2>1, <2>2, <2>3, <2>4 DEF Environment
<1> QED
  BY <1>s, <1>1, <1>2, <1>3, <1>4 DEF Next

\* Every reachable state has the declared types.
THEOREM TypeCorrect == Spec => []TypeOK
<1> QED
  BY InitTypeOK, NextTypeOK, PTL DEF Spec
-----------------------------------------------------------------------------
(* Locks: the entry of a key exists while someone uses it, so that all users of a key  *)
(* meet at one lock object.                                                            *)

CallerPoints == {"idle", "entering", "waiting", "locking", "loading", "saving"}
TaskPoints == Live \cup {"done", "finished"}

PointsOK ==
    /\ \A c \in Callers : pc[c] \in CallerPoints
    /\ \A t \in Tasks : pc[t] \in TaskPoints

LockInv ==
    /\ \A u \in Users : pc[u] \in Exclusive <=> lockOf[u] # NoLock
    /\ \A u \in Users : pc[u] \in Exclusive => locks[key[u]] = lockOf[u]
    /\ \A k \in Keys : locks[k] # NoLock => \E u \in Users : lockOf[u] = locks[k]
    /\ \A j, k \in Keys : (locks[j] = locks[k] /\ locks[j] # NoLock) => j = k
    /\ \A u \in Users : pc[u] \in Critical => locked[lockOf[u]]
    /\ \A u, v \in Users : (pc[u] \in Critical /\ pc[v] \in Critical /\ lockOf[u] = lockOf[v]) => u = v

LEMMA InitLockInv == Init => PointsOK /\ LockInv
BY ConstantsAssumption
DEF Init, PointsOK, LockInv, Users, CallerPoints, TaskPoints, Exclusive, Critical

\* A step that leaves everybody on the same side of the locks.
LEMMA LockQuiet ==
    ASSUME TypeOK, LockInv, UNCHANGED lockVars,
           \A u \in Users : /\ pc'[u] \in Exclusive <=> pc[u] \in Exclusive
                            /\ pc'[u] \in Critical <=> pc[u] \in Critical
                            /\ pc[u] \in Exclusive => key'[u] = key[u]
    PROVE  LockInv'
BY DEF LockInv, lockVars

LEMMA LockEnter ==
    ASSUME TypeOK, LockInv, NEW u \in Users, pc[u] \notin Exclusive,
           EnterExclusive(u, key[u]), key' = key
    PROVE  LockInv'
<1> USE DEF Exclusive, Critical
<1>k. key[u] \in Keys /\ lockOf[u] = NoLock
  BY DEF TypeOK, LockInv
<1>1. PICK l \in Locks :
        /\ IF locks[key[u]] = NoLock THEN LockUsers(l) = {} ELSE l = locks[key[u]]
        /\ locks' = [locks EXCEPT ![key[u]] = l]
        /\ lockOf' = [lockOf EXCEPT ![u] = l]
        /\ \/ /\ LockUsers(l) = {}
              /\ locked' = [locked EXCEPT ![l] = TRUE]
              /\ pc' = [pc EXCEPT ![u] = "loading"]
           \/ /\ LockUsers(l) # {}
              /\ pc' = [pc EXCEPT ![u] = "locking"]
              /\ UNCHANGED locked
  BY DEF EnterExclusive
<1>n. l # NoLock
  BY ConstantsAssumption
<1>2. \A v \in Users \ {u} : pc'[v] = pc[v] /\ lockOf'[v] = lockOf[v]
  BY <1>1 DEF TypeOK
<1>3. pc'[u] \in {"loading", "locking"} /\ lockOf'[u] = l
  BY <1>1 DEF TypeOK
<1>4. locks'[key[u]] = l /\ \A k \in Keys \ {key[u]} : locks'[k] = locks[k]
  BY <1>1, <1>k DEF TypeOK
<1>5. \A k \in Keys \ {key[u]} : locks[k] # l
  <2>1. CASE locks[key[u]] = NoLock
    BY <1>1, <1>n, <2>1 DEF LockInv, LockUsers
  <2>2. CASE locks[key[u]] # NoLock
    BY <1>1, <1>k, <1>n, <2>2 DEF LockInv
  <2> QED
    BY <2>1, <2>2
<1>6. \A v \in Users : pc'[v] \in Exclusive <=> lockOf'[v] # NoLock
  BY <1>2, <1>3, <1>n DEF LockInv
<1>7. \A v \in Users : pc'[v] \in Exclusive => locks'[key'[v]] = lockOf'[v]
  <2> TAKE v \in Users
  <2>1. CASE v = u
    BY <1>3, <1>4, <2>1
  <2>2. CASE v # u /\ key[v] # key[u]
    BY <1>2, <1>4, <2>2 DEF LockInv, TypeOK
  <2>3. CASE v # u /\ key[v] = key[u] /\ pc[v] \in Exclusive
    BY <1>1, <1>2, <1>4, <2>3 DEF LockInv
  <2> QED
    BY <1>2, <2>1, <2>2, <2>3
<1>8. \A k \in Keys : locks'[k] # NoLock => \E v \in Users : lockOf'[v] = locks'[k]
  <2> TAKE k \in Keys
  <2>1. CASE k = key[u]
    BY <1>3, <1>4, <2>1
  <2>2. CASE k # key[u]
    BY <1>2, <1>4, <1>k, <2>2 DEF LockInv
  <2> QED
    BY <2>1, <2>2
<1>9. \A j, k \in Keys : (locks'[j] = locks'[k] /\ locks'[j] # NoLock) => j = k
  BY <1>4, <1>5 DEF LockInv
<1>10. \A v \in Users : pc'[v] \in Critical => locked'[lockOf'[v]]
  BY <1>1, <1>2, <1>3 DEF LockInv, TypeOK
<1>11. \A v, w \in Users : (pc'[v] \in Critical /\ pc'[w] \in Critical /\ lockOf'[v] = lockOf'[w]) => v = w
  <2>1. CASE LockUsers(l) = {}
    BY <1>2, <1>3, <2>1 DEF LockInv, LockUsers
  <2>2. CASE LockUsers(l) # {}
    <3>1. pc'[u] = "locking"
      BY <1>1, <2>2 DEF TypeOK
    <3> QED
      BY <1>2, <3>1 DEF LockInv
  <2> QED
    BY <2>1, <2>2
<1> QED
  BY <1>6, <1>7, <1>8, <1>9, <1>10, <1>11 DEF LockInv

LEMMA LockLeave ==
    ASSUME TypeOK, LockInv, NEW u \in Users, pc[u] \in Exclusive, LeaveExclusive(u),
           NEW p \in {"idle", "done"}, pc' = [pc EXCEPT ![u] = p], key' = key
    PROVE  LockInv'
<1> DEFINE l == lockOf[u]
<1>k. key[u] \in Keys /\ l \in Locks /\ l # NoLock /\ locks[key[u]] = l
  BY DEF TypeOK, LockInv
<1>1. lockOf'[u] = NoLock /\ \A v \in Users \ {u} : lockOf'[v] = lockOf[v]
  BY DEF LeaveExclusive, TypeOK
<1>2. pc'[u] \notin Exclusive /\ \A v \in Users \ {u} : pc'[v] = pc[v]
  BY DEF TypeOK, Exclusive, Critical
<1>3. /\ locks'[key[u]] = IF LockUsers(l) = {u} THEN NoLock ELSE l
      /\ \A k \in Keys \ {key[u]} : locks'[k] = locks[k]
  BY <1>k DEF LeaveExclusive, TypeOK
<1>4. \A m \in Locks \ {l} : locked'[m] = locked[m]
  BY DEF LeaveExclusive, TypeOK
<1>5. \A v \in Users : pc'[v] \in Exclusive <=> lockOf'[v] # NoLock
  BY <1>1, <1>2 DEF LockInv
<1>6. \A v \in Users : pc'[v] \in Exclusive => locks'[key'[v]] = lockOf'[v]
  <2> SUFFICES ASSUME NEW v \in Users, pc'[v] \in Exclusive
               PROVE  locks'[key'[v]] = lockOf'[v]
    OBVIOUS
  <2>1. v # u /\ pc[v] \in Exclusive /\ locks[key[v]] = lockOf[v] /\ key[v] \in Keys
    BY <1>2 DEF LockInv, TypeOK
  <2>2. CASE key[v] = key[u]
    <3>1. v \in LockUsers(l)
      BY <1>k, <2>1, <2>2 DEF LockUsers
    <3> QED
      BY <1>1, <1>3, <1>k, <2>1, <2>2, <3>1
  <2>3. CASE key[v] # key[u]
    BY <1>1, <1>3, <2>1, <2>3
  <2> QED
    BY <2>2, <2>3
<1>7. \A k \in Keys : locks'[k] # NoLock => \E v \in Users : lockOf'[v] = locks'[k]
  <2> SUFFICES ASSUME NEW k \in Keys, locks'[k] # NoLock
               PROVE  \E v \in Users : lockOf'[v] = locks'[k]
    OBVIOUS
  <2>1. CASE k = key[u]
    <3>1. PICK v \in Users \ {u} : lockOf[v] = l
      BY <1>3, <2>1 DEF LockUsers
    <3> QED
      BY <1>1, <1>3, <2>1, <3>1
  <2>2. CASE k # key[u]
    <3>1. PICK v \in Users : lockOf[v] = locks[k]
      BY <1>3, <2>2 DEF LockInv
    <3>2. v # u
      BY <1>3, <1>k, <2>2, <3>1 DEF LockInv
    <3> QED
      BY <1>1, <1>3, <2>2, <3>1, <3>2
  <2> QED
    BY <2>1, <2>2
<1>8. \A j, k \in Keys : (locks'[j] = locks'[k] /\ locks'[j] # NoLock) => j = k
  BY <1>3, <1>k DEF LockInv
<1>9. \A v \in Users : pc'[v] \in Critical => locked'[lockOf'[v]]
  <2> SUFFICES ASSUME NEW v \in Users, pc'[v] \in Critical
               PROVE  locked'[lockOf'[v]]
    OBVIOUS
  <2>1. v # u /\ pc[v] \in Critical /\ lockOf'[v] = lockOf[v] /\ lockOf[v] \in Locks
    BY <1>1, <1>2 DEF TypeOK, LockInv, Exclusive
  <2>2. CASE lockOf[v] # l
    BY <1>4, <2>1, <2>2 DEF LockInv
  <2>3. CASE lockOf[v] = l
    BY <2>1, <2>3 DEF LockInv, LeaveExclusive, TypeOK, Exclusive
  <2> QED
    BY <2>2, <2>3
<1>10. \A v, w \in Users : (pc'[v] \in Critical /\ pc'[w] \in Critical /\ lockOf'[v] = lockOf'[w]) => v = w
  BY <1>1, <1>2 DEF LockInv, Exclusive
<1> QED
  BY <1>5, <1>6, <1>7, <1>8, <1>9, <1>10 DEF LockInv
LEMMA LockGrant ==
    ASSUME TypeOK, LockInv, NEW u \in Users, LockGranted(u)
    PROVE  LockInv'
<1>1. /\ locked' = [locked EXCEPT ![lockOf[u]] = TRUE]
      /\ pc' = [pc EXCEPT ![u] = "loading"]
      /\ pc[u] = "locking" /\ ~locked[lockOf[u]]
      /\ UNCHANGED <<locks, lockOf, key>>
  BY DEF LockGranted
<1>2. lockOf[u] \in Locks
  BY <1>1 DEF TypeOK, LockInv, Exclusive
<1> QED
  BY <1>1, <1>2 DEF TypeOK, LockInv, Exclusive, Critical

\* Leaving _exclusive keeps LockInv, whatever is returned.
LEMMA LockExit ==
    ASSUME TypeOK, LockInv, NEW u \in Users, pc[u] \in Exclusive, NEW r, Exit(u, r)
    PROVE  LockInv'
<1> DEFINE p == IF u \in Tasks THEN "done" ELSE "idle"
<1>1. p \in {"idle", "done"} /\ pc' = [pc EXCEPT ![u] = p] /\ LeaveExclusive(u) /\ key' = key
  BY DEF Exit
<1> HIDE DEF p
<1> QED
  BY <1>1, LockLeave

LEMMA LockCommit ==
    ASSUME TypeOK, LockInv, NEW t \in Tasks, pc[t] \in Critical, NEW tokens, Commit(t, tokens)
    PROVE  LockInv'
<1>u. t \in Users /\ pc[t] \in Exclusive
  BY DEF Users, Exclusive
<1>1. CASE MayCommit(t)
  <2>1. pc' = [pc EXCEPT ![t] = "saving"] /\ UNCHANGED <<lockVars, key>>
    BY <1>1 DEF Commit
  <2> QED
    BY <1>u, <2>1, LockQuiet DEF TypeOK, Exclusive, Critical
<1>2. CASE ~MayCommit(t)
  BY <1>u, <1>2, LockExit DEF Commit
<1> QED
  BY <1>1, <1>2

LEMMA NextLockInv == TypeOK /\ LockInv /\ [Next]_vars => LockInv'
<1> SUFFICES ASSUME TypeOK, LockInv, [Next]_vars PROVE LockInv'
  OBVIOUS
<1> USE DEF storeVars, renewVars, localVars, historyVars
<1>u. Callers \subseteq Users /\ Tasks \subseteq Users
  BY DEF Users
<1>s. CASE UNCHANGED vars
  BY <1>s, LockQuiet DEF vars
<1>1. ASSUME NEW c \in Callers, CallerStep(c) PROVE LockInv'
  <2>1. CASE EntryCancelled(c)
    BY <2>1, <1>u, LockQuiet DEF EntryCancelled, Return, TypeOK, Exclusive, Critical
  <2>2. CASE ResolveFails(c)
    BY <2>2, <1>u, LockQuiet DEF ResolveFails, Return, TypeOK, Exclusive, Critical
  <2>3. CASE Join(c)
    BY <2>3, <1>u, LockQuiet DEF Join, Return, TypeOK, Exclusive, Critical
  <2>4. ASSUME NEW t \in Tasks, StartRenewal(c, t) PROVE LockInv'
    BY <2>4, <1>u, LockQuiet DEF StartRenewal, Collected, TypeOK, Exclusive, Critical
  <2>5. CASE Resume(c)
    BY <2>5, <1>u, LockQuiet DEF Resume, Detach, Return, TypeOK, Exclusive, Critical
  <2>6. CASE Abandon(c)
    BY <2>6, <1>u, LockQuiet DEF Abandon, Detach, Return, TypeOK, Exclusive, Critical
  <2>7. CASE InvalidateLoaded(c)
    <3>1. c \in Users /\ pc[c] \in Exclusive
      BY <2>7, <1>u DEF InvalidateLoaded, Exclusive, Critical
    <3>2. CASE IsRejected(c)
      BY <2>7, <3>1, <3>2, LockQuiet DEF InvalidateLoaded, TypeOK, Exclusive, Critical
    <3>3. CASE ~IsRejected(c)
      BY <2>7, <3>1, <3>3, LockExit DEF InvalidateLoaded
    <3> QED
      BY <3>2, <3>3
  <2>8. CASE InvalidateSaved(c)
    BY <2>8, <1>u, LockExit DEF InvalidateSaved, Exclusive, Critical
  <2> QED
    BY <1>1, <2>1, <2>2, <2>3, <2>4, <2>5, <2>6, <2>7, <2>8 DEF CallerStep
<1>2. ASSUME NEW t \in Tasks, TaskStep(t) PROVE LockInv'
  <2>1. CASE Begin(t)
    BY <2>1, <1>u, LockEnter DEF Begin, Exclusive, Critical
  <2>2. CASE NeverBegun(t)
    BY <2>2, <1>u, LockQuiet DEF NeverBegun, TypeOK, Exclusive, Critical
  <2>3. CASE Loaded(t)
    <3>1. t \in Users /\ pc[t] = "loading" /\ pc[t] \in Exclusive
      BY <2>3, <1>u DEF Loaded, Exclusive, Critical
    <3>2. ASSUME NEW r, Exit(t, r) PROVE LockInv'
      BY <3>1, <3>2, LockExit
    <3>3. ASSUME NEW p \in {"refreshing", "acquiring"}, pc' = [pc EXCEPT ![t] = p],
                 UNCHANGED <<lockVars, key>>
          PROVE  LockInv'
      BY <3>1, <3>3, LockQuiet DEF TypeOK, Exclusive, Critical
    <3> QED
      BY <2>3, <3>2, <3>3 DEF Loaded, CallAcquire
  <2>4. CASE Refreshed(t)
    BY <2>4, LockCommit DEF Refreshed, Critical
  <2>5. CASE RefreshRejected(t)
    <3>1. t \in Users /\ pc[t] = "refreshing" /\ pc[t] \in Exclusive
      BY <2>5, <1>u DEF RefreshRejected, Exclusive, Critical
    <3>2. CASE key[t] \in AuthorizationCode
      BY <2>5, <3>1, <3>2, LockExit DEF RefreshRejected
    <3>3. CASE key[t] \notin AuthorizationCode
      BY <2>5, <3>1, <3>3, LockQuiet DEF RefreshRejected, TypeOK, Exclusive, Critical
    <3> QED
      BY <3>2, <3>3
  <2>6. CASE Yielded(t)
    BY <2>6, <1>u, LockQuiet DEF Yielded, TypeOK, Exclusive, Critical
  <2>7. CASE Removed(t)
    BY <2>7, <1>u, LockQuiet DEF Removed, CallAcquire, TypeOK, Exclusive, Critical
  <2>8. CASE Acquired(t)
    BY <2>8, LockCommit DEF Acquired, Critical
  <2>9. CASE Saved(t)
    BY <2>9, <1>u, LockExit DEF Saved, Exclusive, Critical
  <2>10. CASE Finished(t)
    BY <2>10, <1>u, LockQuiet DEF Finished, TypeOK, Exclusive, Critical
  <2>11. CASE Collect(t)
    BY <2>11, <1>u, LockQuiet DEF Collect
  <2> QED
    BY <1>2, <2>1, <2>2, <2>3, <2>4, <2>5, <2>6, <2>7, <2>8, <2>9, <2>10, <2>11 DEF TaskStep
<1>3. ASSUME NEW u \in Users, SharedStep(u) \/ LockGranted(u) \/ Swallowed(u) PROVE LockInv'
  <2>1. CASE Interrupted(u)
    BY <2>1, LockExit DEF Interrupted
  <2>2. CASE CallFails(u)
    BY <2>2, LockExit DEF CallFails, External, Exclusive
  <2>3. CASE LockGranted(u)
    BY <2>3, LockGrant
  <2>4. CASE Swallowed(u)
    BY <2>4, LockQuiet DEF Swallowed
  <2> QED
    BY <1>3, <2>1, <2>2, <2>3, <2>4 DEF SharedStep
<1>4. CASE Environment
  <2>1. ASSUME NEW c \in Callers, NEW k \in Keys, Call(c, k) PROVE LockInv'
    BY <2>1, <1>u, LockQuiet DEF Call, TypeOK, Exclusive, Critical
  <2>2. ASSUME NEW c \in Callers, CancelCaller(c) PROVE LockInv'
    BY <2>2, <1>u, LockQuiet DEF CancelCaller
  <2>3. ASSUME NEW c \in Callers, Invalidate(c) PROVE LockInv'
    BY <2>3, <1>u, LockEnter DEF Invalidate, Exclusive, Critical
  <2>4. ASSUME NEW k \in Keys, Age(k) PROVE LockInv'
    BY <2>4, LockQuiet DEF Age
  <2> QED
    BY <1>3, <1>4, <2>1, <2>2, <2>3, <2>4 DEF Environment
<1> QED
  BY <1>s, <1>1, <1>2, <1>3, <1>4 DEF Next
\* The coroutines inside _exclusive for one key are at most one, for any number of callers,
\* renewals and lock objects: they all hold the one object that the entry of the key is.
THEOREM MutualExclusionHolds == Spec => []MutualExclusion
<1>1. TypeOK /\ LockInv => MutualExclusion
  BY DEF LockInv, MutualExclusion, Exclusive
<1> QED
  BY <1>1, InitTypeOK, InitLockInv, NextTypeOK, NextLockInv, PTL DEF Spec
-----------------------------------------------------------------------------
(* Renewals: which task is the renewal of its key, who waits for it, and who may cancel it. *)

RenewInv ==
    /\ \A t \in Tasks : (pc[t] \in Live /\ ~Cancelling(t)) => renewals[key[t]] = t
    /\ \A c \in Callers, t \in Tasks : c \in waiters[t] <=> (pc[c] = "waiting" /\ awaited[c] = t)
    /\ \A t \in Tasks : Cancelling(t) => waiters[t] = {}
    /\ \A t \in Tasks : (pc[t] \in Live /\ waiters[t] = {}) => (Cancelling(t) \/ committing[t])
    /\ \A t \in Tasks : pc[t] = "saving" => committing[t]
    /\ \A t \in Tasks : committing[t] => (~Cancelling(t) /\ pc[t] \in {"saving", "done", "finished"})
    /\ \A t \in Tasks : result[t] = Cancelled => Cancelling(t)

LEMMA InitRenewInv == Init => RenewInv
BY ConstantsAssumption
DEF Init, RenewInv, Users, Live, Exclusive, Critical, Cancelling, Nothing, Cancelled

LEMMA InitPointsOK == Init => PointsOK
BY ConstantsAssumption DEF Init, PointsOK, Users, CallerPoints, TaskPoints

LEMMA NextPointsOK == TypeOK /\ PointsOK /\ [Next]_vars => PointsOK'
<1> SUFFICES ASSUME TypeOK, PointsOK, [Next]_vars PROVE PointsOK'
  OBVIOUS
<1> USE DEF PointsOK, CallerPoints, TaskPoints, Live, Exclusive, Critical
<1> USE DEF storeVars, renewVars, lockVars, localVars, historyVars
<1>u. Callers \subseteq Users /\ Tasks \subseteq Users /\ Callers \cap Tasks = {}
  BY ConstantsAssumption DEF Users
<1>x. ASSUME NEW u \in Users, NEW r, Exit(u, r) PROVE PointsOK'
  BY <1>x, <1>u DEF Exit, TypeOK
<1>p. ASSUME NEW u \in Users, NEW p, pc' = [pc EXCEPT ![u] = p],
             p \in IF u \in Tasks THEN TaskPoints ELSE CallerPoints
      PROVE  PointsOK'
  BY <1>p, <1>u DEF TypeOK
<1>e. ASSUME NEW u \in Users, EnterExclusive(u, key[u]) PROVE PointsOK'
  <2>1. PICK p \in {"loading", "locking"} : pc' = [pc EXCEPT ![u] = p]
    BY <1>e DEF EnterExclusive
  <2> QED
    BY <2>1, <1>p
<1>s. CASE UNCHANGED vars
  BY <1>s DEF vars
<1>1. ASSUME NEW c \in Callers, CallerStep(c) PROVE PointsOK'
  <2>1. CASE EntryCancelled(c) \/ ResolveFails(c) \/ Join(c) \/ Resume(c) \/ Abandon(c)
    <3>1. PICK p \in {"idle", "waiting"} : pc' = [pc EXCEPT ![c] = p]
      BY <2>1 DEF EntryCancelled, ResolveFails, Join, Resume, Abandon, Detach, Return
    <3> QED
      BY <3>1, <1>u, <1>p
  <2>2. ASSUME NEW t \in Tasks, StartRenewal(c, t) PROVE PointsOK'
    <3>1. pc' = [pc EXCEPT ![c] = "waiting", ![t] = "created"]
      BY <2>2 DEF StartRenewal
    <3>2. \A d \in Callers : pc'[d] = IF d = c THEN "waiting" ELSE pc[d]
      BY <3>1, <1>u DEF TypeOK
    <3>3. \A u \in Tasks : pc'[u] = IF u = t THEN "created" ELSE pc[u]
      BY <3>1, <1>u DEF TypeOK
    <3> QED
      BY <3>2, <3>3
  <2>3. CASE InvalidateLoaded(c)
    <3>1. CASE IsRejected(c)
      BY <2>3, <3>1, <1>u, <1>p DEF InvalidateLoaded
    <3>2. CASE ~IsRejected(c)
      BY <2>3, <3>2, <1>u, <1>x DEF InvalidateLoaded
    <3> QED
      BY <3>1, <3>2
  <2>4. CASE InvalidateSaved(c)
    BY <2>4, <1>u, <1>x DEF InvalidateSaved
  <2> QED
    BY <1>1, <2>1, <2>2, <2>3, <2>4 DEF CallerStep
<1>c. ASSUME NEW t \in Tasks, NEW tokens, Commit(t, tokens) PROVE PointsOK'
  <2>1. CASE MayCommit(t)
    BY <1>c, <2>1, <1>u, <1>p DEF Commit
  <2>2. CASE ~MayCommit(t)
    BY <1>c, <2>2, <1>u, <1>x DEF Commit
  <2> QED
    BY <2>1, <2>2
<1>2. ASSUME NEW t \in Tasks, TaskStep(t) PROVE PointsOK'
  <2>1. CASE Begin(t) \/ NeverBegun(t) \/ Yielded(t) \/ Removed(t) \/ Finished(t) \/ Collect(t)
    <3>1. CASE Begin(t)
      BY <3>1, <1>u, <1>e DEF Begin
    <3>2. CASE Collect(t)
      BY <3>2 DEF Collect
    <3>3. CASE NeverBegun(t) \/ Yielded(t) \/ Removed(t) \/ Finished(t)
      <4>1. PICK p \in {"done", "removing", "acquiring", "finished"} : pc' = [pc EXCEPT ![t] = p]
        BY <3>3 DEF NeverBegun, Yielded, Removed, CallAcquire, Finished
      <4> QED
        BY <4>1, <1>u, <1>p
    <3> QED
      BY <2>1, <3>1, <3>2, <3>3
  <2>2. CASE Loaded(t)
    <3>1. ASSUME NEW r, Exit(t, r) PROVE PointsOK'
      BY <3>1, <1>u, <1>x
    <3>2. ASSUME NEW p \in {"refreshing", "acquiring"}, pc' = [pc EXCEPT ![t] = p] PROVE PointsOK'
      BY <3>2, <1>u, <1>p
    <3> QED
      BY <2>2, <3>1, <3>2 DEF Loaded, CallAcquire
  <2>4. CASE RefreshRejected(t)
    <3>1. CASE key[t] \in AuthorizationCode
      BY <2>4, <3>1, <1>u, <1>x DEF RefreshRejected
    <3>2. CASE key[t] \notin AuthorizationCode
      BY <2>4, <3>2, <1>u, <1>p DEF RefreshRejected
    <3> QED
      BY <3>1, <3>2
  <2>5. CASE Saved(t)
    BY <2>5, <1>u, <1>x DEF Saved
  <2>3. CASE Refreshed(t) \/ Acquired(t)
    BY <2>3, <1>c DEF Refreshed, Acquired
  <2> QED
    BY <1>2, <2>1, <2>2, <2>3, <2>4, <2>5 DEF TaskStep
<1>3. ASSUME NEW u \in Users, SharedStep(u) \/ LockGranted(u) \/ Swallowed(u) PROVE PointsOK'
  BY <1>3, <1>u, <1>x DEF SharedStep, Interrupted, CallFails, LockGranted, Swallowed, TypeOK
<1>4. CASE Environment
  BY <1>3, <1>4, <1>u, <1>e DEF Environment, Call, CancelCaller, Invalidate, Age, TypeOK
<1> QED
  BY <1>s, <1>1, <1>2, <1>3, <1>4 DEF Next
\* A step that changes no renewal, except that one may end.
LEMMA RenewQuiet ==
    ASSUME TypeOK, RenewInv, UNCHANGED <<renewVars, awaited>>,
           \A c \in Callers : pc'[c] = "waiting" <=> pc[c] = "waiting",
           \A t \in Tasks :
               /\ Cancelling(t)' <=> Cancelling(t)
               /\ pc'[t] \in Live => pc[t] \in Live /\ key'[t] = key[t]
               /\ pc'[t] = "saving" => pc[t] = "saving"
               /\ pc[t] \in {"saving", "done", "finished"} => pc'[t] \in {"saving", "done", "finished"}
               /\ result'[t] = Cancelled => Cancelling(t)
    PROVE  RenewInv'
BY DEF RenewInv, renewVars

\* A call of credentials that returns without having awaited a renewal.
LEMMA RenewReturn ==
    ASSUME TypeOK, RenewInv, NEW c \in Callers, NEW r, pc[c] = "entering", Return(c, r),
           UNCHANGED <<renewVars, awaited, key>>,
           \A t \in Tasks : cancel'[t] = cancel[t]
    PROVE  RenewInv'
<1>u. Callers \subseteq Users /\ Tasks \subseteq Users /\ Callers \cap Tasks = {}
  BY ConstantsAssumption DEF Users
<1>1. \A t \in Tasks : pc'[t] = pc[t] /\ result'[t] = result[t]
  BY <1>u DEF Return, TypeOK
<1>2. \A d \in Callers : pc'[d] = "waiting" <=> pc[d] = "waiting"
  BY <1>u DEF Return, TypeOK
<1>3. \A t \in Tasks : Cancelling(t)' <=> Cancelling(t)
  BY DEF Cancelling
<1>4. \A t \in Tasks : result'[t] = Cancelled => Cancelling(t)
  BY <1>1 DEF RenewInv
<1> QED
  BY <1>1, <1>2, <1>3, <1>4, RenewQuiet

LEMMA RenewExit ==
    ASSUME TypeOK, PointsOK, RenewInv, NEW u \in Users, NEW r, Exit(u, r), UNCHANGED renewVars,
           u \in Tasks /\ r = Cancelled => Cancelling(u),
           pc[u] \in Exclusive
    PROVE  RenewInv'
<1>u. Callers \subseteq Users /\ Tasks \subseteq Users /\ Callers \cap Tasks = {}
  BY ConstantsAssumption DEF Users
<1>1. \A c \in Callers : pc'[c] = "waiting" <=> pc[c] = "waiting"
  BY <1>u DEF Exit, TypeOK, Exclusive, Critical
<1>2. \A t \in Tasks : Cancelling(t)' <=> Cancelling(t)
  BY <1>u DEF Exit, TypeOK, Cancelling
<1>3. \A t \in Tasks :
        /\ pc'[t] \in Live => pc[t] \in Live /\ key'[t] = key[t]
        /\ pc'[t] = "saving" => pc[t] = "saving"
        /\ pc[t] \in {"saving", "done", "finished"} => pc'[t] \in {"saving", "done", "finished"}
  BY <1>u DEF Exit, TypeOK, Live, Exclusive, Critical
<1>4. \A t \in Tasks : result'[t] = Cancelled => Cancelling(t)
  BY <1>u DEF Exit, TypeOK, RenewInv
<1>5. UNCHANGED <<renewVars, awaited>>
  BY DEF Exit
<1> QED
  BY <1>1, <1>2, <1>3, <1>4, <1>5, RenewQuiet

\* The check before persistence (lines 193-202) refuses only renewals that were cancelled:
\* an uncancelled one is still the renewal of its key and somebody waits for it.
LEMMA CommitUnlessCancelled ==
    ASSUME RenewInv, NEW t \in Tasks, pc[t] \in {"refreshing", "acquiring"}
    PROVE  MayCommit(t) <=> ~Cancelling(t)
BY DEF RenewInv, MayCommit, Live, Exclusive, Critical

LEMMA RenewCommit ==
    ASSUME TypeOK, PointsOK, RenewInv, NEW t \in Tasks, NEW tokens, Commit(t, tokens),
           pc[t] \in {"refreshing", "acquiring"}, UNCHANGED <<renewals, waiters>>
    PROVE  RenewInv'
<1>u. Callers \subseteq Users /\ Tasks \subseteq Users /\ Callers \cap Tasks = {}
  BY ConstantsAssumption DEF Users
<1>1. CASE MayCommit(t)
  <2>1. /\ committing' = [committing EXCEPT ![t] = TRUE]
        /\ pc' = [pc EXCEPT ![t] = "saving"]
        /\ UNCHANGED <<key, cancel, awaited, result>>
    BY <1>1 DEF Commit
  <2> QED
    BY <1>1, <1>u, <2>1
    DEF RenewInv, TypeOK, Cancelling, MayCommit, Live, Exclusive, Critical
<1>2. CASE ~MayCommit(t)
  <2>1. Exit(t, Cancelled) /\ UNCHANGED renewVars
    BY <1>2 DEF Commit, renewVars
  <2>2. Cancelling(t)
    BY <1>2, CommitUnlessCancelled
  <2> QED
    BY <2>1, <2>2, <1>u, RenewExit DEF Exclusive, Critical
<1> QED
  BY <1>1, <1>2

LEMMA RenewDetach ==
    ASSUME TypeOK, PointsOK, RenewInv, NEW c \in Callers, NEW r, Detach(c, r), pc[c] = "waiting"
    PROVE  RenewInv'
<1> DEFINE t == awaited[c]
<1>u. Callers \subseteq Users /\ Tasks \subseteq Users /\ Callers \cap Tasks = {}
  BY ConstantsAssumption DEF Users
<1>t. t \in Tasks /\ t # c /\ c \in waiters[t] /\ ~Cancelling(t)
  BY <1>u DEF TypeOK, RenewInv
<1>1. pc'[c] = "idle" /\ \A u \in Users \ {c} : pc'[u] = pc[u] /\ result'[u] = result[u]
  BY <1>u DEF Detach, Return, TypeOK
<1>2. waiters'[t] = waiters[t] \ {c} /\ \A u \in Tasks \ {t} : waiters'[u] = waiters[u] /\ cancel'[u] = cancel[u]
  BY <1>u, <1>t DEF Detach, TypeOK
<1>3. cancel'[t] = IF Abandoned(c, t) THEN "pending" ELSE "no"
  BY <1>u, <1>t DEF Detach, TypeOK, Cancelling
<1>4. awaited'[c] = NoTask /\ \A d \in Callers \ {c} : awaited'[d] = awaited[d]
  BY DEF Detach, TypeOK
<1>5. UNCHANGED <<renewals, committing, key>>
  BY DEF Detach
<1>6. \A d \in Callers, u \in Tasks : d \in waiters'[u] <=> (pc'[d] = "waiting" /\ awaited'[d] = u)
  BY <1>1, <1>2, <1>4, <1>u, <1>t DEF RenewInv
<1>7. \A u \in Tasks : Cancelling(u)' => waiters'[u] = {}
  BY <1>2, <1>3, <1>t DEF RenewInv, Cancelling, Abandoned
<1>8. \A u \in Tasks : (pc'[u] \in Live /\ waiters'[u] = {}) => (Cancelling(u)' \/ committing'[u])
  <2> SUFFICES ASSUME NEW u \in Tasks, pc'[u] \in Live, waiters'[u] = {}, ~committing'[u]
               PROVE  Cancelling(u)'
    OBVIOUS
  <2>1. pc[u] \in Live /\ ~committing[u]
    BY <1>1, <1>5, <1>u
  <2>2. CASE u = t
    BY <1>2, <1>3, <1>t, <2>1, <2>2 DEF Abandoned, Cancelling
  <2>3. CASE u # t
    BY <1>2, <2>1, <2>3 DEF RenewInv, Cancelling
  <2> QED
    BY <2>2, <2>3
<1>9. \A u \in Tasks : (pc'[u] \in Live /\ ~Cancelling(u)') => renewals'[key'[u]] = u
  BY <1>1, <1>2, <1>3, <1>5, <1>u, <1>t DEF RenewInv, Cancelling
<1>10. \A u \in Tasks : committing'[u] => (~Cancelling(u)' /\ pc'[u] \in {"saving", "done", "finished"})
  BY <1>1, <1>2, <1>3, <1>5, <1>u, <1>t DEF RenewInv, Cancelling, Abandoned
<1>11. \A u \in Tasks : pc'[u] = "saving" => committing'[u]
  BY <1>1, <1>5, <1>u DEF RenewInv
<1>12. \A u \in Tasks : result'[u] = Cancelled => Cancelling(u)'
  BY <1>1, <1>2, <1>3, <1>u, <1>t DEF RenewInv, Cancelling
<1> QED
  BY <1>6, <1>7, <1>8, <1>9, <1>10, <1>11, <1>12 DEF RenewInv
LEMMA NextRenewInv == TypeOK /\ PointsOK /\ RenewInv /\ [Next]_vars => RenewInv'
<1> SUFFICES ASSUME TypeOK, PointsOK, RenewInv, [Next]_vars PROVE RenewInv'
  OBVIOUS
<1> USE DEF storeVars, lockVars, localVars, historyVars
<1>u. Callers \subseteq Users /\ Tasks \subseteq Users /\ Callers \cap Tasks = {}
  BY ConstantsAssumption DEF Users
<1>q. ASSUME UNCHANGED <<renewVars, awaited, key, cancel, result>>,
             NEW u \in Users, NEW p, pc' = [pc EXCEPT ![u] = p],
             \/ u \in Callers /\ pc[u] # "waiting" /\ p # "waiting"
             \/ u \in Tasks /\ pc[u] \in Live \ {"saving"} /\ p \in Live \ {"saving"}
      PROVE  RenewInv'
  <2>1. CASE u \in Callers
    <3>1. \A t \in Tasks : pc'[t] = pc[t]
      BY <1>q, <2>1, <1>u DEF TypeOK
    <3>2. \A c \in Callers : pc'[c] = "waiting" <=> pc[c] = "waiting"
      BY <1>q, <2>1, <1>u DEF TypeOK
    <3>3. \A t \in Tasks : (Cancelling(t)' <=> Cancelling(t)) /\ (result'[t] = Cancelled => Cancelling(t))
      BY <1>q DEF Cancelling, RenewInv
    <3> QED
      BY <1>q, <3>1, <3>2, <3>3, RenewQuiet
  <2>2. CASE u \in Tasks
    <3>1. \A c \in Callers : pc'[c] = pc[c]
      BY <1>q, <2>2, <1>u DEF TypeOK
    <3>2. \A t \in Tasks : (Cancelling(t)' <=> Cancelling(t)) /\ (result'[t] = Cancelled => Cancelling(t))
      BY <1>q DEF Cancelling, RenewInv
    <3>3. \A t \in Tasks :
            /\ pc'[t] \in Live => pc[t] \in Live
            /\ pc'[t] = "saving" => pc[t] = "saving"
            /\ pc[t] \in {"saving", "done", "finished"} => pc'[t] \in {"saving", "done", "finished"}
      BY <1>q, <2>2, <1>u DEF TypeOK, Live, Exclusive, Critical
    <3> QED
      BY <1>q, <3>1, <3>2, <3>3, RenewQuiet
  <2> QED
    BY <2>1, <2>2 DEF Users
<1>s. CASE UNCHANGED vars
  BY <1>s DEF vars, renewVars, RenewInv, Cancelling
<1>1. ASSUME NEW c \in Callers, CallerStep(c) PROVE RenewInv'
  <2>1. CASE EntryCancelled(c)
    <3>1. \A t \in Tasks : cancel'[t] = cancel[t]
      BY <2>1, <1>u DEF EntryCancelled, TypeOK
    <3> QED
      BY <2>1, <3>1, RenewReturn DEF EntryCancelled
  <2>2. CASE ResolveFails(c)
    BY <2>2, RenewReturn DEF ResolveFails
  <2>3. CASE Join(c)
    <3> DEFINE t == renewals[key[c]]
    <3>1. t \in Tasks /\ t # c /\ ~Cancelling(t)
      BY <2>3, <1>u DEF Join, Joinable, TypeOK
    <3>2. CASE pc[t] = "done"
      <4>1. Return(c, result[t]) /\ UNCHANGED <<waiters, awaited>>
        BY <2>3, <3>2 DEF Join
      <4> HIDE DEF t
      <4> QED
        BY <2>3, <4>1, RenewReturn DEF Join, renewVars
    <3>3. CASE pc[t] # "done"
      <4>1. /\ pc[c] = "entering"
            /\ pc' = [pc EXCEPT ![c] = "waiting"]
            /\ waiters' = [waiters EXCEPT ![t] = @ \cup {c}]
            /\ awaited' = [awaited EXCEPT ![c] = t]
            /\ UNCHANGED <<renewals, committing, key, cancel, result>>
        BY <2>3, <3>3 DEF Join
      <4> HIDE DEF t
      <4> QED
        BY <3>1, <4>1, <1>u DEF TypeOK, Cancelling, RenewInv
    <3> QED
      BY <3>2, <3>3
  <2>4. ASSUME NEW t \in Tasks, StartRenewal(c, t) PROVE RenewInv'
    <3>1. /\ pc[c] = "entering" /\ pc[t] = "finished" /\ waiters[t] = {} /\ result[t] = Nothing
          /\ key[c] \in Keys
          /\ ~Joinable(key[c])
      BY <2>4, <1>u DEF StartRenewal, Collected, TypeOK
    <3>2. /\ renewals' = [renewals EXCEPT ![key[c]] = t]
          /\ waiters' = [waiters EXCEPT ![t] = {c}]
          /\ committing' = [committing EXCEPT ![t] = FALSE]
          /\ pc' = [pc EXCEPT ![c] = "waiting", ![t] = "created"]
          /\ key' = [key EXCEPT ![t] = key[c]]
          /\ cancel' = [cancel EXCEPT ![t] = "no"]
          /\ awaited' = [awaited EXCEPT ![c] = t]
          /\ UNCHANGED result
      BY <2>4 DEF StartRenewal
    <3>3. \A u \in Tasks : (pc[u] \in Live /\ ~Cancelling(u)) => key[u] # key[c]
      BY <3>1, <1>u, ConstantsAssumption DEF Joinable, RenewInv, TypeOK
    <3>4. \A u \in Tasks : (pc'[u] \in Live /\ ~Cancelling(u)') => renewals'[key'[u]] = u
      <4> TAKE u \in Tasks
      <4>1. CASE u = t
        BY <3>1, <3>2, <4>1, <1>u DEF TypeOK
      <4>2. CASE u # t
        <5> SUFFICES ASSUME pc'[u] \in Live, ~Cancelling(u)' PROVE renewals'[key'[u]] = u
          OBVIOUS
        <5>1. pc[u] \in Live /\ ~Cancelling(u) /\ key'[u] = key[u] /\ key[u] \in Keys
          BY <3>2, <4>2, <1>u DEF TypeOK, Cancelling
        <5>2. renewals[key[u]] = u /\ key[u] # key[c]
          BY <3>3, <5>1 DEF RenewInv
        <5> QED
          BY <3>2, <5>1, <5>2 DEF TypeOK
      <4> QED
        BY <4>1, <4>2
    <3>5. \A d \in Callers, u \in Tasks : d \in waiters'[u] <=> (pc'[d] = "waiting" /\ awaited'[d] = u)
      <4> TAKE d \in Callers, u \in Tasks
      <4>1. d \in waiters[u] <=> (pc[d] = "waiting" /\ awaited[d] = u)
        BY DEF RenewInv
      <4>2. CASE d = c
        <5>1. pc'[c] = "waiting" /\ awaited'[c] = t /\ c \notin waiters[u]
          BY <3>1, <3>2, <4>1, <4>2, <1>u DEF TypeOK
        <5> QED
          BY <3>2, <4>2, <5>1 DEF TypeOK
      <4>3. CASE d # c
        <5>1. pc'[d] = pc[d] /\ awaited'[d] = awaited[d]
          BY <3>2, <4>3, <1>u DEF TypeOK
        <5> QED
          BY <3>1, <3>2, <4>1, <4>3, <5>1 DEF TypeOK
      <4> QED
        BY <4>2, <4>3
    <3>6. \A u \in Tasks \ {t} :
            /\ pc'[u] = pc[u] /\ waiters'[u] = waiters[u] /\ committing'[u] = committing[u]
            /\ cancel'[u] = cancel[u]
      BY <3>2, <1>u DEF TypeOK
    <3>7. pc'[t] = "created" /\ waiters'[t] = {c} /\ ~committing'[t] /\ cancel'[t] = "no"
      BY <3>2, <1>u DEF TypeOK
    <3>8. \A u \in Tasks : Cancelling(u)' => waiters'[u] = {}
      BY <3>6, <3>7 DEF RenewInv, Cancelling
    <3>9. \A u \in Tasks : (pc'[u] \in Live /\ waiters'[u] = {}) => (Cancelling(u)' \/ committing'[u])
      BY <3>6, <3>7 DEF RenewInv, Cancelling
    <3>10. \A u \in Tasks :
             /\ pc'[u] = "saving" => committing'[u]
             /\ committing'[u] => (~Cancelling(u)' /\ pc'[u] \in {"saving", "done", "finished"})
      BY <3>6, <3>7 DEF RenewInv, Cancelling
    <3>11. \A u \in Tasks : result'[u] = Cancelled => Cancelling(u)'
      BY <3>1, <3>2, <3>6, <3>7 DEF RenewInv, Cancelling, Nothing, Cancelled
    <3> QED
      BY <3>4, <3>5, <3>8, <3>9, <3>10, <3>11 DEF RenewInv
  <2>5. CASE Resume(c)
    BY <2>5, RenewDetach DEF Resume
  <2>6. CASE Abandon(c)
    BY <2>6, RenewDetach DEF Abandon
  <2>7. CASE InvalidateLoaded(c)
    <3>1. CASE IsRejected(c)
      BY <2>7, <3>1, <1>u, <1>q DEF InvalidateLoaded
    <3>2. CASE ~IsRejected(c)
      BY <2>7, <3>2, <1>u, RenewExit DEF InvalidateLoaded, Exclusive, Critical
    <3> QED
      BY <3>1, <3>2
  <2>8. CASE InvalidateSaved(c)
    BY <2>8, <1>u, RenewExit DEF InvalidateSaved, Exclusive, Critical
  <2> QED
    BY <1>1, <2>1, <2>2, <2>3, <2>4, <2>5, <2>6, <2>7, <2>8 DEF CallerStep
<1>e. ASSUME NEW u \in Users, EnterExclusive(u, key[u]),
             UNCHANGED <<renewVars, awaited, key, cancel, result>>,
             pc[u] \in {"idle", "created"}
      PROVE  RenewInv'
  <2>1. PICK p \in {"loading", "locking"} : pc' = [pc EXCEPT ![u] = p]
    BY <1>e DEF EnterExclusive
  <2>2. u \in Callers \/ (u \in Tasks /\ pc[u] \in Live \ {"saving"})
    BY <1>e, <1>u DEF Users, PointsOK, TaskPoints, Live, Exclusive, Critical
  <2> QED
    BY <1>e, <2>1, <2>2, <1>q DEF Live, Exclusive, Critical
<1>2. ASSUME NEW t \in Tasks, TaskStep(t) PROVE RenewInv'
  <2> USE DEF Exclusive, Critical
  <2>1. CASE Begin(t)
    BY <2>1, <1>u, <1>e DEF Begin
  <2>2. CASE NeverBegun(t)
    <3>1. /\ pc[t] = "created" /\ Cancelling(t)
          /\ pc' = [pc EXCEPT ![t] = "done"]
          /\ result' = [result EXCEPT ![t] = Cancelled]
          /\ UNCHANGED <<renewVars, awaited, key, cancel>>
      BY <2>2 DEF NeverBegun, Cancelling
    <3>2. \A c \in Callers : pc'[c] = pc[c]
      BY <3>1, <1>u DEF TypeOK
    <3>3. \A u \in Tasks : /\ pc'[u] \in Live => pc[u] \in Live
                           /\ pc'[u] = "saving" => pc[u] = "saving"
                           /\ pc[u] \in {"saving", "done", "finished"} => pc'[u] \in {"saving", "done", "finished"}
                           /\ result'[u] = Cancelled => Cancelling(u)
      BY <3>1, <1>u DEF TypeOK, Live, RenewInv
    <3> QED
      BY <3>1, <3>2, <3>3, RenewQuiet DEF Cancelling
  <2>3. CASE Loaded(t)
    <3>1. pc[t] = "loading" /\ UNCHANGED renewVars
      BY <2>3 DEF Loaded
    <3>2. ASSUME NEW r \in {Lease(store[key[t]].access), Failure}, Exit(t, r) PROVE RenewInv'
      <4>1. r # Cancelled
        BY DEF Lease, Failure, Cancelled
      <4> QED
        BY <3>1, <3>2, <4>1, <1>u, RenewExit
    <3>3. ASSUME NEW p \in {"refreshing", "acquiring"}, pc' = [pc EXCEPT ![t] = p],
                 UNCHANGED <<awaited, key, cancel, result>>
          PROVE  RenewInv'
      BY <3>1, <3>3, <1>u, <1>q DEF Live
    <3> QED
      BY <2>3, <3>2, <3>3 DEF Loaded, CallAcquire
  <2>4. CASE Refreshed(t)
    BY <2>4, RenewCommit DEF Refreshed, ProviderAnswers
  <2>5. CASE RefreshRejected(t)
    <3>1. CASE key[t] \in AuthorizationCode
      <4>1. Exit(t, Failure) /\ UNCHANGED renewVars /\ pc[t] \in Exclusive
        BY <2>5, <3>1 DEF RefreshRejected
      <4> QED
        BY <4>1, <1>u, RenewExit DEF Failure, Cancelled
    <3>2. CASE key[t] \notin AuthorizationCode
      BY <2>5, <3>2, <1>u, <1>q DEF RefreshRejected, Live
    <3> QED
      BY <3>1, <3>2
  <2>6. CASE Yielded(t)
    BY <2>6, <1>u, <1>q DEF Yielded, Live
  <2>7. CASE Removed(t)
    BY <2>7, <1>u, <1>q DEF Removed, CallAcquire, Live
  <2>8. CASE Acquired(t)
    BY <2>8, RenewCommit DEF Acquired, ProviderAnswers
  <2>9. CASE Saved(t)
    <3>1. Exit(t, Lease(held[t].access)) /\ UNCHANGED renewVars /\ pc[t] \in Exclusive
      BY <2>9 DEF Saved
    <3> QED
      BY <3>1, <1>u, RenewExit DEF Lease, Cancelled
  <2>10. CASE Finished(t)
    <3>1. pc' = [pc EXCEPT ![t] = "finished"] /\ pc[t] = "done"
          /\ UNCHANGED <<waiters, committing, key, cancel, awaited, result>>
      BY <2>10 DEF Finished
    <3>2. \A u \in Tasks : (pc'[u] \in Live /\ ~Cancelling(u)') => renewals'[key'[u]] = u
      <4> SUFFICES ASSUME NEW u \in Tasks, pc'[u] \in Live, ~Cancelling(u)'
                   PROVE  renewals'[key'[u]] = u
        OBVIOUS
      <4>1. u # t /\ pc[u] \in Live /\ ~Cancelling(u) /\ key'[u] = key[u] /\ key[u] \in Keys /\ key[t] \in Keys
        BY <3>1, <1>u DEF TypeOK, Live, Cancelling
      <4>2. renewals[key[u]] = u
        BY <4>1 DEF RenewInv
      <4> QED
        BY <2>10, <4>1, <4>2 DEF Finished, Forget, TypeOK
    <3>3. \A u \in Tasks : pc'[u] \in Live => pc[u] \in Live
      BY <3>1, <1>u DEF TypeOK, Live
    <3> QED
      BY <3>1, <3>2, <3>3, <1>u DEF TypeOK, Cancelling, RenewInv
  <2>11. CASE Collect(t)
    BY <2>11, <1>u DEF Collect, TypeOK, Cancelling, RenewInv, Live, Nothing, Cancelled
  <2> QED
    BY <1>2, <2>1, <2>2, <2>3, <2>4, <2>5, <2>6, <2>7, <2>8, <2>9, <2>10, <2>11 DEF TaskStep
<1>3. ASSUME NEW u \in Users, SharedStep(u) \/ LockGranted(u) \/ Swallowed(u) PROVE RenewInv'
  <2>1. CASE Interrupted(u)
    BY <2>1, RenewExit DEF Interrupted, Cancelling
  <2>2. CASE CallFails(u)
    <3>1. Exit(u, Failure) /\ UNCHANGED renewVars /\ pc[u] \in Exclusive
      BY <2>2 DEF CallFails, External, Exclusive
    <3> QED
      BY <3>1, RenewExit DEF Failure, Cancelled
  <2>3. CASE LockGranted(u)
    <3>1. /\ pc[u] = "locking" /\ pc' = [pc EXCEPT ![u] = "loading"]
          /\ UNCHANGED <<renewVars, awaited, key, cancel, result>>
      BY <2>3 DEF LockGranted
    <3>2. u \in Callers \/ (u \in Tasks /\ pc[u] \in Live \ {"saving"} /\ "loading" \in Live \ {"saving"})
      BY <3>1 DEF Users, Live, Exclusive, Critical
    <3> QED
      BY <3>1, <3>2, <1>q
  <2>4. CASE Swallowed(u)
    <3>1. UNCHANGED <<renewVars, awaited, pc, key, result>>
      BY <2>4 DEF Swallowed
    <3>2. \A t \in Tasks : Cancelling(t)' <=> Cancelling(t)
      BY <2>4, <1>u DEF Swallowed, TypeOK, Cancelling
    <3> QED
      BY <3>1, <3>2, RenewQuiet DEF RenewInv
  <2> QED
    BY <1>3, <2>1, <2>2, <2>3, <2>4 DEF SharedStep
<1>4. CASE Environment
  <2>1. ASSUME NEW c \in Callers, NEW k \in Keys, Call(c, k) PROVE RenewInv'
    <3>1. /\ pc[c] = "idle"
          /\ pc' = [pc EXCEPT ![c] = "entering"]
          /\ key' = [key EXCEPT ![c] = k]
          /\ result' = [result EXCEPT ![c] = Nothing]
          /\ UNCHANGED <<renewVars, awaited, cancel>>
      BY <2>1 DEF Call
    <3>2. \A d \in Callers : pc'[d] = "waiting" <=> pc[d] = "waiting"
      BY <3>1, <1>u DEF TypeOK
    <3>3. \A t \in Tasks : pc'[t] = pc[t] /\ key'[t] = key[t] /\ result'[t] = result[t]
      BY <3>1, <1>u DEF TypeOK
    <3>4. \A t \in Tasks : result'[t] = Cancelled => Cancelling(t)
      BY <3>3 DEF RenewInv
    <3> QED
      BY <3>1, <3>2, <3>3, <3>4, RenewQuiet DEF Cancelling
  <2>2. ASSUME NEW c \in Callers, CancelCaller(c) PROVE RenewInv'
    <3>1. /\ cancel' = [cancel EXCEPT ![c] = "pending"]
          /\ UNCHANGED <<renewVars, pc, key, held, awaited, result>>
      BY <2>2 DEF CancelCaller
    <3>2. \A t \in Tasks : cancel'[t] = cancel[t]
      BY <3>1, <1>u DEF TypeOK
    <3>3. \A t \in Tasks : result'[t] = Cancelled => Cancelling(t)
      BY <3>1 DEF RenewInv
    <3> QED
      BY <3>1, <3>2, <3>3, RenewQuiet DEF Cancelling
  <2>3. ASSUME NEW c \in Callers, Invalidate(c) PROVE RenewInv'
    BY <2>3, <1>u, <1>e DEF Invalidate
  <2>4. ASSUME NEW k \in Keys, Age(k) PROVE RenewInv'
    BY <2>4 DEF Age, RenewInv, renewVars, Cancelling
  <2> QED
    BY <1>3, <1>4, <2>1, <2>2, <2>3, <2>4 DEF Environment
<1> QED
  BY <1>s, <1>1, <1>2, <1>3, <1>4 DEF Next

LEMMA RenewInvariant == Spec => [](TypeOK /\ PointsOK /\ RenewInv)
<1>1. TypeOK /\ PointsOK /\ RenewInv /\ [Next]_vars => (TypeOK /\ PointsOK /\ RenewInv)'
  BY NextTypeOK, NextPointsOK, NextRenewInv
<1>2. Init => TypeOK /\ PointsOK /\ RenewInv
  BY InitTypeOK, InitPointsOK, InitRenewInv
<1> QED
  BY <1>1, <1>2, PTL DEF Spec

\* However many callers ask for the credentials of a key, they share one renewal: a second
\* one starts only once the first is being cancelled.
THEOREM SingleFlightHolds == Spec => []SingleFlight
<1>1. RenewInv => SingleFlight
  BY DEF RenewInv, SingleFlight
<1> QED
  BY <1>1, RenewInvariant, PTL

\* No renewal is left running for nobody.
THEOREM NoOrphanHolds == Spec => []NoOrphan
<1>1. RenewInv => NoOrphan
  BY DEF RenewInv, NoOrphan
<1> QED
  BY <1>1, RenewInvariant, PTL

\* A renewal that is saving its tokens is never cancelled by its callers, nor replaced.
THEOREM PersistenceProtectedHolds == Spec => []PersistenceProtected
<1>1. RenewInv => PersistenceProtected
  BY DEF RenewInv, PersistenceProtected, Cancelling, Live, Exclusive, Critical
<1> QED
  BY <1>1, RenewInvariant, PTL

\* A caller sees a cancellation only when it was itself cancelled: a renewal that ends
\* cancelled had been abandoned, and an abandoned renewal is never joined again.
THEOREM CancelledOnlyIfAskedHolds == Spec => CancelledOnlyIfAsked
<1> DEFINE Asked == \A c \in Callers :
                        (result'[c] = Cancelled /\ result[c] # Cancelled) => cancel[c] = "pending"
<1>1. TypeOK /\ RenewInv /\ [Next]_vars => Asked
  <2> SUFFICES ASSUME TypeOK, RenewInv, [Next]_vars, NEW d \in Callers,
                      result'[d] = Cancelled, result[d] # Cancelled
               PROVE  cancel[d] = "pending"
    OBVIOUS
  <2> USE DEF localVars, historyVars
  <2>u. Callers \subseteq Users /\ Tasks \subseteq Users /\ Callers \cap Tasks = {}
    BY ConstantsAssumption DEF Users
  <2>n. Failure # Cancelled /\ Nothing # Cancelled /\ \A a : Lease(a) # Cancelled
    BY DEF Failure, Nothing, Cancelled, Lease
  <2>x. ASSUME NEW u \in Users, NEW r, Exit(u, r) PROVE u = d /\ r = Cancelled
    BY <2>x, <2>u DEF Exit, TypeOK
  <2>r. ASSUME NEW c \in Callers, NEW r, Return(c, r) PROVE c = d /\ r = Cancelled
    BY <2>r, <2>u DEF Return, TypeOK
  <2>s. CASE UNCHANGED vars
    BY <2>s DEF vars
  <2>1. ASSUME NEW c \in Callers, CallerStep(c) PROVE cancel[d] = "pending"
    <3>1. CASE EntryCancelled(c)
      BY <2>r, <3>1 DEF EntryCancelled
    <3>2. CASE ResolveFails(c)
      BY <2>r, <2>n, <3>2 DEF ResolveFails
    <3>3. CASE Join(c)
      <4> DEFINE t == renewals[key[c]]
      <4>1. t \in Tasks /\ result[t] # Cancelled
        BY <3>3, <2>u DEF Join, Joinable, TypeOK, RenewInv
      <4>2. ~Return(c, result[t])
        BY <2>r, <4>1
      <4> QED
        BY <3>3, <4>2 DEF Join
    <3>4. ASSUME NEW t \in Tasks, StartRenewal(c, t) PROVE cancel[d] = "pending"
      BY <3>4 DEF StartRenewal
    <3>5. CASE Resume(c)
      <4>1. awaited[c] \in Tasks /\ result[awaited[c]] # Cancelled
        BY <3>5, <2>u DEF Resume, TypeOK, RenewInv
      <4> QED
        BY <2>r, <3>5, <4>1 DEF Resume, Detach
    <3>6. CASE Abandon(c)
      BY <2>r, <3>6 DEF Abandon, Detach
    <3>7. CASE InvalidateLoaded(c)
      <4>1. CASE IsRejected(c)
        BY <3>7, <4>1 DEF InvalidateLoaded
      <4>2. CASE ~IsRejected(c)
        BY <3>7, <4>2, <2>u, <2>x DEF InvalidateLoaded
      <4> QED
        BY <4>1, <4>2
    <3>8. CASE InvalidateSaved(c)
      BY <3>8, <2>u, <2>x DEF InvalidateSaved
    <3> QED
      BY <2>1, <3>1, <3>2, <3>3, <3>4, <3>5, <3>6, <3>7, <3>8 DEF CallerStep
  <2>2. ASSUME NEW t \in Tasks, TaskStep(t) PROVE cancel[d] = "pending"
    <3>1. result'[d] = result[d]
      <4>x. ASSUME NEW r, Exit(t, r) PROVE result'[d] = result[d]
        BY <4>x, <2>u DEF Exit, TypeOK
      <4>c. ASSUME NEW tokens, Commit(t, tokens) PROVE result'[d] = result[d]
        <5>1. CASE MayCommit(t)
          BY <4>c, <5>1 DEF Commit
        <5>2. CASE ~MayCommit(t)
          BY <4>c, <4>x, <5>2 DEF Commit
        <5> QED
          BY <5>1, <5>2
      <4>1. CASE Loaded(t) \/ RefreshRejected(t) \/ Saved(t)
        <5>1. CASE Loaded(t)
          BY <4>x, <5>1 DEF Loaded
        <5>2. CASE RefreshRejected(t)
          BY <4>x, <5>2 DEF RefreshRejected
        <5>3. CASE Saved(t)
          BY <4>x, <5>3 DEF Saved
        <5> QED
          BY <4>1, <5>1, <5>2, <5>3
      <4>2. CASE Refreshed(t) \/ Acquired(t)
        BY <4>c, <4>2 DEF Refreshed, Acquired
      <4>3. CASE Begin(t) \/ NeverBegun(t) \/ Yielded(t) \/ Removed(t) \/ Finished(t) \/ Collect(t)
        BY <4>3, <2>u DEF Begin, NeverBegun, Yielded, Removed, Finished, Collect, TypeOK
      <4> QED
        BY <2>2, <4>1, <4>2, <4>3 DEF TaskStep
    <3> QED
      BY <3>1
  <2>3. ASSUME NEW u \in Users, SharedStep(u) \/ LockGranted(u) \/ Swallowed(u)
        PROVE  cancel[d] = "pending"
    <3>1. CASE Interrupted(u)
      BY <2>x, <3>1 DEF Interrupted
    <3>2. CASE CallFails(u)
      BY <2>x, <2>n, <3>2 DEF CallFails
    <3>3. CASE LockGranted(u) \/ Swallowed(u)
      BY <3>3 DEF LockGranted, Swallowed
    <3> QED
      BY <2>3, <3>1, <3>2, <3>3 DEF SharedStep
  <2>4. CASE Environment
    <3>1. ASSUME NEW c \in Callers, NEW k \in Keys, Call(c, k) PROVE cancel[d] = "pending"
      BY <3>1, <2>u, <2>n DEF Call, TypeOK
    <3>2. ASSUME NEW c \in Callers, CancelCaller(c) \/ Invalidate(c) PROVE cancel[d] = "pending"
      BY <3>2 DEF CancelCaller, Invalidate
    <3>3. ASSUME NEW k \in Keys, Age(k) PROVE cancel[d] = "pending"
      BY <3>3 DEF Age
    <3> QED
      BY <2>3, <2>4, <3>1, <3>2, <3>3 DEF Environment
  <2> QED
    BY <2>s, <2>1, <2>2, <2>3, <2>4 DEF Next
<1>2. TypeOK /\ RenewInv /\ [Next]_vars => [Asked]_vars
  BY <1>1
<1> QED
  BY <1>2, RenewInvariant, PTL DEF Spec, CancelledOnlyIfAsked
-----------------------------------------------------------------------------
(* Authorization grants: a code is presented once, and the history that guarantees it is *)
(* bounded.                                                                              *)

Restarting == {"yielding", "removing"}

GrantInv ==
    /\ \A k \in AuthorizationCode : acquires[k] > 0 => k \in attempts
    /\ \A k \in AuthorizationCode : acquires[k] <= 1
    /\ \A t \in Tasks : pc[t] \in Restarting => key[t] \notin AuthorizationCode
    /\ IsFiniteSet(attempts) /\ Cardinality(attempts) <= MaxAttempts

LEMMA InitGrantInv == Init => GrantInv
<1>1. IsFiniteSet({}) /\ Cardinality({}) = 0
  BY FS_EmptySet
<1> QED
  BY <1>1, ConstantsAssumption DEF Init, GrantInv, Restarting, Users

\* A step that calls no provider and restarts no renewal.
LEMMA GrantQuiet ==
    ASSUME GrantInv, UNCHANGED <<acquires, attempts>>,
           \A t \in Tasks : pc'[t] \in Restarting => pc[t] \in Restarting /\ key'[t] = key[t]
    PROVE  GrantInv'
BY DEF GrantInv

LEMMA GrantExit ==
    ASSUME TypeOK, GrantInv, NEW u \in Users, NEW r, Exit(u, r), UNCHANGED <<acquires, attempts>>
    PROVE  GrantInv'
<1>1. \A t \in Tasks : pc'[t] \in Restarting => pc[t] \in Restarting /\ key'[t] = key[t]
  BY DEF Exit, TypeOK, Restarting, Users
<1> QED
  BY <1>1, GrantQuiet

LEMMA GrantCommit ==
    ASSUME TypeOK, GrantInv, NEW t \in Tasks, NEW tokens, Commit(t, tokens),
           UNCHANGED <<acquires, attempts>>
    PROVE  GrantInv'
<1>u. t \in Users
  BY DEF Users
<1>1. CASE MayCommit(t)
  <2>1. pc' = [pc EXCEPT ![t] = "saving"] /\ key' = key
    BY <1>1 DEF Commit
  <2>2. \A u \in Tasks : pc'[u] \in Restarting => pc[u] \in Restarting /\ key'[u] = key[u]
    BY <2>1 DEF TypeOK, Restarting, Users
  <2> QED
    BY <2>2, GrantQuiet
<1>2. CASE ~MayCommit(t)
  BY <1>u, <1>2, GrantExit DEF Commit
<1> QED
  BY <1>1, <1>2

LEMMA NextGrantInv == TypeOK /\ GrantInv /\ [Next]_vars => GrantInv'
<1> SUFFICES ASSUME TypeOK, GrantInv, [Next]_vars PROVE GrantInv'
  OBVIOUS
<1> USE DEF storeVars, localVars, historyVars
<1>u. Callers \subseteq Users /\ Tasks \subseteq Users /\ Callers \cap Tasks = {}
  BY ConstantsAssumption DEF Users
<1>p. ASSUME NEW u \in Users, NEW p, pc' = [pc EXCEPT ![u] = p], p \notin Restarting,
             UNCHANGED <<acquires, attempts, key>>
      PROVE  GrantInv'
  BY <1>p, <1>u, GrantQuiet DEF TypeOK
<1>s. CASE UNCHANGED vars
  BY <1>s, GrantQuiet DEF vars
<1>1. ASSUME NEW c \in Callers, CallerStep(c) PROVE GrantInv'
  <2>1. CASE EntryCancelled(c) \/ ResolveFails(c) \/ Resume(c) \/ Abandon(c) \/ Join(c)
    BY <2>1, <1>u, <1>p
    DEF EntryCancelled, ResolveFails, Resume, Abandon, Join, Detach, Return, Restarting
  <2>2. ASSUME NEW t \in Tasks, StartRenewal(c, t) PROVE GrantInv'
    <3>1. \A x \in Tasks : pc'[x] \in Restarting => pc[x] \in Restarting /\ key'[x] = key[x]
      BY <2>2, <1>u DEF StartRenewal, Collected, TypeOK, Restarting
    <3> QED
      BY <2>2, <3>1, GrantQuiet DEF StartRenewal
  <2>3. CASE InvalidateLoaded(c)
    <3>1. CASE IsRejected(c)
      BY <2>3, <3>1, <1>u, <1>p DEF InvalidateLoaded, Restarting
    <3>2. CASE ~IsRejected(c)
      BY <2>3, <3>2, <1>u, GrantExit DEF InvalidateLoaded
    <3> QED
      BY <3>1, <3>2
  <2>4. CASE InvalidateSaved(c)
    BY <2>4, <1>u, GrantExit DEF InvalidateSaved
  <2> QED
    BY <1>1, <2>1, <2>2, <2>3, <2>4 DEF CallerStep
<1>e. ASSUME NEW u \in Users, EnterExclusive(u, key[u]), UNCHANGED <<acquires, attempts, key>>
      PROVE  GrantInv'
  <2>1. PICK p \in {"loading", "locking"} : pc' = [pc EXCEPT ![u] = p]
    BY <1>e DEF EnterExclusive
  <2> QED
    BY <1>e, <2>1, <1>p DEF Restarting
<1>2. ASSUME NEW t \in Tasks, TaskStep(t) PROVE GrantInv'
  <2>k. t \in Users /\ key[t] \in Keys
    BY <1>u DEF TypeOK
  <2>1. CASE Begin(t)
    BY <2>1, <1>u, <1>e DEF Begin
  <2>2. CASE NeverBegun(t)
    BY <2>2, <1>u, <1>p DEF NeverBegun, Restarting
  <2>3. CASE Loaded(t)
    <3>1. ASSUME NEW r, Exit(t, r), UNCHANGED <<acquires, attempts>> PROVE GrantInv'
      BY <3>1, <2>k, GrantExit
    <3>2. CASE /\ pc' = [pc EXCEPT ![t] = "refreshing"]
               /\ UNCHANGED <<acquires, attempts, key>>
      BY <3>2, <2>k, <1>p DEF Restarting
    <3>3. CASE /\ GrantUsable(t) /\ CallAcquire(t) /\ RecordAttempt(t)
               /\ UNCHANGED key
      <4>1. acquires' = [acquires EXCEPT ![key[t]] = Counted(@)] /\ pc' = [pc EXCEPT ![t] = "acquiring"]
        BY <3>3 DEF CallAcquire
      <4>2. \A x \in Tasks : pc'[x] \in Restarting => pc[x] \in Restarting /\ key'[x] = key[x]
        BY <4>1, <3>3, <1>u DEF TypeOK, Restarting
      <4>3. CASE key[t] \notin AuthorizationCode
        <5>1. attempts' = attempts
          BY <3>3, <4>3 DEF RecordAttempt
        <5>2. \A k \in AuthorizationCode : acquires'[k] = acquires[k]
          BY <4>1, <4>3, ConstantsAssumption DEF TypeOK
        <5> QED
          BY <4>2, <5>1, <5>2 DEF GrantInv
      <4>4. CASE key[t] \in AuthorizationCode
        <5>1. key[t] \notin attempts /\ Cardinality(attempts) < MaxAttempts
          BY <3>3, <4>4 DEF GrantUsable
        <5>2. attempts' = attempts \cup {key[t]}
          BY <3>3, <4>4 DEF RecordAttempt
        <5>3. acquires[key[t]] = 0 /\ acquires'[key[t]] = 1
          BY <4>1, <4>4, <5>1, <2>k DEF GrantInv, TypeOK, Counted
        <5>4. \A k \in AuthorizationCode \ {key[t]} : acquires'[k] = acquires[k]
          BY <4>1, ConstantsAssumption DEF TypeOK
        <5>5. IsFiniteSet(attempts') /\ Cardinality(attempts') = Cardinality(attempts) + 1
          BY <5>1, <5>2, FS_AddElement DEF GrantInv
        <5>6. Cardinality(attempts) \in Nat
          BY FS_CardinalityType DEF GrantInv
        <5>7. Cardinality(attempts') <= MaxAttempts
          BY <5>1, <5>5, <5>6, ConstantsAssumption
        <5> QED
          BY <4>2, <5>2, <5>3, <5>4, <5>5, <5>7 DEF GrantInv
      <4> QED
        BY <4>3, <4>4
    <3> QED
      BY <2>3, <3>1, <3>2, <3>3 DEF Loaded
  <2>4. CASE Refreshed(t)
    BY <2>4, GrantCommit DEF Refreshed, ProviderAnswers
  <2>5. CASE RefreshRejected(t)
    <3>1. CASE key[t] \in AuthorizationCode
      BY <2>5, <3>1, <2>k, GrantExit DEF RefreshRejected
    <3>2. CASE key[t] \notin AuthorizationCode
      BY <2>5, <3>2, <1>u DEF RefreshRejected, GrantInv, TypeOK
    <3> QED
      BY <3>1, <3>2
  <2>6. CASE Yielded(t)
    BY <2>6, <1>u DEF Yielded, GrantInv, TypeOK, Restarting
  <2>7. CASE Removed(t)
    <3>1. key[t] \notin AuthorizationCode
      BY <2>7 DEF Removed, GrantInv, Restarting
    <3>2. \A k \in AuthorizationCode : acquires'[k] = acquires[k]
      BY <2>7, <3>1, ConstantsAssumption DEF Removed, CallAcquire, TypeOK
    <3>3. \A x \in Tasks : pc'[x] \in Restarting => pc[x] \in Restarting /\ key'[x] = key[x]
      BY <2>7, <1>u DEF Removed, CallAcquire, TypeOK, Restarting
    <3> QED
      BY <2>7, <3>2, <3>3 DEF Removed, GrantInv
  <2>8. CASE Acquired(t)
    BY <2>8, GrantCommit DEF Acquired, ProviderAnswers
  <2>9. CASE Saved(t)
    BY <2>9, <2>k, GrantExit DEF Saved
  <2>10. CASE Finished(t)
    BY <2>10, <2>k, <1>p DEF Finished, Restarting
  <2>11. CASE Collect(t)
    BY <2>11, GrantQuiet DEF Collect
  <2> QED
    BY <1>2, <2>1, <2>2, <2>3, <2>4, <2>5, <2>6, <2>7, <2>8, <2>9, <2>10, <2>11 DEF TaskStep
<1>3. ASSUME NEW u \in Users, SharedStep(u) \/ LockGranted(u) \/ Swallowed(u) PROVE GrantInv'
  <2>1. CASE Interrupted(u)
    BY <2>1, GrantExit DEF Interrupted
  <2>2. CASE CallFails(u)
    BY <2>2, GrantExit DEF CallFails
  <2>3. CASE LockGranted(u)
    BY <2>3, <1>p DEF LockGranted, Restarting
  <2>4. CASE Swallowed(u)
    BY <2>4, GrantQuiet DEF Swallowed
  <2> QED
    BY <1>3, <2>1, <2>2, <2>3, <2>4 DEF SharedStep
<1>4. CASE Environment
  <2>1. ASSUME NEW c \in Callers, NEW k \in Keys, Call(c, k) PROVE GrantInv'
    <3>1. \A x \in Tasks : pc'[x] = pc[x] /\ key'[x] = key[x]
      BY <2>1, <1>u DEF Call, TypeOK
    <3> QED
      BY <2>1, <3>1, GrantQuiet DEF Call
  <2>2. ASSUME NEW c \in Callers, CancelCaller(c) PROVE GrantInv'
    BY <2>2, GrantQuiet DEF CancelCaller
  <2>3. ASSUME NEW c \in Callers, Invalidate(c) PROVE GrantInv'
    BY <2>3, <1>u, <1>e DEF Invalidate
  <2>4. ASSUME NEW k \in Keys, Age(k) PROVE GrantInv'
    BY <2>4, GrantQuiet DEF Age
  <2> QED
    BY <1>3, <1>4, <2>1, <2>2, <2>3, <2>4 DEF Environment
<1> QED
  BY <1>s, <1>1, <1>2, <1>3, <1>4 DEF Next

LEMMA GrantInvariant == Spec => [](TypeOK /\ GrantInv)
<1> QED
  BY InitTypeOK, NextTypeOK, InitGrantInv, NextGrantInv, PTL DEF Spec

\* An authorization code reaches the provider at most once, whatever fails, is cancelled or
\* is retried: the attempt is on record before the code is presented.
THEOREM GrantOnceHolds == Spec => []GrantOnce
<1>1. TypeOK /\ GrantInv => GrantOnce
  BY DEF GrantInv, GrantOnce
<1> QED
  BY <1>1, GrantInvariant, PTL

\* No more codes are ever presented than the history can remember.
THEOREM GrantHistoryBoundedHolds == Spec => []GrantHistoryBounded
<1>1. TypeOK /\ GrantInv => GrantHistoryBounded
  <2> SUFFICES ASSUME TypeOK, GrantInv PROVE GrantHistoryBounded
    OBVIOUS
  <2> DEFINE presented == {k \in AuthorizationCode : acquires[k] > 0}
  <2>1. presented \subseteq attempts
    BY DEF GrantInv
  <2>2. Cardinality(presented) <= Cardinality(attempts) /\ IsFiniteSet(presented)
    BY <2>1, FS_Subset DEF GrantInv
  <2>3. Cardinality(presented) \in Nat /\ Cardinality(attempts) \in Nat
    BY <2>2, FS_CardinalityType DEF GrantInv
  <2> QED
    BY <2>2, <2>3, ConstantsAssumption DEF GrantInv, GrantHistoryBounded
<1> QED
  BY <1>1, GrantInvariant, PTL
=============================================================================
