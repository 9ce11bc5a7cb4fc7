-------------------------- MODULE TokenStoreProofs --------------------------
(* The store promises of TokenManager: tokens only move forward, an invalidation expires *)
(* what was rejected, and a replay gets an answer that was not put out of use. With them *)
(* TokenManager implements CredentialService.                                            *)
EXTENDS TokenManagerProofs

\* The renewal of a key works on that key, and so do those who wait for it.
KeyInv ==
    /\ \A k \in Keys, t \in Tasks : renewals[k] = t => key[t] = k /\ pc[t] # "finished"
    /\ \A c \in Callers : pc[c] = "waiting" => key[c] = key[awaited[c]]

\* Nothing is stored or rejected that was not issued, and what is fresh was not rejected.
Tokens(k) ==
    /\ store[k].access <= issued[k] /\ store[k].refresh <= issued[k]
    /\ rejected[k] \subseteq 1..issued[k]
    /\ store[k].fresh => store[k].access > 0 /\ store[k].access \notin rejected[k]

\* What a renewal is about to save is the latest answer, and newer than what is stored.
TaskWork(t) ==
    LET k == key[t] IN
    /\ pc[t] = "refreshing" => store[k].refresh <= held[t].refresh /\ held[t].refresh <= issued[k]
    /\ (pc[t] = "acquiring" /\ k \in Refreshing) => store[k].refresh = 0
    /\ pc[t] = "saving" =>
          /\ held[t].access = issued[k] /\ held[t].refresh <= issued[k]
          /\ store[k].access < issued[k] /\ issued[k] > 0 /\ issued[k] \notin rejected[k]
          /\ k \in Refreshing => store[k].refresh <= held[t].refresh
    /\ pc[t] \in Live => result[t].kind # "leased"

\* What an invalidation is about to save is the stored token set, of the rejected token.
CallerWork(c) ==
    /\ pc[c] \in Exclusive => result[c].kind = "leased"
    /\ pc[c] = "saving" =>
          /\ SameToken(key[c], store[key[c]].access, result[c].access)
          /\ [held[c] EXCEPT !.fresh = FALSE] = [store[key[c]] EXCEPT !.fresh = FALSE]

\* A lease was issued, and is not newer than what is stored.
Leased(u) ==
    result[u].kind = "leased" =>
        /\ 0 < result[u].access /\ result[u].access <= issued[key[u]]
        /\ store[key[u]].access = 0 \/ result[u].access <= store[key[u]].access

Barred(c) ==
    /\ barred[c] \subseteq rejected[key[c]]
    /\ result[c].kind = "leased" => result[c].access \notin barred[c]

\* The answer of t is, or may become, the answer to c.
Awaits(c, t) ==
    \/ pc[c] = "entering" /\ pc[t] = "done" /\ key[c] = key[t]
    \/ pc[c] = "waiting" /\ awaited[c] = t

Due(c, t) == (Awaits(c, t) /\ result[t].kind = "leased") => result[t].access \notin barred[c]

StoreInv ==
    /\ \A k \in Keys : Tokens(k)
    /\ \A t \in Tasks : TaskWork(t)
    /\ \A c \in Callers : CallerWork(c)
    /\ \A u \in Users : Leased(u)
    /\ \A c \in Callers : Barred(c)
    /\ \A c \in Callers, t \in Tasks : Due(c, t)
-----------------------------------------------------------------------------
LEMMA InitKeyInv == Init => KeyInv
BY ConstantsAssumption DEF Init, KeyInv, Users

LEMMA KeyQuiet ==
    ASSUME KeyInv, UNCHANGED <<renewals, key, awaited>>,
           \A c \in Callers : pc'[c] = "waiting" => pc[c] = "waiting",
           \A t \in Tasks : pc'[t] = "finished" => pc[t] = "finished"
    PROVE  KeyInv'
BY DEF KeyInv

LEMMA KeyMove ==
    ASSUME TypeOK, KeyInv, UNCHANGED <<renewals, key, awaited>>, NEW u \in Users,
           NEW p, p \notin {"waiting", "finished"}, pc' = [pc EXCEPT ![u] = p]
    PROVE  KeyInv'
<1>1. \A v \in Users : pc'[v] = IF v = u THEN p ELSE pc[v]
  BY DEF TypeOK
<1> QED
  BY <1>1, KeyQuiet DEF Users

LEMMA KeyExit ==
    ASSUME TypeOK, KeyInv, UNCHANGED renewals, NEW u \in Users, NEW r, Exit(u, r)
    PROVE  KeyInv'
<1>1. PICK p \in {"done", "idle"} : pc' = [pc EXCEPT ![u] = p]
  BY DEF Exit
<1> QED
  BY <1>1, KeyMove DEF Exit

LEMMA NextKeyInv == TypeOK /\ PointsOK /\ RenewInv /\ KeyInv /\ [Next]_vars => KeyInv'
<1> SUFFICES ASSUME TypeOK, PointsOK, RenewInv, KeyInv, [Next]_vars PROVE KeyInv'
  OBVIOUS
<1> USE DEF storeVars, renewVars, lockVars, localVars, historyVars
<1>u. Callers \subseteq Users /\ Tasks \subseteq Users /\ Callers \cap Tasks = {}
  BY ConstantsAssumption DEF Users
<1>s. CASE UNCHANGED vars
  BY <1>s DEF vars, KeyInv
<1>q. ASSUME UNCHANGED <<renewals, key, awaited, pc>> PROVE KeyInv'
  BY <1>q DEF KeyInv
<1>1. ASSUME NEW c \in Callers, CallerStep(c) PROVE KeyInv'
  <2>1. CASE EntryCancelled(c) \/ ResolveFails(c)
    BY <2>1, <1>u, KeyMove DEF EntryCancelled, ResolveFails, Return
  <2>2. CASE Join(c)
    <3> DEFINE t == renewals[key[c]]
    <3>1. t \in Tasks /\ t # c /\ key[c] \in Keys
      BY <2>2, <1>u DEF Join, Joinable, TypeOK
    <3>2. CASE pc[t] = "done"
      BY <2>2, <3>2, <1>u, KeyMove DEF Join, Return
    <3>3. CASE pc[t] # "done"
      <4>1. /\ pc' = [pc EXCEPT ![c] = "waiting"]
            /\ awaited' = [awaited EXCEPT ![c] = t]
            /\ UNCHANGED <<renewals, key>>
        BY <2>2, <3>3 DEF Join
      <4>2. key[t] = key[c]
        BY <3>1 DEF KeyInv
      <4>3. \A d \in Callers \ {c} : pc'[d] = pc[d] /\ awaited'[d] = awaited[d]
        BY <4>1, <1>u DEF TypeOK
      <4>4. \A s \in Tasks : pc'[s] = pc[s]
        BY <4>1, <1>u DEF TypeOK
      <4>5. awaited'[c] = t
        BY <4>1 DEF TypeOK
      <4> HIDE DEF t
      <4> QED
        BY <4>1, <4>2, <4>3, <4>4, <4>5 DEF KeyInv
    <3> QED
      BY <3>2, <3>3
  <2>3. ASSUME NEW t \in Tasks, StartRenewal(c, t) PROVE KeyInv'
    <3>1. /\ renewals' = [renewals EXCEPT ![key[c]] = t]
          /\ pc' = [pc EXCEPT ![c] = "waiting", ![t] = "created"]
          /\ key' = [key EXCEPT ![t] = key[c]]
          /\ awaited' = [awaited EXCEPT ![c] = t]
          /\ pc[t] = "finished" /\ waiters[t] = {} /\ c # t /\ key[c] \in Keys
      BY <2>3, <1>u DEF StartRenewal, Collected, TypeOK
    <3>2. \A d \in Callers : pc[d] = "waiting" => awaited[d] # t
      BY <3>1 DEF RenewInv
    <3>3. \A v \in Users \ {t} : key'[v] = key[v]
      BY <3>1 DEF TypeOK
    <3>4. key'[t] = key[c] /\ pc'[t] = "created" /\ key'[c] = key[c] /\ awaited'[c] = t
      BY <3>1, <1>u DEF TypeOK
    <3>5. \A v \in Users \ {c, t} : pc'[v] = pc[v]
      BY <3>1 DEF TypeOK
    <3>6. \A d \in Callers \ {c} : awaited'[d] = awaited[d] /\ (pc[d] = "waiting" => awaited[d] \in Tasks)
      BY <3>1 DEF TypeOK
    <3>7. \A k \in Keys, s \in Tasks : renewals'[k] = s => key'[s] = k /\ pc'[s] # "finished"
      <4> SUFFICES ASSUME NEW k \in Keys, NEW s \in Tasks, renewals'[k] = s
                   PROVE  key'[s] = k /\ pc'[s] # "finished"
        OBVIOUS
      <4>1. CASE s = t
        BY <3>1, <3>4, <4>1 DEF KeyInv, TypeOK
      <4>2. CASE s # t
        <5>1. renewals[k] = s
          BY <3>1, <4>2 DEF TypeOK
        <5> QED
          BY <5>1, <3>3, <3>5, <4>2, <1>u DEF KeyInv
      <4> QED
        BY <4>1, <4>2
    <3>8. ASSUME NEW d \in Callers, pc'[d] = "waiting" PROVE key'[d] = key'[awaited'[d]]
      <4>1. CASE d = c
        BY <3>4, <4>1
      <4>2. CASE d # c
        <5>1. d # t /\ pc[d] = "waiting" /\ awaited'[d] = awaited[d] /\ awaited[d] \in Tasks /\ awaited[d] # t
          BY <3>8, <3>2, <3>5, <3>6, <4>2, <1>u
        <5> QED
          BY <5>1, <3>3, <1>u DEF KeyInv
      <4> QED
        BY <4>1, <4>2
    <3> QED
      BY <3>7, <3>8 DEF KeyInv
  <2>4. CASE Resume(c) \/ Abandon(c)
    <3>1. /\ pc' = [pc EXCEPT ![c] = "idle"] /\ awaited' = [awaited EXCEPT ![c] = NoTask]
          /\ UNCHANGED <<renewals, key>>
      BY <2>4 DEF Resume, Abandon, Detach, Return
    <3>2. /\ \A v \in Users : pc'[v] = IF v = c THEN "idle" ELSE pc[v]
          /\ \A d \in Callers \ {c} : awaited'[d] = awaited[d]
      BY <3>1 DEF TypeOK
    <3> QED
      BY <3>1, <3>2, <1>u DEF KeyInv
  <2>5. CASE InvalidateLoaded(c)
    BY <2>5, <1>u, KeyMove, KeyExit DEF InvalidateLoaded
  <2>6. CASE InvalidateSaved(c)
    BY <2>6, <1>u, KeyExit DEF InvalidateSaved
  <2> QED
    BY <1>1, <2>1, <2>2, <2>3, <2>4, <2>5, <2>6 DEF CallerStep
<1>e. ASSUME NEW u \in Users, NEW k, EnterExclusive(u, k), UNCHANGED <<renewals, awaited, key>> PROVE KeyInv'
  <2>1. PICK p \in {"loading", "locking"} : pc' = [pc EXCEPT ![u] = p]
    BY <1>e DEF EnterExclusive
  <2> QED
    BY <1>e, <2>1, KeyMove
<1>2. ASSUME NEW t \in Tasks, TaskStep(t) PROVE KeyInv'
  <2>1. CASE Begin(t)
    BY <2>1, <1>u, <1>e DEF Begin
  <2>2. CASE NeverBegun(t) \/ Yielded(t)
    BY <2>2, <1>u, KeyMove DEF NeverBegun, Yielded
  <2>3. CASE Loaded(t)
    BY <2>3, <1>u, KeyMove, KeyExit DEF Loaded, CallAcquire
  <2>4. ASSUME NEW tokens, Commit(t, tokens), UNCHANGED renewals PROVE KeyInv'
    BY <2>4, <1>u, KeyMove, KeyExit DEF Commit
  <2>5. CASE Refreshed(t) \/ Acquired(t)
    BY <2>5, <2>4 DEF Refreshed, Acquired, ProviderAnswers
  <2>6. CASE RefreshRejected(t)
    BY <2>6, <1>u, KeyMove, KeyExit DEF RefreshRejected
  <2>7. CASE Removed(t)
    BY <2>7, <1>u, KeyMove DEF Removed, CallAcquire
  <2>8. CASE Saved(t)
    BY <2>8, <1>u, KeyExit DEF Saved
  <2>9. CASE Finished(t)
    <3>1. /\ pc' = [pc EXCEPT ![t] = "finished"]
          /\ renewals' = [renewals EXCEPT ![key[t]] = IF @ = t THEN NoTask ELSE @]
          /\ UNCHANGED <<key, awaited>>
      BY <2>9 DEF Finished, Forget
    <3>2. \A v \in Users : pc'[v] = IF v = t THEN "finished" ELSE pc[v]
      BY <3>1 DEF TypeOK
    <3>3. ASSUME NEW k \in Keys, NEW s \in Tasks, renewals'[k] = s PROVE key'[s] = k /\ pc'[s] # "finished"
      <4>1. renewals[k] = s /\ s # t
        BY <3>1, <3>3, ConstantsAssumption DEF KeyInv, TypeOK
      <4> QED
        BY <4>1, <3>1, <3>2, <1>u DEF KeyInv
    <3> QED
      BY <3>1, <3>2, <3>3, <1>u DEF KeyInv
  <2>10. CASE Collect(t)
    BY <2>10, <1>q DEF Collect
  <2> QED
    BY <1>2, <2>1, <2>2, <2>3, <2>5, <2>6, <2>7, <2>8, <2>9, <2>10 DEF TaskStep
<1>3. ASSUME NEW u \in Users, SharedStep(u) \/ LockGranted(u) PROVE KeyInv'
  <2>1. CASE SharedStep(u)
    BY <2>1, KeyExit DEF SharedStep, Interrupted, CallFails
  <2>2. CASE LockGranted(u)
    BY <2>2, KeyMove DEF LockGranted
  <2> QED
    BY <1>3, <2>1, <2>2
<1>4. CASE Environment
  <2>1. ASSUME NEW c \in Callers, NEW k \in Keys, Call(c, k) PROVE KeyInv'
    <3>1. /\ pc[c] = "idle" /\ pc' = [pc EXCEPT ![c] = "entering"] /\ key' = [key EXCEPT ![c] = k]
          /\ UNCHANGED <<renewals, awaited>>
      BY <2>1 DEF Call
    <3>2. \A v \in Users \ {c} : pc'[v] = pc[v] /\ key'[v] = key[v]
      BY <3>1 DEF TypeOK
    <3>3. pc'[c] = "entering"
      BY <3>1, <1>u DEF TypeOK
    <3>4. \A d \in Callers : pc[d] = "waiting" => awaited[d] \in Users \ {c}
      BY <1>u DEF TypeOK
    <3> QED
      BY <3>1, <3>2, <3>3, <3>4, <1>u DEF KeyInv
  <2>2. ASSUME NEW c \in Callers, Invalidate(c) PROVE KeyInv'
    BY <2>2, <1>u, <1>e DEF Invalidate
  <2>3. ASSUME NEW c \in Callers, CancelCaller(c) PROVE KeyInv'
    BY <2>3, <1>q DEF CancelCaller
  <2>4. ASSUME NEW u \in Users, Swallowed(u) PROVE KeyInv'
    BY <2>4, <1>q DEF Swallowed
  <2>5. ASSUME NEW k \in Keys, Age(k) PROVE KeyInv'
    BY <2>5, <1>q DEF Age
  <2> QED
    BY <1>4, <2>1, <2>2, <2>3, <2>4, <2>5 DEF Environment
<1> QED
  BY <1>s, <1>1, <1>2, <1>3, <1>4 DEF Next
-----------------------------------------------------------------------------
(* A step of one coroutine touches only the tokens of its key, and only from inside _exclusive. *)

Frame(u) ==
    /\ \A v \in Users \ {u} : pc'[v] = pc[v] /\ key'[v] = key[v] /\ held'[v] = held[v] /\ result'[v] = result[v]
    /\ key'[u] = key[u] /\ barred' = barred
    /\ \A c \in Callers \ {u} : awaited'[c] = awaited[c]
    /\ \A k \in Keys \ {key[u]} : store'[k] = store[k] /\ issued'[k] = issued[k] /\ rejected'[k] = rejected[k]
    /\ pc[u] \in Critical \/ UNCHANGED <<store, issued, rejected>>

Advance(k) ==
    /\ issued[k] <= issued'[k] /\ rejected[k] \subseteq rejected'[k]
    /\ store'[k].access \in {0, store[k].access, issued'[k]}

LEMMA Numbers ==
    ASSUME TypeOK
    PROVE  /\ \A k \in Keys : issued[k] \in Nat /\ store[k].access \in Nat /\ store[k].refresh \in Nat
           /\ \A u \in Users : /\ held[u].access \in Int /\ held[u].refresh \in Int
                               /\ result[u].access \in Nat /\ key[u] \in Keys
BY ConstantsAssumption DEF TypeOK, Token, Result

LEMMA InitStoreInv == Init => StoreInv
<1> SUFFICES ASSUME Init PROVE StoreInv
  OBVIOUS
<1>1. \A k \in Keys : store[k] = NoToken \/ (store[k].access = 1 /\ store[k].refresh <= 1)
  BY DEF Init
<1>2. \A k \in Keys : issued[k] = store[k].access /\ rejected[k] = {}
  BY DEF Init
<1>3. \A k \in Keys : Tokens(k)
  BY <1>1, <1>2 DEF Tokens, NoToken
<1>4. \A u \in Users : result[u].kind = "none" /\ pc[u] \in {"idle", "finished"}
  BY DEF Init, Nothing
<1>5. \A c \in Callers : barred[c] = {} /\ key[c] \in Keys /\ c \in Users
  BY DEF Init, Users
<1> QED
  BY <1>2, <1>3, <1>4, <1>5
  DEF StoreInv, TaskWork, CallerWork, Leased, Barred, Due, Awaits, Live, Exclusive, Critical, Users

LEMMA StoreQuiet ==
    ASSUME StoreInv, UNCHANGED <<store, issued, rejected, barred, pc, key, held, result, awaited>>
    PROVE  StoreInv'
BY DEF StoreInv, Tokens, TaskWork, CallerWork, Leased, Barred, Due, Awaits

\* Who is not concerned by a step keeps what is true of it.
LEMMA Framed ==
    ASSUME TypeOK, TypeOK', MutualExclusion, StoreInv, NEW u \in Users, Frame(u), Advance(key[u]),
           Tokens(key[u])', Leased(u)',
           u \in Tasks => TaskWork(u)' /\ \A c \in Callers : Due(c, u)',
           u \in Callers => CallerWork(u)' /\ Barred(u)' /\ \A t \in Tasks : Due(u, t)'
    PROVE  StoreInv'
<1>u. Callers \subseteq Users /\ Tasks \subseteq Users /\ Callers \cap Tasks = {} /\ key[u] \in Keys
  BY ConstantsAssumption DEF Users, TypeOK
<1>k. \A k \in Keys : Advance(k)
  BY Numbers DEF Frame, Advance
<1>v. \A v \in Users \ {u} : pc[v] \in Critical =>
        store'[key[v]] = store[key[v]] /\ issued'[key[v]] = issued[key[v]] /\ rejected'[key[v]] = rejected[key[v]]
  BY <1>u, Numbers DEF Frame, MutualExclusion
<1>1. \A k \in Keys : Tokens(k)'
  BY <1>u DEF Frame, StoreInv, Tokens
<1>2. \A t \in Tasks : TaskWork(t)'
  <2> SUFFICES ASSUME NEW t \in Tasks, t # u PROVE TaskWork(t)'
    BY <1>u
  <2>1. TaskWork(t) /\ pc'[t] = pc[t] /\ key'[t] = key[t] /\ held'[t] = held[t] /\ result'[t] = result[t]
    BY <1>u DEF StoreInv, Frame
  <2>2. pc[t] \in Critical =>
          store'[key[t]] = store[key[t]] /\ issued'[key[t]] = issued[key[t]] /\ rejected'[key[t]] = rejected[key[t]]
    BY <1>u, <1>v
  <2> QED
    BY <2>1, <2>2 DEF TaskWork, Critical
<1>3. \A c \in Callers : CallerWork(c)'
  <2> SUFFICES ASSUME NEW c \in Callers, c # u PROVE CallerWork(c)'
    BY <1>u
  <2>1. CallerWork(c) /\ pc'[c] = pc[c] /\ key'[c] = key[c] /\ held'[c] = held[c] /\ result'[c] = result[c]
    BY <1>u DEF StoreInv, Frame
  <2>2. pc[c] \in Critical => store'[key[c]] = store[key[c]]
    BY <1>u, <1>v
  <2> QED
    BY <2>1, <2>2 DEF CallerWork, Critical
<1>4. \A v \in Users : Leased(v)'
  <2> SUFFICES ASSUME NEW v \in Users, v # u PROVE Leased(v)'
    BY <1>u
  <2>1. Leased(v) /\ key'[v] = key[v] /\ result'[v] = result[v] /\ key[v] \in Keys
    BY Numbers DEF StoreInv, Frame
  <2>2. Advance(key[v]) /\ issued[key[v]] \in Int /\ issued'[key[v]] \in Int /\ result[v].access \in Int
        /\ store[key[v]].access \in Int
    BY <2>1, <1>k, Numbers DEF TypeOK
  <2> QED
    BY <2>1, <2>2 DEF Leased, Advance
<1>5. \A c \in Callers : Barred(c)'
  <2> SUFFICES ASSUME NEW c \in Callers, c # u PROVE Barred(c)'
    BY <1>u
  <2>1. Barred(c) /\ key'[c] = key[c] /\ result'[c] = result[c] /\ key[c] \in Keys /\ barred' = barred
    BY <1>u, Numbers DEF StoreInv, Frame
  <2>2. rejected[key[c]] \subseteq rejected'[key[c]]
    BY <2>1, <1>k DEF Advance
  <2> QED
    BY <2>1, <2>2 DEF Barred
<1>6. \A c \in Callers, t \in Tasks : Due(c, t)'
  <2> SUFFICES ASSUME NEW c \in Callers, NEW t \in Tasks, c # u, t # u PROVE Due(c, t)'
    BY <1>u
  <2> QED
    BY <1>u DEF StoreInv, Frame, Due, Awaits
<1> QED
  BY <1>1, <1>2, <1>3, <1>4, <1>5, <1>6 DEF StoreInv

\* What a store call writes is no older than what is there, was issued, and is fresh only
\* if it was not rejected.
LEMMA EffectSound ==
    ASSUME TypeOK, PointsOK, StoreInv, NEW u \in Users, pc[u] \in Exclusive
    PROVE  LET s == Effect(u)  k == key[u] IN
           /\ s.access <= issued[k] /\ s.refresh <= issued[k]
           /\ s.fresh => s.access > 0 /\ s.access \notin rejected[k]
           /\ s.access \in {0, store[k].access, issued[k]}
           /\ Forward(store[k], s, k)
           /\ pc[u] = "locking" => s = store[k]
<1> DEFINE k == key[u]
<1>n. /\ issued[k] \in 0..MaxIssued /\ store[k].access \in Int /\ store[k].refresh \in Int
      /\ store[k] \in Token /\ held[u] \in Token
  BY Numbers DEF TypeOK
<1>t. Tokens(k)
  BY Numbers DEF StoreInv
<1>u. Callers \subseteq Users /\ Tasks \subseteq Users /\ Callers \cap Tasks = {} /\ (u \in Callers \/ u \in Tasks)
  BY ConstantsAssumption DEF Users
<1>1. CASE pc[u] = "removing"
  <2>1. Effect(u) = NoToken
    BY <1>1 DEF Effect
  <2> QED
    BY <1>1, <2>1, <1>n DEF NoToken, Forward
<1>2. CASE pc[u] = "saving" /\ u \in Tasks
  <2>1. Effect(u) = held[u] /\ TaskWork(u)
    BY <1>2 DEF Effect, StoreInv
  <2> QED
    BY <1>2, <2>1, <1>n DEF TaskWork, Forward
<1>3. CASE pc[u] = "saving" /\ u \in Callers
  <2>1. CallerWork(u) /\ Effect(u) = [held[u] EXCEPT !.fresh = FALSE]
    BY <1>3, <1>u DEF Effect, StoreInv
  <2>2. Effect(u) = [store[k] EXCEPT !.fresh = FALSE]
    BY <1>3, <2>1 DEF CallerWork
  <2>3. Effect(u).access = store[k].access /\ Effect(u).refresh = store[k].refresh /\ ~Effect(u).fresh
    BY <2>2, <1>n DEF Token
  <2> QED
    BY <1>3, <1>t, <2>2, <2>3, <1>n DEF Tokens, Forward
<1>4. CASE pc[u] \notin {"removing", "saving"}
  <2>1. Effect(u) = store[k]
    BY <1>4 DEF Effect
  <2> QED
    BY <2>1, <1>t DEF Tokens, Forward
<1> QED
  BY <1>1, <1>2, <1>3, <1>4, <1>u

\* Leaving _exclusive: what is returned is nothing new, or a lease that was not rejected.
LEMMA StoreExit ==
    ASSUME TypeOK, TypeOK', PointsOK, MutualExclusion, KeyInv, StoreInv,
           NEW u \in Users, pc[u] \in Exclusive, NEW r, Exit(u, r), barred' = barred,
           \A k \in Keys \ {key[u]} : store'[k] = store[k] /\ issued'[k] = issued[k] /\ rejected'[k] = rejected[k],
           pc[u] \in Critical \/ UNCHANGED <<store, issued, rejected>>,
           Advance(key[u]), Tokens(key[u])',
           r.kind = "leased" =>
               /\ u \in Callers => r = result[u]
               /\ u \in Tasks => /\ 0 < r.access /\ r.access <= issued'[key[u]]
                                 /\ store'[key[u]].access = 0 \/ r.access <= store'[key[u]].access
                                 /\ r.access \notin rejected[key[u]]
    PROVE  StoreInv'
<1> DEFINE k == key[u]
<1>u. Callers \subseteq Users /\ Tasks \subseteq Users /\ Callers \cap Tasks = {} /\ (u \in Callers \/ u \in Tasks)
  BY ConstantsAssumption DEF Users
<1>1. Frame(u)
  BY DEF Exit, Frame, TypeOK
<1>2. /\ pc'[u] = IF u \in Tasks THEN "done" ELSE "idle"
      /\ key'[u] = k /\ result'[u] = r /\ awaited' = awaited /\ k \in Keys
  BY Numbers DEF Exit, TypeOK
<1>n. /\ issued[k] \in Int /\ issued'[k] \in Int
      /\ store[k].access \in Int /\ store'[k].access \in Int
      /\ result[u].access \in Int
  BY <1>2, Numbers DEF TypeOK, Token
<1>3. CASE u \in Callers
  <2>1. pc'[u] = "idle" /\ u \notin Tasks
    BY <1>2, <1>3, <1>u
  <2>2. CallerWork(u)' /\ \A t \in Tasks : Due(u, t)'
    BY <2>1 DEF CallerWork, Due, Awaits, Exclusive, Critical
  <2>3. Barred(u) /\ Leased(u)
    BY <1>3, <1>u DEF StoreInv
  <2>4. Barred(u)'
    BY <1>2, <1>3, <2>3, <1>n DEF Barred, Advance
  <2>5. Leased(u)'
    <3> SUFFICES ASSUME r.kind = "leased"
                 PROVE  /\ 0 < r.access /\ r.access <= issued'[k]
                        /\ store'[k].access = 0 \/ r.access <= store'[k].access
      BY <1>2 DEF Leased
    <3>1. r = result[u]
      BY <1>3
    <3> QED
      BY <3>1, <2>3, <1>n DEF Leased, Advance
  <2> QED
    BY <1>1, <2>1, <2>2, <2>4, <2>5, Framed
<1>4. CASE u \in Tasks
  <2>1. pc'[u] = "done" /\ u \notin Callers
    BY <1>2, <1>4, <1>u
  <2>2. TaskWork(u)'
    BY <2>1 DEF TaskWork, Live, Exclusive, Critical
  <2>3. Leased(u)'
    BY <1>2, <1>4 DEF Leased
  <2>4. ASSUME NEW c \in Callers PROVE Due(c, u)'
    <3> SUFFICES ASSUME Awaits(c, u)', r.kind = "leased" PROVE r.access \notin barred'[c]
      BY <1>2 DEF Due
    <3>1. c # u /\ pc'[c] = pc[c] /\ key'[c] = key[c] /\ awaited'[c] = awaited[c]
      BY <1>1, <1>2, <1>4, <1>u DEF Frame
    <3>2. key[c] = k
      BY <3>1, <1>2 DEF Awaits, KeyInv
    <3>3. barred[c] \subseteq rejected[k] /\ barred'[c] = barred[c]
      BY <3>2 DEF StoreInv, Barred
    <3> QED
      BY <3>3, <1>4
  <2> QED
    BY <1>1, <2>1, <2>2, <2>3, <2>4, Framed
<1> QED
  BY <1>3, <1>4, <1>u

\* A store call that took effect, or did not, and ended the work of u.
LEMMA EffectExit ==
    ASSUME TypeOK, TypeOK', PointsOK, MutualExclusion, KeyInv, StoreInv,
           NEW u \in Users, pc[u] \in Exclusive, MaybeEffect(u), UNCHANGED <<issued, rejected, barred>>,
           NEW r, Exit(u, r), r.kind # "leased"
    PROVE  StoreInv'
<1> DEFINE k == key[u]
<1>1. k \in Keys /\ (store' = store \/ store' = [store EXCEPT ![k] = Effect(u)])
  BY Numbers DEF MaybeEffect
<1>2. \A j \in Keys : store'[j] = store[j] \/ (j = k /\ store'[j] = Effect(u))
  BY <1>1 DEF TypeOK
<1>3. Tokens(k)
  BY <1>1 DEF StoreInv
<1>n. issued[k] \in Int /\ store[k].access \in Int
  BY <1>1, Numbers
<1>e. LET s == Effect(u) IN
      /\ s.access <= issued[k] /\ s.refresh <= issued[k]
      /\ s.fresh => s.access > 0 /\ s.access \notin rejected[k]
      /\ s.access \in {0, store[k].access, issued[k]}
  BY EffectSound
<1>k. key' = key
  BY DEF Exit
<1>4. Tokens(k)' /\ Advance(k)
  <2>1. CASE store'[k] = store[k]
    BY <2>1, <1>3, <1>k, <1>n DEF Tokens, Advance
  <2>2. CASE store'[k] = Effect(u)
    <3> DEFINE s == Effect(u)
    <3>1. /\ s.access <= issued[k] /\ s.refresh <= issued[k]
          /\ s.fresh => s.access > 0 /\ s.access \notin rejected[k]
          /\ s.access \in {0, store[k].access, issued[k]}
      BY <1>e
    <3>2. store'[k] = s
      BY <2>2
    <3> HIDE DEF s
    <3>3. Tokens(k)'
      BY <3>1, <3>2, <1>k, <1>3 DEF Tokens
    <3> QED
      BY <3>1, <3>2, <3>3, <1>n DEF Advance
  <2> QED
    BY <1>1, <1>2, <2>1, <2>2
<1>5. pc[u] \in Critical \/ store' = store
  <2> SUFFICES ASSUME pc[u] = "locking" PROVE store' = store
    BY DEF Exclusive
  <2>1. Effect(u) = store[k]
    BY EffectSound
  <2> QED
    BY <1>1, <2>1 DEF TypeOK
<1> QED
  BY <1>2, <1>4, <1>5, StoreExit
-----------------------------------------------------------------------------
\* A coroutine goes on to its next suspension point and answers nobody.
LEMMA StoreMove ==
    ASSUME TypeOK, TypeOK', MutualExclusion, StoreInv, NEW u \in Users, NEW p, pc' = [pc EXCEPT ![u] = p],
           UNCHANGED <<rejected, barred, key, result, awaited>>,
           \A v \in Users \ {u} : held'[v] = held[v],
           \A k \in Keys \ {key[u]} : store'[k] = store[k] /\ issued'[k] = issued[k],
           pc[u] \in Critical \/ UNCHANGED <<store, issued>>,
           Advance(key[u]), Tokens(key[u])',
           u \in Tasks => TaskWork(u)' /\ p # "done",
           u \in Callers => CallerWork(u)' /\ p \notin {"entering", "waiting"}
    PROVE  StoreInv'
<1> DEFINE k == key[u]
<1>u. Callers \subseteq Users /\ Tasks \subseteq Users /\ Callers \cap Tasks = {} /\ (u \in Callers \/ u \in Tasks)
  BY ConstantsAssumption DEF Users
<1>1. Frame(u) /\ pc'[u] = p
  BY DEF Frame, TypeOK
<1>n. /\ k \in Keys /\ issued[k] \in Int /\ issued'[k] \in Int /\ store[k].access \in Int /\ store'[k].access \in Int
      /\ result[u].access \in Int
  BY Numbers DEF TypeOK, Token
<1>2. Leased(u)'
  BY <1>n DEF StoreInv, Leased, Advance
<1>3. CASE u \in Callers
  <2>1. Barred(u)' /\ \A t \in Tasks : Due(u, t)'
    BY <1>1, <1>3 DEF StoreInv, Barred, Due, Awaits
  <2> QED
    BY <1>1, <1>2, <1>3, <2>1, <1>u, Framed
<1>4. CASE u \in Tasks
  <2>1. \A c \in Callers : Due(c, u)'
    BY <1>1, <1>4, <1>u DEF StoreInv, Due, Awaits, Frame
  <2> QED
    BY <1>1, <1>2, <1>4, <2>1, <1>u, Framed
<1> QED
  BY <1>3, <1>4, <1>u

\* The same without a change of what is stored or issued.
LEMMA StoreGo ==
    ASSUME TypeOK, TypeOK', MutualExclusion, StoreInv, NEW u \in Users, NEW p, pc' = [pc EXCEPT ![u] = p],
           UNCHANGED <<store, issued, rejected, barred, key, result, awaited>>,
           \A v \in Users \ {u} : held'[v] = held[v],
           u \in Tasks => TaskWork(u)' /\ p # "done",
           u \in Callers => CallerWork(u)' /\ p \notin {"entering", "waiting"}
    PROVE  StoreInv'
<1>1. key[u] \in Keys /\ Tokens(key[u])
  BY Numbers DEF StoreInv
<1>2. Tokens(key[u])' /\ Advance(key[u])
  BY <1>1, Numbers DEF Tokens, Advance
<1> QED
  BY <1>2, StoreMove

LEMMA StoreEnter ==
    ASSUME TypeOK, TypeOK', PointsOK, MutualExclusion, StoreInv, NEW u \in Users, EnterExclusive(u, key[u]),
           UNCHANGED <<store, issued, rejected, barred, key, held, result, awaited>>,
           \/ u \in Callers /\ result[u].kind = "leased"
           \/ u \in Tasks /\ pc[u] = "created"
    PROVE  StoreInv'
<1>u. Callers \cap Tasks = {}
  BY ConstantsAssumption
<1>1. PICK p \in {"loading", "locking"} : pc' = [pc EXCEPT ![u] = p]
  BY DEF EnterExclusive
<1>2. pc'[u] = p
  BY <1>1 DEF TypeOK
<1>3. u \in Callers => CallerWork(u)'
  BY <1>2, <1>u DEF CallerWork
<1>4. u \in Tasks => TaskWork(u)'
  BY <1>2, <1>u DEF TaskWork, StoreInv, Live
<1> QED
  BY <1>1, <1>3, <1>4, StoreGo

\* A provider answered: the answer is saved, or dropped by a renewal that was cancelled.
LEMMA StoreCommit ==
    ASSUME TypeOK, TypeOK', PointsOK, MutualExclusion, KeyInv, StoreInv,
           NEW t \in Tasks, pc[t] \in {"refreshing", "acquiring"}, ProviderAnswers(t),
           NEW tokens \in Token, Commit(t, tokens),
           tokens.access = issued[key[t]] + 1, tokens.refresh <= issued[key[t]] + 1,
           key[t] \in Refreshing => store[key[t]].refresh <= tokens.refresh
    PROVE  StoreInv'
<1> DEFINE k == key[t]
<1>u. t \in Users /\ t \notin Callers
  BY ConstantsAssumption DEF Users
<1>n. k \in Keys /\ issued[k] \in Int /\ store[k].access \in Int /\ store[k].refresh \in Int
  BY <1>u, Numbers
<1>1. /\ issued' = [issued EXCEPT ![k] = @ + 1]
      /\ UNCHANGED <<store, rejected, barred>>
  BY DEF ProviderAnswers, historyVars
<1>2. issued'[k] = issued[k] + 1 /\ \A j \in Keys \ {k} : issued'[j] = issued[j]
  BY <1>1, <1>n DEF TypeOK
<1>3. Tokens(k)
  BY <1>n DEF StoreInv
<1>4. key' = key /\ pc[t] \in Critical /\ pc[t] \in Exclusive
  BY DEF Commit, Exit, Critical, Exclusive
<1>5. Tokens(k)' /\ Advance(k)
  BY <1>1, <1>2, <1>3, <1>4, <1>n DEF Tokens, Advance
<1>r. issued[k] + 1 > 0 /\ issued[k] + 1 \notin rejected[k]
  BY <1>3, <1>n, <1>u, Numbers DEF Tokens
<1>6. CASE MayCommit(t)
  <2>1. /\ pc' = [pc EXCEPT ![t] = "saving"] /\ held' = [held EXCEPT ![t] = tokens]
        /\ UNCHANGED <<key, awaited, result>>
    BY <1>6 DEF Commit
  <2>2. pc'[t] = "saving" /\ held'[t] = tokens /\ \A v \in Users \ {t} : held'[v] = held[v]
    BY <2>1, <1>u DEF TypeOK
  <2>3. result[t].kind # "leased"
    BY <1>4 DEF StoreInv, TaskWork, Live
  <2>4. TaskWork(t)'
    BY <1>1, <1>2, <1>3, <1>n, <1>r, <2>1, <2>2, <2>3 DEF TaskWork, Tokens
  <2> QED
    BY <1>1, <1>2, <1>4, <1>5, <1>u, <2>1, <2>2, <2>4, StoreMove
<1>7. CASE ~MayCommit(t)
  <2>1. Exit(t, Cancelled) /\ Cancelled.kind # "leased"
    BY <1>7 DEF Commit, Cancelled
  <2> HIDE DEF k
  <2> QED
    BY <1>1, <1>2, <1>4, <1>5, <1>u, <2>1, StoreExit DEF k
<1> QED
  BY <1>6, <1>7

\* A caller ends its call while it awaits, or is about to await, a renewal.
LEMMA StoreReturn ==
    ASSUME TypeOK, TypeOK', MutualExclusion, StoreInv, NEW c \in Callers, pc[c] \in {"entering", "waiting"},
           NEW r, Return(c, r), UNCHANGED <<store, issued, rejected, barred, key, held>>,
           \A d \in Callers \ {c} : awaited'[d] = awaited[d],
           r.kind = "leased" => \E t \in Tasks : r = result[t] /\ key[t] = key[c] /\ Awaits(c, t)
    PROVE  StoreInv'
<1>u. Callers \subseteq Users /\ Tasks \subseteq Users /\ Callers \cap Tasks = {}
  BY ConstantsAssumption DEF Users
<1>1. pc'[c] = "idle" /\ result'[c] = r /\ key[c] \in Keys
  BY <1>u, Numbers DEF Return, TypeOK
<1>2. Frame(c)
  BY <1>u DEF Frame, Return, TypeOK
<1>3. Tokens(key[c])' /\ Advance(key[c])
  BY <1>1, Numbers DEF StoreInv, Tokens, Advance
<1>4. CallerWork(c)' /\ \A t \in Tasks : Due(c, t)'
  BY <1>1 DEF CallerWork, Due, Awaits, Exclusive, Critical
<1>5. Leased(c)' /\ Barred(c)'
  <2>1. CASE r.kind # "leased"
    BY <1>1, <2>1 DEF StoreInv, Leased, Barred
  <2>2. CASE r.kind = "leased"
    <3>1. PICK t \in Tasks : r = result[t] /\ key[t] = key[c] /\ Awaits(c, t)
      BY <2>2
    <3>2. Leased(t) /\ Due(c, t) /\ Barred(c)
      BY <1>u DEF StoreInv
    <3> QED
      BY <1>1, <2>2, <3>1, <3>2 DEF Leased, Due, Barred
  <2> QED
    BY <2>1, <2>2
<1> QED
  BY <1>u, <1>2, <1>3, <1>4, <1>5, Framed
-----------------------------------------------------------------------------
LEMMA NextStoreInv == TypeOK /\ PointsOK /\ MutualExclusion /\ RenewInv /\ KeyInv /\ StoreInv /\ TypeOK' /\ [Next]_vars => StoreInv'
<1> SUFFICES ASSUME TypeOK, PointsOK, MutualExclusion, RenewInv, KeyInv, StoreInv, TypeOK', [Next]_vars
             PROVE  StoreInv'
  OBVIOUS
<1> USE DEF storeVars, renewVars, lockVars, localVars, historyVars
<1>u. Callers \subseteq Users /\ Tasks \subseteq Users /\ Callers \cap Tasks = {}
  BY ConstantsAssumption DEF Users
<1>f. Failure.kind # "leased" /\ Cancelled.kind # "leased" /\ Nothing.kind # "leased"
  BY DEF Failure, Cancelled, Nothing
<1>s. CASE UNCHANGED vars
  BY <1>s, StoreQuiet DEF vars
<1>1. ASSUME NEW c \in Callers, CallerStep(c) PROVE StoreInv'
  <2>1. CASE EntryCancelled(c) \/ ResolveFails(c)
    BY <2>1, <1>f, StoreReturn DEF EntryCancelled, ResolveFails
  <2>2. CASE Join(c)
    <3> DEFINE t == renewals[key[c]]
    <3>1. t \in Tasks /\ t # c /\ key[c] \in Keys /\ key[t] = key[c] /\ pc[t] # "finished" /\ pc[c] = "entering"
      BY <2>2, <1>u DEF Join, Joinable, TypeOK, KeyInv
    <3>2. CASE pc[t] = "done"
      <4>1. Return(c, result[t]) /\ UNCHANGED <<storeVars, key, held, awaited, historyVars>>
        BY <2>2, <3>2 DEF Join
      <4>2. Awaits(c, t)
        BY <3>1, <3>2 DEF Awaits
      <4> HIDE DEF t
      <4> QED
        BY <3>1, <4>1, <4>2, StoreReturn
    <3>3. CASE pc[t] # "done"
      <4>1. /\ pc' = [pc EXCEPT ![c] = "waiting"]
            /\ awaited' = [awaited EXCEPT ![c] = t]
            /\ UNCHANGED <<store, issued, rejected, barred, key, held, result>>
        BY <2>2, <3>3 DEF Join
      <4>2. result[t].kind # "leased"
        BY <3>1, <3>3 DEF PointsOK, TaskPoints, StoreInv, TaskWork
      <4> HIDE DEF t
      <4>3. pc'[c] = "waiting" /\ awaited'[c] = t
        BY <4>1, <1>u DEF TypeOK
      <4>4. Frame(c)
        BY <4>1, <1>u DEF Frame, TypeOK
      <4>5. Tokens(key[c])' /\ Advance(key[c])
        BY <4>1, <3>1, Numbers DEF StoreInv, Tokens, Advance
      <4>6. CallerWork(c)' /\ Leased(c)' /\ Barred(c)'
        BY <4>1, <4>3, <1>u DEF StoreInv, CallerWork, Leased, Barred, Exclusive, Critical
      <4>7. \A s \in Tasks : Due(c, s)'
        BY <4>1, <4>2, <4>3 DEF Due, Awaits
      <4> QED
        BY <1>u, <4>4, <4>5, <4>6, <4>7, Framed
    <3> QED
      BY <3>2, <3>3
  <2>3. ASSUME NEW t \in Tasks, StartRenewal(c, t) PROVE StoreInv'
    <3>1. /\ pc' = [pc EXCEPT ![c] = "waiting", ![t] = "created"]
          /\ key' = [key EXCEPT ![t] = key[c]]
          /\ awaited' = [awaited EXCEPT ![c] = t]
          /\ pc[t] = "finished" /\ result[t] = Nothing /\ waiters[t] = {} /\ c # t /\ key[c] \in Keys
          /\ UNCHANGED <<store, issued, rejected, barred, held, result>>
      BY <2>3, <1>u DEF StartRenewal, Collected, TypeOK
    <3>2. \A d \in Callers : pc[d] = "waiting" => awaited[d] # t
      BY <3>1 DEF RenewInv
    <3>3. pc'[c] = "waiting" /\ pc'[t] = "created" /\ awaited'[c] = t
      BY <3>1, <1>u DEF TypeOK
    <3>4. \A v \in Users \ {c, t} : pc'[v] = pc[v] /\ key'[v] = key[v]
      BY <3>1 DEF TypeOK
    <3>5. \A d \in Callers : key'[d] = key[d]
      BY <3>1, <1>u DEF TypeOK
    <3>6. \A d \in Callers \ {c} : awaited'[d] = awaited[d]
      BY <3>1 DEF TypeOK
    <3>7. \A k \in Keys : Tokens(k)'
      BY <3>1 DEF StoreInv, Tokens
    <3>8. \A s \in Tasks : TaskWork(s)'
      <4> TAKE s \in Tasks
      <4>1. CASE s = t
        BY <4>1, <3>1, <3>3, <1>f DEF TaskWork
      <4>2. CASE s # t
        BY <4>2, <3>1, <3>4, <1>u DEF StoreInv, TaskWork
      <4> QED
        BY <4>1, <4>2
    <3>9. \A d \in Callers : CallerWork(d)'
      <4> TAKE d \in Callers
      <4>1. CASE d = c
        BY <4>1, <3>3 DEF CallerWork, Exclusive, Critical
      <4>2. CASE d # c
        BY <4>2, <3>1, <3>4, <1>u DEF StoreInv, CallerWork
      <4> QED
        BY <4>1, <4>2
    <3>10. \A v \in Users : Leased(v)'
      BY <3>1, <3>4, <3>5, <1>f DEF StoreInv, Leased
    <3>11. \A d \in Callers : Barred(d)'
      BY <3>1, <3>5 DEF StoreInv, Barred
    <3>12. \A d \in Callers, s \in Tasks : Due(d, s)'
      <4> TAKE d \in Callers, s \in Tasks
      <4>1. CASE s = t
        BY <4>1, <3>1, <1>f DEF Due
      <4>2. CASE s # t
        <5>1. pc'[s] = pc[s] /\ key'[s] = key[s] /\ Due(d, s)
          BY <4>2, <3>4, <1>u DEF StoreInv
        <5>2. CASE d = c
          BY <5>2, <4>2, <3>3 DEF Due, Awaits
        <5>3. CASE d # c
          BY <5>1, <5>3, <3>1, <3>4, <3>6, <1>u DEF Due, Awaits
        <5> QED
          BY <5>2, <5>3
      <4> QED
        BY <4>1, <4>2
    <3> QED
      BY <3>7, <3>8, <3>9, <3>10, <3>11, <3>12 DEF StoreInv
  <2>4. CASE Resume(c) \/ Abandon(c)
    <3>1. PICK r \in {result[awaited[c]], Cancelled} : Detach(c, r) /\ pc[c] = "waiting"
      BY <2>4 DEF Resume, Abandon
    <3>2. /\ Return(c, r) /\ UNCHANGED <<store, issued, rejected, barred, key, held>>
          /\ \A d \in Callers \ {c} : awaited'[d] = awaited[d]
      BY <3>1 DEF Detach, TypeOK
    <3>3. awaited[c] \in Tasks /\ key[awaited[c]] = key[c] /\ Awaits(c, awaited[c])
      BY <3>1 DEF TypeOK, KeyInv, Awaits
    <3> QED
      BY <3>1, <3>2, <3>3, <1>f, StoreReturn
  <2>5. CASE InvalidateLoaded(c) /\ IsRejected(c)
    <3>1. /\ pc[c] = "loading" /\ pc' = [pc EXCEPT ![c] = "saving"] /\ held' = [held EXCEPT ![c] = store[key[c]]]
          /\ UNCHANGED <<store, issued, rejected, barred, key, result, awaited>>
          /\ SameToken(key[c], store[key[c]].access, result[c].access)
      BY <2>5 DEF InvalidateLoaded, IsRejected
    <3>2. pc'[c] = "saving" /\ held'[c] = store[key[c]] /\ \A v \in Users \ {c} : held'[v] = held[v]
      BY <3>1, <1>u DEF TypeOK
    <3>3. CallerWork(c)
      BY DEF StoreInv
    <3>4. CallerWork(c)'
      BY <3>1, <3>2, <3>3 DEF CallerWork, SameToken, Exclusive, Critical
    <3> QED
      BY <1>u, <3>1, <3>2, <3>4, StoreGo
  <2> DEFINE gone == OutOfUse(key[c], result[c].access)
  <2>n. /\ key[c] \in Keys /\ issued[key[c]] \in Nat
        /\ store[key[c]].access \in Nat /\ result[c].access \in Nat /\ store[key[c]].refresh \in Nat
    BY <1>u, Numbers
  <2>r. Reject(c) => /\ rejected'[key[c]] = rejected[key[c]] \cup gone
                     /\ \A k \in Keys \ {key[c]} : rejected'[k] = rejected[k]
    BY <2>n DEF Reject, TypeOK
  <2>w. Tokens(key[c]) /\ CallerWork(c) /\ Leased(c)
    BY <2>n, <1>u DEF StoreInv
  <2>o. result[c].kind = "leased" => gone \subseteq 1..issued[key[c]]
    BY <2>n, <2>w DEF OutOfUse, Leased
  <2>6. CASE InvalidateLoaded(c) /\ ~IsRejected(c)
    <3>1. /\ pc[c] = "loading" /\ Exit(c, result[c]) /\ Reject(c) /\ UNCHANGED <<store, issued, barred>>
      BY <2>6 DEF InvalidateLoaded
    <3>2. store[key[c]] = NoToken \/ ~SameToken(key[c], store[key[c]].access, result[c].access)
      BY <2>6 DEF IsRejected
    <3>3. key' = key /\ pc[c] \in Critical /\ pc[c] \in Exclusive
      BY <3>1 DEF Exit, Critical, Exclusive
    <3>4. result[c].kind = "leased"
      BY <3>3, <2>w DEF CallerWork
    <3>5. store[key[c]].access = 0 \/ result[c].access < store[key[c]].access
      <4>1. store[key[c]].access = 0 \/ store[key[c]].access # result[c].access
        BY <3>2 DEF NoToken, SameToken
      <4> QED
        BY <4>1, <3>4, <2>w, <2>n DEF Leased
    <3>6. store[key[c]].fresh => store[key[c]].access \notin gone
      <4> SUFFICES ASSUME store[key[c]].fresh PROVE store[key[c]].access \notin gone
        OBVIOUS
      <4>1. store[key[c]].access > 0
        BY <2>w DEF Tokens
      <4>2. store[key[c]].access \notin 1..result[c].access
        BY <4>1, <3>5, <2>n
      <4>3. ~SameToken(key[c], store[key[c]].access, result[c].access)
        BY <4>1, <3>2 DEF NoToken
      <4> QED
        BY <4>2, <4>3 DEF OutOfUse, SameToken
    <3> HIDE DEF gone
    <3>7. rejected'[key[c]] = rejected[key[c]] \cup gone
      BY <2>r, <3>1
    <3>8. Tokens(key[c])' /\ Advance(key[c])
      BY <3>1, <3>3, <3>4, <3>6, <3>7, <2>o, <2>w, <2>n DEF Tokens, Advance
    <3> QED
      BY <1>u, <2>r, <3>1, <3>3, <3>8, StoreExit
  <2>7. CASE InvalidateSaved(c)
    <3>1. /\ pc[c] = "saving" /\ Exit(c, result[c]) /\ Reject(c) /\ UNCHANGED <<issued, barred>>
          /\ store' = [store EXCEPT ![key[c]] = Effect(c)]
      BY <2>7 DEF InvalidateSaved
    <3>2. key' = key /\ pc[c] \in Critical /\ pc[c] \in Exclusive
      BY <3>1 DEF Exit, Critical, Exclusive
    <3>3. store[key[c]] \in Token /\ Effect(c) = [store[key[c]] EXCEPT !.fresh = FALSE]
      BY <3>1, <3>2, <2>w, <2>n, <1>u DEF Effect, CallerWork, TypeOK
    <3>4. /\ store'[key[c]].access = store[key[c]].access /\ store'[key[c]].refresh = store[key[c]].refresh
          /\ ~store'[key[c]].fresh
          /\ \A k \in Keys \ {key[c]} : store'[k] = store[k]
      BY <3>1, <3>3, <2>n DEF TypeOK, Token
    <3>5. result[c].kind = "leased"
      BY <3>1, <3>2, <2>w DEF CallerWork
    <3> HIDE DEF gone
    <3>6. rejected'[key[c]] = rejected[key[c]] \cup gone
      BY <2>r, <3>1
    <3>7. Tokens(key[c])' /\ Advance(key[c])
      BY <3>1, <3>2, <3>4, <3>5, <3>6, <2>o, <2>w, <2>n DEF Tokens, Advance
    <3> QED
      BY <1>u, <2>r, <3>1, <3>2, <3>4, <3>7, StoreExit
  <2> QED
    BY <1>1, <2>1, <2>2, <2>3, <2>4, <2>5, <2>6, <2>7 DEF CallerStep
<1>2. ASSUME NEW t \in Tasks, TaskStep(t) PROVE StoreInv'
  <2> DEFINE k == key[t]
  <2>t. t \in Users /\ t \notin Callers /\ k \in Keys
    BY <1>u, Numbers
  <2>n. /\ issued[k] \in Nat /\ store[k].access \in Nat /\ store[k].refresh \in Nat
        /\ store[k] \in Token /\ held[t] \in Token
    BY <2>t, Numbers DEF TypeOK
  <2>w. Tokens(k) /\ TaskWork(t)
    BY <2>t DEF StoreInv
  <2>x. ASSUME UNCHANGED <<store, issued, rejected, barred>>, pc[t] \in Critical, NEW r, Exit(t, r),
               r.kind = "leased" => r.access \notin rejected[k] /\ 0 < r.access /\ r.access = store[k].access
        PROVE  StoreInv'
    <3>1. key' = key /\ pc[t] \in Exclusive
      BY <2>x DEF Exit, Exclusive
    <3>2. Tokens(k)' /\ Advance(k)
      BY <2>x, <3>1, <2>w, <2>n DEF Tokens, Advance
    <3> QED
      BY <2>x, <2>t, <2>w, <2>n, <3>1, <3>2, StoreExit DEF Tokens
  <2>g. ASSUME NEW p \in {"acquiring", "yielding", "removing", "finished"}, pc' = [pc EXCEPT ![t] = p],
               UNCHANGED <<store, issued, rejected, barred, key, held, result, awaited>>,
               p = "acquiring" /\ k \in Refreshing => store[k].refresh = 0,
               p # "finished" => pc[t] \in Live
        PROVE  StoreInv'
    <3>1. pc'[t] = p
      BY <2>g, <2>t DEF TypeOK
    <3>2. TaskWork(t)'
      BY <2>g, <3>1, <2>w DEF TaskWork, Live, Exclusive, Critical
    <3> QED
      BY <2>g, <2>t, <3>2, StoreGo
  <2>1. CASE Begin(t)
    BY <2>1, <2>t, StoreEnter DEF Begin
  <2>2. CASE NeverBegun(t)
    <3>1. /\ pc[t] = "created" /\ pc' = [pc EXCEPT ![t] = "done"] /\ result' = [result EXCEPT ![t] = Cancelled]
          /\ UNCHANGED <<store, issued, rejected, barred, key, held, awaited>>
      BY <2>2 DEF NeverBegun
    <3>2. pc'[t] = "done" /\ result'[t] = Cancelled
      BY <3>1, <2>t DEF TypeOK
    <3>3. Frame(t)
      BY <3>1, <2>t DEF Frame, TypeOK
    <3>4. Tokens(k)' /\ Advance(k)
      BY <3>1, <2>w, <2>n DEF Tokens, Advance
    <3>5. TaskWork(t)' /\ Leased(t)' /\ \A c \in Callers : Due(c, t)'
      BY <3>2, <1>f DEF TaskWork, Leased, Due, Live, Exclusive, Critical
    <3> QED
      BY <2>t, <3>3, <3>4, <3>5, Framed
  <2>3. CASE Loaded(t)
    <3>1. pc[t] = "loading" /\ UNCHANGED <<store, issued, rejected, barred>> /\ pc[t] \in Critical /\ pc[t] \in Live
      BY <2>3 DEF Loaded, Critical, Exclusive, Live
    <3>2. CASE Exit(t, Lease(store[k].access)) /\ store[k].fresh
      <4>1. store[k].access \notin rejected[k] /\ 0 < store[k].access
        BY <3>2, <2>w, <2>n, <2>t DEF Tokens, TypeOK
      <4>2. Lease(store[k].access).access = store[k].access
        BY DEF Lease
      <4> HIDE DEF k
      <4> QED
        BY <3>1, <3>2, <4>1, <4>2, <2>x
    <3>3. CASE Exit(t, Failure)
      BY <3>1, <3>3, <1>f, <2>x
    <3>4. CASE /\ CanRefresh(t)
               /\ pc' = [pc EXCEPT ![t] = "refreshing"] /\ held' = [held EXCEPT ![t] = store[k]]
               /\ UNCHANGED <<key, awaited, result>>
      <4>1. pc'[t] = "refreshing" /\ held'[t] = store[k] /\ \A v \in Users \ {t} : held'[v] = held[v]
        BY <3>4, <2>t DEF TypeOK
      <4>2. TaskWork(t)'
        BY <3>1, <3>4, <4>1, <2>w, <2>n DEF TaskWork, Tokens
      <4> QED
        BY <3>1, <3>4, <4>1, <4>2, <2>t, StoreGo
    <3>5. CASE ~CanRefresh(t) /\ CallAcquire(t) /\ UNCHANGED <<key, held, awaited, result>>
      <4>1. k \in Refreshing => store[k].refresh = 0
        BY <3>5 DEF CanRefresh
      <4> QED
        BY <3>1, <3>5, <4>1, <2>g DEF CallAcquire
    <3> QED
      BY <2>3, <3>2, <3>3, <3>4, <3>5 DEF Loaded
  <2>4. ASSUME NEW answer \in Answer(k), issued[k] < MaxIssued
        PROVE  /\ answer \in Token /\ Retain(answer, held[t]) \in Token
               /\ answer.access = issued[k] + 1 /\ answer.refresh \in {0, issued[k] + 1}
               /\ Retain(answer, held[t]).access = issued[k] + 1
               /\ Retain(answer, held[t]).refresh \in {held[t].refresh, issued[k] + 1}
    <3>1. answer \in Token /\ Retain(answer, held[t]) \in Token
      BY <2>4, AnswerType
    <3>2. answer.access = issued[k] + 1 /\ answer.refresh \in {0, issued[k] + 1}
      BY <2>4 DEF Answer
    <3>3. answer.refresh = 0 => Retain(answer, held[t]) = [answer EXCEPT !.refresh = held[t].refresh]
      BY DEF Retain
    <3>4. answer.refresh # 0 => Retain(answer, held[t]) = answer
      BY DEF Retain
    <3> QED
      BY <3>1, <3>2, <3>3, <3>4 DEF Token
  <2>5. CASE Refreshed(t)
    <3>1. PICK answer \in Answer(k) : Commit(t, Retain(answer, held[t]))
      BY <2>5 DEF Refreshed
    <3>2. pc[t] = "refreshing" /\ ProviderAnswers(t) /\ issued[k] < MaxIssued
      BY <2>5 DEF Refreshed, ProviderAnswers
    <3> DEFINE tokens == Retain(answer, held[t])
    <3>3. tokens \in Token /\ tokens.access = issued[k] + 1 /\ tokens.refresh \in {held[t].refresh, issued[k] + 1}
      BY <3>2, <2>4
    <3>4. store[k].refresh <= held[t].refresh /\ held[t].refresh <= issued[k] /\ held[t].refresh \in Int
      BY <3>2, <2>w, <2>t, Numbers DEF TaskWork
    <3>5. tokens.refresh <= issued[k] + 1 /\ store[k].refresh <= tokens.refresh
      BY <3>3, <3>4, <2>n
    <3> HIDE DEF tokens
    <3> QED
      BY <3>1, <3>2, <3>3, <3>5, StoreCommit DEF tokens
  <2>6. CASE RefreshRejected(t)
    <3>1. /\ pc[t] = "refreshing" /\ pc[t] \in Critical /\ pc[t] \in Live
          /\ UNCHANGED <<store, issued, rejected, barred>>
      BY <2>6 DEF RefreshRejected, Critical, Exclusive, Live
    <3>2. CASE Exit(t, Failure)
      BY <3>1, <3>2, <1>f, <2>x
    <3>3. CASE pc' = [pc EXCEPT ![t] = "yielding"] /\ UNCHANGED <<key, held, awaited, result>>
      BY <3>1, <3>3, <2>g
    <3> QED
      BY <2>6, <3>2, <3>3 DEF RefreshRejected
  <2>7. CASE Yielded(t)
    BY <2>7, <2>g DEF Yielded, Live, Exclusive, Critical
  <2>8. CASE Removed(t)
    <3>1. /\ pc[t] = "removing" /\ pc' = [pc EXCEPT ![t] = "acquiring"]
          /\ store' = [store EXCEPT ![k] = NoToken] /\ held' = [held EXCEPT ![t] = NoToken]
          /\ UNCHANGED <<issued, rejected, barred, key, awaited, result>>
      BY <2>8 DEF Removed, CallAcquire, Effect
    <3>2. /\ pc'[t] = "acquiring" /\ \A v \in Users \ {t} : held'[v] = held[v]
          /\ store'[k] = NoToken /\ \A j \in Keys \ {k} : store'[j] = store[j]
      BY <3>1, <2>t DEF TypeOK
    <3>3. Tokens(k)' /\ Advance(k)
      BY <3>1, <3>2, <2>w, <2>n, <2>t, ConstantsAssumption DEF Tokens, Advance, NoToken, TypeOK
    <3>4. TaskWork(t)'
      BY <3>1, <3>2, <2>w DEF TaskWork, NoToken, Live, Exclusive, Critical
    <3>5. pc[t] \in Critical
      BY <3>1 DEF Critical
    <3> QED
      BY <3>1, <3>2, <3>3, <3>4, <3>5, <2>t, StoreMove
  <2>9. CASE Acquired(t)
    <3>1. PICK answer \in Answer(k) : Commit(t, answer)
      BY <2>9 DEF Acquired
    <3>2. pc[t] = "acquiring" /\ ProviderAnswers(t) /\ issued[k] < MaxIssued
      BY <2>9 DEF Acquired, ProviderAnswers
    <3>3. answer \in Token /\ answer.access = issued[k] + 1 /\ answer.refresh \in {0, issued[k] + 1}
      BY <3>2, <2>4
    <3>4. k \in Refreshing => store[k].refresh = 0
      BY <3>2, <2>w DEF TaskWork
    <3>5. 0 <= issued[k]
      BY <2>t DEF TypeOK
    <3>6. answer.refresh <= issued[k] + 1 /\ (k \in Refreshing => store[k].refresh <= answer.refresh)
      BY <3>3, <3>4, <3>5, <2>n
    <3> QED
      BY <3>1, <3>2, <3>3, <3>6, StoreCommit
  <2>10. CASE Saved(t)
    <3>1. /\ pc[t] = "saving" /\ Exit(t, Lease(held[t].access)) /\ UNCHANGED <<issued, rejected, barred>>
          /\ store' = [store EXCEPT ![k] = held[t]]
      BY <2>10 DEF Saved, Effect
    <3>2. store'[k] = held[t] /\ \A j \in Keys \ {k} : store'[j] = store[j]
      BY <3>1, <2>t DEF TypeOK
    <3>3. key' = key /\ pc[t] \in Critical /\ pc[t] \in Exclusive
      BY <3>1 DEF Exit, Critical, Exclusive
    <3>4. held[t].access = issued[k] /\ held[t].refresh <= issued[k] /\ issued[k] > 0 /\ issued[k] \notin rejected[k]
      BY <3>1, <2>w DEF TaskWork
    <3>5. Tokens(k)' /\ Advance(k)
      BY <3>1, <3>2, <3>3, <3>4, <2>w, <2>n DEF Tokens, Advance
    <3>6. /\ Lease(held[t].access).access = issued[k] /\ 0 < issued[k] /\ issued'[k] = issued[k]
          /\ store'[k].access = issued[k]
      BY <3>1, <3>2, <3>4, <2>n, <2>t DEF Lease, TypeOK
    <3> DEFINE r == Lease(held[t].access)
    <3>7. Exit(t, r) /\ r.access = issued[k]
      BY <3>1, <3>6
    <3> HIDE DEF r
    <3> QED
      BY <3>1, <3>2, <3>3, <3>4, <3>5, <3>6, <3>7, <2>n, <2>t, StoreExit
  <2>11. CASE Finished(t)
    BY <2>11, <2>g DEF Finished
  <2>12. CASE Collect(t)
    <3>1. /\ result' = [result EXCEPT ![t] = Nothing]
          /\ UNCHANGED <<store, issued, rejected, barred, pc, key, held, awaited>>
      BY <2>12 DEF Collect
    <3>2. result'[t] = Nothing
      BY <3>1, <2>t DEF TypeOK
    <3>3. Frame(t)
      BY <3>1, <2>t DEF Frame, TypeOK
    <3>4. Tokens(k)' /\ Advance(k)
      BY <3>1, <2>w, <2>n DEF Tokens, Advance
    <3>5. TaskWork(t)' /\ Leased(t)' /\ \A c \in Callers : Due(c, t)'
      BY <3>1, <3>2, <2>w, <1>f DEF TaskWork, Leased, Due
    <3> QED
      BY <2>t, <3>3, <3>4, <3>5, Framed
  <2> QED
    BY <1>2, <2>1, <2>2, <2>3, <2>5, <2>6, <2>7, <2>8, <2>9, <2>10, <2>11, <2>12 DEF TaskStep
<1>3. ASSUME NEW u \in Users, SharedStep(u) \/ LockGranted(u) PROVE StoreInv'
  <2>1. CASE SharedStep(u)
    BY <2>1, <1>f, EffectExit DEF SharedStep, Interrupted, CallFails, External, Exclusive
  <2>2. CASE LockGranted(u)
    <3>1. /\ pc[u] = "locking" /\ pc' = [pc EXCEPT ![u] = "loading"]
          /\ UNCHANGED <<store, issued, rejected, barred, key, held, result, awaited>>
      BY <2>2 DEF LockGranted
    <3>2. pc'[u] = "loading"
      BY <3>1 DEF TypeOK
    <3>3. u \in Callers => CallerWork(u)'
      BY <3>1, <3>2 DEF StoreInv, CallerWork, Exclusive
    <3>4. u \in Tasks => TaskWork(u)'
      BY <3>1, <3>2 DEF StoreInv, TaskWork, Exclusive, Live
    <3> QED
      BY <3>1, <3>3, <3>4, StoreGo
  <2> QED
    BY <1>3, <2>1, <2>2
<1>4. CASE Environment
  <2>1. ASSUME NEW c \in Callers, NEW k \in Keys, Call(c, k) PROVE StoreInv'
    <3>1. /\ pc[c] = "idle" /\ CallbacksRun
          /\ pc' = [pc EXCEPT ![c] = "entering"] /\ key' = [key EXCEPT ![c] = k]
          /\ result' = [result EXCEPT ![c] = Nothing] /\ barred' = [barred EXCEPT ![c] = rejected[k]]
          /\ UNCHANGED <<store, issued, rejected, held, awaited>>
      BY <2>1 DEF Call
    <3>2. \A v \in Users \ {c} : pc'[v] = pc[v] /\ key'[v] = key[v] /\ result'[v] = result[v]
      BY <3>1 DEF TypeOK
    <3>3. \A d \in Callers \ {c} : barred'[d] = barred[d]
      BY <3>1 DEF TypeOK
    <3>4. pc'[c] = "entering" /\ key'[c] = k /\ result'[c] = Nothing /\ barred'[c] = rejected[k]
      BY <3>1, <1>u DEF TypeOK
    <3>5. \A j \in Keys : Tokens(j)'
      BY <3>1 DEF StoreInv, Tokens
    <3>6. \A t \in Tasks : TaskWork(t)'
      BY <3>1, <3>2, <1>u DEF StoreInv, TaskWork
    <3>7. \A d \in Callers : CallerWork(d)'
      <4> TAKE d \in Callers
      <4>1. CASE d = c
        BY <4>1, <3>4 DEF CallerWork, Exclusive, Critical
      <4>2. CASE d # c
        BY <4>2, <3>1, <3>2, <1>u DEF StoreInv, CallerWork
      <4> QED
        BY <4>1, <4>2
    <3>8. \A v \in Users : Leased(v)'
      BY <3>1, <3>2, <3>4, <1>f DEF StoreInv, Leased
    <3>9. \A d \in Callers : Barred(d)'
      <4> TAKE d \in Callers
      <4>1. CASE d = c
        BY <4>1, <3>1, <3>4, <1>f, Numbers DEF Barred
      <4>2. CASE d # c
        BY <4>2, <3>1, <3>2, <3>3, <1>u DEF StoreInv, Barred
      <4> QED
        BY <4>1, <4>2
    <3>10. \A d \in Callers, t \in Tasks : Due(d, t)'
      <4> TAKE d \in Callers, t \in Tasks
      <4>1. pc'[t] = pc[t] /\ key'[t] = key[t] /\ result'[t] = result[t] /\ pc[t] # "done"
        BY <3>1, <3>2, <1>u DEF CallbacksRun
      <4>2. CASE d = c
        BY <4>1, <4>2, <3>4 DEF Due, Awaits
      <4>3. CASE d # c
        BY <4>1, <4>3, <3>1, <3>2, <3>3, <1>u DEF StoreInv, Due, Awaits
      <4> QED
        BY <4>2, <4>3
    <3> QED
      BY <3>5, <3>6, <3>7, <3>8, <3>9, <3>10 DEF StoreInv
  <2>2. ASSUME NEW c \in Callers, Invalidate(c) PROVE StoreInv'
    BY <2>2, <1>u, StoreEnter DEF Invalidate
  <2>3. ASSUME NEW c \in Callers, CancelCaller(c) PROVE StoreInv'
    BY <2>3, StoreQuiet DEF CancelCaller
  <2>4. ASSUME NEW u \in Users, Swallowed(u) PROVE StoreInv'
    BY <2>4, StoreQuiet DEF Swallowed
  <2>5. ASSUME NEW k \in Keys, Age(k) PROVE StoreInv'
    <3>1. /\ store' = [store EXCEPT ![k].fresh = FALSE]
          /\ UNCHANGED <<issued, rejected, barred, pc, key, held, result, awaited>>
      BY <2>5 DEF Age
    <3>2. \A j \in Keys : /\ store[j] \in Token
                          /\ store'[j] = store[j] \/ store'[j] = [store[j] EXCEPT !.fresh = FALSE]
      BY <3>1 DEF TypeOK
    <3>3. \A j \in Keys : /\ store'[j].access = store[j].access /\ store'[j].refresh = store[j].refresh
                          /\ store'[j].fresh => store[j].fresh
                          /\ [store'[j] EXCEPT !.fresh = FALSE] = [store[j] EXCEPT !.fresh = FALSE]
      BY <3>2 DEF Token
    <3>4. \A u \in Users : key[u] \in Keys
      BY Numbers
    <3>5. \A j \in Keys : Tokens(j)'
      BY <3>1, <3>3 DEF StoreInv, Tokens
    <3>6. \A t \in Tasks : TaskWork(t)'
      BY <3>1, <3>3, <3>4, <1>u DEF StoreInv, TaskWork
    <3>7. \A d \in Callers : CallerWork(d)'
      BY <3>1, <3>3, <3>4, <1>u DEF StoreInv, CallerWork
    <3>8. \A v \in Users : Leased(v)'
      BY <3>1, <3>3, <3>4 DEF StoreInv, Leased
    <3>9. \A d \in Callers : Barred(d)' /\ \A t \in Tasks : Due(d, t)'
      BY <3>1 DEF StoreInv, Barred, Due, Awaits
    <3> QED
      BY <3>5, <3>6, <3>7, <3>8, <3>9 DEF StoreInv
  <2> QED
    BY <1>4, <2>1, <2>2, <2>3, <2>4, <2>5 DEF Environment
<1> QED
  BY <1>s, <1>1, <1>2, <1>3, <1>4 DEF Next
-----------------------------------------------------------------------------
LEMMA StoreInvariant ==
    Spec => [](TypeOK /\ PointsOK /\ MutualExclusion /\ RenewInv /\ KeyInv /\ StoreInv)
<1>1. TypeOK /\ LockInv => MutualExclusion
  BY DEF LockInv, MutualExclusion, Exclusive
<1> QED
  BY <1>1, InitTypeOK, InitPointsOK, InitLockInv, InitRenewInv, InitKeyInv, InitStoreInv,
     NextTypeOK, NextPointsOK, NextLockInv, NextRenewInv, NextKeyInv, NextStoreInv, PTL DEF Spec

\* A lease returned after a rejection is an answer that the rejection did not put out of use, also
\* when the provider gives one access token several times: the renewal a caller joins or starts
\* reads the store behind the invalidation, and what is fresh there was not rejected, whichever
\* answers carry the same token (lines 80-94, 96-104, 168-170).
THEOREM NoRejectedLeaseHolds == Spec => []NoRejectedLease
<1>1. StoreInv => NoRejectedLease
  BY DEF NoRejectedLease, StoreInv, Barred
<1> QED
  BY <1>1, StoreInvariant, PTL

\* The store changes by a call of one coroutine inside _exclusive, or by time.
Written(u) ==
    /\ pc[u] \in Exclusive
    /\ store' = [store EXCEPT ![key[u]] = Effect(u)]

LEMMA StoreSteps ==
    ASSUME TypeOK, [Next]_vars
    PROVE  \/ UNCHANGED store
           \/ \E u \in Users : Written(u)
           \/ \E k \in Keys : store' = [store EXCEPT ![k].fresh = FALSE]
<1> USE DEF storeVars
<1>s. CASE UNCHANGED vars
  BY <1>s DEF vars
<1>1. ASSUME NEW c \in Callers, CallerStep(c)
      PROVE  UNCHANGED store \/ Written(c)
  BY <1>1 DEF CallerStep, EntryCancelled, ResolveFails, Join, StartRenewal, Resume, Abandon, Detach,
              InvalidateLoaded, InvalidateSaved, Written, Exclusive, Critical
<1>2. ASSUME NEW t \in Tasks, TaskStep(t)
      PROVE  UNCHANGED store \/ Written(t)
  BY <1>2 DEF TaskStep, Begin, NeverBegun, Loaded, Refreshed, RefreshRejected, Yielded, Removed, Acquired,
              Saved, Finished, Collect, ProviderAnswers, Written, Exclusive, Critical
<1>3. ASSUME NEW u \in Users, SharedStep(u) \/ LockGranted(u)
      PROVE  UNCHANGED store \/ Written(u)
  BY <1>3 DEF SharedStep, LockGranted, Interrupted, CallFails, MaybeEffect, Written, Exclusive, External
<1>4. ASSUME Environment
      PROVE  UNCHANGED store \/ \E k \in Keys : store' = [store EXCEPT ![k].fresh = FALSE]
  BY <1>4 DEF Environment, Call, CancelCaller, Invalidate, Swallowed, Age
<1> QED
  BY <1>s, <1>1, <1>2, <1>3, <1>4 DEF Next, Users

\* Every write to the store, also one that failed or was interrupted after it took effect, puts a
\* newer answer, nothing, or the same tokens expired: no invalidation or late renewal undoes a
\* newer one (lines 96-104, 168-170, 193-204).
THEOREM StoreMovesForwardHolds == Spec => StoreMovesForward
<1>1. TypeOK /\ PointsOK /\ StoreInv /\ [Next]_vars => [\A k \in Keys : Forward(store[k], store'[k], k)]_vars
  <2> SUFFICES ASSUME TypeOK, PointsOK, StoreInv, [Next]_vars, NEW k \in Keys
               PROVE  Forward(store[k], store'[k], k)
    OBVIOUS
  <2>1. CASE UNCHANGED store
    BY <2>1 DEF Forward
  <2>2. ASSUME NEW u \in Users, Written(u) PROVE Forward(store[k], store'[k], k)
    <3>1. Forward(store[key[u]], Effect(u), key[u])
      BY <2>2, EffectSound DEF Written
    <3>2. store'[k] = IF k = key[u] THEN Effect(u) ELSE store[k]
      BY <2>2 DEF Written, TypeOK
    <3> QED
      BY <3>1, <3>2 DEF Forward
  <2>3. ASSUME NEW j \in Keys, store' = [store EXCEPT ![j].fresh = FALSE]
        PROVE  Forward(store[k], store'[k], k)
    BY <2>3 DEF Forward, TypeOK
  <2> QED
    BY <2>1, <2>2, <2>3, StoreSteps
<1> QED
  BY <1>1, StoreInvariant, PTL DEF Spec, StoreMovesForward

\* While an invalidation saves, nobody else writes its key: what changes there is the rejected
\* token set, and only its expiry (lines 96-102).
THEOREM ExpiresOnlyRejectedHolds == Spec => ExpiresOnlyRejected
<1> DEFINE Expires(c) ==
        \/ \E k \in Keys \ {key[c]} : store'[k] # store[k]
        \/ /\ SameToken(key[c], store[key[c]].access, result[c].access)
           /\ store'[key[c]] = [store[key[c]] EXCEPT !.fresh = FALSE]
<1>1. TypeOK /\ PointsOK /\ MutualExclusion /\ StoreInv /\ [Next]_vars
      => [\A c \in Callers : (pc[c] = "saving" /\ store' # store) => Expires(c)]_vars
  <2> SUFFICES ASSUME TypeOK, PointsOK, MutualExclusion, StoreInv, [Next]_vars,
                      NEW c \in Callers, pc[c] = "saving", store' # store
               PROVE  Expires(c)
    OBVIOUS
  <2>1. c \in Users /\ c \notin Tasks /\ key[c] \in Keys
    BY ConstantsAssumption DEF Users, TypeOK
  <2>2. /\ SameToken(key[c], store[key[c]].access, result[c].access)
        /\ [held[c] EXCEPT !.fresh = FALSE] = [store[key[c]] EXCEPT !.fresh = FALSE]
    BY DEF StoreInv, CallerWork
  <2>3. ASSUME NEW u \in Users, Written(u) PROVE Expires(c)
    <3>1. key[u] \in Keys /\ store'[key[u]] = Effect(u)
      BY <2>3 DEF Written, TypeOK
    <3>2. Effect(u) # store[key[u]]
      BY <2>3, <3>1 DEF Written, TypeOK
    <3>3. CASE key[u] # key[c]
      BY <3>1, <3>2, <3>3
    <3>4. CASE key[u] = key[c]
      <4>1. pc[u] \in Critical
        BY <2>3, <3>2, EffectSound DEF Written, Exclusive
      <4>2. u = c
        BY <4>1, <3>4, <2>1 DEF MutualExclusion, Critical
      <4>3. Effect(c) = [held[c] EXCEPT !.fresh = FALSE]
        BY <2>1 DEF Effect
      <4> QED
        BY <3>1, <4>2, <4>3, <2>2
    <3> QED
      BY <3>3, <3>4
  <2>4. ASSUME NEW j \in Keys, store' = [store EXCEPT ![j].fresh = FALSE] PROVE Expires(c)
    <3>1. store'[j] # store[j] /\ store'[j] = [store[j] EXCEPT !.fresh = FALSE]
      BY <2>4 DEF TypeOK
    <3> QED
      BY <3>1, <2>2
  <2> QED
    BY <2>3, <2>4, StoreSteps
<1> QED
  BY <1>1, StoreInvariant, PTL DEF Spec, ExpiresOnlyRejected
-----------------------------------------------------------------------------
(* The credential service: what the callers see of a step is one step of it, or nothing. *)

\* A task that ended has an answer for whoever waits for it.
OutcomeInv ==
    \A t \in Tasks :
        /\ result[t].kind # "leased" => result[t] \in {Nothing, Failure, Cancelled}
        /\ (pc[t] = "done" \/ (pc[t] = "finished" /\ waiters[t] # {})) => result[t] # Nothing

\* A caller sees nothing of the step.
Unseen(c) ==
    /\ PhaseOf(c)' = PhaseOf(c) /\ key'[c] = key[c] /\ result'[c] = result[c]
    /\ (cancel'[c] = "pending") <=> (cancel[c] = "pending")

\* A caller sees its call end with r.
Ends(c, r) ==
    /\ \A d \in Callers \ {c} : Unseen(d)
    /\ UNCHANGED <<issued, barred>>
    /\ key'[c] = key[c] /\ pc'[c] = "idle" /\ cancel'[c] # "pending" /\ result'[c] = r
-----------------------------------------------------------------------------
(* Steps of the service, from what each caller sees. *)

LEMMA SeesNothing ==
    ASSUME TypeOK, TypeOK', UNCHANGED <<rejected, barred>>, \A d \in Callers : Unseen(d)
    PROVE  /\ UNCHANGED issued => UNCHANGED Service!serviceVars
           /\ \A k \in Keys :
                 (issued[k] < MaxIssued /\ issued' = [issued EXCEPT ![k] = @ + 1]) => Service!ServiceNext
BY DEF Service!serviceVars, Service!ServiceNext, Service!ServiceStep, Service!Issue, Unseen, PhaseOf, SubjectOf

LEMMA SeesSettled ==
    ASSUME TypeOK, NEW c \in Callers, NEW r, Ends(c, r)
    PROVE  Service!Settled(c, r)
BY DEF Ends, Service!Settled, Unseen, PhaseOf, SubjectOf

LEMMA SeesAnswer ==
    ASSUME TypeOK, NEW c \in Callers, NEW r, Ends(c, r), UNCHANGED rejected,
           pc[c] \in {"entering", "waiting"}, cancel[c] # "pending",
           r = Failure \/ \E a \in 1 .. issued[key[c]] \ barred[c] : r = Lease(a)
    PROVE  Service!ServiceNext
BY SeesSettled
DEF Service!ServiceNext, Service!ServiceStep, Service!Fail, Service!Grant, Service!Leasable, Service!Failure,
    Service!Lease, Failure, Lease, PhaseOf

LEMMA SeesFailure ==
    ASSUME TypeOK, NEW c \in Callers, Ends(c, Failure), UNCHANGED rejected, pc[c] # "idle", cancel[c] # "pending"
    PROVE  Service!ServiceNext
BY SeesSettled
DEF Service!ServiceNext, Service!ServiceStep, Service!Fail, Service!Failure, Failure, PhaseOf

LEMMA SeesCancellation ==
    ASSUME TypeOK, NEW c \in Callers, Ends(c, Cancelled), UNCHANGED rejected, cancel[c] = "pending"
    PROVE  Service!ServiceNext
BY SeesSettled
DEF Service!ServiceNext, Service!ServiceStep, Service!EndCancelled, Service!Cancelled, Cancelled

LEMMA SeesRejection ==
    ASSUME TypeOK, NEW c \in Callers, Ends(c, result[c]), Reject(c),
           pc[c] \in Exclusive, cancel[c] # "pending"
    PROVE  Service!ServiceNext
<1>1. PhaseOf(c) = "rejecting"
  BY DEF PhaseOf, Exclusive, Critical
<1>2. PICK r : r = result[c]
  OBVIOUS
<1>3. Ends(c, r)
  BY <1>2 DEF Ends
<1>4. Service!Settled(c, r)
  BY <1>3, SeesSettled
<1>5. OutOfUse(key[c], result[c].access) = Service!OutOfUse(key[c], result[c].access)
  BY DEF OutOfUse, Service!OutOfUse
<1>6. Service!Rejected(c)
  BY <1>1, <1>2, <1>4, <1>5 DEF Service!Rejected, Service!Settled, Reject, SubjectOf
<1> QED
  BY <1>6 DEF Service!ServiceNext, Service!ServiceStep
-----------------------------------------------------------------------------
LEMMA InitOutcomeInv == Init => OutcomeInv
BY ConstantsAssumption DEF Init, OutcomeInv, Users, Nothing

LEMMA InitService == Init => Service!ServiceInit
<1> SUFFICES ASSUME Init PROVE Service!ServiceInit
  OBVIOUS
<1>1. \A c \in Callers : c \in Users /\ pc[c] = "idle" /\ cancel[c] = "no" /\ result[c] = Nothing
  BY ConstantsAssumption DEF Init, Users
<1>2. issued \in [Keys -> Nat] /\ \A k \in Keys : issued[k] <= MaxIssued
  BY ConstantsAssumption DEF Init, Token, NoToken
<1>i. key \in {[u \in Users |-> k] : k \in Keys}
  BY DEF Init
<1>3. PICK k \in Keys : \A c \in Callers : key[c] = k
  BY <1>1, <1>i
<1>4. [c \in Callers |-> key[c]] \in {[c \in Callers |-> j] : j \in Keys}
  BY <1>3
<1> QED
  BY <1>1, <1>2, <1>4 DEF Init, Service!ServiceInit, PhaseOf, SubjectOf, Nothing, Service!Nothing

LEMMA OutcomeMove ==
    ASSUME OutcomeInv,
           \A t \in Tasks : /\ result'[t] = result[t] /\ waiters'[t] \subseteq waiters[t]
                            /\ pc'[t] = pc[t] \/ pc'[t] \notin {"done", "finished"}
    PROVE  OutcomeInv'
BY DEF OutcomeInv

LEMMA OutcomeGo ==
    ASSUME TypeOK, OutcomeInv, UNCHANGED <<result, waiters>>, NEW u \in Users,
           NEW p, p \notin {"done", "finished"}, pc' = [pc EXCEPT ![u] = p]
    PROVE  OutcomeInv'
<1>1. \A t \in Tasks : pc'[t] = IF t = u THEN p ELSE pc[t]
  BY DEF TypeOK, Users
<1> QED
  BY <1>1, OutcomeMove

LEMMA OutcomeExit ==
    ASSUME TypeOK, OutcomeInv, UNCHANGED waiters, NEW u \in Users, NEW r, Exit(u, r),
           u \in Tasks => r \in {Failure, Cancelled} \/ \E a : r = Lease(a)
    PROVE  OutcomeInv'
<1>1. \A v \in Users : /\ pc'[v] = IF v = u THEN IF u \in Tasks THEN "done" ELSE "idle" ELSE pc[v]
                       /\ result'[v] = IF v = u THEN r ELSE result[v]
  BY DEF Exit, TypeOK
<1>2. \A t \in Tasks \ {u} : pc'[t] = pc[t] /\ result'[t] = result[t] /\ waiters'[t] = waiters[t]
  BY <1>1 DEF Users
<1>3. u \in Tasks => result'[u] = r /\ r # Nothing /\ (r.kind # "leased" => r \in {Nothing, Failure, Cancelled})
  BY <1>1 DEF Failure, Cancelled, Lease, Nothing
<1> QED
  BY <1>2, <1>3 DEF OutcomeInv

LEMMA NextOutcomeInv == TypeOK /\ KeyInv /\ OutcomeInv /\ [Next]_vars => OutcomeInv'
<1> SUFFICES ASSUME TypeOK, KeyInv, OutcomeInv, [Next]_vars PROVE OutcomeInv'
  OBVIOUS
<1> USE DEF storeVars, renewVars, lockVars, localVars, historyVars
<1>u. Callers \subseteq Users /\ Tasks \subseteq Users /\ Callers \cap Tasks = {}
  BY ConstantsAssumption DEF Users
<1>q. ASSUME UNCHANGED <<result, waiters, pc>> PROVE OutcomeInv'
  BY <1>q, OutcomeMove
<1>s. CASE UNCHANGED vars
  BY <1>s, <1>q DEF vars
<1>1. ASSUME NEW c \in Callers, CallerStep(c) PROVE OutcomeInv'
  <2>o. ASSUME NEW p, NEW r, pc' = [pc EXCEPT ![c] = p], result' = [result EXCEPT ![c] = r] \/ UNCHANGED result
        PROVE  \A t \in Tasks : pc'[t] = pc[t] /\ result'[t] = result[t]
    BY <2>o, <1>u DEF TypeOK
  <2>1. CASE EntryCancelled(c) \/ ResolveFails(c)
    BY <2>1, <2>o, OutcomeMove DEF EntryCancelled, ResolveFails, Return
  <2>2. CASE Join(c)
    <3> DEFINE t == renewals[key[c]]
    <3>1. CASE pc[t] = "done"
      BY <2>2, <3>1, <2>o, OutcomeMove DEF Join, Return
    <3>2. CASE pc[t] # "done"
      <4>1. /\ UNCHANGED result /\ waiters' = [waiters EXCEPT ![t] = @ \cup {c}]
            /\ pc' = [pc EXCEPT ![c] = "waiting"]
        BY <2>2, <3>2 DEF Join
      <4>2. key[c] \in Keys /\ (t \in Tasks => pc[t] # "finished")
        BY <1>u DEF TypeOK, KeyInv
      <4>3. \A s \in Tasks : pc'[s] = pc[s] /\ (s # t => waiters'[s] = waiters[s])
        BY <4>1, <1>u DEF TypeOK
      <4> HIDE DEF t
      <4> QED
        BY <4>1, <4>2, <4>3, <3>2 DEF OutcomeInv
    <3> QED
      BY <3>1, <3>2
  <2>3. ASSUME NEW t \in Tasks, StartRenewal(c, t) PROVE OutcomeInv'
    <3>1. /\ waiters' = [waiters EXCEPT ![t] = {c}] /\ UNCHANGED result
          /\ pc' = [pc EXCEPT ![c] = "waiting", ![t] = "created"]
      BY <2>3 DEF StartRenewal
    <3>2. pc'[t] = "created" /\ \A s \in Tasks \ {t} : pc'[s] = pc[s] /\ waiters'[s] = waiters[s]
      BY <3>1, <1>u DEF TypeOK
    <3> QED
      BY <3>1, <3>2 DEF OutcomeInv
  <2>4. CASE Resume(c) \/ Abandon(c)
    <3>1. /\ pc' = [pc EXCEPT ![c] = "idle"] /\ \E r : result' = [result EXCEPT ![c] = r]
          /\ waiters' = [waiters EXCEPT ![awaited[c]] = @ \ {c}]
      BY <2>4 DEF Resume, Abandon, Detach, Return
    <3>2. \A t \in Tasks : waiters'[t] \subseteq waiters[t]
      BY <3>1 DEF TypeOK
    <3> QED
      BY <3>1, <3>2, <2>o, OutcomeMove
  <2>5. ASSUME NEW r, Exit(c, r), UNCHANGED waiters PROVE OutcomeInv'
    BY <2>5, <1>u, OutcomeExit
  <2>6. PICK r : r = result[c]
    OBVIOUS
  <2>7. CASE InvalidateLoaded(c) \/ InvalidateSaved(c)
    <3>1. \/ pc' = [pc EXCEPT ![c] = "saving"] /\ UNCHANGED <<result, waiters>>
          \/ Exit(c, r) /\ UNCHANGED waiters
      BY <2>6, <2>7 DEF InvalidateLoaded, InvalidateSaved, Exit
    <3> QED
      BY <3>1, <2>5, <1>u, OutcomeGo
  <2> QED
    BY <1>1, <2>1, <2>2, <2>3, <2>4, <2>7 DEF CallerStep
<1>e. ASSUME NEW u \in Users, NEW k, EnterExclusive(u, k), UNCHANGED <<result, waiters>> PROVE OutcomeInv'
  <2>1. PICK p \in {"loading", "locking"} : pc' = [pc EXCEPT ![u] = p]
    BY <1>e DEF EnterExclusive
  <2> QED
    BY <1>e, <2>1, OutcomeGo
<1>2. ASSUME NEW t \in Tasks, TaskStep(t) PROVE OutcomeInv'
  <2>x. ASSUME NEW r, Exit(t, r), UNCHANGED waiters, r \in {Failure, Cancelled} \/ \E a : r = Lease(a)
        PROVE  OutcomeInv'
    BY <2>x, <1>u, OutcomeExit
  <2>l. ASSUME NEW a, Exit(t, Lease(a)), UNCHANGED waiters PROVE OutcomeInv'
    BY <2>l, <2>x
  <2>1. CASE Begin(t)
    BY <2>1, <1>u, <1>e DEF Begin
  <2>2. CASE NeverBegun(t)
    <3>1. UNCHANGED waiters /\ pc' = [pc EXCEPT ![t] = "done"] /\ result' = [result EXCEPT ![t] = Cancelled]
      BY <2>2 DEF NeverBegun
    <3>2. result'[t] = Cancelled /\ \A s \in Tasks \ {t} : pc'[s] = pc[s] /\ result'[s] = result[s]
      BY <3>1, <1>u DEF TypeOK
    <3> QED
      BY <3>1, <3>2 DEF OutcomeInv, Cancelled, Nothing
  <2>3. CASE Loaded(t)
    <3>1. PICK a : a = store[key[t]].access
      OBVIOUS
    <3>2. \/ Exit(t, Lease(a)) \/ Exit(t, Failure)
          \/ UNCHANGED result /\ pc' = [pc EXCEPT ![t] = "refreshing"]
          \/ UNCHANGED result /\ pc' = [pc EXCEPT ![t] = "acquiring"]
      BY <2>3, <3>1 DEF Loaded, CallAcquire
    <3> QED
      BY <2>3, <3>2, <2>x, <2>l, <1>u, OutcomeGo DEF Loaded
  <2>4. ASSUME NEW tokens, Commit(t, tokens), UNCHANGED waiters PROVE OutcomeInv'
    BY <2>4, <2>x, <1>u, OutcomeGo DEF Commit
  <2>5. CASE Refreshed(t) \/ Acquired(t)
    BY <2>5, <2>4 DEF Refreshed, Acquired, ProviderAnswers
  <2>6. CASE RefreshRejected(t)
    BY <2>6, <2>x, <1>u, OutcomeGo DEF RefreshRejected
  <2>7. CASE Yielded(t) \/ Removed(t)
    BY <2>7, <1>u, OutcomeGo DEF Yielded, Removed, CallAcquire
  <2>8. CASE Saved(t)
    <3>1. PICK a : a = held[t].access
      OBVIOUS
    <3>2. Exit(t, Lease(a)) /\ UNCHANGED waiters
      BY <2>8, <3>1 DEF Saved
    <3> QED
      BY <3>2, <2>l
  <2>9. CASE Finished(t)
    <3>1. UNCHANGED <<waiters, result>> /\ pc[t] = "done" /\ pc' = [pc EXCEPT ![t] = "finished"]
      BY <2>9 DEF Finished
    <3>2. \A s \in Tasks : pc'[s] = pc[s] \/ (s = t /\ pc[s] = "done")
      BY <3>1, <1>u DEF TypeOK
    <3> QED
      BY <3>1, <3>2 DEF OutcomeInv
  <2>10. CASE Collect(t)
    <3>1. UNCHANGED <<waiters, pc>> /\ waiters[t] = {} /\ pc[t] = "finished" /\ result' = [result EXCEPT ![t] = Nothing]
      BY <2>10 DEF Collect
    <3>2. result'[t] = Nothing /\ \A s \in Tasks \ {t} : result'[s] = result[s]
      BY <3>1, <1>u DEF TypeOK
    <3> QED
      BY <3>1, <3>2 DEF OutcomeInv
  <2> QED
    BY <1>2, <2>1, <2>2, <2>3, <2>5, <2>6, <2>7, <2>8, <2>9, <2>10 DEF TaskStep
<1>3. ASSUME NEW u \in Users, SharedStep(u) \/ LockGranted(u) PROVE OutcomeInv'
  <2>1. CASE SharedStep(u)
    BY <2>1, OutcomeExit DEF SharedStep, Interrupted, CallFails
  <2>2. CASE LockGranted(u)
    BY <2>2, OutcomeGo DEF LockGranted
  <2> QED
    BY <1>3, <2>1, <2>2
<1>4. CASE Environment
  <2>1. ASSUME NEW c \in Callers, NEW k \in Keys, Call(c, k) PROVE OutcomeInv'
    <3>1. /\ UNCHANGED waiters /\ pc' = [pc EXCEPT ![c] = "entering"]
          /\ result' = [result EXCEPT ![c] = Nothing]
      BY <2>1 DEF Call
    <3>2. \A t \in Tasks : pc'[t] = pc[t] /\ result'[t] = result[t]
      BY <3>1, <1>u DEF TypeOK
    <3> QED
      BY <3>1, <3>2, OutcomeMove
  <2>2. ASSUME NEW c \in Callers, Invalidate(c) PROVE OutcomeInv'
    BY <2>2, <1>u, <1>e DEF Invalidate
  <2>3. ASSUME NEW c \in Callers, CancelCaller(c) PROVE OutcomeInv'
    BY <2>3, <1>q DEF CancelCaller
  <2>4. ASSUME NEW u \in Users, Swallowed(u) PROVE OutcomeInv'
    BY <2>4, <1>q DEF Swallowed
  <2>5. ASSUME NEW k \in Keys, Age(k) PROVE OutcomeInv'
    BY <2>5, <1>q DEF Age
  <2> QED
    BY <1>4, <2>1, <2>2, <2>3, <2>4, <2>5 DEF Environment
<1> QED
  BY <1>s, <1>1, <1>2, <1>3, <1>4 DEF Next
-----------------------------------------------------------------------------
(* Every step of the manager is a step of the service, or unseen. *)

\* A coroutine that moves on within _exclusive, or a task that moves at all, is not seen.
LEMMA UnseenMove ==
    ASSUME TypeOK, UNCHANGED <<key, cancel>>, NEW u \in Users,
           NEW p, pc' = [pc EXCEPT ![u] = p],
           \A c \in Callers : result'[c] = result[c],
           u \in Callers => \/ pc[u] \in Exclusive /\ p \in Exclusive
                            \/ pc[u] \in {"entering", "waiting"} /\ p \in {"entering", "waiting"}
    PROVE  \A c \in Callers : Unseen(c)
<1> SUFFICES ASSUME NEW c \in Callers PROVE Unseen(c)
  OBVIOUS
<1>1. pc'[c] = IF c = u THEN p ELSE pc[c]
  BY DEF TypeOK, Users
<1>2. PhaseOf(c)' = PhaseOf(c)
  BY <1>1 DEF PhaseOf, Exclusive, Critical
<1> QED
  BY <1>2 DEF Unseen

LEMMA UnseenExit ==
    ASSUME TypeOK, NEW t \in Tasks, NEW r, Exit(t, r)
    PROVE  \A c \in Callers : Unseen(c)
<1>1. t \in Users /\ t \notin Callers
  BY ConstantsAssumption DEF Users
<1>2. /\ pc' = [pc EXCEPT ![t] = "done"] /\ UNCHANGED <<key, cancel>>
      /\ \A c \in Callers : result'[c] = result[c]
  BY <1>1 DEF Exit, TypeOK, Users
<1> QED
  BY <1>1, <1>2, UnseenMove

LEMMA UnseenCommit ==
    ASSUME TypeOK, NEW t \in Tasks, NEW tokens, Commit(t, tokens)
    PROVE  \A c \in Callers : Unseen(c)
<1>1. t \in Users /\ t \notin Callers
  BY ConstantsAssumption DEF Users
<1> QED
  BY <1>1, UnseenMove, UnseenExit DEF Commit

LEMMA SeesExit ==
    ASSUME TypeOK, UNCHANGED <<issued, barred>>, NEW c \in Callers, NEW r, Exit(c, r)
    PROVE  Ends(c, r)
<1>1. c \in Users /\ c \notin Tasks
  BY ConstantsAssumption DEF Users
<1>2. /\ UNCHANGED key /\ pc' = [pc EXCEPT ![c] = "idle"] /\ cancel' = [cancel EXCEPT ![c] = "no"]
      /\ result' = [result EXCEPT ![c] = r]
  BY <1>1 DEF Exit
<1>3. \A d \in Callers \ {c} : pc'[d] = pc[d] /\ cancel'[d] = cancel[d] /\ result'[d] = result[d]
  BY <1>2 DEF TypeOK, Users
<1>4. \A d \in Callers \ {c} : PhaseOf(d)' = PhaseOf(d)
  BY <1>3 DEF PhaseOf
<1>5. pc'[c] = "idle" /\ cancel'[c] = "no" /\ result'[c] = r
  BY <1>1, <1>2 DEF TypeOK
<1> QED
  BY <1>2, <1>3, <1>4, <1>5 DEF Ends, Unseen

LEMMA NextService ==
    TypeOK /\ TypeOK' /\ RenewInv /\ KeyInv /\ StoreInv /\ OutcomeInv /\ [Next]_vars
    => [Service!ServiceNext]_Service!serviceVars
<1> SUFFICES ASSUME TypeOK, TypeOK', RenewInv, KeyInv, StoreInv, OutcomeInv, [Next]_vars
             PROVE  Service!ServiceNext \/ UNCHANGED Service!serviceVars
  OBVIOUS
<1> DEFINE Implemented == Service!ServiceNext \/ UNCHANGED Service!serviceVars
<1> USE DEF storeVars, renewVars, lockVars, localVars, historyVars
<1>u. Callers \subseteq Users /\ Tasks \subseteq Users /\ Callers \cap Tasks = {} /\ \A u \in Users : key[u] \in Keys
  BY ConstantsAssumption DEF Users, TypeOK
<1>f. ASSUME UNCHANGED <<issued, rejected, barred>>, \A c \in Callers : Unseen(c) PROVE Implemented
  BY <1>f, SeesNothing
<1>q. ASSUME UNCHANGED <<issued, rejected, barred, pc, key, cancel, result>> PROVE Implemented
  <2>1. \A c \in Callers : PhaseOf(c)' = PhaseOf(c)
    BY <1>q DEF PhaseOf
  <2> QED
    BY <1>q, <1>f, <2>1 DEF Unseen
<1>m. ASSUME UNCHANGED <<issued, rejected, barred, key, cancel, result>>, NEW u \in Users,
             NEW p, pc' = [pc EXCEPT ![u] = p],
             u \in Callers => \/ pc[u] \in Exclusive /\ p \in Exclusive
                              \/ pc[u] \in {"entering", "waiting"} /\ p \in {"entering", "waiting"}
      PROVE  Implemented
  BY <1>m, <1>f, UnseenMove
<1>s. CASE UNCHANGED vars
  BY <1>s, <1>q DEF vars
<1>a. ASSUME NEW c \in Callers, NEW t \in Tasks, Awaits(c, t), key[c] = key[t], result[t] \notin {Nothing, Cancelled}
      PROVE  result[t] = Failure \/ \E a \in 1 .. issued[key[c]] \ barred[c] : result[t] = Lease(a)
  <2>1. CASE result[t].kind = "leased"
    <3>1. result[t] = Lease(result[t].access)
      BY <2>1, <1>u DEF TypeOK, Result, Lease
    <3>2. result[t].access \notin barred[c] /\ 0 < result[t].access /\ result[t].access <= issued[key[t]]
      BY <1>a, <2>1, <1>u DEF StoreInv, Due, Leased
    <3>3. result[t].access \in 1 .. issued[key[c]] \ barred[c]
      BY <1>a, <1>u, <3>2, Numbers
    <3> QED
      BY <3>1, <3>3
  <2> QED
    BY <1>a, <2>1 DEF OutcomeInv
<1>1. ASSUME NEW c \in Callers, CallerStep(c) PROVE Implemented
  <2>r. ASSUME NEW r, Return(c, r), UNCHANGED <<issued, barred, key>>, cancel'[c] # "pending",
               \A d \in Callers \ {c} : cancel'[d] = cancel[d]
        PROVE  Ends(c, r)
    <3>1. pc'[c] = "idle" /\ result'[c] = r /\ \A d \in Callers \ {c} : pc'[d] = pc[d] /\ result'[d] = result[d]
      BY <2>r, <1>u DEF Return, TypeOK
    <3>2. \A d \in Callers \ {c} : PhaseOf(d)' = PhaseOf(d)
      BY <3>1 DEF PhaseOf
    <3> QED
      BY <2>r, <3>1, <3>2 DEF Ends, Unseen
  <2>1. CASE EntryCancelled(c)
    <3>1. /\ Return(c, Cancelled) /\ cancel[c] = "pending" /\ cancel' = [cancel EXCEPT ![c] = "no"]
          /\ UNCHANGED <<issued, rejected, barred, key>>
      BY <2>1 DEF EntryCancelled
    <3>2. cancel'[c] = "no" /\ \A d \in Callers \ {c} : cancel'[d] = cancel[d]
      BY <3>1, <1>u DEF TypeOK
    <3>3. Ends(c, Cancelled)
      BY <3>1, <3>2, <2>r
    <3> QED
      BY <3>1, <3>3, SeesCancellation
  <2>2. CASE ResolveFails(c)
    <3>1. /\ Return(c, Failure) /\ pc[c] = "entering" /\ cancel[c] = "no"
          /\ UNCHANGED <<issued, rejected, barred, key, cancel>>
      BY <2>2 DEF ResolveFails
    <3>2. Ends(c, Failure)
      BY <3>1, <2>r
    <3> QED
      BY <3>1, <3>2, SeesFailure
  <2>3. CASE Join(c)
    <3> DEFINE t == renewals[key[c]]
    <3>1. /\ pc[c] = "entering" /\ cancel[c] = "no" /\ t \in Tasks /\ cancel[t] = "no" /\ key[c] \in Keys
          /\ UNCHANGED <<issued, rejected, barred, key, cancel>>
      BY <2>3, <1>u DEF Join, Joinable, Cancelling, TypeOK
    <3>2. CASE pc[t] = "done"
      <4>1. Return(c, result[t])
        BY <2>3, <3>2 DEF Join
      <4>2. result[t] \notin {Nothing, Cancelled}
        BY <3>1, <3>2 DEF RenewInv, OutcomeInv, Cancelling
      <4>3. key[t] = key[c] /\ Awaits(c, t)
        BY <3>1, <3>2 DEF KeyInv, Awaits
      <4>4. PICK r : r = result[t]
        OBVIOUS
      <4>5. r = Failure \/ \E a \in 1 .. issued[key[c]] \ barred[c] : r = Lease(a)
        BY <3>1, <4>2, <4>3, <4>4, <1>a
      <4>6. Return(c, r)
        BY <4>1, <4>4
      <4>7. Ends(c, r)
        BY <3>1, <4>6, <2>r
      <4> QED
        BY <3>1, <4>5, <4>7, SeesAnswer
    <3>3. CASE pc[t] # "done"
      <4>1. pc' = [pc EXCEPT ![c] = "waiting"] /\ UNCHANGED result
        BY <2>3, <3>3 DEF Join
      <4> QED
        BY <4>1, <3>1, <1>u, <1>m
    <3> QED
      BY <3>2, <3>3
  <2>4. ASSUME NEW t \in Tasks, StartRenewal(c, t) PROVE Implemented
    <3>1. /\ pc[c] = "entering" /\ pc' = [pc EXCEPT ![c] = "waiting", ![t] = "created"]
          /\ key' = [key EXCEPT ![t] = key[c]] /\ cancel' = [cancel EXCEPT ![t] = "no"]
          /\ UNCHANGED <<issued, rejected, barred, result>>
      BY <2>4 DEF StartRenewal
    <3>2. \A d \in Callers : /\ pc'[d] = IF d = c THEN "waiting" ELSE pc[d]
                             /\ key'[d] = key[d] /\ cancel'[d] = cancel[d]
      BY <3>1, <1>u DEF TypeOK
    <3>3. pc[c] = "entering" /\ pc'[c] = "waiting" /\ \A d \in Callers \ {c} : pc'[d] = pc[d]
      BY <3>1, <3>2
    <3>4. \A d \in Callers : PhaseOf(d)' = PhaseOf(d)
      BY <3>3 DEF PhaseOf
    <3> QED
      BY <3>1, <3>2, <3>4, <1>f DEF Unseen
  <2>d. ASSUME NEW r, Detach(c, r), pc[c] = "waiting"
        PROVE  Ends(c, r) /\ UNCHANGED rejected
    <3>1. awaited[c] \in Tasks
      BY <2>d DEF TypeOK
    <3>2. /\ Return(c, r) /\ UNCHANGED <<issued, rejected, barred, key>>
          /\ cancel' = [cancel EXCEPT ![c] = "no", ![awaited[c]] = IF Abandoned(c, awaited[c]) THEN "pending" ELSE @]
      BY <2>d DEF Detach
    <3>3. cancel'[c] = "no" /\ \A d \in Callers \ {c} : cancel'[d] = cancel[d]
      BY <3>1, <3>2, <1>u DEF TypeOK
    <3> QED
      BY <3>2, <3>3, <2>r
  <2>5. CASE Resume(c)
    <3> DEFINE t == awaited[c]
    <3>1. /\ pc[c] = "waiting" /\ cancel[c] = "no" /\ pc[t] = "finished" /\ Detach(c, result[t]) /\ t \in Tasks
      BY <2>5 DEF Resume, TypeOK
    <3>2. c \in waiters[t]
      BY <3>1 DEF RenewInv
    <3>3. result[t] \notin {Nothing, Cancelled}
      BY <3>1, <3>2 DEF RenewInv, OutcomeInv
    <3>4. key[t] = key[c] /\ Awaits(c, t)
      BY <3>1 DEF KeyInv, Awaits
    <3>5. PICK r : r = result[t]
      OBVIOUS
    <3>6. r = Failure \/ \E a \in 1 .. issued[key[c]] \ barred[c] : r = Lease(a)
      BY <3>1, <3>3, <3>4, <3>5, <1>a
    <3>7. Detach(c, r)
      BY <3>1, <3>5
    <3>8. Ends(c, r) /\ UNCHANGED rejected
      BY <3>1, <3>7, <2>d
    <3> QED
      BY <3>1, <3>6, <3>8, SeesAnswer
  <2>6. CASE Abandon(c)
    <3>1. pc[c] = "waiting" /\ cancel[c] = "pending" /\ Detach(c, Cancelled)
      BY <2>6 DEF Abandon
    <3> QED
      BY <3>1, <2>d, SeesCancellation
  <2>7. PICK r : r = result[c]
    OBVIOUS
  <2>8. ASSUME Exit(c, r), Reject(c), UNCHANGED <<issued, barred>>, pc[c] \in Exclusive, cancel[c] # "pending"
        PROVE  Implemented
    <3>1. Ends(c, r)
      BY <2>8, SeesExit
    <3>2. Ends(c, result[c])
      BY <3>1, <2>7 DEF Ends
    <3> QED
      BY <2>8, <3>2, SeesRejection
  <2>9. CASE InvalidateLoaded(c)
    <3>1. \/ /\ pc' = [pc EXCEPT ![c] = "saving"]
             /\ UNCHANGED <<issued, rejected, barred, key, cancel, result>>
          \/ Exit(c, r) /\ Reject(c) /\ UNCHANGED <<issued, barred>>
      BY <2>7, <2>9 DEF InvalidateLoaded
    <3>2. pc[c] \in Exclusive /\ cancel[c] # "pending" /\ "saving" \in Exclusive
      BY <2>9 DEF InvalidateLoaded, Exclusive, Critical
    <3> QED
      BY <3>1, <3>2, <2>8, <1>m, <1>u
  <2>10. CASE InvalidateSaved(c)
    BY <2>7, <2>8, <2>10 DEF InvalidateSaved, Exclusive, Critical
  <2> QED
    BY <1>1, <2>1, <2>2, <2>3, <2>4, <2>5, <2>6, <2>9, <2>10 DEF CallerStep
<1>e. ASSUME NEW t \in Tasks, NEW k, EnterExclusive(t, k),
             UNCHANGED <<issued, rejected, barred, key, cancel, result>>
      PROVE  Implemented
  <2>1. PICK p : pc' = [pc EXCEPT ![t] = p]
    BY <1>e DEF EnterExclusive
  <2> QED
    BY <1>e, <2>1, <1>m, <1>u
<1>x. ASSUME NEW t \in Tasks, NEW r, Exit(t, r), UNCHANGED <<issued, rejected, barred>> PROVE Implemented
  BY <1>x, <1>f, UnseenExit
<1>2. ASSUME NEW t \in Tasks, TaskStep(t) PROVE Implemented
  <2>m. ASSUME NEW p, pc' = [pc EXCEPT ![t] = p], UNCHANGED <<key, cancel, issued, rejected, barred>>,
               \A c \in Callers : result'[c] = result[c]
        PROVE  Implemented
    BY <2>m, <1>u, <1>f, UnseenMove
  <2>1. CASE Begin(t)
    BY <2>1, <1>e DEF Begin
  <2>2. CASE NeverBegun(t) \/ Yielded(t) \/ Removed(t) \/ Finished(t)
    <3>1. PICK p : pc' = [pc EXCEPT ![t] = p]
      BY <2>2 DEF NeverBegun, Yielded, Removed, Finished, CallAcquire
    <3>2. /\ UNCHANGED <<key, cancel, issued, rejected, barred>>
          /\ UNCHANGED result \/ result' = [result EXCEPT ![t] = Cancelled]
      BY <2>2 DEF NeverBegun, Yielded, Removed, Finished, CallAcquire
    <3>3. \A c \in Callers : result'[c] = result[c]
      BY <3>2, <1>u DEF TypeOK
    <3> QED
      BY <3>1, <3>2, <3>3, <2>m
  <2>3. CASE Loaded(t)
    <3>1. PICK r : r = Lease(store[key[t]].access)
      OBVIOUS
    <3>2. /\ UNCHANGED <<issued, rejected, barred>>
          /\ \/ Exit(t, r) \/ Exit(t, Failure)
             \/ \E p : pc' = [pc EXCEPT ![t] = p] /\ UNCHANGED <<key, cancel, result>>
      BY <2>3, <3>1 DEF Loaded, CallAcquire
    <3> QED
      BY <3>2, <1>x, <2>m
  <2>4. CASE Refreshed(t) \/ Acquired(t)
    <3>1. /\ issued[key[t]] < MaxIssued /\ issued' = [issued EXCEPT ![key[t]] = @ + 1]
          /\ UNCHANGED <<rejected, barred>>
          /\ \E tokens : Commit(t, tokens)
      BY <2>4 DEF Refreshed, Acquired, ProviderAnswers
    <3>2. \A c \in Callers : Unseen(c)
      BY <3>1, UnseenCommit
    <3> QED
      BY <3>1, <3>2, <1>u, SeesNothing
  <2>5. CASE RefreshRejected(t)
    <3>1. /\ UNCHANGED <<issued, rejected, barred>>
          /\ Exit(t, Failure) \/ \E p : pc' = [pc EXCEPT ![t] = p] /\ UNCHANGED <<key, cancel, result>>
      BY <2>5 DEF RefreshRejected
    <3> QED
      BY <3>1, <1>x, <2>m
  <2>6. CASE Saved(t)
    <3>1. PICK r : r = Lease(held[t].access)
      OBVIOUS
    <3> QED
      BY <2>6, <3>1, <1>x DEF Saved
  <2>7. CASE Collect(t)
    <3>1. /\ UNCHANGED <<issued, rejected, barred, pc, key>>
          /\ result' = [result EXCEPT ![t] = Nothing] /\ cancel' = [cancel EXCEPT ![t] = "no"]
      BY <2>7 DEF Collect
    <3>2. \A c \in Callers : result'[c] = result[c] /\ cancel'[c] = cancel[c]
      BY <3>1, <1>u DEF TypeOK
    <3>3. \A c \in Callers : PhaseOf(c)' = PhaseOf(c)
      BY <3>1 DEF PhaseOf
    <3> QED
      BY <3>1, <3>2, <3>3, <1>f DEF Unseen
  <2> QED
    BY <1>2, <2>1, <2>2, <2>3, <2>4, <2>5, <2>6, <2>7 DEF TaskStep
<1>3. ASSUME NEW u \in Users, SharedStep(u) PROVE Implemented
  <2>1. PICK r \in {Failure, Cancelled} :
          /\ Exit(u, r) /\ UNCHANGED <<issued, rejected, barred>> /\ pc[u] \in Exclusive
          /\ r = Cancelled => cancel[u] = "pending"
          /\ r = Failure => cancel[u] # "pending"
    BY <1>3 DEF SharedStep, Interrupted, CallFails, External, Exclusive, Failure, Cancelled
  <2>2. CASE u \in Tasks
    BY <2>1, <2>2, <1>x
  <2>3. CASE u \in Callers
    <3>1. Ends(u, r) /\ pc[u] # "idle"
      BY <2>1, <2>3, SeesExit DEF Exclusive, Critical
    <3> QED
      BY <2>1, <2>3, <3>1, SeesFailure, SeesCancellation
  <2> QED
    BY <2>2, <2>3 DEF Users
<1>4. ASSUME NEW u \in Users, LockGranted(u) PROVE Implemented
  BY <1>4, <1>m DEF LockGranted, Exclusive, Critical
<1>5. CASE Environment
  <2>1. ASSUME NEW c \in Callers, NEW k \in Keys, Call(c, k) PROVE Implemented
    <3>1. /\ pc[c] = "idle" /\ pc' = [pc EXCEPT ![c] = "entering"] /\ key' = [key EXCEPT ![c] = k]
          /\ result' = [result EXCEPT ![c] = Nothing] /\ barred' = [barred EXCEPT ![c] = rejected[k]]
          /\ UNCHANGED <<issued, rejected, cancel>>
      BY <2>1 DEF Call
    <3>2. /\ \A d \in Callers : /\ pc'[d] = IF d = c THEN "entering" ELSE pc[d]
                                /\ key'[d] = IF d = c THEN k ELSE key[d]
                                /\ result'[d] = IF d = c THEN Nothing ELSE result[d]
      BY <3>1, <1>u DEF TypeOK
    <3>e. /\ pc[c] = "idle" /\ pc'[c] = "entering"
          /\ \A d \in Callers \ {c} : pc'[d] = pc[d] /\ result'[d] = result[d]
      BY <3>1, <3>2
    <3>p. /\ PhaseOf(c) = "idle" /\ PhaseOf(c)' = "asking"
          /\ \A d \in Callers \ {c} : PhaseOf(d)' = PhaseOf(d)
      BY <3>e DEF PhaseOf
    <3>s. \A d \in Callers : SubjectOf(d)' = SubjectOf(d)
      BY <3>e DEF PhaseOf, SubjectOf
    <3>3. /\ [d \in Callers |-> PhaseOf(d)]' = [[d \in Callers |-> PhaseOf(d)] EXCEPT ![c] = "asking"]
          /\ UNCHANGED [d \in Callers |-> SubjectOf(d)]
          /\ PhaseOf(c) = "idle"
      BY <3>p, <3>s
    <3>4. /\ [d \in Callers |-> key[d]]' = [[d \in Callers |-> key[d]] EXCEPT ![c] = k]
          /\ [d \in Callers |-> result[d]]' = [[d \in Callers |-> result[d]] EXCEPT ![c] = Service!Nothing]
          /\ UNCHANGED [d \in Callers |-> cancel[d] = "pending"]
      BY <3>1, <3>2 DEF Nothing, Service!Nothing
    <3>5. Service!Ask(c, k)
      BY <3>1, <3>3, <3>4 DEF Service!Ask
    <3> QED
      BY <3>5 DEF Service!ServiceNext
  <2>2. ASSUME NEW c \in Callers, Invalidate(c) PROVE Implemented
    <3>1. PICK p \in {"loading", "locking"} : pc' = [pc EXCEPT ![c] = p]
      BY <2>2 DEF Invalidate, EnterExclusive
    <3>2. pc[c] = "idle" /\ result[c].kind = "leased" /\ UNCHANGED <<issued, rejected, barred, key, cancel, result>>
      BY <2>2 DEF Invalidate
    <3>3. \A d \in Callers : pc'[d] = IF d = c THEN p ELSE pc[d]
      BY <3>1, <1>u DEF TypeOK
    <3>4. /\ [d \in Callers |-> PhaseOf(d)]' = [[d \in Callers |-> PhaseOf(d)] EXCEPT ![c] = "rejecting"]
          /\ [d \in Callers |-> SubjectOf(d)]' = [[d \in Callers |-> SubjectOf(d)] EXCEPT ![c] = result[c].access]
          /\ PhaseOf(c) = "idle"
      BY <3>2, <3>3 DEF PhaseOf, SubjectOf
    <3>5. /\ [d \in Callers |-> key[d]]' = [[d \in Callers |-> key[d]] EXCEPT ![c] = key[c]]
          /\ UNCHANGED <<[d \in Callers |-> cancel[d] = "pending"], [d \in Callers |-> result[d]]>>
      BY <3>2
    <3> QED
      BY <3>2, <3>4, <3>5 DEF Service!ServiceNext, Service!RejectToken
  <2>3. ASSUME NEW c \in Callers, CancelCaller(c) PROVE Implemented
    <3>1. /\ pc[c] # "idle" /\ cancel[c] # "pending" /\ cancel' = [cancel EXCEPT ![c] = "pending"]
          /\ UNCHANGED <<issued, rejected, barred, pc, key, result>>
      BY <2>3 DEF CancelCaller
    <3>2. \A d \in Callers : cancel'[d] = IF d = c THEN "pending" ELSE cancel[d]
      BY <3>1, <1>u DEF TypeOK
    <3>3. Service!CancelCaller(c)
      BY <3>1, <3>2 DEF Service!CancelCaller, PhaseOf, SubjectOf
    <3> QED
      BY <3>3 DEF Service!ServiceNext
  <2>4. ASSUME NEW u \in Users, Swallowed(u) PROVE Implemented
    <3>1. /\ pc[u] \in External /\ cancel[u] = "pending" /\ cancel' = [cancel EXCEPT ![u] = "swallowed"]
          /\ UNCHANGED <<issued, rejected, barred, pc, key, result>>
      BY <2>4 DEF Swallowed
    <3>2. \A d \in Callers : cancel'[d] = IF d = u THEN "swallowed" ELSE cancel[d]
      BY <3>1, <1>u DEF TypeOK
    <3>3. CASE u \in Callers
      <4>1. PhaseOf(u) = "rejecting"
        BY <3>1 DEF PhaseOf, External, Critical
      <4>2. UNCHANGED <<[d \in Callers |-> PhaseOf(d)], [d \in Callers |-> SubjectOf(d)]>>
        BY <3>1 DEF PhaseOf, SubjectOf
      <4>3. [d \in Callers |-> cancel[d] = "pending"]'
            = [[d \in Callers |-> cancel[d] = "pending"] EXCEPT ![u] = FALSE]
        BY <3>2, <3>3
      <4>4. Service!Swallow(u)
        BY <3>1, <3>3, <4>1, <4>2, <4>3 DEF Service!Swallow
      <4> QED
        BY <3>3, <4>4 DEF Service!ServiceNext, Service!ServiceStep
    <3>4. CASE u \in Tasks
      <4>1. \A d \in Callers : PhaseOf(d)' = PhaseOf(d) /\ cancel'[d] = cancel[d]
        BY <3>1, <3>2, <3>4, <1>u DEF PhaseOf
      <4> QED
        BY <3>1, <4>1, <1>f DEF Unseen
    <3> QED
      BY <3>3, <3>4 DEF Users
  <2>5. ASSUME NEW k \in Keys, Age(k) PROVE Implemented
    BY <2>5, <1>q DEF Age
  <2> QED
    BY <1>5, <2>1, <2>2, <2>3, <2>4, <2>5 DEF Environment
<1> QED
  BY <1>s, <1>1, <1>2, <1>3, <1>4, <1>5 DEF Next

\* Renewal tasks, their cancellation, the locks and the store implement the service: each call of
\* credentials and invalidate is one step of CredentialService between its call and its answer, and
\* a lease it answers with was issued and not put out of use before the call, whichever answers
\* carry the same access token (lines 68-104, 159-204).
THEOREM ImplementsServiceHolds == Spec => ImplementsService
<1>1. Spec => []OutcomeInv
  BY InitOutcomeInv, NextOutcomeInv, StoreInvariant, PTL DEF Spec
<1> QED
  BY <1>1, InitService, NextService, StoreInvariant, PTL DEF Spec, ImplementsService, Service!ServiceSpec
=============================================================================
