------------------------------ MODULE AuthProofs ------------------------------
(***************************************************************************)
(* What AuthRecovery promises on every instance: type correctness, one     *)
(* replay at most, responses accounted for, credentials attached together, *)
(* a replay that avoids what was rejected, and one that is not refused.    *)
(***************************************************************************)
EXTENDS AuthRecovery, TLAPS

Kinds == {"none", "failed", "cancelled", "leased"}

Results == [kind : Kinds, access : Credential]

ServiceTypes ==
    /\ issued \in [Keys -> Nat] /\ \A k \in Keys : issued[k] <= MaxIssued[k]
    /\ rejected \in [Keys -> SUBSET Nat]
    /\ phase \in [Callers -> {"idle", "asking", "rejecting"}]
    /\ key \in [Callers -> Keys]
    /\ subject \in [Callers -> Int]
    /\ asked \in [Callers -> BOOLEAN]
    /\ barred \in [Callers -> SUBSET Nat]
    /\ result \in [Callers -> Results]

Steps == {"idle", "acquiring", "sending", "closing", "rejecting", "replaying"}

Outcomes == {"none", "returned", "raised", "interrupted"}

SendTypes ==
    /\ bindings \in [Callers -> Alternatives]
    /\ replayable \in [Callers -> BOOLEAN]
    /\ step \in [Callers -> Steps]
    /\ leases \in [Callers -> Seq(Credential)]
    /\ receipts \in [Callers -> Seq(Credential)]
    /\ attached \in [Callers -> [Keys -> Credential]]
    /\ used \in [Callers -> BOOLEAN]
    /\ sent \in [Callers -> Seq([Keys -> Credential])]
    /\ replays \in [Callers -> Nat]
    /\ spent \in [Callers -> SUBSET Nat]
    /\ unclosed \in [Callers -> Int]
    /\ outcome \in [Callers -> Outcomes]
    /\ shut \in BOOLEAN

Types == ServiceTypes /\ SendTypes

Distinct(c) == \A i, j \in DOMAIN bindings[c] : i # j => bindings[c][i] # bindings[c][j]

\* Between a challenge and the end of the replay.
Recovering(c) ==
    \/ step[c] \in {"closing", "rejecting", "replaying"}
    \/ step[c] = "acquiring" /\ Len(sent[c]) = 1

\* Where a coroutine is tells how often it has sent.
Counting(c) ==
    /\ (step[c] = "idle" /\ outcome[c] = "none") => sent[c] = <<>>
    /\ step[c] # "idle" => outcome[c] = "none"
    /\ step[c] = "acquiring" => Len(sent[c]) \in {0, 1}
    /\ step[c] \in {"sending", "closing", "rejecting"} => Len(sent[c]) = 1
    /\ step[c] = "replaying" => Len(sent[c]) = 2
    /\ (Recovering(c) \/ Len(sent[c]) = 2) => replayable[c] /\ Bearer \in Selected(c)

\* What the budget allows, and what is still to be closed.
Budgeted(c) ==
    /\ Recovering(c) => used[c]
    /\ replays[c] <= IF used[c] THEN 1 ELSE 0
    /\ (Recovering(c) /\ step[c] # "replaying") => replays[c] = 0
    /\ replays[c] # 0 => replayable[c]
    /\ unclosed[c] \in {0, 1}
    /\ step[c] = "closing" => unclosed[c] = 1
    /\ unclosed[c] = 1 => step[c] = "closing" \/ outcome[c] = "interrupted"

\* Leases are collected for one binding after the other.
Collecting(c) ==
    /\ step[c] # "acquiring" => leases[c] = <<>>
    /\ step[c] \notin {"acquiring", "rejecting"} => phase[c] = "idle"
    /\ step[c] = "acquiring" =>
          /\ Distinct(c)
          /\ Len(leases[c]) < Len(bindings[c])
          /\ key[c] = bindings[c][Len(leases[c]) + 1]
          /\ phase[c] # "rejecting"
          /\ \A i \in DOMAIN leases[c] : leases[c][i] > 0
          /\ result[c].kind = "leased" => result[c].access > 0

\* The credentials in the request are those of its receipts, and were sent.
Attached(c) ==
    /\ receipts[c] = <<>> => \A k \in Keys : attached[c][k] <= 0
    /\ Len(receipts[c]) \in {0, Len(bindings[c])}
    /\ \A i \in DOMAIN receipts[c] : attached[c][bindings[c][i]] = receipts[c][i]
    /\ \A n \in DOMAIN sent[c], k \in Selected(c) : sent[c][n][k] > 0
    /\ (step[c] \in {"sending", "closing", "rejecting", "replaying"} /\ bindings[c] # <<>>) =>
          /\ Distinct(c)
          /\ receipts[c] # <<>>
          /\ sent[c][Len(sent[c])] = attached[c]

\* The challenged answer and the older ones.
UpToChallenged(c) == 1..sent[c][1][Bearer]

\* From the rejection on, nothing acquired for the Authorization header is the challenged
\* answer, an older one, or one that was out of use when the replay was authorized.
Newer(c) ==
    /\ step[c] = "rejecting" =>
          /\ phase[c] # "asking"
          /\ phase[c] = "rejecting" => key[c] = Bearer /\ subject[c] = sent[c][1][Bearer]
          /\ (phase[c] = "idle" /\ result[c].kind = "leased") => UpToChallenged(c) \subseteq rejected[Bearer]
    /\ (step[c] = "acquiring" /\ Len(sent[c]) = 1) =>
          /\ UpToChallenged(c) \subseteq spent[c] /\ spent[c] \subseteq rejected[Bearer]
          /\ \A i \in DOMAIN leases[c] : bindings[c][i] = Bearer => leases[c][i] \notin spent[c]
          /\ key[c] = Bearer =>
                /\ phase[c] = "asking" => spent[c] \subseteq barred[c]
                /\ (phase[c] = "idle" /\ result[c].kind = "leased") => result[c].access \notin spent[c]
    /\ Len(sent[c]) = 2 => UpToChallenged(c) \subseteq spent[c] /\ sent[c][2][Bearer] \notin spent[c]

CallerInv(c) == Counting(c) /\ Budgeted(c) /\ Collecting(c) /\ Attached(c) /\ Newer(c)

IInv == Types /\ \A c \in Callers : CallerInv(c)
-----------------------------------------------------------------------------
LEMMA Credentials == Credential \subseteq Int /\ 0 \in Credential /\ Own \in Credential /\ Own < 0
<1>1. \A k \in Keys : Token(k) \subseteq Int
    BY AlternativesAssumption DEF Token
<1> QED
    BY <1>1 DEF Credential, Own

LEMMA BindingTypes ==
    ASSUME Types, NEW c \in Callers
    PROVE  bindings[c] \in Seq(Keys)
BY AlternativesAssumption DEF Types, SendTypes

\* The service steps keep its types, and never take a rejection back.
ServiceAction ==
    \/ ServiceStep
    \/ \E c \in Callers : CancelCaller(c)

LEMMA ResultTypes ==
    /\ {Nothing, Failure, Cancelled} \subseteq Results
    /\ \A a \in Credential : Lease(a) \in Results
BY Credentials DEF Nothing, Failure, Cancelled, Lease, Results, Kinds

LEMMA SettledTypes ==
    ASSUME ServiceTypes, NEW c \in Callers, NEW r \in Results, Settled(c, r), rejected' \in [Keys -> SUBSET Nat]
    PROVE  ServiceTypes'
BY DEF Settled, ServiceTypes

LEMMA ServiceStepTypes ==
    ASSUME ServiceTypes, ServiceAction
    PROVE  ServiceTypes'
<1>1. ASSUME NEW k \in Keys, Issue(k) PROVE ServiceTypes'
    <2>1. issued' = [issued EXCEPT ![k] = issued[k] + 1] /\ issued \in [Keys -> Nat]
        BY <1>1 DEF Issue, ServiceTypes
    <2>2. issued' \in [Keys -> Nat]
        BY <2>1
    <2>3. issued[k] \in Nat /\ MaxIssued[k] \in Nat /\ issued[k] < MaxIssued[k]
        BY <1>1, <2>1, AlternativesAssumption DEF Issue
    <2>6. issued[k] + 1 <= MaxIssued[k]
        BY <2>3
    <2>4. \A j \in Keys : issued[j] <= MaxIssued[j]
        BY DEF ServiceTypes
    <2>5. \A j \in Keys : issued'[j] <= MaxIssued[j]
        BY <2>1, <2>4, <2>6
    <2> QED
        BY <1>1, <2>2, <2>5 DEF Issue, ServiceTypes
<1>2. ASSUME NEW c \in Callers, Grant(c) PROVE ServiceTypes'
    <2>1. PICK a \in Leasable(c) : Settled(c, Lease(a))
        BY <1>2 DEF Grant
    <2>2. a \in Token(key[c]) /\ key[c] \in Keys
        BY <2>1, AlternativesAssumption DEF Leasable, Token, ServiceTypes
    <2>3. Lease(a) \in Results
        BY <2>2, ResultTypes DEF Credential
    <2>4. rejected' \in [Keys -> SUBSET Nat]
        BY <1>2 DEF Grant, ServiceTypes
    <2> QED
        BY <2>1, <2>3, <2>4, SettledTypes
<1>3. ASSUME NEW c \in Callers, Rejected(c) PROVE ServiceTypes'
    <2>1. rejected' \in [Keys -> SUBSET Nat]
        BY <1>3 DEF Rejected, OutOfUse, ServiceTypes
    <2>2. result[c] \in Results /\ Settled(c, result[c])
        BY <1>3 DEF Rejected, ServiceTypes
    <2> QED
        BY <2>1, <2>2, SettledTypes
<1>4. ASSUME NEW c \in Callers, Fail(c) PROVE ServiceTypes'
    <2>1. rejected' \in [Keys -> SUBSET Nat] /\ Settled(c, Failure)
        BY <1>4 DEF Fail, ServiceTypes
    <2> QED
        BY <2>1, ResultTypes, SettledTypes
<1>5. ASSUME NEW c \in Callers, EndCancelled(c) PROVE ServiceTypes'
    <2>1. rejected' \in [Keys -> SUBSET Nat] /\ Settled(c, Cancelled)
        BY <1>5 DEF EndCancelled, ServiceTypes
    <2> QED
        BY <2>1, ResultTypes, SettledTypes
<1>6. ASSUME NEW c \in Callers, Swallow(c) \/ CancelCaller(c) PROVE ServiceTypes'
    BY <1>6 DEF Swallow, CancelCaller, ServiceTypes
<1> QED
    BY <1>1, <1>2, <1>3, <1>4, <1>5, <1>6 DEF ServiceAction, ServiceStep

LEMMA AskTypes ==
    ASSUME ServiceTypes, NEW r \in Callers, NEW k \in Keys, Ask(r, k)
    PROVE  ServiceTypes'
BY ResultTypes DEF Ask, ServiceTypes

LEMMA RejectTypes ==
    ASSUME ServiceTypes, NEW r \in Callers, NEW k \in Keys, NEW a \in Int, RejectToken(r, k, a)
    PROVE  ServiceTypes'
BY DEF RejectToken, ServiceTypes

LEMMA IdleTypes == ServiceTypes /\ UNCHANGED serviceVars => ServiceTypes'
BY DEF serviceVars, ServiceTypes

-----------------------------------------------------------------------------
\* What send and authorize do to the variables of sending.
LEMMA SendEffect ==
    ASSUME SendTypes, NEW r \in Callers, NEW a \in [Keys -> Credential], Send(r, a)
    PROVE  /\ step' \in [Callers -> Steps]
           /\ outcome' \in [Callers -> Outcomes]
           /\ leases' \in [Callers -> Seq(Credential)]
           /\ sent' \in [Callers -> Seq([Keys -> Credential])]
           /\ replays' \in [Callers -> Nat]
<1>1. leases' \in [Callers -> Seq(Credential)]
    <2>1. leases' = [leases EXCEPT ![r] = <<>>] /\ <<>> \in Seq(Credential)
        BY DEF Send, Raise, End
    <2> QED
        BY <2>1 DEF SendTypes
<1>2. sent' \in [Callers -> Seq([Keys -> Credential])]
    <2>1. Append(sent[r], a) \in Seq([Keys -> Credential])
        BY DEF SendTypes
    <2>2. sent' = sent \/ sent' = [sent EXCEPT ![r] = Append(sent[r], a)]
        BY DEF Send
    <2> QED
        BY <2>1, <2>2 DEF SendTypes
<1>3. step' \in [Callers -> Steps]
    <2>1. PICK p \in Steps : step' = [step EXCEPT ![r] = p]
        BY DEF Send, Raise, End, Steps
    <2> QED
        BY <2>1 DEF SendTypes
<1>4. outcome' \in [Callers -> Outcomes]
    <2>1. outcome' = [outcome EXCEPT ![r] = "raised"] \/ outcome' = outcome
        BY DEF Send, Raise, End
    <2> QED
        BY <2>1 DEF SendTypes, Outcomes
<1>5. replays' \in [Callers -> Nat]
    <2>1. replays' = replays \/ replays' = [replays EXCEPT ![r] = replays[r] + 1]
        BY DEF Send
    <2> QED
        BY <2>1 DEF SendTypes
<1> QED
    BY <1>1, <1>2, <1>3, <1>4, <1>5

LEMMA AuthorizeEffect ==
    ASSUME Types, NEW r \in Callers, Authorize(r)
    PROVE  /\ ServiceTypes'
           /\ step' \in [Callers -> Steps]
           /\ outcome' \in [Callers -> Outcomes]
           /\ leases' \in [Callers -> Seq(Credential)]
           /\ sent' \in [Callers -> Seq([Keys -> Credential])]
           /\ replays' \in [Callers -> Nat]
<1>b. bindings[r] \in Seq(Keys) /\ attached[r] \in [Keys -> Credential]
    BY BindingTypes DEF Types, SendTypes
<1>1. CASE bindings[r] = <<>> /\ Send(r, attached[r]) /\ UNCHANGED serviceVars
    BY <1>1, <1>b, SendEffect, IdleTypes DEF Types
<1>2. CASE Raise(r) /\ UNCHANGED <<serviceVars, sent, replays>>
    BY <1>2, IdleTypes DEF Raise, End, Types, SendTypes, Steps, Outcomes
<1>3. CASE /\ bindings[r] # <<>> /\ Ask(r, bindings[r][1])
           /\ step' = [step EXCEPT ![r] = "acquiring"]
           /\ leases' = [leases EXCEPT ![r] = <<>>]
           /\ UNCHANGED <<sent, replays, outcome>>
    <2>1. bindings[r][1] \in Keys
        BY <1>b, <1>3
    <2>2. ServiceTypes'
        BY <1>3, <2>1, AskTypes DEF Types
    <2> QED
        BY <1>3, <2>2 DEF Types, SendTypes, Steps
<1> QED
    BY <1>1, <1>2, <1>3 DEF Authorize

LEMMA AttachTypes ==
    ASSUME SendTypes, NEW r \in Callers, NEW tokens \in Seq(Credential), bindings[r] \in Seq(Keys), Attach(r, tokens)
    PROVE  attached' \in [Callers -> [Keys -> Credential]]
<1> DEFINE new == [k \in Keys |-> IF Len(tokens) = Len(bindings[r]) /\ k \in Selected(r)
                        THEN tokens[CHOOSE i \in DOMAIN tokens : bindings[r][i] = k] ELSE attached[r][k]]
<1>1. ASSUME NEW k \in Keys, Len(tokens) = Len(bindings[r]), k \in Selected(r)
      PROVE  tokens[CHOOSE i \in DOMAIN tokens : bindings[r][i] = k] \in Credential
    <2>1. \E i \in DOMAIN tokens : bindings[r][i] = k
        BY <1>1 DEF Selected
    <2>2. (CHOOSE i \in DOMAIN tokens : bindings[r][i] = k) \in DOMAIN tokens
        BY <2>1
    <2> QED
        BY <2>2
<1>2. \A k \in Keys : attached[r][k] \in Credential
    BY DEF SendTypes
<1>3. new \in [Keys -> Credential]
    BY <1>1, <1>2
<1>4. attached' = [attached EXCEPT ![r] = new]
    BY DEF Attach
<1> QED
    BY <1>3, <1>4 DEF SendTypes

LEMMA LeaseArrivesTypes ==
    ASSUME Types, NEW r \in Callers, LeaseArrives(r)
    PROVE  Types'
<1> DEFINE tokens == Append(leases[r], result[r].access)
<1>b. bindings[r] \in Seq(Keys)
    BY BindingTypes
<1>1. tokens \in Seq(Credential)
    BY DEF Types, SendTypes, ServiceTypes, Results
<1>a. /\ Attach(r, tokens)
      /\ UNCHANGED <<requestVars, used, spent, unclosed, shut>>
    BY DEF LeaseArrives
<1>2. attached' \in [Callers -> [Keys -> Credential]]
    BY <1>1, <1>a, <1>b, AttachTypes DEF Types
<1>3. CASE /\ Len(tokens) < Len(bindings[r])
           /\ Ask(r, bindings[r][Len(tokens) + 1])
           /\ leases' = [leases EXCEPT ![r] = tokens]
           /\ UNCHANGED <<step, receipts, sent, replays, outcome>>
    <2>1. bindings[r][Len(tokens) + 1] \in Keys
        BY <1>1, <1>3, <1>b
    <2>2. ServiceTypes'
        BY <1>3, <2>1, AskTypes DEF Types
    <2>3. leases' \in [Callers -> Seq(Credential)]
        BY <1>1, <1>3 DEF Types, SendTypes
    <2> QED
        BY <1>2, <1>3, <1>a, <2>2, <2>3 DEF Types, SendTypes, requestVars
<1>4. CASE /\ receipts' = [receipts EXCEPT ![r] = tokens]
           /\ Send(r, attached'[r])
           /\ UNCHANGED serviceVars
    <2>1. ServiceTypes' /\ attached'[r] \in [Keys -> Credential]
        BY <1>2, <1>4, IdleTypes DEF Types
    <2>2. /\ step' \in [Callers -> Steps]
          /\ outcome' \in [Callers -> Outcomes]
          /\ leases' \in [Callers -> Seq(Credential)]
          /\ sent' \in [Callers -> Seq([Keys -> Credential])]
          /\ replays' \in [Callers -> Nat]
        BY <1>4, <2>1, SendEffect DEF Types
    <2>3. receipts' \in [Callers -> Seq(Credential)]
        BY <1>1, <1>4 DEF Types, SendTypes
    <2> QED
        BY <1>2, <1>a, <2>1, <2>2, <2>3 DEF Types, SendTypes, requestVars
<1> QED
    BY <1>3, <1>4 DEF LeaseArrives

\* The rejected lease is the one whose token is in the Authorization header.
LEMMA ReceiptOfBearer ==
    ASSUME Types, NEW r \in Callers, CallerInv(r), step[r] \in {"closing", "rejecting"}
    PROVE  /\ BearerReceipt(r) \in Credential
           /\ BearerReceipt(r) = sent[r][1][Bearer]
<1>1. Bearer \in Selected(r) /\ Len(sent[r]) = 1
    BY DEF CallerInv, Counting, Recovering
<1>2. bindings[r] # <<>> /\ bindings[r] \in Seq(Keys)
    BY <1>1, BindingTypes DEF Selected
<1>3. /\ receipts[r] # <<>> /\ receipts[r] \in Seq(Credential) /\ Len(receipts[r]) \in {0, Len(bindings[r])}
      /\ sent[r][1] = attached[r]
      /\ \A i \in DOMAIN receipts[r] : attached[r][bindings[r][i]] = receipts[r][i]
    BY <1>1, <1>2 DEF CallerInv, Attached, Types, SendTypes
<1>4. DOMAIN receipts[r] = DOMAIN bindings[r]
    BY <1>2, <1>3
<1>5. \E i \in DOMAIN receipts[r] : bindings[r][i] = Bearer
    BY <1>1, <1>4 DEF Selected
<1>6. PICK i \in DOMAIN receipts[r] : bindings[r][i] = Bearer /\ BearerReceipt(r) = receipts[r][i]
    BY <1>5 DEF BearerReceipt
<1> QED
    BY <1>3, <1>6

LEMMA TypesStep ==
    ASSUME IInv, [Next]_vars
    PROVE  Types'
<1>t. Types
    BY DEF IInv
<1>1. ASSUME NEW r \in Callers, Invoke(r) PROVE Types'
    BY <1>t, <1>1, AuthorizeEffect DEF Invoke, requestVars, Types, SendTypes
<1>2. ASSUME NEW r \in Callers, Replay(r) PROVE Types'
    <2>1. rejected[Bearer] \in SUBSET Nat
        BY <1>t, AlternativesAssumption DEF Types, ServiceTypes
    <2>2. spent' \in [Callers -> SUBSET Nat]
        BY <1>t, <1>2, <2>1 DEF Replay, Types, SendTypes
    <2> QED
        BY <1>t, <1>2, <2>2, AuthorizeEffect DEF Replay, requestVars, Types, SendTypes
<1>3. ASSUME NEW r \in Callers, LeaseArrives(r) PROVE Types'
    BY <1>t, <1>3, LeaseArrivesTypes
<1>4. ASSUME NEW r \in Callers, LeaseFails(r) \/ SendFails(r) \/ InvalidateFails(r) \/ Responds(r) \/ CloseInterrupted(r)
      PROVE  Types'
    <2>1. PICK how \in Outcomes : End(r, how)
        BY <1>4 DEF LeaseFails, SendFails, InvalidateFails, Responds, CloseInterrupted, Raise, Outcomes
    <2>2. ServiceTypes' /\ UNCHANGED <<requestVars, replayVars, receipts, attached, sent, shut>>
        BY <1>t, <1>4, IdleTypes DEF LeaseFails, SendFails, InvalidateFails, Responds, CloseInterrupted, Types
    <2>3. unclosed' \in [Callers -> Int]
        BY <1>t, <1>4 DEF LeaseFails, SendFails, InvalidateFails, Responds, CloseInterrupted, Types, SendTypes
    <2>4. step' \in [Callers -> Steps] /\ outcome' \in [Callers -> Outcomes] /\ leases' \in [Callers -> Seq(Credential)]
        BY <1>t, <2>1 DEF End, Types, SendTypes, Steps
    <2> QED
        BY <1>t, <2>2, <2>3, <2>4 DEF requestVars, replayVars, Types, SendTypes
<1>5. ASSUME NEW r \in Callers, Reuse(r) PROVE Types'
    <2>1. ServiceTypes'
        BY <1>t, <1>5, IdleTypes DEF Reuse, Types
    <2>2. sent' \in [Callers -> Seq([Keys -> Credential])]
        BY <1>t, <1>5 DEF Reuse, Types, SendTypes
    <2>3. used' \in [Callers -> BOOLEAN] /\ replays' \in [Callers -> Nat]
        <3>1. used \in [Callers -> BOOLEAN] /\ replays \in [Callers -> Nat]
            BY <1>t DEF Types, SendTypes
        <3>2. \/ used' = [used EXCEPT ![r] = FALSE] /\ replays' = [replays EXCEPT ![r] = 0]
              \/ used' = used /\ replays' = replays
            BY <1>5 DEF Reuse
        <3>3. used' \in [Callers -> BOOLEAN]
            BY <3>1, <3>2
        <3>4. replays' \in [Callers -> Nat]
            BY <3>1, <3>2
        <3> QED
            BY <3>3, <3>4
    <2>5. unclosed' \in [Callers -> Int] /\ outcome' \in [Callers -> Outcomes]
        BY <1>t, <1>5 DEF Reuse, Types, SendTypes, Outcomes
    <2>4. spent' \in [Callers -> SUBSET Nat]
        BY <1>t, <1>5 DEF Reuse, Types, SendTypes
    <2> QED
        BY <1>t, <1>5, <2>1, <2>2, <2>3, <2>4, <2>5 DEF Reuse, requestVars, Types, SendTypes
<1>7. ASSUME NEW r \in Callers, Challenged(r) PROVE Types'
    <2>1. ServiceTypes'
        BY <1>t, <1>7, IdleTypes DEF Challenged, Types
    <2>2. step' \in [Callers -> Steps] /\ used' \in [Callers -> BOOLEAN] /\ unclosed' \in [Callers -> Int]
        BY <1>t, <1>7 DEF Challenged, Types, SendTypes, Steps
    <2> QED
        BY <1>t, <1>7, <2>1, <2>2 DEF Challenged, requestVars, Types, SendTypes
<1>8. ASSUME NEW r \in Callers, ResponseClosed(r) PROVE Types'
    <2>1. BearerReceipt(r) \in Int
        BY <1>t, <1>8, ReceiptOfBearer, Credentials DEF IInv, ResponseClosed
    <2>2. ServiceTypes'
        BY <1>t, <1>8, <2>1, RejectTypes, AlternativesAssumption DEF ResponseClosed, Types
    <2> QED
        BY <1>t, <1>8, <2>2 DEF ResponseClosed, CloseResponse, requestVars, replayVars, Types, SendTypes, Steps
<1>9. CASE (ServiceStep \/ \E r \in Callers : CancelCaller(r)) /\ UNCHANGED sendVars
    <2>1. ServiceTypes'
        BY <1>t, <1>9, ServiceStepTypes DEF ServiceAction, Types
    <2> QED
        BY <1>t, <1>9, <2>1 DEF sendVars, requestVars, replayVars, Types, SendTypes
<1>10. CASE CloseTransport
    BY <1>t, <1>10, IdleTypes DEF CloseTransport, requestVars, replayVars, Types, SendTypes
<1>11. CASE UNCHANGED vars
    BY <1>t, <1>11, IdleTypes DEF vars, sendVars, requestVars, replayVars, Types, SendTypes
<1> QED
    BY <1>t, <1>1, <1>2, <1>3, <1>4, <1>5, <1>7, <1>8, <1>9, <1>10, <1>11 DEF Next, RequestStep
-----------------------------------------------------------------------------
(* The invariant of one coroutine. *)

\* What sending knows of a coroutine, and what the service knows of its call.
Still(c) ==
    /\ bindings'[c] = bindings[c] /\ replayable'[c] = replayable[c]
    /\ step'[c] = step[c] /\ leases'[c] = leases[c] /\ receipts'[c] = receipts[c]
    /\ attached'[c] = attached[c] /\ used'[c] = used[c] /\ sent'[c] = sent[c]
    /\ unclosed'[c] = unclosed[c] /\ outcome'[c] = outcome[c]
    /\ replays'[c] = replays[c] /\ spent'[c] = spent[c]

Unasked(c) ==
    /\ phase'[c] = phase[c] /\ key'[c] = key[c] /\ subject'[c] = subject[c]
    /\ barred'[c] = barred[c] /\ result'[c] = result[c]

Growing == \A k \in Keys : rejected[k] \subseteq rejected'[k]

LEMMA QuietStep ==
    ASSUME Types, NEW c \in Callers, CallerInv(c), Still(c), Unasked(c), Growing
    PROVE  CallerInv(c)'
<1>1. Counting(c)' /\ Budgeted(c)'
    BY DEF Still, CallerInv, Counting, Budgeted, Recovering, Selected
<1>2. Collecting(c)'
    BY DEF Still, Unasked, CallerInv, Collecting, Distinct
<1>3. Attached(c)'
    BY DEF Still, CallerInv, Attached, Distinct, Selected
<1>4. Newer(c)'
    <2>1. rejected[Bearer] \subseteq rejected'[Bearer]
        BY AlternativesAssumption DEF Growing
    <2> QED
        BY <2>1 DEF Still, Unasked, CallerInv, Newer, UpToChallenged
<1> QED
    BY <1>1, <1>2, <1>3, <1>4 DEF CallerInv

LEMMA ServiceStepInv ==
    ASSUME Types, NEW c \in Callers, CallerInv(c), ServiceAction, UNCHANGED sendVars
    PROVE  CallerInv(c)'
<1>s. Still(c)
    BY DEF Still, sendVars, requestVars, replayVars
<1>1. Counting(c)' /\ Budgeted(c)' /\ Attached(c)'
    BY <1>s DEF Still, CallerInv, Counting, Budgeted, Recovering, Attached, Distinct, Selected
<1>3. CASE Unasked(c) /\ Growing
    BY <1>s, <1>3, QuietStep
<1>4. CASE Grant(c)
    <2>1. PICK a \in Leasable(c) : Settled(c, Lease(a))
        BY <1>4 DEF Grant
    <2>2. /\ phase[c] = "asking" /\ phase'[c] = "idle" /\ key'[c] = key[c] /\ rejected' = rejected
          /\ result'[c] = Lease(a)
        BY <1>4, <2>1 DEF Grant, Settled, Types, ServiceTypes
    <2>3. a > 0 /\ a \notin barred[c]
        BY <2>1 DEF Leasable, Types, ServiceTypes
    <2>4. Collecting(c)'
        BY <1>s, <2>2, <2>3 DEF Still, CallerInv, Collecting, Distinct, Lease
    <2>5. Newer(c)'
        BY <1>s, <2>2, <2>3 DEF Still, CallerInv, Collecting, Newer, UpToChallenged, Lease
    <2> QED
        BY <1>1, <2>4, <2>5 DEF CallerInv
<1>5. CASE Rejected(c)
    <2>1. /\ phase[c] = "rejecting" /\ phase'[c] = "idle" /\ key'[c] = key[c]
          /\ result'[c] = result[c]
          /\ rejected' = [rejected EXCEPT ![key[c]] = @ \cup OutOfUse(key[c], subject[c])]
        BY <1>5 DEF Rejected, Settled, Types, ServiceTypes
    <2>2. Collecting(c)'
        BY <1>s, <2>1 DEF Still, CallerInv, Collecting, Distinct
    <2>3. 1..subject[c] \subseteq rejected'[key[c]]
        <3>1. rejected'[key[c]] = rejected[key[c]] \cup OutOfUse(key[c], subject[c])
            BY <2>1 DEF Types, ServiceTypes
        <3> QED
            BY <3>1 DEF OutOfUse
    <2>4. Newer(c)'
        BY <1>s, <2>1, <2>3 DEF Still, CallerInv, Collecting, Newer, UpToChallenged
    <2> QED
        BY <1>1, <2>2, <2>4 DEF CallerInv
<1>6. CASE Fail(c) \/ EndCancelled(c)
    <2>1. /\ phase'[c] = "idle" /\ key'[c] = key[c] /\ rejected' = rejected
          /\ result'[c].kind # "leased"
        BY <1>6 DEF Fail, EndCancelled, Settled, Types, ServiceTypes, Failure, Cancelled
    <2>2. Collecting(c)'
        BY <1>s, <2>1 DEF Still, CallerInv, Collecting, Distinct
    <2>3. Newer(c)'
        BY <1>s, <2>1 DEF Still, CallerInv, Newer, UpToChallenged
    <2> QED
        BY <1>1, <2>2, <2>3 DEF CallerInv
<1>7. (Unasked(c) /\ Growing) \/ Grant(c) \/ Rejected(c) \/ Fail(c) \/ EndCancelled(c)
    <2>1. ASSUME NEW k \in Keys, Issue(k) PROVE Unasked(c) /\ Growing
        BY <2>1 DEF Issue, Unasked, Growing, Types, ServiceTypes
    <2>2. ASSUME NEW d \in Callers, Swallow(d) \/ CancelCaller(d) PROVE Unasked(c) /\ Growing
        BY <2>2 DEF Swallow, CancelCaller, Unasked, Growing, Types, ServiceTypes
    <2>3. ASSUME NEW d \in Callers, d # c, Grant(d) \/ Fail(d) \/ EndCancelled(d) PROVE Unasked(c) /\ Growing
        BY <2>3 DEF Grant, Fail, EndCancelled, Settled, Unasked, Growing, Types, ServiceTypes
    <2>4. ASSUME NEW d \in Callers, d # c, Rejected(d) PROVE Unasked(c) /\ Growing
        BY <2>4 DEF Rejected, Settled, Unasked, Growing, Types, ServiceTypes
    <2> QED
        BY <2>1, <2>2, <2>3, <2>4 DEF ServiceAction, ServiceStep
<1> QED
    BY <1>3, <1>4, <1>5, <1>6, <1>7

\* A step of one coroutine leaves the others alone.
LEMMA OtherStep ==
    ASSUME Types, NEW r \in Callers, NEW c \in Callers, c # r, RequestStep(r)
    PROVE  Still(c) /\ Unasked(c) /\ Growing
<1>b. bindings[r] \in Seq(Keys) /\ Append(leases[r], result[r].access) \in Seq(Credential)
    <2>1. result[r].access \in Credential /\ leases[r] \in Seq(Credential)
        BY DEF Types, SendTypes, ServiceTypes, Results
    <2> QED
        BY <2>1, BindingTypes
<1> USE DEF Types, ServiceTypes, SendTypes
<1>q. UNCHANGED serviceVars => Unasked(c) /\ Growing
    BY DEF serviceVars, Unasked, Growing
<1>k. \A k \in Keys : Ask(r, k) => Unasked(c) /\ Growing
    BY DEF Ask, Unasked, Growing
<1>s. ASSUME NEW a, Send(r, a)
      PROVE  /\ step'[c] = step[c] /\ leases'[c] = leases[c] /\ sent'[c] = sent[c]
             /\ outcome'[c] = outcome[c] /\ replays'[c] = replays[c]
    BY <1>s DEF Send, Raise, End
<1>a. Authorize(r) => /\ Unasked(c) /\ Growing
                      /\ step'[c] = step[c] /\ leases'[c] = leases[c] /\ sent'[c] = sent[c]
                      /\ outcome'[c] = outcome[c] /\ replays'[c] = replays[c]
    <2>1. bindings[r] # <<>> => bindings[r][1] \in Keys
        <3>1. bindings[r] # <<>> => 1 \in DOMAIN bindings[r]
            BY <1>b
        <3> QED
            BY <1>b, <3>1
    <2>2. CASE bindings[r] = <<>> /\ Send(r, attached[r]) /\ UNCHANGED serviceVars
        BY <1>q, <1>s, <2>2
    <2>3. CASE Raise(r) /\ UNCHANGED <<serviceVars, sent, replays>>
        BY <1>q, <2>3 DEF Raise, End
    <2>4. CASE /\ bindings[r] # <<>> /\ Ask(r, bindings[r][1])
               /\ step' = [step EXCEPT ![r] = "acquiring"]
               /\ leases' = [leases EXCEPT ![r] = <<>>]
               /\ UNCHANGED <<sent, replays, outcome>>
        BY <1>k, <2>1, <2>4
    <2> QED
        BY <2>2, <2>3, <2>4 DEF Authorize
<1>1. CASE Invoke(r)
    BY <1>1, <1>a DEF Invoke, requestVars, Still
<1>2. CASE Replay(r)
    BY <1>2, <1>a DEF Replay, requestVars, Still
<1>3. CASE Reuse(r)
    BY <1>3, <1>q DEF Reuse, requestVars, Still
<1>4. CASE LeaseFails(r) \/ SendFails(r) \/ InvalidateFails(r) \/ Responds(r) \/ CloseInterrupted(r)
    <2>1. PICK how \in Outcomes : End(r, how)
        BY <1>4 DEF LeaseFails, SendFails, InvalidateFails, Responds, CloseInterrupted, Raise, Outcomes
    <2>2. UNCHANGED <<serviceVars, requestVars, replayVars, receipts, attached, sent, shut>>
        BY <1>4 DEF LeaseFails, SendFails, InvalidateFails, Responds, CloseInterrupted
    <2>3. unclosed'[c] = unclosed[c]
        BY <1>4 DEF LeaseFails, SendFails, InvalidateFails, Responds, CloseInterrupted
    <2>4. step'[c] = step[c] /\ outcome'[c] = outcome[c] /\ leases'[c] = leases[c]
        BY <2>1 DEF End
    <2> QED
        BY <1>q, <2>2, <2>3, <2>4 DEF requestVars, replayVars, Still
<1>5. CASE Challenged(r)
    BY <1>5, <1>q DEF Challenged, requestVars, Still
<1>7. CASE ResponseClosed(r)
    <2>1. Unasked(c) /\ Growing
        BY <1>7 DEF ResponseClosed, RejectToken, Unasked, Growing
    <2> QED
        BY <1>7, <2>1 DEF ResponseClosed, CloseResponse, requestVars, replayVars, Still
<1>8. CASE LeaseArrives(r)
    <2> DEFINE tokens == Append(leases[r], result[r].access)
    <2>1. Attach(r, tokens) /\ UNCHANGED <<requestVars, used, spent, unclosed, shut>>
        BY <1>8 DEF LeaseArrives
    <2>2. attached'[c] = attached[c]
        BY <2>1 DEF Attach
    <2>3. CASE /\ Len(tokens) < Len(bindings[r])
               /\ Ask(r, bindings[r][Len(tokens) + 1])
               /\ leases' = [leases EXCEPT ![r] = tokens]
               /\ UNCHANGED <<step, receipts, sent, replays, outcome>>
        <3>1. bindings[r][Len(tokens) + 1] \in Keys
            BY <1>b, <2>3
        <3> QED
            BY <1>k, <2>1, <2>2, <2>3, <3>1 DEF requestVars, Still
    <2>4. CASE /\ receipts' = [receipts EXCEPT ![r] = tokens]
               /\ Send(r, attached'[r])
               /\ UNCHANGED serviceVars
        BY <1>q, <1>s, <2>1, <2>2, <2>4 DEF requestVars, Still
    <2> QED
        BY <1>8, <2>3, <2>4 DEF LeaseArrives
<1> QED
    BY <1>1, <1>2, <1>3, <1>4, <1>5, <1>7, <1>8 DEF RequestStep

\* A coroutine that authorizes is idle, or has had its challenged token rejected.
LEMMA AuthorizeInv ==
    ASSUME Types, NEW r \in Callers, CallerInv(r), Authorize(r), UNCHANGED <<requestVars, used, receipts, attached, unclosed>>,
           outcome[r] = "none", phase[r] = "idle",
           \/ step[r] = "idle"
           \/ step[r] = "rejecting" /\ result[r].kind = "leased" /\ spent'[r] = rejected[Bearer]
    PROVE  CallerInv(r)'
<1>b. bindings[r] \in Seq(Keys) /\ sent[r] \in Seq([Keys -> Credential])
    BY BindingTypes DEF Types, SendTypes
<1>l. leases[r] = <<>> /\ unclosed[r] = 0
    BY DEF CallerInv, Budgeted, Collecting
<1>s. IF step[r] = "idle" THEN sent[r] = <<>>
      ELSE /\ Len(sent[r]) = 1 /\ used[r] /\ replays[r] = 0 /\ replayable[r] /\ Bearer \in Selected(r)
           /\ UpToChallenged(r) \subseteq spent'[r] /\ spent'[r] = rejected[Bearer]
    BY DEF CallerInv, Counting, Budgeted, Recovering, Newer
<1>n. /\ Len(sent[r]) \in {0, 1} /\ Len(sent[r]) # 2
      /\ Len(sent[r]) = 1 <=> step[r] # "idle"
    BY <1>s
<1>o. UNCHANGED <<bindings[r], replayable[r], used[r], receipts[r], attached[r], unclosed[r]>>
    BY DEF requestVars
<1>1. CASE Raise(r) /\ UNCHANGED <<serviceVars, sent, replays>>
    <2>1. step'[r] = "idle" /\ outcome'[r] = "raised" /\ leases'[r] = <<>> /\ replays'[r] = replays[r]
        BY <1>1 DEF Raise, End, Types, SendTypes
    <2>2. sent'[r] = sent[r] /\ phase'[r] = "idle"
        BY <1>1 DEF serviceVars
    <2>3. Counting(r)'
        BY <1>n, <2>1, <2>2 DEF Counting, Recovering
    <2>b. Budgeted(r)'
        BY <1>o, <1>l, <2>1, <2>2 DEF CallerInv, Budgeted, Recovering
    <2>4. Collecting(r)'
        BY <2>1, <2>2 DEF Collecting
    <2>5. Attached(r)'
        BY <1>o, <2>1, <2>2 DEF CallerInv, Attached, Selected
    <2>6. Newer(r)'
        BY <1>n, <2>1, <2>2 DEF Newer
    <2> QED
        BY <2>3, <2>b, <2>4, <2>5, <2>6 DEF CallerInv
<1>2. CASE /\ bindings[r] = <<>> /\ Send(r, attached[r]) /\ UNCHANGED serviceVars /\ ~Raise(r)
    <2>2. Selected(r) = {} /\ Selected(r)' = {}
        BY <1>2, <1>o DEF Selected
    <2>3. step[r] = "idle" /\ sent[r] = <<>>
        BY <1>s, <2>2
    <2>1. /\ step'[r] = "sending" /\ leases'[r] = <<>> /\ outcome'[r] = "none" /\ phase'[r] = "idle"
          /\ replays'[r] = replays[r]
        BY <1>2, <2>3 DEF Send, Types, SendTypes, serviceVars
    <2>4. sent'[r] = <<attached[r]>>
        BY <1>2, <2>3 DEF Send, Types, SendTypes
    <2>5. Counting(r)'
        BY <2>1, <2>4 DEF Counting, Recovering
    <2>b. Budgeted(r)'
        BY <1>o, <1>l, <2>1 DEF CallerInv, Budgeted, Recovering
    <2>6. Collecting(r)'
        BY <2>1 DEF Collecting
    <2>7. Attached(r)'
        BY <1>o, <1>2, <2>1, <2>2 DEF CallerInv, Attached
    <2>8. Newer(r)'
        BY <2>1, <2>4 DEF Newer
    <2> QED
        BY <2>5, <2>b, <2>6, <2>7, <2>8 DEF CallerInv
<1>3. CASE /\ bindings[r] # <<>> /\ ~Conflict(r)
           /\ Ask(r, bindings[r][1])
           /\ step' = [step EXCEPT ![r] = "acquiring"]
           /\ leases' = [leases EXCEPT ![r] = <<>>]
           /\ UNCHANGED <<sent, replays, outcome>>
    <2>1. /\ step'[r] = "acquiring" /\ leases'[r] = <<>> /\ outcome'[r] = "none" /\ sent'[r] = sent[r]
          /\ replays'[r] = replays[r]
        BY <1>3 DEF Types, SendTypes
    <2>2. /\ phase'[r] = "asking" /\ key'[r] = bindings[r][1] /\ result'[r] = Nothing /\ rejected' = rejected
          /\ barred'[r] = rejected[bindings[r][1]]
        BY <1>3 DEF Ask, Types, ServiceTypes
    <2>3. Distinct(r)'
        BY <1>3, <1>o DEF Conflict, Distinct
    <2>4. Len(bindings[r]) > 0
        BY <1>3, <1>b
    <2>5. Counting(r)'
        BY <1>o, <1>n, <1>s, <2>1 DEF Counting, Recovering, Selected
    <2>b. Budgeted(r)'
        BY <1>o, <1>l, <1>n, <1>s, <2>1 DEF CallerInv, Budgeted, Recovering
    <2>6. Collecting(r)'
        BY <1>o, <2>1, <2>2, <2>3, <2>4 DEF Collecting, Nothing
    <2>7. Attached(r)'
        BY <1>o, <2>1, <2>2 DEF CallerInv, Attached, Selected
    <2>8. Newer(r)'
        <3>1. UpToChallenged(r)' = UpToChallenged(r)
            BY <2>1 DEF UpToChallenged
        <3> QED
            BY <1>n, <1>s, <2>1, <2>2, <3>1 DEF Newer, Nothing
    <2> QED
        BY <2>5, <2>b, <2>6, <2>7, <2>8 DEF CallerInv
<1>4. CASE bindings[r] = <<>> /\ Send(r, attached[r]) /\ UNCHANGED serviceVars /\ Raise(r)
    <2>1. ~shut => FALSE
        <3>1. ~shut => step'[r] \in {"sending", "replaying"}
            BY <1>4 DEF Send, Raise, End, Types, SendTypes
        <3>2. step'[r] = "idle"
            BY <1>4 DEF Raise, End, Types, SendTypes
        <3> QED
            BY <3>1, <3>2
    <2> QED
        BY <1>1, <1>4, <2>1 DEF Send
<1> QED
    BY <1>1, <1>2, <1>3, <1>4 DEF Authorize

\* One more lease of a coroutine that collects them.
LEMMA Collected ==
    ASSUME Types, NEW r \in Callers, CallerInv(r), step[r] = "acquiring", phase[r] = "idle", result[r].kind = "leased",
           NEW tokens, tokens = Append(leases[r], result[r].access)
    PROVE  /\ tokens \in Seq(Credential) /\ Len(tokens) = Len(leases[r]) + 1 /\ Len(tokens) <= Len(bindings[r])
           /\ \A i \in DOMAIN tokens : tokens[i] > 0
           /\ Len(sent[r]) = 1 => \A i \in DOMAIN tokens : bindings[r][i] = Bearer => tokens[i] \notin spent[r]
<1>1. leases[r] \in Seq(Credential) /\ result[r].access \in Credential /\ bindings[r] \in Seq(Keys)
    BY BindingTypes DEF Types, SendTypes, ServiceTypes, Results
<1>2. Len(leases[r]) \in Nat /\ Len(bindings[r]) \in Nat /\ Len(leases[r]) < Len(bindings[r])
    BY <1>1 DEF CallerInv, Collecting
<1>3. /\ tokens \in Seq(Credential) /\ Len(tokens) = Len(leases[r]) + 1
      /\ tokens[Len(leases[r]) + 1] = result[r].access
      /\ \A i \in DOMAIN leases[r] : tokens[i] = leases[r][i]
      /\ \A i \in DOMAIN tokens : i \in DOMAIN leases[r] \/ i = Len(leases[r]) + 1
    BY <1>1
<1>4. \A i \in DOMAIN tokens : tokens[i] > 0
    BY <1>3 DEF CallerInv, Collecting
<1>5. Len(sent[r]) = 1 => \A i \in DOMAIN tokens : bindings[r][i] = Bearer => tokens[i] \notin spent[r]
    BY <1>3 DEF CallerInv, Collecting, Newer
<1> QED
    BY <1>2, <1>3, <1>4, <1>5

LEMMA LeaseArrivesInv ==
    ASSUME Types, NEW r \in Callers, CallerInv(r), LeaseArrives(r)
    PROVE  CallerInv(r)'
<1> DEFINE tokens == Append(leases[r], result[r].access)
<1>p. step[r] = "acquiring" /\ phase[r] = "idle" /\ result[r].kind = "leased"
    BY DEF LeaseArrives
<1>b. bindings[r] \in Seq(Keys) /\ attached[r] \in [Keys -> Credential] /\ sent[r] \in Seq([Keys -> Credential])
    BY BindingTypes DEF Types, SendTypes
<1>c. /\ tokens \in Seq(Credential) /\ Len(tokens) = Len(leases[r]) + 1 /\ Len(tokens) <= Len(bindings[r])
      /\ \A i \in DOMAIN tokens : tokens[i] > 0
      /\ Len(sent[r]) = 1 => \A i \in DOMAIN tokens : bindings[r][i] = Bearer => tokens[i] \notin spent[r]
    BY <1>p, Collected
<1>a. Attach(r, tokens) /\ UNCHANGED <<requestVars, used, spent, unclosed, shut>>
    BY DEF LeaseArrives
<1>o. UNCHANGED <<bindings[r], replayable[r], used[r], spent[r], unclosed[r]>>
    BY <1>a DEF requestVars
<1>d. Distinct(r) /\ outcome[r] = "none" /\ Len(sent[r]) \in {0, 1} /\ Len(sent[r]) # 2
    <2>1. Distinct(r) /\ outcome[r] = "none" /\ Len(sent[r]) \in {0, 1}
        BY <1>p DEF CallerInv, Counting, Collecting
    <2> QED
        BY <2>1
<1>1. CASE /\ Len(tokens) < Len(bindings[r])
           /\ Ask(r, bindings[r][Len(tokens) + 1])
           /\ leases' = [leases EXCEPT ![r] = tokens]
           /\ UNCHANGED <<step, receipts, sent, replays, outcome>>
    <2> HIDE DEF tokens
    <2>1. attached'[r] = attached[r]
        <3>1. attached'[r] = [k \in Keys |-> IF Len(tokens) = Len(bindings[r]) /\ k \in Selected(r)
                        THEN tokens[CHOOSE i \in DOMAIN tokens : bindings[r][i] = k] ELSE attached[r][k]]
            BY <1>a DEF Attach, Types, SendTypes
        <3>2. attached'[r] = [k \in Keys |-> attached[r][k]]
            BY <1>1, <1>b, <1>c, <3>1
        <3> QED
            BY <1>b, <3>2
    <2>2. leases'[r] = tokens /\ step'[r] = "acquiring"
        BY <1>1, <1>p DEF Types, SendTypes
    <2>3. /\ phase'[r] = "asking" /\ key'[r] = bindings[r][Len(tokens) + 1] /\ result'[r] = Nothing /\ rejected' = rejected
          /\ barred'[r] = rejected[bindings[r][Len(tokens) + 1]]
        BY <1>1 DEF Ask, Types, ServiceTypes
    <2>4. Counting(r)' /\ Budgeted(r)'
        BY <1>1, <1>o, <1>p, <2>2 DEF CallerInv, Counting, Budgeted, Recovering, Selected
    <2>5. Collecting(r)'
        BY <1>1, <1>c, <1>d, <1>o, <2>2, <2>3 DEF Collecting, Distinct, Nothing
    <2>6. Attached(r)'
        BY <1>1, <1>o, <2>1, <2>2 DEF CallerInv, Attached, Selected
    <2>7. Newer(r)'
        BY <1>1, <1>c, <1>o, <1>p, <2>2, <2>3 DEF CallerInv, Newer, UpToChallenged, Nothing
    <2> QED
        BY <2>4, <2>5, <2>6, <2>7 DEF CallerInv
<1>2. CASE /\ Len(tokens) = Len(bindings[r])
           /\ receipts' = [receipts EXCEPT ![r] = tokens]
           /\ Send(r, attached'[r])
           /\ UNCHANGED serviceVars
    <2> HIDE DEF tokens
    <2>1. receipts'[r] = tokens /\ tokens # <<>> /\ DOMAIN tokens = DOMAIN bindings[r]
        <3>1. Len(leases[r]) \in Nat
            BY DEF Types, SendTypes
        <3>2. DOMAIN tokens = DOMAIN bindings[r]
            <4>1. DOMAIN tokens = 1..Len(tokens) /\ DOMAIN bindings[r] = 1..Len(bindings[r])
                BY <1>b, <1>c
            <4> QED
                BY <1>2, <4>1
        <3>3. tokens # <<>>
            BY <1>c, <3>1
        <3> QED
            BY <1>2, <3>2, <3>3 DEF Types, SendTypes
    <2>2. attached'[r] = [k \in Keys |-> IF k \in Selected(r)
                        THEN tokens[CHOOSE i \in DOMAIN tokens : bindings[r][i] = k] ELSE attached[r][k]]
        BY <1>2, <1>a DEF Attach, Types, SendTypes
    <2>3. ASSUME NEW i \in DOMAIN bindings[r]
          PROVE  attached'[r][bindings[r][i]] = tokens[i]
        <3>1. bindings[r][i] \in Keys /\ bindings[r][i] \in Selected(r)
            BY <1>b DEF Selected
        <3>2. (CHOOSE j \in DOMAIN tokens : bindings[r][j] = bindings[r][i]) = i
            <4>1. i \in DOMAIN tokens
                BY <2>1
            <4>2. \A j \in DOMAIN tokens : bindings[r][j] = bindings[r][i] => j = i
                BY <1>d, <2>1 DEF Distinct
            <4> QED
                BY <4>1, <4>2
        <3> QED
            BY <2>2, <3>1, <3>2
    <2>4. \A k \in Selected(r) : attached'[r][k] > 0
        BY <1>c, <2>1, <2>3 DEF Selected
    <2>5. (Len(sent[r]) = 1 /\ Bearer \in Selected(r)) => attached'[r][Bearer] \notin spent[r]
        BY <1>c, <2>1, <2>3 DEF Selected
    <2>6. phase'[r] = "idle" /\ bindings[r] # <<>>
        BY <1>2, <1>b, <1>p, <2>1 DEF serviceVars
    <2>7. CASE Raise(r) /\ UNCHANGED <<sent, replays>>
        <3>1. /\ step'[r] = "idle" /\ outcome'[r] = "raised" /\ leases'[r] = <<>> /\ sent'[r] = sent[r]
              /\ replays'[r] = replays[r]
            BY <2>7 DEF Raise, End, Types, SendTypes
        <3>2. Counting(r)'
            BY <1>d, <3>1 DEF Counting, Recovering
        <3>b. Budgeted(r)'
            BY <1>d, <1>o, <1>p, <3>1 DEF CallerInv, Budgeted, Recovering
        <3>3. Collecting(r)'
            BY <2>6, <3>1 DEF Collecting
        <3>4. Attached(r)'
            BY <1>2, <1>o, <2>1, <2>3, <3>1 DEF CallerInv, Attached, Selected
        <3>5. Newer(r)'
            BY <1>d, <3>1 DEF Newer
        <3> QED
            BY <3>2, <3>b, <3>3, <3>4, <3>5 DEF CallerInv
    <2>8. CASE /\ ~shut
               /\ sent' = [sent EXCEPT ![r] = Append(@, attached'[r])]
               /\ leases' = [leases EXCEPT ![r] = <<>>]
               /\ UNCHANGED outcome
        <3>1. outcome'[r] = "none" /\ leases'[r] = <<>> /\ sent'[r] = Append(sent[r], attached'[r])
            BY <1>d, <2>8 DEF Types, SendTypes
        <3>2. /\ Len(sent'[r]) = Len(sent[r]) + 1
              /\ sent'[r][Len(sent'[r])] = attached'[r]
              /\ \A n \in DOMAIN sent[r] : sent'[r][n] = sent[r][n]
              /\ \A n \in DOMAIN sent'[r] : n \in DOMAIN sent[r] \/ n = Len(sent'[r])
            BY <1>b, <3>1
        <3>a. IF Len(sent[r]) = 0
              THEN step'[r] = "sending" /\ replays'[r] = replays[r] /\ Len(sent'[r]) = 1
              ELSE step'[r] = "replaying" /\ replays'[r] = replays[r] + 1 /\ Len(sent'[r]) = 2 /\ Len(sent[r]) = 1
            <4>1. sent[r] = <<>> <=> Len(sent[r]) = 0
                BY <1>b
            <4>2. IF sent[r] = <<>>
                  THEN step' = [step EXCEPT ![r] = "sending"] /\ replays' = replays
                  ELSE step' = [step EXCEPT ![r] = "replaying"] /\ replays' = [replays EXCEPT ![r] = replays[r] + 1]
                BY <1>2, <2>8 DEF Send
            <4>3. IF sent[r] = <<>>
                  THEN step'[r] = "sending" /\ replays'[r] = replays[r]
                  ELSE step'[r] = "replaying" /\ replays'[r] = replays[r] + 1
                BY <4>2 DEF Types, SendTypes
            <4>4. Len(sent[r]) = 0 => Len(sent'[r]) = 1
                BY <3>2
            <4>5. Len(sent[r]) = 1 => Len(sent'[r]) = 2
                BY <3>2
            <4> QED
                BY <1>d, <4>1, <4>3, <4>4, <4>5
        <3>c. Len(sent[r]) = 1 => /\ replayable[r] /\ Bearer \in Selected(r) /\ used[r] /\ replays[r] = 0
                                  /\ UpToChallenged(r) \subseteq spent[r]
            BY <1>p DEF CallerInv, Counting, Budgeted, Recovering, Newer
        <3>3. Counting(r)'
            BY <1>d, <1>o, <3>1, <3>a, <3>c DEF Counting, Recovering, Selected
        <3>b. Budgeted(r)'
            BY <1>d, <1>o, <1>p, <3>1, <3>a, <3>c DEF CallerInv, Budgeted, Recovering
        <3>4. Collecting(r)'
            BY <2>6, <3>1, <3>a DEF Collecting
        <3>5. Attached(r)'
            <4>1. \A n \in DOMAIN sent'[r], k \in Selected(r) : sent'[r][n][k] > 0
                BY <2>4, <3>2 DEF CallerInv, Attached
            <4>2. Selected(r)' = Selected(r) /\ Distinct(r)'
                BY <1>d, <1>o DEF Selected, Distinct
            <4> QED
                BY <1>2, <1>o, <2>1, <2>3, <3>1, <3>2, <4>1, <4>2 DEF Attached
        <3>6. Newer(r)'
            <4>1. Len(sent'[r]) = 2 => /\ Len(sent[r]) = 1 /\ sent'[r][2][Bearer] = attached'[r][Bearer]
                                       /\ sent'[r][1] = sent[r][1]
                BY <1>b, <3>2, <3>a
            <4>2. Len(sent'[r]) = 2 =>
                      UpToChallenged(r)' \subseteq spent'[r] /\ sent'[r][2][Bearer] \notin spent'[r]
                BY <1>o, <2>5, <3>c, <4>1 DEF UpToChallenged
            <4> QED
                BY <3>a, <4>2 DEF Newer
        <3> QED
            BY <3>3, <3>b, <3>4, <3>5, <3>6 DEF CallerInv
    <2> QED
        BY <1>2, <2>7, <2>8 DEF Send
<1> QED
    BY <1>1, <1>2 DEF LeaseArrives

LEMMA OwnStep ==
    ASSUME Types, NEW r \in Callers, CallerInv(r), RequestStep(r)
    PROVE  CallerInv(r)'
<1>1. CASE Invoke(r)
    BY <1>1, AuthorizeInv DEF Invoke, CallerInv, Collecting, Types, SendTypes
<1>2. CASE Replay(r)
    <2>1. spent'[r] = rejected[Bearer]
        BY <1>2 DEF Replay, Types, SendTypes
    <2> QED
        BY <1>2, <2>1, AuthorizeInv DEF Replay, CallerInv, Counting
<1>3. CASE Reuse(r)
    <2>1. /\ step'[r] = "idle" /\ outcome'[r] = "none" /\ sent'[r] = <<>> /\ leases'[r] = leases[r]
          /\ phase'[r] = phase[r] /\ unclosed'[r] = 0
        BY <1>3 DEF Reuse, serviceVars, Types, SendTypes
    <2>2. UNCHANGED <<bindings[r], replayable[r], receipts[r], attached[r]>> /\ step[r] = "idle"
        BY <1>3 DEF Reuse, requestVars
    <2>3. (used'[r] = FALSE /\ replays'[r] = 0) \/ UNCHANGED <<used[r], replays[r]>>
        BY <1>3 DEF Reuse, Types, SendTypes
    <2>4. Counting(r)' /\ Budgeted(r)'
        BY <2>1, <2>2, <2>3 DEF CallerInv, Counting, Budgeted, Recovering
    <2> QED
        BY <2>1, <2>2, <2>4 DEF CallerInv, Collecting, Attached, Newer, Selected
<1>4. CASE LeaseFails(r) \/ SendFails(r) \/ InvalidateFails(r) \/ Responds(r) \/ CloseInterrupted(r)
    <2>0. PICK how \in Outcomes \ {"none"} : End(r, how) /\ (CloseInterrupted(r) => how = "interrupted")
        BY <1>4 DEF LeaseFails, SendFails, InvalidateFails, Responds, CloseInterrupted, Raise, Outcomes
    <2>1. step'[r] = "idle" /\ outcome'[r] = how /\ leases'[r] = <<>>
        BY <2>0 DEF End, Types, SendTypes
    <2>2. UNCHANGED <<bindings[r], replayable[r], receipts[r], attached[r], used[r], replays[r], spent[r], sent[r], phase[r]>>
        BY <1>4 DEF LeaseFails, SendFails, InvalidateFails, Responds, CloseInterrupted, requestVars, replayVars, serviceVars
    <2>3. phase[r] = "idle" /\ step[r] \in {"acquiring", "sending", "replaying", "rejecting", "closing"}
        BY <1>4 DEF LeaseFails, SendFails, InvalidateFails, Responds, CloseInterrupted, CallerInv, Collecting
    <2>4. unclosed'[r] \in {0, 1} /\ (unclosed'[r] = 1 => how = "interrupted")
        <3>1. CASE CloseInterrupted(r)
            <4>1. unclosed[r] = 1
                BY <3>1 DEF CloseInterrupted, CallerInv, Budgeted
            <4> QED
                BY <2>0, <3>1, <4>1 DEF CloseInterrupted, Types, SendTypes
        <3>2. CASE LeaseFails(r) \/ SendFails(r) \/ InvalidateFails(r) \/ Responds(r)
            <4>1. unclosed' = unclosed /\ step[r] \in {"acquiring", "sending", "replaying", "rejecting"}
                BY <3>2 DEF LeaseFails, SendFails, InvalidateFails, Responds
            <4>2. unclosed[r] = 0
                BY <4>1 DEF CallerInv, Counting, Budgeted
            <4> QED
                BY <4>1, <4>2
        <3> QED
            BY <1>4, <3>1, <3>2
    <2>6. Counting(r)'
        BY <2>1, <2>2, <2>3 DEF CallerInv, Counting, Recovering, Selected
    <2>b. Budgeted(r)'
        BY <2>1, <2>2, <2>4 DEF CallerInv, Budgeted, Recovering
    <2>7. Collecting(r)' /\ Attached(r)' /\ Newer(r)'
        BY <2>1, <2>2, <2>3 DEF CallerInv, Collecting, Attached, Newer, UpToChallenged, Selected
    <2> QED
        BY <2>6, <2>b, <2>7 DEF CallerInv
<1>5. CASE Challenged(r)
    <2>1. /\ UNCHANGED <<bindings[r], replayable[r], leases[r], receipts[r], attached[r], replays[r], sent[r], phase[r], outcome[r]>>
          /\ step[r] = "sending"
        BY <1>5 DEF Challenged, requestVars, serviceVars
    <2>2. step'[r] = "closing" /\ used'[r] = TRUE /\ unclosed'[r] = unclosed[r] + 1
        BY <1>5 DEF Challenged, Types, SendTypes
    <2>3. Recoverable(r) /\ outcome[r] = "none"
        BY <1>5, <2>1 DEF Challenged, CallerInv, Counting
    <2>4. Counting(r)'
        BY <2>1, <2>2, <2>3 DEF CallerInv, Counting, Recovering, Recoverable, Selected
    <2>5. Budgeted(r)'
        <3>1. replays[r] = 0 /\ unclosed[r] = 0
            BY <2>1, <2>3 DEF CallerInv, Budgeted, Recoverable, Types, SendTypes
        <3> QED
            BY <2>1, <2>2, <3>1 DEF Budgeted
    <2>6. Collecting(r)' /\ Attached(r)' /\ Newer(r)'
        BY <2>1, <2>2 DEF CallerInv, Counting, Collecting, Attached, Newer, Selected, Distinct
    <2> QED
        BY <2>4, <2>5, <2>6 DEF CallerInv
<1>6. CASE ResponseClosed(r)
    <2>1. /\ UNCHANGED <<bindings[r], replayable[r], leases[r], receipts[r], attached[r], used[r], replays[r], sent[r], outcome[r]>>
          /\ step[r] = "closing"
        BY <1>6 DEF ResponseClosed, requestVars, replayVars
    <2>2. step'[r] = "rejecting" /\ unclosed'[r] = unclosed[r] - 1
        BY <1>6 DEF ResponseClosed, CloseResponse, Types, SendTypes
    <2>3. phase'[r] = "rejecting" /\ key'[r] = Bearer /\ subject'[r] = BearerReceipt(r)
        BY <1>6 DEF ResponseClosed, RejectToken, Types, ServiceTypes
    <2>4. BearerReceipt(r) = sent[r][1][Bearer]
        BY <2>1, ReceiptOfBearer
    <2>5. Counting(r)'
        BY <2>1, <2>2 DEF CallerInv, Counting, Recovering, Selected
    <2>b. Budgeted(r)'
        <3>1. unclosed'[r] = 0
            BY <2>1, <2>2 DEF CallerInv, Budgeted
        <3> QED
            BY <2>1, <2>2, <3>1 DEF CallerInv, Budgeted, Recovering
    <2>6. Collecting(r)' /\ Attached(r)'
        BY <2>1, <2>2, <2>3 DEF CallerInv, Collecting, Attached, Selected, Distinct
    <2>7. Newer(r)'
        BY <2>1, <2>2, <2>3, <2>4 DEF CallerInv, Counting, Newer
    <2> QED
        BY <2>5, <2>b, <2>6, <2>7 DEF CallerInv
<1> QED
    BY <1>1, <1>2, <1>3, <1>4, <1>5, <1>6, LeaseArrivesInv DEF RequestStep

LEMMA Inductive == IInv /\ [Next]_vars => IInv'
<1> SUFFICES ASSUME IInv, [Next]_vars PROVE IInv'
    OBVIOUS
<1>t. Types /\ Types' /\ ServiceTypes'
    BY TypesStep DEF IInv, Types
<1>1. ASSUME NEW c \in Callers PROVE CallerInv(c)'
    <2>i. CallerInv(c)
        BY DEF IInv
    <2>1. ASSUME NEW r \in Callers, RequestStep(r) PROVE CallerInv(c)'
        <3>1. CASE r = c
            BY <1>t, <2>i, <2>1, <3>1, OwnStep
        <3>2. CASE r # c
            BY <1>t, <2>i, <2>1, <3>2, OtherStep, QuietStep
        <3> QED
            BY <3>1, <3>2
    <2>2. CASE (ServiceStep \/ \E r \in Callers : CancelCaller(r)) /\ UNCHANGED sendVars
        BY <1>t, <2>i, <2>2, ServiceStepInv DEF ServiceAction
    <2>3. CASE CloseTransport \/ UNCHANGED vars
        <3>1. Still(c) /\ Unasked(c) /\ Growing
            BY <1>t, <2>3 DEF CloseTransport, vars, sendVars, requestVars, replayVars, serviceVars, Still, Unasked, Growing, Types, ServiceTypes
        <3> QED
            BY <1>t, <2>i, <3>1, QuietStep
    <2> QED
        BY <2>1, <2>2, <2>3 DEF Next
<1> QED
    BY <1>t, <1>1 DEF IInv

LEMMA Initial == Init => IInv
<1> SUFFICES ASSUME Init PROVE IInv
    OBVIOUS
<1>c. Credential \subseteq Int /\ 0 \in Credential /\ Own \in Credential /\ Own < 0
    BY Credentials
<1>1. ServiceTypes
    BY ResultTypes, AlternativesAssumption DEF Init, ServiceInit, ServiceTypes
<1>2. attached \in [Callers -> [Keys -> Credential]] /\ \A c \in Callers, k \in Keys : attached[c][k] <= 0
    BY <1>c DEF Init
<1>3. leases \in [Callers -> Seq(Credential)] /\ receipts \in [Callers -> Seq(Credential)]
    BY DEF Init
<1>4. sent \in [Callers -> Seq([Keys -> Credential])]
    BY DEF Init
<1>5. SendTypes
    <2>1. bindings \in [Callers -> Alternatives] /\ replayable \in [Callers -> BOOLEAN] /\ shut \in BOOLEAN
        BY DEF Init
    <2>2. /\ step \in [Callers -> Steps]
          /\ outcome \in [Callers -> Outcomes]
        BY DEF Init, Steps, Outcomes
    <2>3. /\ used \in [Callers -> BOOLEAN] /\ unclosed \in [Callers -> Int]
          /\ replays \in [Callers -> Nat] /\ spent \in [Callers -> SUBSET Nat]
        BY DEF Init
    <2> QED
        BY <1>2, <1>3, <1>4, <2>1, <2>2, <2>3 DEF SendTypes
<1>6. ASSUME NEW c \in Callers PROVE CallerInv(c)
    <2>1. /\ step[c] = "idle" /\ outcome[c] = "none" /\ sent[c] = <<>> /\ leases[c] = <<>> /\ receipts[c] = <<>>
          /\ ~used[c] /\ replays[c] = 0 /\ unclosed[c] = 0 /\ phase[c] = "idle"
        BY DEF Init, ServiceInit
    <2> QED
        BY <1>2, <2>1 DEF CallerInv, Counting, Budgeted, Recovering, Collecting, Attached, Newer
<1> QED
    BY <1>1, <1>5, <1>6 DEF IInv, Types

LEMMA Invariant == Spec => []IInv
BY Initial, Inductive, PTL DEF Spec
-----------------------------------------------------------------------------
\* TypeOK on every instance: in particular a request is under way at the service only while its
\* coroutine acquires or rejects (_security.py lines 28-58, _transport.py lines 289-327).
THEOREM TypeCorrect == Spec => []TypeOK
<1>1. IInv => TypeOK
    <2> SUFFICES ASSUME IInv PROVE TypeOK
        OBVIOUS
    <2>1. Types /\ \A c \in Callers : CallerInv(c)
        BY DEF IInv
    <2>2. ASSUME NEW c \in Callers
          PROVE  /\ leases[c] \in Seq(Credential) /\ Len(leases[c]) <= Len(bindings[c])
                 /\ receipts[c] \in Seq(Credential) /\ Len(receipts[c]) \in {0, Len(bindings[c])}
                 /\ sent[c] \in Seq([Keys -> Credential])
                 /\ step[c] \notin {"acquiring", "rejecting"} => phase[c] = "idle"
                 /\ unclosed[c] \in 0..1 /\ replays[c] \in 0..1
        <3>1. bindings[c] \in Seq(Keys) /\ leases[c] \in Seq(Credential) /\ receipts[c] \in Seq(Credential)
              /\ sent[c] \in Seq([Keys -> Credential])
            BY <2>1, BindingTypes DEF Types, SendTypes
        <3>2. Len(leases[c]) <= Len(bindings[c])
            BY <2>1, <3>1 DEF CallerInv, Collecting
        <3>3. unclosed[c] \in 0..1
            BY <2>1 DEF CallerInv, Budgeted
        <3>4. replays[c] \in 0..1
            <4>1. replays[c] \in Nat /\ replays[c] <= IF used[c] THEN 1 ELSE 0
                BY <2>1 DEF CallerInv, Budgeted, Types, SendTypes
            <4> QED
                BY <4>1
        <3> QED
            BY <2>1, <3>1, <3>2, <3>3, <3>4 DEF CallerInv, Collecting, Attached
    <2>3. unclosed \in [Callers -> 0..1] /\ replays \in [Callers -> 0..1]
        BY <2>1, <2>2 DEF Types, SendTypes
    <2> QED
        BY <2>1, <2>2, <2>3 DEF TypeOK, Types, SendTypes, Steps, Outcomes
<1> QED
    BY <1>1, Invariant, PTL

\* ReplayAvoidsRejected on every instance: whatever other requests of the same credentials
\* acquire, reject or cancel meanwhile, and whichever answers carry the same access token
\* (_transport.py lines 317-324).
THEOREM ReplayAvoidsRejectedHolds == Spec => []ReplayAvoidsRejected
<1>1. IInv => ReplayAvoidsRejected
    <2> SUFFICES ASSUME IInv, NEW r \in Callers, Len(sent[r]) = 2
                 PROVE  sent[r][2][Bearer] > sent[r][1][Bearer] /\ sent[r][2][Bearer] \notin spent[r]
        BY DEF ReplayAvoidsRejected
    <2>1. CallerInv(r) /\ sent[r] \in Seq([Keys -> Credential])
        BY DEF IInv, Types, SendTypes
    <2>2. Bearer \in Selected(r) /\ 1 \in DOMAIN sent[r] /\ 2 \in DOMAIN sent[r]
        BY <2>1 DEF CallerInv, Counting
    <2>3. sent[r][1][Bearer] \in Int /\ sent[r][2][Bearer] \in Int
        <3>1. sent[r][1] \in [Keys -> Credential] /\ sent[r][2] \in [Keys -> Credential]
            BY <2>1, <2>2
        <3> QED
            BY <3>1, Credentials, AlternativesAssumption
    <2>4. sent[r][2][Bearer] > 0
        BY <2>1, <2>2 DEF CallerInv, Attached
    <2>5. 1..sent[r][1][Bearer] \subseteq spent[r] /\ sent[r][2][Bearer] \notin spent[r]
        BY <2>1 DEF CallerInv, Newer, UpToChallenged
    <2> QED
        BY <2>3, <2>4, <2>5
<1> QED
    BY <1>1, Invariant, PTL

\* AtMostOneReplay on every instance: one replay under each budget, and none of a request that
\* is not replayable (_transport.py lines 305-324).
THEOREM AtMostOneReplayHolds == Spec => []AtMostOneReplay
<1>1. IInv => AtMostOneReplay
    <2> SUFFICES ASSUME IInv, NEW r \in Callers PROVE replays[r] <= IF replayable[r] THEN 1 ELSE 0
        BY DEF AtMostOneReplay
    <2>1. CallerInv(r) /\ replays[r] \in Nat
        BY DEF IInv, Types, SendTypes
    <2> QED
        BY <2>1 DEF CallerInv, Budgeted
<1> QED
    BY <1>1, Invariant, PTL

\* AllOrNothing on every instance: no request carries some of its credentials and lacks others
\* (_security.py lines 28-58).
THEOREM AllOrNothingHolds == Spec => []AllOrNothing
<1>1. IInv => AllOrNothing
    BY DEF IInv, CallerInv, Attached, AllOrNothing
<1> QED
    BY <1>1, Invariant, PTL

\* ResponseAccounted on every instance: only a close cut short leaves a challenged response open
\* (_transport.py lines 318-324).
THEOREM ResponseAccountedHolds == Spec => []ResponseAccounted
<1>1. IInv => ResponseAccounted
    BY DEF IInv, CallerInv, Budgeted, ResponseAccounted
<1> QED
    BY <1>1, Invariant, PTL

\* A coroutine that rejects may authorize again.
LEMMA NoConflict ==
    ASSUME Types, NEW r \in Callers, CallerInv(r), step[r] = "rejecting"
    PROVE  bindings[r] # <<>> /\ ~Conflict(r)
<1>1. Bearer \in Selected(r)
    BY DEF CallerInv, Counting, Recovering
<1>2. bindings[r] # <<>> /\ bindings[r] \in Seq(Keys)
    BY <1>1, BindingTypes DEF Selected
<1>3. Distinct(r) /\ receipts[r] # <<>>
    BY <1>2 DEF CallerInv, Attached
<1> QED
    BY <1>1, <1>2, <1>3 DEF Conflict, Distinct

\* ReplayNotRefused on every instance: the credentials attached by the first authorize are no
\* conflict for the second (_security.py lines 37-53).
THEOREM ReplayNotRefusedHolds == Spec => ReplayNotRefused
<1> DEFINE Refused(r) == step[r] = "rejecting" /\ outcome'[r] = "raised" /\ ~shut
<1>1. IInv /\ [Next]_vars => [\A r \in Callers : Refused(r) => result[r].kind # "leased"]_vars
    <2> SUFFICES ASSUME IInv, [Next]_vars, NEW r \in Callers, Refused(r), result[r].kind = "leased" PROVE FALSE
        OBVIOUS
    <2>1. Types /\ CallerInv(r)
        BY DEF IInv
    <2>2. outcome[r] = "none"
        BY <2>1 DEF CallerInv, Counting
    <2>3. ASSUME NEW c \in Callers, RequestStep(c) PROVE c = r
        BY <2>1, <2>2, <2>3, OtherStep DEF Still
    <2>4. RequestStep(r)
        BY <2>2, <2>3 DEF Next, CloseTransport, sendVars, vars
    <2>5. Replay(r)
        BY <2>4 DEF RequestStep, Invoke, Reuse, LeaseArrives, LeaseFails, SendFails, Responds, Challenged,
           ResponseClosed, CloseInterrupted, InvalidateFails, End
    <2>6. UNCHANGED outcome
        BY <2>1, <2>5, NoConflict DEF Replay, Authorize
    <2> QED
        BY <2>2, <2>6
<1> QED
    BY <1>1, Invariant, PTL DEF Spec, ReplayNotRefused
=============================================================================
