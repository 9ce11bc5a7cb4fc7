-------------------------- MODULE CredentialService --------------------------
(***************************************************************************)
(* What the token manager promises to the callers of credentials and       *)
(* invalidate (src/sunday/token_manager.py, TokenManager), without renewal *)
(* tasks, locks and store.  TokenManager implements it; AuthRecovery is    *)
(* built on it.                                                            *)
(*                                                                         *)
(* A lease names the provider answer it came from by its number.  Two      *)
(* answers may carry the same access token: AccessToken says which.        *)
(***************************************************************************)
EXTENDS Integers

CONSTANTS
    Callers,    \* coroutines that call credentials and invalidate
    Keys,       \* cache keys
    MaxIssued,  \* bound of the model: provider answers for each key
    AccessToken \* AccessToken[k][n]: the access token in the n-th answer for k

VARIABLES
    issued,     \* answers the provider of a key has given
    rejected,   \* answers of a key that completed invalidates put out of use
    phase,      \* what a caller awaits: nothing, a lease, or a rejection
    key,        \* the key it awaits it for
    subject,    \* the answer whose access token it rejects, 0 when it does not
    asked,      \* its cancellation was requested and not yet delivered
    barred,     \* rejected, as it was when the caller asked
    result      \* what its last call returned or raised

serviceVars == <<issued, rejected, phase, key, subject, asked, barred, result>>

Nothing   == [kind |-> "none",      access |-> 0]
Failure   == [kind |-> "failed",    access |-> 0]
Cancelled == [kind |-> "cancelled", access |-> 0]
Lease(a)  == [kind |-> "leased",    access |-> a]

ServiceInit ==
    /\ issued \in [Keys -> Nat]
    /\ \A k \in Keys : issued[k] <= MaxIssued[k]
    /\ rejected = [k \in Keys |-> {}]
    /\ phase = [c \in Callers |-> "idle"]
    /\ key \in {[c \in Callers |-> k] : k \in Keys}
    /\ subject = [c \in Callers |-> 0]
    /\ asked = [c \in Callers |-> FALSE]
    /\ barred = [c \in Callers |-> {}]
    /\ result = [c \in Callers |-> Nothing]

\* credentials is called.
Ask(c, k) ==
    /\ phase[c] = "idle"
    /\ phase' = [phase EXCEPT ![c] = "asking"]
    /\ key' = [key EXCEPT ![c] = k]
    /\ barred' = [barred EXCEPT ![c] = rejected[k]]
    /\ result' = [result EXCEPT ![c] = Nothing]
    /\ UNCHANGED <<issued, rejected, subject, asked>>

\* A provider answers, for whichever caller.
Issue(k) ==
    /\ issued[k] < MaxIssued[k]
    /\ issued' = [issued EXCEPT ![k] = @ + 1]
    /\ UNCHANGED <<rejected, phase, key, subject, asked, barred, result>>

Settled(c, r) ==
    /\ phase' = [phase EXCEPT ![c] = "idle"]
    /\ subject' = [subject EXCEPT ![c] = 0]
    /\ asked' = [asked EXCEPT ![c] = FALSE]
    /\ result' = [result EXCEPT ![c] = r]
    /\ UNCHANGED <<issued, key, barred>>

\* Mutant: any answer ever given will do.
LeasableAny(c) == 1..issued[key[c]]

\* Answers given and not out of use when the caller asked.
Leasable(c) == 1..issued[key[c]] \ barred[c]

\* credentials returns a lease.
Grant(c) ==
    /\ phase[c] = "asking"
    /\ ~asked[c]
    /\ \E a \in Leasable(c) : Settled(c, Lease(a))
    /\ UNCHANGED rejected

\* invalidate is called with a lease of the a-th answer.
RejectToken(c, k, a) ==
    /\ phase[c] = "idle"
    /\ phase' = [phase EXCEPT ![c] = "rejecting"]
    /\ key' = [key EXCEPT ![c] = k]
    /\ subject' = [subject EXCEPT ![c] = a]
    /\ UNCHANGED <<issued, rejected, asked, barred, result>>

\* The answers an invalidate of the a-th answer of k puts out of use: that one, the older
\* ones, and those already given with the same access token.  A provider that gives the
\* token again later puts it back into use.
OutOfUse(k, a) ==
    (1..a) \cup {n \in 1..issued[k] : AccessToken[k][n] = AccessToken[k][a]}

\* invalidate returns.
Rejected(c) ==
    /\ phase[c] = "rejecting"
    /\ ~asked[c]
    /\ rejected' = [rejected EXCEPT ![key[c]] = @ \cup OutOfUse(key[c], subject[c])]
    /\ Settled(c, result[c])

\* A provider or a store fails.
Fail(c) ==
    /\ phase[c] # "idle"
    /\ ~asked[c]
    /\ Settled(c, Failure)
    /\ UNCHANGED rejected

\* The application cancels a caller; the call ends cancelled, or a provider or a store
\* it awaits swallows the cancellation.
CancelCaller(c) ==
    /\ phase[c] # "idle"
    /\ ~asked[c]
    /\ asked' = [asked EXCEPT ![c] = TRUE]
    /\ UNCHANGED <<issued, rejected, phase, key, subject, barred, result>>

EndCancelled(c) ==
    /\ asked[c]
    /\ Settled(c, Cancelled)
    /\ UNCHANGED rejected

Swallow(c) ==
    /\ asked[c] /\ phase[c] = "rejecting"
    /\ asked' = [asked EXCEPT ![c] = FALSE]
    /\ UNCHANGED <<issued, rejected, phase, key, subject, barred, result>>

\* What happens inside the service once a call is under way.
ServiceStep ==
    \/ \E k \in Keys : Issue(k)
    \/ \E c \in Callers : Grant(c) \/ Rejected(c) \/ Fail(c) \/ EndCancelled(c) \/ Swallow(c)

ServiceNext ==
    \/ \E c \in Callers, k \in Keys : Ask(c, k)
    \/ \E c \in Callers : result[c].kind = "leased" /\ RejectToken(c, key[c], result[c].access)
    \/ \E c \in Callers : CancelCaller(c)
    \/ ServiceStep

ServiceSpec == ServiceInit /\ [][ServiceNext]_serviceVars
=============================================================================
