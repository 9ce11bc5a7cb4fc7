---------------------------- MODULE OAuthProvider ----------------------------
(***************************************************************************)
(* HttpxOAuthTokenProvider (src/sunday/httpx/_oauth.py, _oauth_wire.py):   *)
(* concurrent acquire and refresh calls of one provider, with discovery,   *)
(* the application's authorization callback, and the bounded set of        *)
(* consumed authorization codes.                                           *)
(*                                                                         *)
(* A URL is absent, refused by endpoint(), or usable.  A time counts       *)
(* seconds.                                                                *)
(***************************************************************************)
EXTENDS Integers, FiniteSets

CONSTANTS
    Calls,      \* coroutines that call the provider
    Codes,      \* authorization codes an application may hand out
    Scopes,
    Requests,   \* the requests a token manager may make
    Documents,  \* the discovery documents a server may send
    MaxCodes,   \* 1024
    MaxTime,    \* 2^53 - 1 milliseconds
    Times,      \* readings of the clock
    Lifetimes   \* values of expires_in

Url == {"absent", "refused", "usable"}
Methods == {"none", "client_secret_basic", "client_secret_post"}
Flows == {"clientCredentials", "authorizationCode", "other"}

Request == [flow : Flows, scopes : SUBSET Scopes, discovery : Url, token : Url, authorization : Url, refresh : Url]

\* DiscoveryMetadata; trusted: its issuer is the configured one.
Document == [trusted : BOOLEAN, token : Url, authorization : Url, advertises : BOOLEAN, methods : SUBSET Methods]

ASSUME OAuthAssumption ==
    /\ Requests \subseteq Request
    /\ Documents \subseteq Document
    /\ MaxCodes \in Nat /\ MaxTime \in Nat
    /\ Times \subseteq Int /\ Lifetimes \subseteq Int

Unset == [authentication |-> "none", issuer |-> FALSE, interactive |-> FALSE]
NoRequest == [flow |-> "other", scopes |-> {}, discovery |-> "absent", token |-> "absent",
              authorization |-> "absent", refresh |-> "absent"]
NoDocument == [trusted |-> FALSE, token |-> "absent", authorization |-> "absent",
               advertises |-> FALSE, methods |-> {}]
Idle == [at |-> "idle", renews |-> FALSE, request |-> NoRequest, document |-> NoDocument]

VARIABLES
    constructed,
    client,     \* _authentication, whether _issuer and _authorization are there
    consumed,   \* _consumed_codes
    frame,      \* a suspended call: where, whether it is refresh, its request with the
                \* endpoints resolved so far, and the document that resolved them
    result,     \* how its last call ended
    presented   \* history: how often a code was sent to a token endpoint, counted to 2

oauthVars == <<constructed, client, consumed, frame, result, presented>>

Outcomes == {"none", "tokens", "authorization", "unavailable", "temporary", "invalid_grant", "raised"}

OAuthTypeOK ==
    /\ constructed \in BOOLEAN
    /\ client \in [authentication : Methods, issuer : BOOLEAN, interactive : BOOLEAN]
    /\ consumed \subseteq Codes
    /\ frame \in [Calls -> [at : {"idle", "discovering", "authorizing", "exchanging"}, renews : BOOLEAN,
                            request : Request, document : Document]]
    /\ result \in [Calls -> Outcomes]
    /\ presented \in [Codes -> 0..2]

OAuthInit ==
    /\ constructed = FALSE
    /\ client = Unset
    /\ consumed = {}
    /\ frame = [c \in Calls |-> Idle]
    /\ result = [c \in Calls |-> "none"]
    /\ presented = [k \in Codes |-> 0]
-----------------------------------------------------------------------------
\* __init__: a secret comes with an authentication method and only with one.
Construct ==
    /\ ~constructed
    /\ constructed' = TRUE
    /\ \E method \in Methods, secret \in {"absent", "empty", "given"}, issuer, interactive \in BOOLEAN :
           /\ (method = "none") <=> (secret = "absent")
           /\ secret # "empty"
           /\ client' = [authentication |-> method, issuer |-> issuer, interactive |-> interactive]
    /\ UNCHANGED <<consumed, frame, result, presented>>

\* A call ends; what it left in the provider stays.
End(c, kind) ==
    /\ frame' = [frame EXCEPT ![c] = Idle]
    /\ result' = [result EXCEPT ![c] = kind]

Suspend(c, f, where) ==
    /\ frame' = [frame EXCEPT ![c] = [f EXCEPT !.at = where]]
    /\ UNCHANGED result

Full == Cardinality(consumed) >= MaxCodes

\* _exchange up to its await: the form goes to a usable endpoint only.
Exchange(c, f, url) ==
    IF url = "usable" THEN Suspend(c, f, "exchanging") ELSE End(c, "unavailable")

RefreshUrl(q) == IF q.refresh # "absent" THEN q.refresh ELSE q.token

\* acquire and refresh from the resolved request to their next await or their end.
Proceed(c, f) ==
    \/ f.renews /\ Exchange(c, f, RefreshUrl(f.request))
    \/ /\ ~f.renews /\ f.request.flow = "clientCredentials"
       /\ IF client.authentication = "none" THEN End(c, "unavailable") ELSE Exchange(c, f, f.request.token)
    \/ /\ ~f.renews /\ f.request.flow = "authorizationCode"
       /\ IF ~client.interactive \/ Full THEN End(c, "authorization") ELSE Suspend(c, f, "authorizing")
    \/ /\ ~f.renews /\ f.request.flow = "other"
       /\ End(c, "unavailable")

\* A call begins, and discovers endpoints when its request says where.
Begin(c) ==
    /\ constructed /\ frame[c].at = "idle"
    /\ \E q \in Requests, refreshing \in BOOLEAN :
         LET f == [Idle EXCEPT !.request = q, !.renews = refreshing] IN
         \/ q.discovery = "absent" /\ Proceed(c, f)
         \/ /\ q.discovery # "absent"
            /\ IF client.issuer /\ q.discovery = "usable"
               THEN Suspend(c, f, "discovering") ELSE End(c, "unavailable")
    /\ UNCHANGED <<constructed, client, consumed, presented>>

\* A public client with a code does not authenticate; an absent list means basic.
MethodOffered(d, flow) ==
    \/ client.authentication = "none" /\ flow = "authorizationCode"
    \/ client.authentication \in IF d.advertises THEN d.methods ELSE {"client_secret_basic"}

\* Mutant: any issuer that parses.
VerifiedAny(d, q) == MethodOffered(d, q.flow)

Verified(d, q) == d.trusted /\ MethodOffered(d, q.flow)

\* Endpoints of the request are kept, absent ones come from the document.
Resolve(q, d) ==
    [q EXCEPT !.token = IF @ = "absent" THEN d.token ELSE @,
              !.authorization = IF @ = "absent" THEN d.authorization ELSE @]

ResolvedUsable(q) ==
    /\ q.token = "usable"
    /\ q.authorization = "usable" \/ (q.authorization = "absent" /\ q.flow # "authorizationCode")

\* endpoint() is applied to every URL of the document while it is parsed.
WellFormed(d) == d.token # "refused" /\ d.authorization # "refused"

Discovered(c) ==
    /\ frame[c].at = "discovering"
    /\ \E d \in Documents :
         LET f == frame[c]
             q == Resolve(f.request, d) IN
         IF WellFormed(d) /\ Verified(d, f.request) /\ ResolvedUsable(q)
         THEN Proceed(c, [f EXCEPT !.request = q, !.document = d])
         ELSE End(c, "unavailable")
    /\ UNCHANGED <<constructed, client, consumed, presented>>

\* Mutant: the bound was checked before the callback was awaited.
MayConsumeUnbounded(k) == k \notin consumed

MayConsume(k) == ~Full /\ k \notin consumed

\* Mutant: what is exchanged is not consumed yet.
ConsumeLate(k) == UNCHANGED consumed

Consume(k) == consumed' = consumed \cup {k}

\* The application's grant: a malformed one is refused, as are codes once consumed.  A code is
\* consumed even when the endpoint is found unusable after that.
Granted(c) ==
    /\ frame[c].at = "authorizing"
    /\ \E k \in Codes, malformed \in BOOLEAN :
         \/ /\ malformed \/ ~MayConsume(k)
            /\ End(c, "authorization")
            /\ UNCHANGED <<consumed, presented>>
         \/ /\ ~malformed /\ MayConsume(k)
            /\ Consume(k)
            /\ Exchange(c, frame[c], frame[c].request.token)
            /\ presented' = IF frame[c].request.token = "usable"
                            THEN [presented EXCEPT ![k] = IF @ = 2 THEN 2 ELSE @ + 1] ELSE presented
    /\ UNCHANGED <<constructed, client>>

\* The client or the callback raises, the server is not available, the answer is no document,
\* or the call is cancelled.
Fails(c) ==
    /\ frame[c].at # "idle"
    /\ \E kind \in {"temporary", "unavailable", "authorization", "invalid_grant", "raised"} :
           /\ kind \in {"authorization", "invalid_grant"} => frame[c].at = "authorizing"
           /\ End(c, kind)
    /\ UNCHANGED <<constructed, client, consumed, presented>>

\* TokenErrorResponse: what the error code of a token endpoint means.
Meaning(error, flow) ==
    CASE error = "server_error" -> "temporary"
      [] error = "other" -> "unavailable"
      [] error = "invalid_grant" -> IF flow = "authorizationCode" THEN "authorization" ELSE "invalid_grant"

Refused(c) ==
    /\ frame[c].at = "exchanging"
    /\ \E error \in {"invalid_grant", "server_error", "other"} : End(c, Meaning(error, frame[c].request.flow))
    /\ UNCHANGED <<constructed, client, consumed, presented>>

\* A positive lifetime that ends before the largest time.
Lives(now, lifetime) == lifetime > 0 /\ now + lifetime <= MaxTime

\* A bearer token of the requested scopes that lives or does not expire, or an answer of no use.
Answered(c) ==
    /\ frame[c].at = "exchanging"
    /\ \E now \in Times, lifetime \in Lifetimes, expires, bearer \in BOOLEAN, granted \in SUBSET Scopes :
         IF bearer /\ frame[c].request.scopes \subseteq granted /\ (expires => Lives(now, lifetime))
         THEN End(c, "tokens") ELSE End(c, "unavailable")
    /\ UNCHANGED <<constructed, client, consumed, presented>>

OAuthStep(c) ==
    \/ Begin(c)
    \/ Discovered(c)
    \/ Granted(c)
    \/ Fails(c)
    \/ Refused(c)
    \/ Answered(c)

OAuthNext == Construct \/ \E c \in Calls : OAuthStep(c)

OAuthSpec == OAuthInit /\ [][OAuthNext]_oauthVars
-----------------------------------------------------------------------------
(* What the provider promises. *)

\* "A code is consumed once, even if exchange fails or is canceled" (README.md): whatever two
\* concurrent acquisitions got from the callback, a code goes to a token endpoint once at most
\* (_oauth.py lines 94-105).
CodePresentedOnce == \A k \in Codes : presented[k] <= 1

\* The history of codes is never evicted and never outgrows its bound, although calls that saw
\* room for one more are suspended in the callback (_oauth.py lines 92-105).
ConsumedBounded == Cardinality(consumed) <= MaxCodes

\* Nothing is sent to a discovered endpoint unless this very call fetched a document from the
\* issuer the application configured, one that offers the client's authentication
\* (_oauth.py lines 140-173; README.md lines 133 and 162).
ExchangeVerified ==
    \A c \in Calls :
        (frame[c].at \in {"authorizing", "exchanging"} /\ frame[c].request.discovery # "absent") =>
            /\ client.issuer /\ frame[c].document.trusted
            /\ MethodOffered(frame[c].document, frame[c].request.flow)
=============================================================================
