--------------------------- MODULE ClientSettings ---------------------------
(***************************************************************************)
(* Security settings of generated clients                                  *)
(* (src/sunday/client_settings.py, credentials.py) and the identity under  *)
(* which a token manager keeps what their providers acquire                *)
(* (src/sunday/token_manager.py _resolve).  Clients are configured one     *)
(* after another in one application, whose token store they share.         *)
(***************************************************************************)
EXTENDS Naturals, Sequences

CONSTANTS
    Contracts,      \* base URL and operations; an operation has alternatives of bindings
    Wallets,        \* the credentials of an application, by scheme
    Selections,     \* its choices, by operation: schemes, or {"any"}, and an index, or 0
    MaxClients

BindingFields == {"scheme", "provider", "flow", "prefix", "endpoint", "scopes"}
CredentialFields == {"kind", "flow", "complete", "authenticates", "identity", "grant", "endpoint"}

ASSUME SettingsAssumption ==
    /\ MaxClients \in Nat
    /\ \A c \in Contracts :
           /\ c.base # "absent"
           /\ \A o \in DOMAIN c.operations : \A i \in DOMAIN c.operations[o] :
                  \A j \in DOMAIN c.operations[o][i] : DOMAIN c.operations[o][i][j] = BindingFields
    /\ \A w \in Wallets : \A s \in DOMAIN w : DOMAIN w[s] = CredentialFields

VARIABLES
    clients,    \* the settings constructed so far
    store,      \* what the token store has, by cache key
    lease       \* history: the last token attached, for which binding of which client

settingsVars == <<clients, store, lease>>

NoLease == [client |-> 0]

SettingsInit ==
    /\ clients = <<>>
    /\ store = <<>>
    /\ lease = NoLease
-----------------------------------------------------------------------------
\* validate_credentials: a kind of credential fits a flow and a prefix; complete: identities,
\* token or key are given, secret and method agree, a session authorizes an authorization code.
Fits(credential, binding) ==
    \/ /\ credential.kind = "provider"
       /\ credential.flow \in {"any", binding.flow}
    \/ /\ credential.kind = "oauth"
       /\ binding.prefix = "bearer" /\ credential.flow = binding.flow
       /\ credential.complete
       /\ credential.flow = "clientCredentials" => credential.authenticates
    \/ /\ credential.kind \in {"bearer", "basic", "apiKey"}
       /\ binding.flow \in {"static", "external"}
       /\ binding.prefix = IF credential.kind = "apiKey" THEN "none" ELSE credential.kind
       /\ credential.complete

Usable(alternative, wallet) ==
    \A i \in DOMAIN alternative :
        /\ alternative[i].scheme \in DOMAIN wallet
        /\ Fits(wallet[alternative[i].scheme], alternative[i])

SchemesOf(alternative) == {alternative[i].scheme : i \in DOMAIN alternative}

\* What the selection of an operation leaves of its alternatives.
Selected(selection, o, alternatives) ==
    {i \in DOMAIN alternatives :
        o \in DOMAIN selection =>
            /\ selection[o].index \in {0, i}
            /\ selection[o].schemes \in {{"any"}, SchemesOf(alternatives[i])}}

\* resolve: the usable alternatives of an operation.
UsableOf(contract, wallet, selection, o) ==
    {i \in Selected(selection, o, contract.operations[o]) : Usable(contract.operations[o][i], wallet)}

\* _endpoint: relative to the base URL of the client.
Joined(base, url) == IF url = "relative" THEN base ELSE url

Bound(base, alternative) ==
    [i \in DOMAIN alternative |-> [alternative[i] EXCEPT !.endpoint = Joined(base, @)]]

BindingsOf(client) ==
    UNION {{client.bindings[o][i] : i \in DOMAIN client.bindings[o]} : o \in DOMAIN client.bindings}

\* A provider name belongs to one scheme.
OwnersDistinct(client) ==
    \A b, c \in BindingsOf(client) : b.provider = c.provider => b.scheme = c.scheme

\* One provider object for a name, made from the credential of the first binding that has it;
\* endpoints of an OAuth client are relative to the base URL, an application's provider has its
\* own, and the provider of a static credential has an identity of its own.
Provider(client, name, n) ==
    LET owner == CHOOSE b \in BindingsOf(client) : b.provider = name
        credential == client.wallet[owner.scheme] IN
    [credential EXCEPT !.endpoint = IF credential.kind = "oauth" THEN Joined(client.base, @) ELSE @,
                       !.identity = IF credential.kind \in {"bearer", "basic", "apiKey"} THEN <<"uuid", n, name>> ELSE @]

\* resolve, __init__ and _prepare_token_manager: exactly one usable alternative for every
\* operation of the contract, and no other operation selected; else ValueError.
Configure ==
    /\ Len(clients) < MaxClients
    /\ \E contract \in Contracts, wallet \in Wallets, selection \in Selections :
         LET usable == [o \in DOMAIN contract.operations |-> UsableOf(contract, wallet, selection, o)]
             bindings == [o \in DOMAIN usable |->
                             Bound(contract.base, contract.operations[o][CHOOSE i \in usable[o] : TRUE])]
             client == [base |-> contract.base, wallet |-> wallet, bindings |-> bindings] IN
         /\ DOMAIN selection \subseteq DOMAIN usable
         /\ \A o \in DOMAIN usable : \E i \in usable[o] : usable[o] = {i}
         /\ OwnersDistinct(client)
         /\ clients' = Append(clients, client)
    /\ UNCHANGED <<store, lease>>

\* Endpoints of a binding, replaced by those the provider is configured with.
Endpoint(binding, provider) == IF provider.endpoint # "absent" THEN provider.endpoint ELSE binding.endpoint

\* Mutant: a key without the scopes.
CacheKeyUnscoped(b, p) == <<b.scheme, b.provider, p.identity, p.grant, b.flow, Endpoint(b, p)>>

\* What identifies acquired credentials; scopes are a set.
CacheKey(b, p) == <<b.scheme, b.provider, p.identity, p.grant, b.flow, Endpoint(b, p), b.scopes>>

\* What is acquired for a binding: a token of one client and session, issued somewhere for
\* scopes (which stand for the audience, the resource and the profile as well).
Issued(b, p) == [identity |-> p.identity, grant |-> p.grant, endpoint |-> Endpoint(b, p), scopes |-> b.scopes]

\* A request of a client is authorized for one binding: with the stored token of its key, or a
\* new one.
Attach ==
    /\ \E n \in DOMAIN clients : \E b \in BindingsOf(clients[n]) :
         LET p == Provider(clients[n], b.provider, n)
             key == CacheKey(b, p)
             token == IF key \in DOMAIN store THEN store[key] ELSE Issued(b, p) IN
         /\ store' = [k \in DOMAIN store \cup {key} |-> IF k = key THEN token ELSE store[k]]
         /\ lease' = [client |-> n, binding |-> b, token |-> token]
    /\ UNCHANGED clients

SettingsNext == Configure \/ Attach

SettingsSpec == SettingsInit /\ [][SettingsNext]_settingsVars
-----------------------------------------------------------------------------
\* "Credentials are isolated by logical security scheme as well as provider and acquisition
\* inputs" (README.md line 160): whatever other bindings and clients share the store, a binding
\* gets a token that the credential of its own scheme pays for, of its own session, server and
\* scopes.
CredentialsIsolated ==
    lease # NoLease =>
        LET own == clients[lease.client].wallet[lease.binding.scheme] IN
        /\ own.kind \in {"oauth", "provider"} => lease.token.identity = own.identity
        /\ own.kind \notin {"oauth", "provider"} => lease.token.identity = <<"uuid", lease.client, lease.binding.provider>>
        /\ lease.token.grant = own.grant
        /\ lease.token.scopes = lease.binding.scopes
        /\ own.endpoint = "absent" => lease.token.endpoint = lease.binding.endpoint
        /\ (own.kind = "oauth" /\ own.endpoint = "relative") => lease.token.endpoint = clients[lease.client].base
        /\ (own.kind = "provider" /\ own.endpoint # "absent") => lease.token.endpoint = own.endpoint
=============================================================================
