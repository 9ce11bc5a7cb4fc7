------------------------------ MODULE MCLibrary ------------------------------
(***************************************************************************)
(* Instances of the OAuth provider, the event parser, exchanges and client *)
(* settings.  They share no state, so a behaviour is one of one of them.   *)
(***************************************************************************)
EXTENDS OAuthProvider, EventParser, Exchange, ClientSettings, TLC

VARIABLE part

vars == <<part, oauthVars, parserVars, exchangeVars, settingsVars>>

Init ==
    /\ part \in {"oauth", "parser", "exchange", "settings"}
    /\ OAuthInit /\ ParserInit /\ ExchangeInit /\ SettingsInit

Next ==
    /\ \/ part = "oauth" /\ OAuthNext /\ UNCHANGED <<parserVars, exchangeVars, settingsVars>>
       \/ part = "parser" /\ ParserNext /\ UNCHANGED <<oauthVars, exchangeVars, settingsVars>>
       \/ part = "exchange" /\ ExchangeNext /\ UNCHANGED <<oauthVars, parserVars, settingsVars>>
       \/ part = "settings" /\ SettingsNext /\ UNCHANGED <<oauthVars, parserVars, exchangeVars>>
    /\ UNCHANGED part

Spec == Init /\ [][Next]_vars

Symmetry == Permutations(Calls) \cup Permutations(Codes)
-----------------------------------------------------------------------------
(* OAuth provider: both flows with and without discovery, a third flow, and a refresh URL. *)

Asked(flow, discovery, token) ==
    [NoRequest EXCEPT !.flow = flow, !.scopes = Scopes, !.discovery = discovery, !.token = token]

SampleRequests ==
    {Asked("clientCredentials", "absent", "usable"), Asked("clientCredentials", "usable", "absent"),
     Asked("authorizationCode", "absent", "usable"), Asked("authorizationCode", "absent", "refused"),
     Asked("authorizationCode", "usable", "absent"), Asked("other", "absent", "usable"),
     [Asked("clientCredentials", "refused", "absent") EXCEPT !.refresh = "usable"]}

SampleDocuments ==
    {[trusted |-> t, token |-> "usable", authorization |-> a, advertises |-> ad, methods |-> {"none"}] :
        t, ad \in BOOLEAN, a \in {"absent", "usable"}}
-----------------------------------------------------------------------------
(* Exchanges: each way to place parameters and to build a body, and each way to answer. *)

Json == Plain("application", "json")
Problem == Media("application", "problem", "json")
AnyJson == Media("application", "*", "json")
Cbor == Plain("application", "cbor")
Form == Plain("application", "form")
Text == Plain("text", "plain")
AnyText == Plain("text", "*")
Odd == Plain("application", "odd")

Literal(text) == [literal |-> TRUE, text |-> text]
Variable(name) == [literal |-> FALSE, text |-> name]
Template(uri, pieces) == [uri |-> uri, pieces |-> pieces]

Declared(status, types, hasBody, binary, header) ==
    [status |-> status, types |-> types, body |-> hasBody, binary |-> binary, header |-> header]

JsonOnly == <<Declared(200, <<Json>>, TRUE, FALSE, FALSE)>>

Plainest ==
    [valid |-> TRUE, template |-> Template(FALSE, <<Literal(<<"/">>)>>), parameters |-> <<>>, supplied |-> <<>>,
     body |-> "none", types |-> <<>>, explicit |-> Absent, accept |-> <<Json>>, acceptGiven |-> FALSE,
     responses |-> JsonOnly, nullify |-> [statuses |-> {404}, types |-> {"known"}]]

SampleTokens == <<"t", "u">>

\* A value may look like a placeholder or a token, or contain a delimiter.
Tricky == <<"a", "{", "b", "}">>
Tokened == <<"a", "u">>
Listy == <<"a", ",", "&">>
Values(kind) ==
    CASE kind = "scalar" -> {<<Tricky>>, <<Listy>>}
      [] kind = "array"  -> {<<>>, <<Tricky, Listy>>}
      [] kind = "object" -> {<<>>, <<<<<<"c">>, <<Listy>>>>, <<<<"=">>, <<Tricky>>>>>>}
      [] kind = "absent" -> {<<>>}

Parameter(name, in, kind, value, style, explode, reserved) ==
    [name |-> name, in |-> in, kind |-> kind, value |-> value, style |-> style, explode |-> explode, reserved |-> reserved]

Filled == {<<kind, value>> \in {"scalar", "array", "object"} \X UNION {Values(k) : k \in {"scalar", "array", "object"}} :
              value \in Values(kind)}

Second == Parameter(<<"b">>, "path", "scalar", <<Listy>>, "default", {}, FALSE)
Third == Parameter(<<"c">>, "path", "scalar", <<Tricky>>, "matrix", {}, FALSE)

Pathed ==
    {[Plainest EXCEPT !.template = Template(FALSE, <<Literal(<<"/">>), Variable(<<"a">>), Literal(<<"/">>), Variable(<<"b">>)>>),
                      !.parameters = <<Parameter(<<"a">>, "path", f[1], f[2], style, {explode}, FALSE), Second>>] :
        explode \in BOOLEAN, f \in Filled, style \in {"simple", "label", "matrix"}}

Queried ==
    {[Plainest EXCEPT !.template = Template(FALSE, <<Literal(<<"/", "?", "c", "=", "a">>)>>),
                      !.parameters = <<Parameter(<<"a", "=">>, place[1], f[1], f[2], place[2], explode, FALSE),
                                       Parameter(<<"b">>, "query", "absent", <<>>, "default", {}, FALSE)>>] :
        place \in ({"query"} \X {"default", "deepObject", "spaceDelimited", "pipeDelimited"})
                      \cup ({"header", "cookie"} \X {"default"}),
        f \in Filled, explode \in {{}, {FALSE}}}

Supplied ==
    {[Plainest EXCEPT !.template = Template(TRUE, <<Literal(<<"/">>), Variable(<<"a">>), Variable(<<"b">>), Variable(<<"c">>)>>),
                      !.parameters = <<Second, Third>>, !.supplied = [n \in names |-> value]] :
        names \in SUBSET {<<"a">>}, value \in {Tricky, Tokened}}

Addressing ==
    Pathed \cup Queried \cup Supplied
    \cup {[o EXCEPT !.template.pieces = <<Head(@)>>] : o \in Supplied}
    \cup {[Plainest EXCEPT !.parameters = <<[Second EXCEPT !.in = "query", !.reserved = TRUE]>>]}
    \cup {[Plainest EXCEPT !.template = Template(FALSE, <<Literal(<<"/", "?", "c", "?", "&">>), Variable(<<"a">>)>>),
                            !.parameters = <<[Second EXCEPT !.in = "query"]>>]}

Building ==
    {[Plainest EXCEPT !.body = content, !.types = types, !.explicit = explicit] :
        content \in {"none", "value", "mapping", "bytes", "stream", "multipart"},
        types \in {<<>>, <<Odd, Form>>, <<Cbor, Json>>, <<Plain("multipart", "form-data")>>},
        explicit \in {Absent, Invalid, Form}}

Answering ==
    {[Plainest EXCEPT !.accept = accept, !.acceptGiven = given, !.responses = responses] :
        accept \in {<<Cbor, AnyJson>>, <<AnyText, Odd>>, <<Odd>>},
        given \in BOOLEAN,
        responses \in {<<>>,
                       <<Declared(200, <<Cbor, AnyJson>>, TRUE, FALSE, TRUE), Declared(AnyStatus, <<>>, FALSE, FALSE, FALSE)>>,
                       <<Declared(200, <<>>, TRUE, FALSE, FALSE)>>,
                       <<Declared(AnyStatus, <<AnyText>>, TRUE, FALSE, FALSE), Declared(200, <<>>, TRUE, TRUE, FALSE)>>}}

SampleOperations ==
    Addressing \cup Building \cup Answering \cup {[Plainest EXCEPT !.valid = FALSE]}

Response(status, type, empty, content, member) ==
    [status |-> status, type |-> type, empty |-> empty, content |-> content, header |-> content = "value",
     member |-> member, uri |-> "known"]

SampleAnswers ==
    {Response(200, type, FALSE, content, 0) :
        type \in {Absent, Json, Problem, Cbor, Text, Odd}, content \in {"garbage", "fault", "unfit", "value"}}
    \cup {Response(status, Json, TRUE, "garbage", 0) : status \in {200, 204, 500}}
    \cup {Response(500, type, FALSE, content, member) :
              type \in {Absent, Json, Problem}, content \in {"garbage", "value", "problem"}, member \in {0, 404}}
-----------------------------------------------------------------------------
(* Settings: one operation with two alternatives and one with two bindings. *)

Binding(scheme, provider, flow, prefix, endpoint, scopes) ==
    [scheme |-> scheme, provider |-> provider, flow |-> flow, prefix |-> prefix,
     endpoint |-> endpoint, scopes |-> scopes]

Oauth(scopes) == Binding("oauth", "p1", "clientCredentials", "bearer", "relative", scopes)
Key(provider) == Binding("key", provider, "static", "none", "absent", {})

SampleContracts ==
    {[base |-> base, operations |-> [read |-> <<<<Oauth({"r"})>>, <<Key(provider)>>>>,
                                     write |-> <<<<Oauth({"r", "w"}), Key(provider)>>>>]] :
        base \in {"b1", "b2"}, provider \in {"p1", "p2"}}

Credential(kind, flow, identity, endpoint) ==
    [kind |-> kind, flow |-> flow, complete |-> TRUE, authenticates |-> TRUE, identity |-> identity,
     grant |-> "none", endpoint |-> endpoint]

SampleWallets ==
    {[oauth |-> Credential(kind, "clientCredentials", identity, endpoint), key |-> Credential(key, "any", "none", "absent")] :
        kind \in {"oauth", "provider"}, key \in {"apiKey"},
        identity \in {"i1"}, endpoint \in {"absent", "relative"}}

SampleSelections ==
    {<<>>, [read |-> [schemes |-> {"key"}, index |-> 0]], [read |-> [schemes |-> {"any"}, index |-> 1]],
     [remove |-> [schemes |-> {"any"}, index |-> 1]]}
=============================================================================
