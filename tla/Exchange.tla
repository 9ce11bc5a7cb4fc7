------------------------------ MODULE Exchange ------------------------------
(***************************************************************************)
(* One operation from its specification to its result: the request is     *)
(* built and adapted, sent, and its response decoded or raised             *)
(* (src/sunday/httpx/_transport.py, transport.py, operations.py, specs.py, *)
(* problems.py, streaming.py).  Authorization of the send is AuthRecovery. *)
(*                                                                         *)
(* A body is "none", "value", "mapping", "bytes", "stream" or "multipart". *)
(* The bytes of a response are, for its media type, "garbage", or raise an *)
(* exception that is neither a ValueError nor a TypeError ("fault"), or    *)
(* are what the value decoder rejects ("unfit"), an object ("value"), or a *)
(* "problem": an object with a type or a title.                            *)
(***************************************************************************)
EXTENDS MediaTypes, Parameters, Integers

CONSTANTS
    Operations,     \* generated operations
    Answers,        \* responses a server may give
    Optional,       \* the codecs that may be installed
    MaxAdapters     \* adapters of the transport

AnyStatus == 0
NoSpec == [status |-> -1, types |-> <<>>, body |-> FALSE, binary |-> FALSE, header |-> FALSE]

\* A path template is parsed into pieces at its braces: neither a literal piece nor a name has
\* one.  No path parameter is named after a token, and there is a token for each.
Braceless(text) == \A i \in DOMAIN text : text[i] \notin {"{", "}"}

Addressed(o) ==
    /\ o.template.pieces \in Seq([literal : BOOLEAN, text : Texts])
    /\ \A i \in DOMAIN o.template.pieces : Braceless(o.template.pieces[i].text)
    /\ o.parameters \in Seq(ParameterSpecs)
    /\ \A i \in DOMAIN o.parameters :
           o.parameters[i].in = "path" => Braceless(o.parameters[i].name) /\ Tokenless(o.parameters[i].name)
    /\ Len(Located(o.parameters, "path")) <= Len(PathTokens)
    /\ \A name \in DOMAIN o.supplied : o.supplied[name] \in Texts

ASSUME ExchangeAssumption ==
    /\ MaxAdapters \in Nat
    /\ \A o \in Operations : o.types \in Seq(MediaType) /\ Addressed(o)

VARIABLES
    encoders, decoders, \* registries of the transport
    problems,           \* its problem registry: registered type URIs
    transport,          \* "none", "open" or "closed"
    body,               \* the streaming body of the application: "open" or "closed"
    op,                 \* the operation being executed
    stage,              \* where: "idle", "adapting", "sending", "releasing"
    adapted,            \* adapters that ran
    native,             \* the request: its target, its headers, and the codec that made its content
    answer,             \* the media type of the response
    outcome             \* what the execution came to

exchangeVars == <<encoders, decoders, problems, transport, body, op, stage, adapted, native, answer, outcome>>

NoNative == [target |-> <<>>, headers |-> <<>>, cookies |-> <<>>, type |-> Absent, codec |-> "none", accept |-> {}]

ExchangeInit ==
    /\ encoders = <<>> /\ decoders = <<>> /\ problems = {}
    /\ transport = "none"
    /\ body = "open"
    /\ op = "none" /\ stage = "idle" /\ adapted = 0
    /\ native = NoNative /\ answer = Absent /\ outcome = "none"
-----------------------------------------------------------------------------
(* Transport and application *)

Open(installed) ==
    /\ transport = "none"
    /\ transport' = "open"
    /\ encoders' = Defaults(installed)
    /\ decoders' = Defaults(installed)
    /\ UNCHANGED <<problems, body, op, stage, adapted, native, answer, outcome>>

\* An application may register a codec at any time, also during an exchange (bound of the
\* model: one).
RegisterCodec ==
    /\ transport = "open"
    /\ ~Contains(encoders \o decoders, "custom")
    /\ \E first \in BOOLEAN :
         \/ encoders' = Registered(encoders, "custom", first) /\ UNCHANGED decoders
         \/ decoders' = Registered(decoders, "custom", first) /\ UNCHANGED encoders
    /\ UNCHANGED <<problems, transport, body, op, stage, adapted, native, answer, outcome>>

RegisterProblem ==
    /\ transport = "open" /\ problems = {}
    /\ problems' = {"known"}
    /\ UNCHANGED <<encoders, decoders, transport, body, op, stage, adapted, native, answer, outcome>>

CloseTransport ==
    /\ transport = "open"
    /\ transport' = "closed"
    /\ UNCHANGED <<encoders, decoders, problems, body, op, stage, adapted, native, answer, outcome>>

\* StreamingBody.aclose.
CloseBody ==
    /\ transport = "open" /\ body = "open"
    /\ body' = "closed"
    /\ UNCHANGED <<encoders, decoders, problems, transport, op, stage, adapted, native, answer, outcome>>
-----------------------------------------------------------------------------
(* Building a request *)

\* OperationSpec: what its binary responses accept without a decoder.
BinaryTypes(o) ==
    UNION {LET r == o.responses[i] IN
           IF ~r.binary THEN {}
           ELSE IF r.types = <<>> THEN {Plain("*", "*")} ELSE {r.types[j] : j \in DOMAIN r.types}
           : i \in DOMAIN o.responses}

\* Mutant: every declared type is accepted.
AcceptableAny(o, m) == TRUE

Acceptable(o, m) ==
    \/ Find(decoders, m) # "none"
    \/ \E b \in BinaryTypes(o) : Matches(b, m) \/ Matches(m, b)

\* The Accept header: the application's own, or the declared types that can be decoded (their
\* order is left out).
Accept(o) ==
    IF o.acceptGiven THEN {} ELSE {m \in {o.accept[i] : i \in DOMAIN o.accept} : Acceptable(o, m)}

AcceptRefused(o) == ~o.acceptGiven /\ o.accept # <<>> /\ Accept(o) = {}

\* _raw_content_type: the header, else the first declared type, else none.
RawType(o) == IF o.explicit # Absent THEN o.explicit ELSE IF o.types # <<>> THEN Head(o.types) ELSE Absent

DefaultType(o) == Plain("application", IF o.body = "bytes" THEN "octet-stream" ELSE "json")

\* Mutant: the header is looked at after the declared types.
ContentCandidatesLate(o) ==
    IF o.types # <<>> THEN o.types ELSE IF o.explicit # Absent THEN <<o.explicit>> ELSE <<DefaultType(o)>>

\* _encoded_content_type: the candidates, in order.
ContentCandidates(o) ==
    IF o.explicit # Absent THEN <<o.explicit>> ELSE IF o.types # <<>> THEN o.types ELSE <<DefaultType(o)>>

\* The first of them that has an encoder, by its place, or 0.
Encodable(o) == SelectInSeq(ContentCandidates(o), LAMBDA m : Find(encoders, m) # "none")

\* The Content-Type header: what the application set stays.
Header(o, m) == IF o.explicit # Absent THEN o.explicit ELSE m

Built(o, type, codec) ==
    [target |-> Target(o.template, o.parameters, o.supplied),
     headers |-> HeadersOf(o.parameters), cookies |-> CookiesOf(o.parameters),
     type |-> type, codec |-> codec, accept |-> Accept(o)]

NotBuilt == [NoNative EXCEPT !.codec = "refused"]

Multipart(o) ==
    IF RawType(o) = Invalid \/ (RawType(o) # Absent /\ ~Matches(Plain("multipart", "form-data"), RawType(o)))
    THEN NotBuilt
    ELSE Built(o, Plain("multipart", "form-data"), "multipart")

Streamed(o) ==
    IF body = "closed" \/ (o.explicit = Invalid) THEN NotBuilt ELSE Built(o, Header(o, RawType(o)), "stream")

\* Without an encoder bytes are sent as they are; everything else is refused.
Raw(o) ==
    IF o.body # "bytes" \/ o.explicit = Invalid THEN NotBuilt
    ELSE Built(o, IF RawType(o) = Absent THEN DefaultType(o) ELSE RawType(o), "raw")

Encoded(o) ==
    IF o.explicit = Invalid \/ Encodable(o) = 0 THEN Raw(o)
    ELSE LET type == ContentCandidates(o)[Encodable(o)]
             codec == Find(encoders, type) IN
         IF Encodes(codec, o.body) THEN Built(o, Header(o, type), codec) ELSE NotBuilt

\* _build_validated_request: what is generated is validated, and parameters are encoded, first.
BuiltRequest(o) ==
    CASE ~o.valid \/ ~Serializable(o.parameters) \/ AcceptRefused(o) -> NotBuilt
      [] Target(o.template, o.parameters, o.supplied) = <<>> -> NotBuilt
      [] OTHER -> CASE o.body = "multipart" -> Multipart(o)
                    [] o.body = "stream" -> Streamed(o)
                    [] o.body = "none" -> Built(o, o.explicit, "none")
                    [] OTHER -> Encoded(o)

\* An execution ends, and nothing of it stays in the transport.
EndExchange(how) ==
    /\ op' = "none" /\ native' = NoNative
    /\ stage' = "idle" /\ adapted' = 0
    /\ answer' = Absent /\ outcome' = how

\* An execution begins (bound of the model: one); a closed transport and what cannot be
\* encoded are refused.
Execute ==
    /\ transport # "none" /\ stage = "idle" /\ outcome = "none"
    /\ \E o \in Operations :
         LET request == IF transport = "closed" THEN NotBuilt ELSE BuiltRequest(o) IN
         \/ request = NotBuilt /\ EndExchange("refused")
         \/ /\ request # NotBuilt
            /\ op' = o /\ native' = request
            /\ stage' = "adapting" /\ adapted' = 0
            /\ answer' = Absent /\ outcome' = "none"
    /\ UNCHANGED <<encoders, decoders, problems, transport, body>>

\* An adapter returns a request, or raises.
Adapt ==
    /\ stage = "adapting" /\ adapted < MaxAdapters
    /\ \/ adapted' = adapted + 1 /\ UNCHANGED <<op, native, stage, answer, outcome>>
       \/ EndExchange("raised")
    /\ UNCHANGED <<encoders, decoders, problems, transport, body>>

\* transport_response, after all adapters; _send refuses a transport closed meanwhile.
Send ==
    /\ stage = "adapting" /\ adapted = MaxAdapters
    /\ \/ transport = "open" /\ stage' = "sending" /\ UNCHANGED <<op, native, adapted, answer, outcome>>
       \/ transport = "closed" /\ EndExchange("raised")
    /\ UNCHANGED <<encoders, decoders, problems, transport, body>>

SendFails ==
    /\ stage = "sending"
    /\ EndExchange("raised")
    /\ UNCHANGED <<encoders, decoders, problems, transport, body>>
-----------------------------------------------------------------------------
(* Decoding a response *)

\* ResponseSpec.accepts.
Accepts(spec, m) ==
    \/ spec.types = <<>>
    \/ m \notin {Absent, Invalid} /\ \E i \in DOMAIN spec.types : Matches(spec.types[i], m)

\* The declarations of this status, else those of any status.
Candidates(o, status) ==
    LET exact == SelectSeq(o.responses, LAMBDA s : s.status = status)
    IN  IF exact # <<>> THEN exact ELSE SelectSeq(o.responses, LAMBDA s : s.status = AnyStatus)

FirstSpec(specs) == IF specs = <<>> THEN NoSpec ELSE Head(specs)

\* _decode_headers: a required header is missing, or everything is there.
Complete(spec, a, kind) == IF spec.header /\ ~a.header THEN "noHeader" ELSE kind

\* The body of a response whose declaration accepts its type.
DecodeBody(spec, a) ==
    IF a.type \in {Absent, Invalid} THEN "noType"
    ELSE IF ~spec.binary /\ Find(decoders, a.type) = "none" THEN "noDecoder"
    ELSE IF ~spec.binary /\ a.content = "fault" THEN "raised"
    ELSE IF a.content = "unfit" \/ (~spec.binary /\ a.content = "garbage") THEN "undecodable"
    ELSE Complete(spec, a, "value")

\* 204 and 205 have no body whatever is declared; an empty body is one only if it is binary.
Decode(o, a) ==
    LET specs == Candidates(o, a.status)
        spec == FirstSpec(SelectSeq(specs, LAMBDA s : Accepts(s, a.type)))
        bodyless == FirstSpec(SelectSeq(specs, LAMBDA s : ~s.body)) IN
    IF specs = <<>> THEN "noStatus"
    ELSE IF a.status \in {204, 205} THEN Complete(bodyless, a, "empty")
    ELSE IF a.empty /\ ~spec.binary
         THEN IF bodyless = NoSpec THEN "noBody" ELSE Complete(bodyless, a, "empty")
    ELSE IF spec = NoSpec THEN "noMedia"
    ELSE DecodeBody(spec, a)

\* raise_problem: a JSON object that is, or looks like, a problem.
IsProblem(a) ==
    /\ IsJson(a.type) /\ ~a.empty
    /\ a.content = "problem" \/ (a.content = "value" /\ (a.type.base = "problem" /\ a.type.suffix = "json"))

\* ProblemRegistry.decode: the status member of the payload, else the status of the response.
ProblemStatus(a) == IF a.member # 0 THEN a.member ELSE a.status

ProblemType(a) == IF a.uri \in problems THEN a.uri ELSE "Problem"

\* NullableOperation._matches.
Nullified(o, a) ==
    \/ ProblemStatus(a) \in o.nullify.statuses
    \/ o.nullify.types \cap {"Problem", ProblemType(a)} # {}

Outcome(o, a) ==
    IF a.status \in 200..299 THEN Decode(o, a)
    ELSE IF ~IsProblem(a) THEN "failed"
    ELSE IF Nullified(o, a) THEN "null" ELSE "problem"

\* The response arrives, is read, decoded and then closed in the finally of _decode_response.
Receive ==
    /\ stage = "sending"
    /\ \E a \in Answers :
           /\ answer' = a.type
           /\ outcome' = Outcome(op, a)
    /\ stage' = "releasing"
    /\ UNCHANGED <<encoders, decoders, problems, transport, body, op, adapted, native>>

Release ==
    /\ stage = "releasing"
    /\ EndExchange(outcome)
    /\ UNCHANGED <<encoders, decoders, problems, transport, body>>

ExchangeNext ==
    \/ \E installed \in SUBSET Optional : Open(installed)
    \/ RegisterCodec
    \/ RegisterProblem
    \/ CloseTransport
    \/ CloseBody
    \/ Execute
    \/ Adapt
    \/ Send
    \/ SendFails
    \/ Receive
    \/ Release

ExchangeSpec == ExchangeInit /\ [][ExchangeNext]_exchangeVars
-----------------------------------------------------------------------------
(* What an exchange promises. *)

\* "Generated Accept values include only installed decoders" (README.md line 188): a response
\* of a type the transport asked for, and that a declaration of its status accepts, never
\* fails for want of a decoder, whatever ranges and registries there are.  Operations with
\* binary responses are excepted: one of those makes its types acceptable at any status.
NegotiatedDecodes ==
    (/\ stage = "releasing" /\ outcome = "noDecoder"
     /\ ~op.acceptGiven
     /\ BinaryTypes(op) = {})
        => \A m \in native.accept : ~Matches(m, answer)

\* The content of a request is what its Content-Type header says, whether that came from the
\* application, the declaration or a default (_transport.py lines 164-228).
BodyMatchesContentType ==
    (stage = "sending" /\ native.codec \notin {"none", "stream", "raw", "multipart"})
        => \E m \in Supports(native.codec) : Matches(m, native.type)

\* The text of a piece of the path: its own text, or the value of the first parameter of its
\* name, or what is supplied; a plain template keeps a placeholder without a value.
Piece(o, piece) ==
    LET path == Located(o.parameters, "path")
        named == Named(path, piece.text) IN
    CASE piece.literal -> Unquoted(piece.text)
      [] ~piece.literal /\ named # {} -> PathText(path[Min(named)])
      [] ~piece.literal /\ named = {} /\ ~o.template.uri -> Placeholder(piece.text)
      [] OTHER -> Quoted(o.supplied[piece.text], FALSE)

\* The path (all before the first ?) is the template, each name replaced once by its own value.
PathArrives(o, target) ==
    LET path == FlattenSeq([i \in DOMAIN o.template.pieces |-> Piece(o, o.template.pieces[i])]) IN
    Split(target, Mark("?"))[1] = Split(path, Mark("?"))[1]

\* No text of a URI template, and no value supplied to it, has the text of a token.
TokenFree(o) ==
    o.template.uri =>
        /\ \A i \in DOMAIN o.template.pieces : Tokenless(o.template.pieces[i].text)
        /\ \A name \in DOMAIN o.supplied : Tokenless(o.supplied[name])

\* What the application put into parameters is what a server takes out: in the path each
\* placeholder is replaced once, by its own value, also if a value looks like a placeholder;
\* split at & and =, the query (all after the first ?) has the names and values of its
\* parameters, and a list split at its commas has its items (parameters.py, _transport.py lines
\* 132-158).  Two cases are excepted: parameters with allow_reserved, which ask for delimiters,
\* and texts of a URI template with one of the tokens of lines 139-141, which the code replaces too.
ParametersArrive ==
    (stage = "sending" /\ TokenFree(op) /\ \A i \in DOMAIN op.parameters : ~op.parameters[i].reserved) =>
        LET address == Split(native.target, Mark("?"))
            pairs == PairsOf(op.parameters)
            query == Located(op.parameters, "query")
            items == [i \in DOMAIN Parts(query[1]) |-> Quoted(query[1].value[i], FALSE)] IN
        /\ PathArrives(op, native.target)
        /\ pairs # <<>> =>
              LET sent == Split(SubSeq(native.target, Len(address[1]) + 2, Len(native.target)), Mark("&")) IN
              \A i \in DOMAIN pairs : Split(sent[Len(sent) - Len(pairs) + i], Mark("=")) = pairs[i]
        /\ (Len(query) = 1 /\ query[1].kind = "array" /\ query[1].explode = {FALSE} /\ query[1].value # <<>>
              /\ EffectiveStyle(query[1]) = "form") => Split(pairs[1][2], Mark(",")) = items
=============================================================================
