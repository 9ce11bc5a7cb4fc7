----------------------------- MODULE Parameters -----------------------------
(***************************************************************************)
(* Serialization of operation parameters (src/sunday/parameters.py) and    *)
(* the request target made of them (httpx/_transport.py                    *)
(* _build_validated_request, uri.py).                                      *)
(*                                                                         *)
(* A text is a sequence of characters, one of a wire text says whether it  *)
(* is there as it is (raw) or percent-encoded.  The value of a parameter   *)
(* is absent, a scalar, an array or an object: a sequence of texts, or of  *)
(* keys with their texts (more than one, or none, in queries only).        *)
(***************************************************************************)
EXTENDS Naturals, Sequences, SequencesExt

CONSTANT PathTokens     \* the texts __SUNDAY_PATH_PARAMETER_0__, ..._1__ and so on, each as one character

Unreserved == {"a", "b", "c"} \cup Range(PathTokens)
Reserved == {",", "&", "=", "?", "/", ";"}

ASSUME TokensAssumption ==
    /\ PathTokens \in Seq(STRING)
    /\ \A i, j \in DOMAIN PathTokens : PathTokens[i] = PathTokens[j] => i = j
    /\ Range(PathTokens) \cap (Reserved \cup {"{", "}"}) = {}

Texts == Seq(STRING)

Tokenless(text) == \A i \in DOMAIN text : text[i] \notin Range(PathTokens)

\* ParameterSpec.
ParameterSpecs ==
    LET Spec(kinds, values) ==
            [name : Texts, in : {"path", "query", "header", "cookie"}, kind : kinds, value : values,
             style : STRING, explode : SUBSET BOOLEAN, reserved : BOOLEAN]
    IN  Spec({"absent", "scalar", "array"}, Seq(Texts)) \cup Spec({"object"}, Seq(Texts \X Seq(Texts)))

Unquoted(text) == [i \in DOMAIN text |-> [c |-> text[i], raw |-> TRUE]]

\* Mutant: characters that are neither reserved nor unreserved stay.
QuotedLoosely(text, keep) ==
    [i \in DOMAIN text |-> [c |-> text[i], raw |-> keep \/ text[i] \notin Reserved]]

\* _quote.
Quoted(text, keep) ==
    [i \in DOMAIN text |-> [c |-> text[i], raw |-> text[i] \in Unreserved \/ (keep /\ text[i] \in Reserved)]]

Mark(c) == <<[c |-> c, raw |-> TRUE]>>
Escaped(c) == <<[c |-> c, raw |-> FALSE]>>

\* str.join.
Delimited(parts, d) == FlattenSeq([i \in DOMAIN parts |-> IF i = 1 THEN parts[i] ELSE d \o parts[i]])

\* str.split, and with it replace: one more character of the text.
NextPiece(parts, c, d) ==
    LET hold == Append(Last(parts), c) IN
    IF IsSuffix(d, hold)
    THEN Append([parts EXCEPT ![Len(parts)] = SubSeq(hold, 1, Len(hold) - Len(d))], <<>>)
    ELSE [parts EXCEPT ![Len(parts)] = hold]

Split(text, d) == FoldLeft(LAMBDA parts, c : NextPiece(parts, c, d), <<<<>>>>, text)
-----------------------------------------------------------------------------
EffectiveStyle(p) ==
    IF p.style # "default" THEN p.style ELSE IF p.in \in {"query", "cookie"} THEN "form" ELSE "simple"

\* explode: {} when not given.
EffectiveExplode(p) == p.explode = {TRUE} \/ (p.explode = {} /\ EffectiveStyle(p) = "form")

\* Paths and queries are quoted, headers and cookies are not.
Coded(p, text) == IF p.in \in {"path", "query"} THEN Quoted(text, p.reserved) ELSE Unquoted(text)

Members(p) ==
    FlattenSeq([i \in DOMAIN p.value |->
        [j \in DOMAIN p.value[i][2] |-> <<Coded(p, p.value[i][1]), Coded(p, p.value[i][2][j])>>]])

Assigned(pairs) == [i \in DOMAIN pairs |-> pairs[i][1] \o Mark("=") \o pairs[i][2]]

\* The parts of a value: its members as assignments, or keys and values in turn.
Parts(p) ==
    IF p.kind # "object" THEN [i \in DOMAIN p.value |-> Coded(p, p.value[i])]
    ELSE IF EffectiveExplode(p) THEN Assigned(Members(p)) ELSE FlattenSeq(Members(p))

\* _encode_path, and _encode_header for the simple style.
PathText(p) ==
    LET name == Mark(";") \o Quoted(p.name, FALSE) \o Mark("=") IN
    CASE EffectiveStyle(p) = "simple" -> Delimited(Parts(p), Mark(","))
      [] EffectiveStyle(p) = "label" ->
             Mark(".") \o Delimited(Parts(p), Mark(IF EffectiveExplode(p) THEN "." ELSE ","))
      [] EffectiveStyle(p) = "matrix" ->
             IF p.kind = "object" /\ EffectiveExplode(p)
             THEN FlattenSeq([i \in DOMAIN Parts(p) |-> Mark(";") \o Parts(p)[i]])
             ELSE name \o Delimited(Parts(p), IF EffectiveExplode(p) THEN name ELSE Mark(","))

\* The form style of queries and cookies.
FormPairs(p) ==
    LET name == Coded(p, p.name) IN
    IF p.kind = "object" /\ EffectiveExplode(p) THEN Members(p)
    ELSE IF p.kind = "array" /\ EffectiveExplode(p) THEN [i \in DOMAIN p.value |-> <<name, Parts(p)[i]>>]
    ELSE <<<<name, Delimited(Parts(p), Mark(","))>>>>

\* _encode_query.
QueryPairs(p) ==
    LET name == Coded(p, p.name) IN
    CASE p.kind = "object" /\ EffectiveStyle(p) = "deepObject" ->
             [i \in DOMAIN Members(p) |-> <<name \o Escaped("[") \o Members(p)[i][1] \o Escaped("]"), Members(p)[i][2]>>]
      [] p.kind = "array" /\ EffectiveStyle(p) = "spaceDelimited" -> <<<<name, Delimited(Parts(p), Escaped(" "))>>>>
      [] p.kind = "array" /\ EffectiveStyle(p) = "pipeDelimited" -> <<<<name, Delimited(Parts(p), Mark("|"))>>>>
      [] OTHER -> FormPairs(p)

\* The styles of a location; others are refused.
Styles(p) ==
    CASE p.in = "path" -> {"simple", "label", "matrix"}
      [] p.in = "header" -> {"simple"}
      [] p.in = "cookie" -> {"form"}
      [] p.in = "query" -> IF p.kind = "object" THEN {"form", "deepObject"}
                           ELSE {"form", "spaceDelimited", "pipeDelimited"}

\* encode_parameters: those of a location that have a value.
Located(parameters, where) ==
    LET Chosen(p) == IF p.in = where /\ p.kind # "absent" THEN <<p>> ELSE <<>>
    IN  FlattenSeq([i \in DOMAIN parameters |-> Chosen(parameters[i])])

Serializable(parameters) ==
    \A i \in DOMAIN parameters : parameters[i].kind # "absent" => EffectiveStyle(parameters[i]) \in Styles(parameters[i])

PairsOf(parameters) ==
    LET query == Located(parameters, "query") IN FlattenSeq([i \in DOMAIN query |-> QueryPairs(query[i])])

CookiesOf(parameters) ==
    LET cookies == Located(parameters, "cookie") IN FlattenSeq([i \in DOMAIN cookies |-> FormPairs(cookies[i])])

HeadersOf(parameters) ==
    LET headers == Located(parameters, "header") IN [i \in DOMAIN headers |-> <<headers[i].name, PathText(headers[i])>>]
-----------------------------------------------------------------------------
Placeholder(name) == Mark("{") \o Unquoted(name) \o Mark("}")

\* The places of the parameters of a name.
Named(path, name) == {i \in DOMAIN path : path[i].name = name}

\* replace of each token that was placed by its placeholder (in turn in the code, which is the
\* same as long as no parameter is named after a token).
Restored(text, path, placed) ==
    FlattenSeq([i \in DOMAIN text |->
        LET k == {j \in placed : Mark(PathTokens[j]) = <<text[i]>>} IN
        IF k = {} THEN <<text[i]>> ELSE Placeholder(path[Min(k)].name)])

\* The text of a template: literal pieces, and placeholders for expand_path.  In a URI template
\* a token takes the place of those of path parameters, the others are expanded with the values
\* supplied (uritemplate), and then the text of a token is a placeholder again, wherever it is.
TemplateText(template, parameters, supplied) ==
    LET path == Located(parameters, "path")
        Text(piece) ==
            CASE piece.literal -> Unquoted(piece.text)
              [] ~piece.literal /\ ~template.uri -> Placeholder(piece.text)
              [] ~piece.literal /\ template.uri /\ Named(path, piece.text) # {} ->
                     Mark(PathTokens[Min(Named(path, piece.text))])
              [] OTHER -> Quoted(supplied[piece.text], FALSE)
        expanded == FlattenSeq([i \in DOMAIN template.pieces |-> Text(template.pieces[i])])
        variables == {template.pieces[i].text : i \in {j \in DOMAIN template.pieces : ~template.pieces[j].literal}}
        placed == {Min(Named(path, name)) : name \in {n \in variables : Named(path, n) # {}}}
    IN  IF template.uri THEN Restored(expanded, path, placed) ELSE expanded

\* Names of a URI template for which there is no value.
MissingNames(template, parameters, supplied) ==
    {template.pieces[i].text : i \in {j \in DOMAIN template.pieces : template.uri /\ ~template.pieces[j].literal}}
        \ ({Located(parameters, "path")[i].name : i \in DOMAIN Located(parameters, "path")} \cup DOMAIN supplied)

\* expand_path: one parameter after the other, in the text the last one left; <<>> when a
\* parameter has no place.
Place(text, p) ==
    LET parts == Split(text, Placeholder(p.name)) IN
    IF Len(parts) = 1 THEN <<>> ELSE Delimited(parts, PathText(p))

ExpandPath(text, path) == FoldLeft(Place, text, path)

\* The path with the query; <<>> when it is refused.
Target(template, parameters, supplied) ==
    LET path == ExpandPath(TemplateText(template, parameters, supplied), Located(parameters, "path"))
        query == Delimited(Assigned(PairsOf(parameters)), Mark("&"))
        joint == IF \E i \in DOMAIN path : path[i] = Mark("?")[1] THEN Mark("&") ELSE Mark("?") IN
    IF MissingNames(template, parameters, supplied) # {} \/ path = <<>> THEN <<>>
    ELSE IF PairsOf(parameters) = <<>> THEN path ELSE path \o joint \o query
=============================================================================
