----------------------------- MODULE MediaTypes -----------------------------
(***************************************************************************)
(* Media types and the registries that map them to codecs                  *)
(* (src/sunday/media.py, codecs.py, cbor.py, xml.py, yaml.py).             *)
(*                                                                         *)
(* The subtype "problem+json" has the base "problem" and the suffix        *)
(* "json".  Parameters play no part in matching and are left out.          *)
(***************************************************************************)
EXTENDS Naturals, Sequences, SequencesExt

Media(type, base, suffix) == [type |-> type, base |-> base, suffix |-> suffix]

Plain(type, base) == Media(type, base, "")

MediaType == [type : STRING, base : STRING, suffix : STRING]

\* A header that is missing, and one that is no media type.
Absent == Plain("absent", "absent")
Invalid == Plain("invalid", "invalid")

\* MediaType.matches: the range accepts the actual type.
Matches(range, actual) ==
    /\ range.type \in {"*", actual.type}
    /\ \/ range.base = "*" /\ range.suffix = ""
       \/ range.base = actual.base /\ range.suffix = actual.suffix
       \/ range.base = "*" /\ range.suffix = actual.suffix

IsJson(m) == m.suffix = "json" \/ (m.base = "json" /\ m.suffix = "")

\* The media_types of the built-in codecs, and of one an application may add.
Supports(codec) ==
    CASE codec = "json"   -> {Plain("application", "json"), Media("application", "*", "json")}
      [] codec = "cbor"   -> {Plain("application", "cbor"), Media("application", "*", "cbor")}
      [] codec = "xml"    -> {Plain("application", "xml"), Media("application", "*", "xml"), Plain("text", "xml")}
      [] codec = "yaml"   -> {Plain("application", "yaml"), Media("application", "*", "yaml"), Plain("text", "yaml")}
      [] codec = "form"   -> {Plain("application", "form")}
      [] codec = "text"   -> {Plain("text", "*")}
      [] codec = "binary" -> {Plain("application", "octet-stream")}
      [] codec = "custom" -> {Plain("application", "*")}

Optionally(codec, installed) == IF codec \in installed THEN <<codec>> ELSE <<>>

\* _default_codecs: the preference order, with the optional codecs that are installed.
Defaults(installed) ==
    <<"json">> \o Optionally("cbor", installed) \o Optionally("xml", installed) \o Optionally("yaml", installed)
               \o <<"form", "text", "binary">>

Registered(registry, codec, first) ==
    IF first THEN <<codec>> \o registry ELSE Append(registry, codec)

\* find: the first codec that supports the type, or "none".
Find(registry, m) ==
    LET i == SelectInSeq(registry, LAMBDA c : \E supported \in Supports(c) : Matches(supported, m))
    IN  IF i = 0 THEN "none" ELSE registry[i]

\* What a codec can encode: forms and XML are mappings, octets are bytes.
Encodes(codec, body) ==
    CASE codec \in {"form", "xml"} -> body = "mapping"
      [] codec = "binary" -> body = "bytes"
      [] OTHER -> TRUE
=============================================================================
