----------------------------- MODULE EventParser -----------------------------
(***************************************************************************)
(* EventParser of src/sunday/sse.py: an incremental parser of server-sent  *)
(* events, fed with chunks of bytes cut anywhere.                          *)
(*                                                                         *)
(* Bytes are abstract: "lead" and "trail" are the two pieces of the UTF-8  *)
(* sequence of a byte order mark, "data", "id" and "retry" are the name    *)
(* of a field with its colon, "7" is a digit.  Of the fields of an event,  *)
(* event behaves as id; retry-max and keepalive behave as retry.           *)
(* Left out are values that no byte here forms: an id with a NUL, which is *)
(* ignored, a retry-max of 0 and a number above 2^53 - 1, which are as if  *)
(* they were no numbers.                                                   *)
(***************************************************************************)
EXTENDS Naturals, FiniteSets, Sequences, SequencesExt

CONSTANTS
    MaxText,    \* how much text a server sends
    MaxChunk    \* the longest chunk

ASSUME ParserAssumption == MaxText \in Nat /\ MaxChunk \in Nat

Bytes == {"cr", "lf", "lead", "trail", "data", "id", "retry", "7"}

VARIABLES
    parser,     \* the fields of the object
    events,     \* the events it returned so far
    fed,        \* history: all bytes it was fed
    finished    \* finalize was called

parserVars == <<parser, events, fed, finished>>

\* A field that is absent is {}, else it has one value.
NoFrame == [data |-> <<>>, id |-> {}, retry |-> {}]

ParserInit ==
    /\ parser = [lead |-> FALSE, first |-> TRUE, skip |-> FALSE, line |-> <<>>, frame |-> NoFrame]
    /\ events = <<>>
    /\ fed = <<>>
    /\ finished = FALSE
-----------------------------------------------------------------------------
\* _milliseconds: a number, or nothing, also in the place of an earlier number.
Milliseconds(value, last) == IF value # <<>> /\ \A i \in DOMAIN value : value[i] = "7" THEN {value} ELSE {}

\* What a line that is not blank adds to the frame; a line without a field adds nothing.
Field(frame, line) ==
    LET value == Tail(line) IN
    CASE Head(line) = "data"  -> [frame EXCEPT !.data = Append(@, value)]
      [] Head(line) = "id"    -> [frame EXCEPT !.id = {value}]
      [] Head(line) = "retry" -> [frame EXCEPT !.retry = Milliseconds(value, @)]
      [] OTHER -> frame

\* _process_line and _dispatch.  A step of the parser is its state with the events returned.
ProcessLine(s) ==
    IF s.p.line # <<>>
    THEN [s EXCEPT !.p.frame = Field(@, s.p.line), !.p.line = <<>>]
    ELSE IF s.p.frame = NoFrame THEN s
    ELSE [p |-> [s.p EXCEPT !.frame = NoFrame], out |-> Append(s.out, s.p.frame)]

\* The loop of _consume.
Character(s, c) ==
    LET begun == [s EXCEPT !.p.first = FALSE]
        next == [begun EXCEPT !.p.skip = FALSE] IN
    CASE s.p.first /\ c = "bom" -> begun
      [] s.p.skip /\ c = "lf" -> next
      [] c = "cr" -> [ProcessLine(next) EXCEPT !.p.skip = TRUE]
      [] c = "lf" /\ ~s.p.skip -> ProcessLine(next)
      [] OTHER -> [next EXCEPT !.p.line = Append(@, c)]

\* The incremental decoder: the first piece of a character waits for the second; a piece
\* alone becomes a replacement character.
Byte(s, b) ==
    LET ready == [s EXCEPT !.p.lead = (b = "lead")]
        orphan == IF s.p.lead /\ b # "trail" THEN Character(ready, "bad") ELSE ready IN
    CASE b = "lead" -> orphan
      [] b = "trail" -> Character(ready, IF s.p.lead THEN "bom" ELSE "bad")
      [] OTHER -> Character(orphan, b)

\* Mutant: a feed forgets that the last one ended with a carriage return.
ResumedAfterCr(p) == [p EXCEPT !.skip = FALSE]

\* The state a feed goes on with.
Resumed(p) == p

Parsed(chunk) == FoldLeft(Byte, [p |-> Resumed(parser), out |-> events], chunk)

Feed ==
    /\ ~finished
    /\ \E n \in 1..MaxChunk : \E chunk \in [1..n -> Bytes] :
           /\ Len(fed) + n <= MaxText
           /\ fed' = fed \o chunk
           /\ parser' = Parsed(chunk).p
           /\ events' = Parsed(chunk).out
    /\ UNCHANGED finished

\* finalize: the decoder is flushed, then a line without an end and a frame without one.
Finalize ==
    /\ ~finished
    /\ finished' = TRUE
    /\ LET start == [p |-> parser, out |-> events]
           flushed == IF parser.lead THEN Character([start EXCEPT !.p.lead = FALSE], "bad") ELSE start
           lined == IF flushed.p.line = <<>> THEN flushed ELSE ProcessLine(flushed)
           last == ProcessLine(lined) IN
       /\ parser' = last.p
       /\ events' = last.out
    /\ UNCHANGED fed

ParserNext == Feed \/ Finalize

ParserSpec == ParserInit /\ [][ParserNext]_parserVars
-----------------------------------------------------------------------------
(* The events of a text, defined on all of it at once. *)

Ascending(S) == [k \in 1..Cardinality(S) |-> CHOOSE e \in S : Cardinality({x \in S : x <= e}) = k]

\* The elements of a sequence at some places, in their order.
Picked(s, places) == [k \in 1..Cardinality(places) |-> s[Ascending(places)[k]]]

\* Each byte is a character, except that a lead and its trail are one together.
CharacterAt(text, i) ==
    CASE text[i] = "lead" -> "bad"
      [] text[i] = "trail" -> IF i > 1 /\ text[i - 1] = "lead" THEN "bom" ELSE "bad"
      [] OTHER -> text[i]

CharacterEnds(text) ==
    {i \in DOMAIN text : ~(text[i] = "lead" /\ i < Len(text) /\ text[i + 1] = "trail")}

Characters(text) == Picked([i \in DOMAIN text |-> CharacterAt(text, i)], CharacterEnds(text))

WithoutMark(chars) == IF chars # <<>> /\ Head(chars) = "bom" THEN Tail(chars) ELSE chars

Decoded(text) == WithoutMark(Characters(text))

\* The lines of a text with an end: CR, LF or CR LF.
LineEnds(chars) ==
    {0} \cup {i \in DOMAIN chars :
                chars[i] = "cr" \/ (chars[i] = "lf" /\ ~(i > 1 /\ chars[i - 1] = "cr"))}

LineFrom(chars, i, j) == Picked(chars, {k \in i..j : chars[k] \notin {"cr", "lf"}})

LinesOf(chars) ==
    LET at == Ascending(LineEnds(chars)) IN
    [j \in 1..(Len(at) - 1) |-> LineFrom(chars, at[j] + 1, at[j + 1] - 1)]

\* The frame of the lines from i to j: its data in order, and of other fields the last.
FrameOf(lines, i, j) ==
    LET at(name) == {k \in i..j : Head(lines[k]) = name}
        value == [k \in i..j |-> Tail(lines[k])]
        lastOf(name) == {value[k] : k \in {m \in at(name) : \A l \in at(name) : l <= m}}
    IN  [data |-> Picked(value, at("data")),
         id |-> lastOf("id"),
         retry |-> {v \in lastOf("retry") : v # <<>> /\ \A k \in DOMAIN v : v[k] = "7"}]

BlankLines(lines) == {0} \cup {i \in DOMAIN lines : lines[i] = <<>>}

\* One event for each blank line whose frame is not empty.
EventsOf(lines) ==
    LET at == Ascending(BlankLines(lines))
        frame == [j \in 1..(Len(at) - 1) |-> FrameOf(lines, at[j] + 1, at[j + 1] - 1)]
    IN  Picked(frame, {j \in DOMAIN frame : frame[j] # NoFrame})

\* The events returned are those of the text as a whole, wherever it was cut into chunks, in
\* a CR LF, in a character or before a byte order mark; at the end an unfinished line and
\* frame count as finished (sse.py lines 59-141).
EventsOfWholeText ==
    events = EventsOf(LinesOf(Decoded(fed) \o IF finished THEN <<"lf", "lf">> ELSE <<>>))
=============================================================================
