----------------------------- MODULE OAuthProofs -----------------------------
(***************************************************************************)
(* What OAuthProvider promises, for every number of calls, codes, requests *)
(* and documents and every bound of the consumed codes.                    *)
(***************************************************************************)
EXTENDS OAuthProvider, FiniteSetTheorems, TLAPS

\* The induction: a code that was sent is consumed, the consumed codes fit their bound, and
\* whatever waits for the application or for a token endpoint was verified.
CodesInv ==
    /\ \A k \in Codes : presented[k] <= 1
    /\ \A k \in Codes : presented[k] > 0 => k \in consumed

BoundInv == IsFiniteSet(consumed) /\ Cardinality(consumed) <= MaxCodes

\* A suspended call keeps the client it was made on: options are set once, before any call, and a
\* call that waits for a discovery document has an issuer to compare it with.
VerifiedInv ==
    /\ ExchangeVerified
    /\ \A c \in Calls : frame[c].at # "idle" => constructed
    /\ \A c \in Calls : frame[c].at = "discovering" => client.issuer

LEMMA Members ==
    /\ NoRequest \in Request /\ NoDocument \in Document /\ Unset \in [authentication : Methods, issuer : BOOLEAN, interactive : BOOLEAN]
    /\ Requests \subseteq Request /\ Documents \subseteq Document
BY OAuthAssumption
DEF NoRequest, NoDocument, Unset, Request, Document, Url, Methods, Flows

Frame == [at : {"idle", "discovering", "authorizing", "exchanging"}, renews : BOOLEAN,
          request : Request, document : Document]

LEMMA IdleFrame == Idle \in Frame
BY Members DEF Idle, Frame

\* A call that goes on is suspended with its own frame, or ends.
LEMMA ProceedMoves ==
    ASSUME OAuthTypeOK, NEW c \in Calls, NEW f \in Frame, Proceed(c, f)
    PROVE  \/ \E where \in {"authorizing", "exchanging"} :
                  frame' = [frame EXCEPT ![c] = [f EXCEPT !.at = where]] /\ result' = result
           \/ \E kind \in Outcomes : frame' = [frame EXCEPT ![c] = Idle] /\ result' = [result EXCEPT ![c] = kind]
BY DEF Proceed, Exchange, Suspend, End, Outcomes

LEMMA TypeStep == OAuthTypeOK /\ [OAuthNext]_oauthVars => OAuthTypeOK'
<1> SUFFICES ASSUME OAuthTypeOK, [OAuthNext]_oauthVars PROVE OAuthTypeOK'
  OBVIOUS
<1>f. /\ frame \in [Calls -> Frame] /\ result \in [Calls -> Outcomes]
      /\ frame' \in [Calls -> Frame] /\ result' \in [Calls -> Outcomes]
      /\ UNCHANGED <<constructed, client>>
      /\ consumed' \subseteq Codes /\ presented' \in [Codes -> 0..2]
      => OAuthTypeOK'
  BY DEF OAuthTypeOK, Frame
<1>t. frame \in [Calls -> Frame] /\ result \in [Calls -> Outcomes] /\ consumed \subseteq Codes /\ presented \in [Codes -> 0..2]
  BY DEF OAuthTypeOK, Frame
<1>e. ASSUME NEW c \in Calls, NEW kind \in Outcomes, End(c, kind)
      PROVE  frame' \in [Calls -> Frame] /\ result' \in [Calls -> Outcomes]
  BY <1>e, <1>t, IdleFrame DEF End
<1>s. ASSUME NEW c \in Calls, NEW f \in Frame, NEW where \in {"discovering", "authorizing", "exchanging"}, Suspend(c, f, where)
      PROVE  frame' \in [Calls -> Frame] /\ result' \in [Calls -> Outcomes]
  <2>1. [f EXCEPT !.at = where] \in Frame
    BY DEF Frame
  <2> QED
    BY <1>s, <1>t, <2>1 DEF Suspend
<1>p. ASSUME NEW c \in Calls, NEW f \in Frame, Proceed(c, f)
      PROVE  frame' \in [Calls -> Frame] /\ result' \in [Calls -> Outcomes]
  BY <1>p, <1>e, <1>s, ProceedMoves DEF Suspend, End
<1>1. CASE UNCHANGED oauthVars
  BY <1>1, <1>t, <1>f DEF oauthVars
<1>2. CASE Construct
  BY <1>2 DEF Construct, OAuthTypeOK
<1>3. ASSUME NEW c \in Calls, Begin(c) PROVE OAuthTypeOK'
  <2>1. PICK q \in Requests, refreshing \in BOOLEAN :
           LET f == [Idle EXCEPT !.request = q, !.renews = refreshing] IN
           \/ q.discovery = "absent" /\ Proceed(c, f)
           \/ Suspend(c, f, "discovering")
           \/ End(c, "unavailable")
    BY <1>3 DEF Begin
  <2> DEFINE f == [Idle EXCEPT !.request = q, !.renews = refreshing]
  <2>2. f \in Frame
    BY IdleFrame, Members DEF Frame
  <2>3. frame' \in [Calls -> Frame] /\ result' \in [Calls -> Outcomes]
    BY <2>1, <2>2, <1>e, <1>s, <1>p DEF Outcomes
  <2> QED
    BY <2>3, <1>t, <1>f, <1>3 DEF Begin
<1>4. ASSUME NEW c \in Calls, Discovered(c) PROVE OAuthTypeOK'
  <2>1. PICK d \in Documents :
           \/ Proceed(c, [frame[c] EXCEPT !.request = Resolve(frame[c].request, d), !.document = d])
           \/ End(c, "unavailable")
    BY <1>4 DEF Discovered
  <2>2. Resolve(frame[c].request, d) \in Request
    BY <1>t, Members DEF Resolve, Frame, Request, Document
  <2>3. [frame[c] EXCEPT !.request = Resolve(frame[c].request, d), !.document = d] \in Frame
    BY <2>2, <1>t, Members DEF Frame
  <2>4. frame' \in [Calls -> Frame] /\ result' \in [Calls -> Outcomes]
    BY <2>1, <2>3, <1>e, <1>p DEF Outcomes
  <2> QED
    BY <2>4, <1>t, <1>f, <1>4 DEF Discovered
<1>5. ASSUME NEW c \in Calls, Granted(c) PROVE OAuthTypeOK'
  <2>1. PICK k \in Codes :
           \/ End(c, "authorization") /\ UNCHANGED <<consumed, presented>>
           \/ /\ Consume(k)
              /\ Suspend(c, frame[c], "exchanging") \/ End(c, "unavailable")
              /\ \/ presented' = [presented EXCEPT ![k] = IF @ = 2 THEN 2 ELSE @ + 1]
                 \/ presented' = presented
    BY <1>5 DEF Granted, Exchange
  <2>2. frame' \in [Calls -> Frame] /\ result' \in [Calls -> Outcomes]
    BY <2>1, <1>t, <1>e, <1>s DEF Outcomes
  <2>3. consumed' \subseteq Codes /\ presented' \in [Codes -> 0..2]
    BY <2>1, <1>t DEF Consume
  <2> QED
    BY <2>2, <2>3, <1>t, <1>f, <1>5 DEF Granted
<1>6. ASSUME NEW c \in Calls, Fails(c) \/ Refused(c) \/ Answered(c) PROVE OAuthTypeOK'
  <2>1. PICK kind \in Outcomes : End(c, kind)
    BY <1>6 DEF Fails, Refused, Answered, Meaning, Outcomes
  <2>2. frame' \in [Calls -> Frame] /\ result' \in [Calls -> Outcomes]
    BY <2>1, <1>e
  <2> QED
    BY <2>2, <1>6, <1>t, <1>f DEF Fails, Refused, Answered
<1> QED
  BY <1>1, <1>2, <1>3, <1>4, <1>5, <1>6 DEF OAuthNext, OAuthStep

\* Whatever calls interleave, fail or are cancelled, the provider keeps its types.
THEOREM TypeCorrect == OAuthSpec => []OAuthTypeOK
<1>1. ASSUME OAuthInit PROVE OAuthTypeOK
  <2>1. frame \in [Calls -> Frame]
    BY <1>1, IdleFrame DEF OAuthInit
  <2>2. /\ constructed \in BOOLEAN /\ consumed \subseteq Codes
        /\ client \in [authentication : Methods, issuer : BOOLEAN, interactive : BOOLEAN]
    BY <1>1, Members DEF OAuthInit
  <2>3. result \in [Calls -> Outcomes] /\ presented \in [Codes -> 0..2]
    BY <1>1 DEF OAuthInit, Outcomes
  <2> QED
    BY <2>1, <2>2, <2>3 DEF OAuthTypeOK, Frame
<1> QED
  BY <1>1, TypeStep, PTL DEF OAuthSpec
-----------------------------------------------------------------------------
LEMMA CodesStep == OAuthTypeOK /\ CodesInv /\ [OAuthNext]_oauthVars => CodesInv'
<1> SUFFICES ASSUME OAuthTypeOK, CodesInv, [OAuthNext]_oauthVars PROVE CodesInv'
  OBVIOUS
<1>u. UNCHANGED <<consumed, presented>> => CodesInv'
  BY DEF CodesInv
<1>1. ASSUME NEW c \in Calls, Granted(c) PROVE CodesInv'
  <2>1. CASE UNCHANGED <<consumed, presented>>
    BY <2>1, <1>u
  <2>2. ASSUME NEW k \in Codes, MayConsume(k), Consume(k),
               \/ presented' = [presented EXCEPT ![k] = IF @ = 2 THEN 2 ELSE @ + 1]
               \/ presented' = presented
        PROVE  CodesInv'
    <3>1. k \notin consumed /\ consumed' = consumed \cup {k} /\ presented \in [Codes -> 0..2]
      BY <2>2 DEF MayConsume, Consume, OAuthTypeOK
    <3>2. presented[k] = 0
      BY <3>1 DEF CodesInv
    <3> QED
      BY <2>2, <3>1, <3>2 DEF CodesInv
  <2> QED
    BY <1>1, <2>1, <2>2 DEF Granted
<1>2. CASE UNCHANGED oauthVars \/ Construct
  BY <1>2, <1>u DEF oauthVars, Construct
<1>3. ASSUME NEW c \in Calls, Begin(c) \/ Discovered(c) \/ Fails(c) \/ Refused(c) \/ Answered(c)
      PROVE  CodesInv'
  BY <1>3, <1>u DEF Begin, Discovered, Fails, Refused, Answered
<1> QED
  BY <1>1, <1>2, <1>3 DEF OAuthNext, OAuthStep

\* However many acquisitions share a provider and however their callbacks answer, fail or are
\* cancelled, no code is sent to a token endpoint twice (_oauth.py lines 94-105).
THEOREM CodesOnce == OAuthSpec => []CodePresentedOnce
<1>1. OAuthInit => CodesInv
  BY DEF OAuthInit, CodesInv
<1>2. CodesInv => CodePresentedOnce
  BY DEF CodesInv, CodePresentedOnce
<1> QED
  BY <1>1, <1>2, CodesStep, TypeCorrect, PTL DEF OAuthSpec
-----------------------------------------------------------------------------
LEMMA BoundStep == BoundInv /\ [OAuthNext]_oauthVars => BoundInv'
<1> SUFFICES ASSUME BoundInv, [OAuthNext]_oauthVars PROVE BoundInv'
  OBVIOUS
<1>u. UNCHANGED consumed => BoundInv'
  BY DEF BoundInv
<1>1. ASSUME NEW c \in Calls, Granted(c) PROVE BoundInv'
  <2>1. ASSUME NEW k \in Codes, MayConsume(k), Consume(k) PROVE BoundInv'
    <3>1. IsFiniteSet(consumed \cup {k}) /\ Cardinality(consumed \cup {k}) = Cardinality(consumed) + 1
      BY <2>1, FS_AddElement DEF BoundInv, MayConsume
    <3>2. Cardinality(consumed) \in Nat
      BY FS_CardinalityType DEF BoundInv
    <3> QED
      BY <2>1, <3>1, <3>2, OAuthAssumption DEF BoundInv, MayConsume, Full, Consume
  <2> QED
    BY <1>1, <1>u, <2>1 DEF Granted
<1>2. CASE UNCHANGED oauthVars \/ Construct
  BY <1>2, <1>u DEF oauthVars, Construct
<1>3. ASSUME NEW c \in Calls, Begin(c) \/ Discovered(c) \/ Fails(c) \/ Refused(c) \/ Answered(c)
      PROVE  BoundInv'
  BY <1>3, <1>u DEF Begin, Discovered, Fails, Refused, Answered
<1> QED
  BY <1>1, <1>2, <1>3 DEF OAuthNext, OAuthStep

\* The consumed codes stay within their bound, whatever the bound is and however many calls
\* passed the first test of it together (_oauth.py lines 92-105).
THEOREM CodesBounded == OAuthSpec => []ConsumedBounded
<1>1. OAuthInit => BoundInv
  BY FS_EmptySet, OAuthAssumption DEF OAuthInit, BoundInv
<1>2. BoundInv => ConsumedBounded
  BY DEF BoundInv, ConsumedBounded
<1> QED
  BY <1>1, <1>2, BoundStep, PTL DEF OAuthSpec
-----------------------------------------------------------------------------
(* A frame is good when the endpoints it may use were verified by its own document. *)

Good(f) ==
    (f.at \in {"authorizing", "exchanging"} /\ f.request.discovery # "absent") =>
        client.issuer /\ f.document.trusted /\ MethodOffered(f.document, f.request.flow)

Sound(f) ==
    /\ Good(f)
    /\ f.at # "idle" => constructed
    /\ f.at = "discovering" => client.issuer

LEMMA VerifiedIsSound == VerifiedInv <=> \A c \in Calls : Sound(frame[c])
BY DEF VerifiedInv, ExchangeVerified, Sound, Good

\* A step of one call keeps the others as they were.
LEMMA SoundStep ==
    ASSUME OAuthTypeOK, VerifiedInv, NEW c \in Calls, NEW f, frame' = [frame EXCEPT ![c] = f],
           Sound(f), UNCHANGED <<constructed, client>>
    PROVE  VerifiedInv'
<1>1. \A x \in Calls : frame'[x] = IF x = c THEN f ELSE frame[x]
  BY DEF OAuthTypeOK
<1>2. \A x \in Calls : Sound(frame'[x])
  BY <1>1, VerifiedIsSound
<1>3. \A x \in Calls : Sound(frame[x])'
  BY <1>2 DEF Sound, Good, MethodOffered
<1> QED
  BY <1>3 DEF VerifiedInv, ExchangeVerified, Sound, Good

LEMMA SoundEnd ==
    ASSUME OAuthTypeOK, VerifiedInv, NEW c \in Calls, NEW kind, End(c, kind), UNCHANGED <<constructed, client>>
    PROVE  VerifiedInv'
<1>1. Sound(Idle)
  BY DEF Sound, Good, Idle
<1> QED
  BY <1>1, SoundStep DEF End

\* The frame a call may go on with, wherever it is suspended next.
LEMMA SoundSuspend ==
    ASSUME OAuthTypeOK, VerifiedInv, NEW c \in Calls, NEW f \in Frame,
           NEW where \in {"authorizing", "exchanging"}, Suspend(c, f, where),
           constructed, UNCHANGED <<constructed, client>>,
           f.request.discovery # "absent" =>
               client.issuer /\ f.document.trusted /\ MethodOffered(f.document, f.request.flow)
    PROVE  VerifiedInv'
<1> DEFINE g == [f EXCEPT !.at = where]
<1>1. g.at = where /\ g.request = f.request /\ g.document = f.document
  BY DEF Frame
<1>2. Sound(g)
  BY <1>1 DEF Sound, Good
<1> QED
  BY <1>2, SoundStep DEF Suspend

LEMMA SoundProceed ==
    ASSUME OAuthTypeOK, VerifiedInv, NEW c \in Calls, NEW f \in Frame, Proceed(c, f),
           constructed, UNCHANGED <<constructed, client>>,
           f.request.discovery # "absent" =>
               client.issuer /\ f.document.trusted /\ MethodOffered(f.document, f.request.flow)
    PROVE  VerifiedInv'
<1>1. \/ \E where \in {"authorizing", "exchanging"} : Suspend(c, f, where)
      \/ \E kind \in Outcomes : End(c, kind)
  BY DEF Proceed, Exchange, Outcomes
<1> QED
  BY <1>1, SoundEnd, SoundSuspend

LEMMA VerifiedStep == OAuthTypeOK /\ VerifiedInv /\ [OAuthNext]_oauthVars => VerifiedInv'
<1> SUFFICES ASSUME OAuthTypeOK, VerifiedInv, [OAuthNext]_oauthVars PROVE VerifiedInv'
  OBVIOUS
<1>t. frame \in [Calls -> Frame]
  BY DEF OAuthTypeOK, Frame
<1>1. CASE UNCHANGED oauthVars
  BY <1>1 DEF oauthVars, VerifiedInv, ExchangeVerified, MethodOffered
<1>2. CASE Construct
  <2>1. \A c \in Calls : frame'[c].at = "idle"
    BY <1>2 DEF Construct, VerifiedInv
  <2> QED
    BY <2>1 DEF VerifiedInv, ExchangeVerified
<1>3. ASSUME NEW c \in Calls, Begin(c) PROVE VerifiedInv'
  <2> PICK q \in Requests, refreshing \in BOOLEAN :
         LET f == [Idle EXCEPT !.request = q, !.renews = refreshing] IN
         \/ q.discovery = "absent" /\ Proceed(c, f)
         \/ client.issuer /\ Suspend(c, f, "discovering")
         \/ End(c, "unavailable")
    BY <1>3 DEF Begin
  <2> DEFINE f == [Idle EXCEPT !.request = q, !.renews = refreshing]
  <2>0. UNCHANGED <<constructed, client>> /\ constructed
    BY <1>3 DEF Begin
  <2>1. f \in Frame /\ f.request = q
    BY IdleFrame, Members DEF Frame
  <2>2. CASE q.discovery = "absent" /\ Proceed(c, f)
    BY <2>0, <2>1, <2>2, SoundProceed
  <2>3. CASE client.issuer /\ Suspend(c, f, "discovering")
    <3> DEFINE g == [f EXCEPT !.at = "discovering"]
    <3>1. g.at = "discovering"
      BY <2>1 DEF Frame
    <3>2. Sound(g)
      BY <3>1, <2>0, <2>3 DEF Sound, Good
    <3> QED
      BY <3>2, <2>0, <2>3, SoundStep DEF Suspend
  <2>4. CASE End(c, "unavailable")
    BY <2>0, <2>4, SoundEnd
  <2> QED
    BY <2>2, <2>3, <2>4
<1>4. ASSUME NEW c \in Calls, Discovered(c) PROVE VerifiedInv'
  <2>0. UNCHANGED <<constructed, client>> /\ constructed /\ client.issuer
    BY <1>4 DEF Discovered, VerifiedInv
  <2>1. CASE End(c, "unavailable")
    BY <2>0, <2>1, SoundEnd
  <2>2. ASSUME NEW d \in Documents, Verified(d, frame[c].request),
               Proceed(c, [frame[c] EXCEPT !.request = Resolve(frame[c].request, d), !.document = d])
        PROVE  VerifiedInv'
    <3> DEFINE q == Resolve(frame[c].request, d)
               f == [frame[c] EXCEPT !.request = q, !.document = d]
    <3>1. q \in Request /\ q.flow = frame[c].request.flow
      BY <1>t, Members DEF Resolve, Frame, Request, Document
    <3>2. f \in Frame /\ f.request = q /\ f.document = d
      BY <3>1, <1>t, Members DEF Frame
    <3> QED
      BY <2>0, <2>2, <3>1, <3>2, SoundProceed DEF Verified
  <2> QED
    BY <1>4, <2>1, <2>2 DEF Discovered
<1>5. ASSUME NEW c \in Calls, Granted(c) PROVE VerifiedInv'
  <2>0. UNCHANGED <<constructed, client>> /\ constructed
    BY <1>5 DEF Granted, VerifiedInv
  <2>1. \/ End(c, "authorization") \/ End(c, "unavailable")
        \/ Suspend(c, frame[c], "exchanging")
    BY <1>5 DEF Granted, Exchange
  <2>2. frame[c].request.discovery # "absent" =>
            client.issuer /\ frame[c].document.trusted /\ MethodOffered(frame[c].document, frame[c].request.flow)
    BY <1>5 DEF Granted, VerifiedInv, ExchangeVerified
  <2> QED
    BY <1>t, <2>0, <2>1, <2>2, SoundEnd, SoundSuspend
<1>6. ASSUME NEW c \in Calls, Fails(c) \/ Refused(c) \/ Answered(c) PROVE VerifiedInv'
  <2>1. UNCHANGED <<constructed, client>> /\ \E kind \in Outcomes : End(c, kind)
    BY <1>6 DEF Fails, Refused, Answered, Meaning, Outcomes
  <2> QED
    BY <2>1, SoundEnd
<1> QED
  BY <1>1, <1>2, <1>3, <1>4, <1>5, <1>6 DEF OAuthNext, OAuthStep

\* No call sends a grant to a discovered endpoint unless the document it fetched itself came
\* from the configured issuer and offers the client's method (_oauth.py lines 140-159).
THEOREM EndpointsVerified == OAuthSpec => []ExchangeVerified
<1>1. OAuthInit => VerifiedInv
  BY DEF OAuthInit, VerifiedInv, ExchangeVerified, Idle
<1>2. VerifiedInv => ExchangeVerified
  BY DEF VerifiedInv
<1> QED
  BY <1>1, <1>2, VerifiedStep, TypeCorrect, PTL DEF OAuthSpec
=============================================================================
