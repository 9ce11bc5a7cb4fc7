--------------------------- MODULE ParametersProofs ---------------------------
(* The parameters of an operation arrive: what splitting a request target at its delimiters *)
(* gives back is what the transport joined with them, for texts of any length; in URI        *)
(* templates, for texts without those that stand for path parameters.                        *)
EXTENDS LibraryProofs
-----------------------------------------------------------------------------
(* Sequences: induction over them, and what they are flattened to. *)

Nonempty(s) == s # <<>>

\* A set with the empty sequence, and each sequence with one more element, has all sequences.
LEMMA SequenceInduction ==
    ASSUME NEW T, NEW S, <<>> \in S, \A s \in Seq(T), e \in T : s \in S => Append(s, e) \in S
    PROVE  Seq(T) \subseteq S
<1> DEFINE N == {n \in Nat : \A s \in Seq(T) : Len(s) = n => s \in S}
<1>1. 0 \in N
    <2>1. \A s \in Seq(T) : Len(s) = 0 => s = <<>>
        OBVIOUS
    <2> QED
        BY <2>1
<1>2. ASSUME NEW n \in Nat, n \in N PROVE n + 1 \in N
    <2>1. ASSUME NEW s \in Seq(T), Len(s) = n + 1 PROVE s \in S
        <3> DEFINE front == SubSeq(s, 1, n)
                   e == s[n + 1]
        <3>1. front \in Seq(T) /\ Len(front) = n /\ e \in T
            BY <2>1
        <3>2. s = Append(front, e)
            BY <2>1
        <3>3. front \in S
            BY <1>2, <3>1
        <3> HIDE DEF front, e
        <3> QED
            BY <3>1, <3>2, <3>3
    <2> QED
        BY <2>1
<1>3. Nat \subseteq N
    <2> HIDE DEF N
    <2> QED
        BY <1>1, <1>2, Induction
<1>4. \A s \in Seq(T) : Len(s) \in Nat
    OBVIOUS
<1> QED
    BY <1>3, <1>4

LEMMA AppendIsConcat ==
    ASSUME NEW T, NEW s \in Seq(T), NEW e \in T
    PROVE  Append(s, e) = s \o <<e>>
OBVIOUS

LEMMA AppendNotEmpty ==
    ASSUME NEW T, NEW s \in Seq(T), NEW e \in T
    PROVE  Append(s, e) # <<>>
<1>1. Len(Append(s, e)) = Len(s) + 1 /\ Len(s) \in Nat /\ Len(<<>>) = 0
    OBVIOUS
<1>2. ASSUME Append(s, e) = <<>> PROVE FALSE
    <2>1. Len(s) + 1 = 0
        BY <1>1, <1>2, Zenon
    <2> QED
        BY <1>1, <2>1
<1> QED
    BY <1>2

LEMMA SeqWider ==
    ASSUME NEW T, NEW U, T \subseteq U, NEW s \in Seq(T)
    PROVE  s \in Seq(U)
OBVIOUS

\* A nonempty sequence is one with one more element.
LEMMA LastPart ==
    ASSUME NEW T, NEW s \in Seq(T), s # <<>>
    PROVE  \E front \in Seq(T), last \in T : s = Append(front, last)
<1> DEFINE n == Len(s)
           front == SubSeq(s, 1, n - 1)
           last == s[n]
<1>1. n \in Nat /\ n # 0
    OBVIOUS
<1>2. front \in Seq(T) /\ last \in T
    BY <1>1
<1>3. s = Append(front, last)
    BY <1>1
<1> QED
    BY <1>2, <1>3

LEMMA ConcatIs ==
    ASSUME NEW T, NEW s \in Seq(T), NEW t \in Seq(T)
    PROVE  /\ s \o t \in Seq(T)
           /\ Len(s) \in Nat /\ Len(t) \in Nat /\ Len(s \o t) = Len(s) + Len(t)
           /\ \A i \in 1..Len(s) : (s \o t)[i] = s[i]
           /\ \A i \in 1..Len(t) : (s \o t)[Len(s) + i] = t[i]
OBVIOUS

LEMMA ConcatAssociative ==
    ASSUME NEW T, NEW s \in Seq(T), NEW t \in Seq(T), NEW u \in Seq(T)
    PROVE  (s \o t) \o u = s \o (t \o u)
<1> DEFINE a == (s \o t) \o u
           b == s \o (t \o u)
<1>1. /\ s \o t \in Seq(T) /\ t \o u \in Seq(T) /\ a \in Seq(T) /\ b \in Seq(T)
      /\ Len(s) \in Nat /\ Len(t) \in Nat /\ Len(u) \in Nat
      /\ Len(s \o t) = Len(s) + Len(t) /\ Len(t \o u) = Len(t) + Len(u)
      /\ Len(a) = Len(s) + Len(t) + Len(u) /\ Len(b) = Len(s) + Len(t) + Len(u)
    OBVIOUS
<1>2. ASSUME NEW i \in 1..Len(a) PROVE a[i] = b[i]
    <2>1. CASE i <= Len(s)
        BY <1>1, <2>1
    <2>2. CASE i > Len(s) /\ i <= Len(s) + Len(t)
        <3>1. a[i] = t[i - Len(s)]
            BY <1>1, <2>2
        <3>2. b[i] = (t \o u)[i - Len(s)]
            BY <1>1, <2>2
        <3>3. (t \o u)[i - Len(s)] = t[i - Len(s)]
            BY <1>1, <2>2
        <3> QED
            BY <3>1, <3>2, <3>3
    <2>3. CASE i > Len(s) + Len(t)
        <3>1. a[i] = u[i - (Len(s) + Len(t))]
            BY <1>1, <2>3
        <3>2. b[i] = (t \o u)[i - Len(s)]
            BY <1>1, <2>3
        <3>3. (t \o u)[i - Len(s)] = u[(i - Len(s)) - Len(t)]
            BY <1>1, <2>3
        <3>4. (i - Len(s)) - Len(t) = i - (Len(s) + Len(t))
            BY <1>1
        <3> QED
            BY <3>1, <3>2, <3>3, <3>4
    <2> QED
        BY <1>1, <2>1, <2>2, <2>3
<1> HIDE DEF a, b
<1>3. a = b
    BY <1>1, <1>2
<1> QED
    BY <1>3 DEF a, b

LEMMA ConcatAppend ==
    ASSUME NEW T, NEW s \in Seq(T), NEW t \in Seq(T), NEW e \in T
    PROVE  s \o Append(t, e) = Append(s \o t, e)
<1>1. <<e>> \in Seq(T) /\ s \o t \in Seq(T)
    OBVIOUS
<1>2. Append(t, e) = t \o <<e>> /\ Append(s \o t, e) = (s \o t) \o <<e>>
    BY <1>1, AppendIsConcat
<1> QED
    BY <1>1, <1>2, ConcatAssociative

LEMMA ConcatEmpty ==
    ASSUME NEW T, NEW s \in Seq(T)
    PROVE  s \o <<>> = s /\ <<>> \o s = s
OBVIOUS

LEMMA SequencesEqual ==
    ASSUME NEW T, NEW s \in Seq(T), NEW t \in Seq(T), Len(s) = Len(t), \A i \in 1..Len(s) : s[i] = t[i]
    PROVE  s = t
OBVIOUS

LEMMA FunctionIsSequence ==
    ASSUME NEW T, NEW n \in Nat, NEW f \in [1..n -> T]
    PROVE  f \in Seq(T) /\ Len(f) = n
OBVIOUS

\* f is the recursive function whose value at n is the first n sequences in a row.
IsFlat(f, n, seqs) ==
    f = [i \in 1..n |-> IF i = 1 THEN seqs[i] ELSE f[i - 1] \o seqs[i]]

LEMMA FlatExists ==
    ASSUME NEW seqs, NEW n \in Nat
    PROVE  \E f : IsFlat(f, n, seqs)
<1> DEFINE S == {k \in Nat : \E f : IsFlat(f, k, seqs)}
<1>1. 0 \in S
    <2> DEFINE f == [i \in 1..0 |-> seqs]
    <2>1. IsFlat(f, 0, seqs)
        BY DEF IsFlat
    <2> QED
        BY <2>1
<1>2. ASSUME NEW k \in Nat, k \in S PROVE k + 1 \in S
    <2>1. PICK f : IsFlat(f, k, seqs)
        BY <1>2
    <2> DEFINE h == [i \in 1..(k + 1) |-> IF i \in 1..k THEN f[i]
                                         ELSE IF i = 1 THEN seqs[i] ELSE f[i - 1] \o seqs[i]]
    <2>2. ASSUME NEW i \in 1..(k + 1) PROVE h[i] = IF i = 1 THEN seqs[i] ELSE h[i - 1] \o seqs[i]
        <3>1. i # 1 => i - 1 \in 1..k /\ i - 1 \in 1..(k + 1)
            OBVIOUS
        <3>2. i # 1 => h[i - 1] = f[i - 1]
            BY <3>1
        <3>3. i \in 1..k => f[i] = IF i = 1 THEN seqs[i] ELSE f[i - 1] \o seqs[i]
            BY <2>1 DEF IsFlat
        <3>4. h[i] = IF i = 1 THEN seqs[i] ELSE f[i - 1] \o seqs[i]
            BY <3>3
        <3> HIDE DEF h
        <3> QED
            BY <3>2, <3>4
    <2>3. h = [i \in 1..(k + 1) |-> h[i]]
        OBVIOUS
    <2> HIDE DEF h
    <2>4. IsFlat(h, k + 1, seqs)
        BY <2>2, <2>3 DEF IsFlat
    <2> QED
        BY <2>4
<1> HIDE DEF S
<1>3. n \in S
    BY <1>1, <1>2, Induction
<1> QED
    BY <1>3 DEF S

LEMMA FlatIs ==
    ASSUME NEW T, NEW seqs \in Seq(T), seqs # <<>>
    PROVE  \E f : IsFlat(f, Len(seqs), seqs) /\ FlattenSeq(seqs) = f[Len(seqs)]
<1>1. Len(seqs) \in Nat /\ Len(seqs) # 0
    OBVIOUS
<1>2. \E f : IsFlat(f, Len(seqs), seqs)
    BY <1>1, FlatExists
<1> DEFINE f == CHOOSE f : IsFlat(f, Len(seqs), seqs)
<1>3. IsFlat(f, Len(seqs), seqs)
    BY <1>2
<1>4. FlattenSeq(seqs) = f[Len(seqs)]
    BY <1>1 DEF FlattenSeq, IsFlat
<1> QED
    BY <1>3, <1>4

LEMMA FlatsAgree ==
    ASSUME NEW s, NEW t, NEW n \in Nat, NEW m \in Nat,
           NEW f, IsFlat(f, n, s), NEW g, IsFlat(g, m, t),
           NEW k \in Nat, 1 <= k, k <= n, k <= m, \A i \in 1..k : s[i] = t[i]
    PROVE  f[k] = g[k]
<1> DEFINE S == {i \in Nat : 1 <= i /\ i <= k => f[i] = g[i]}
<1>1. 0 \in S
    OBVIOUS
<1>2. ASSUME NEW i \in Nat, i \in S PROVE i + 1 \in S
    <2> SUFFICES ASSUME i + 1 <= k PROVE f[i + 1] = g[i + 1]
        OBVIOUS
    <2> DEFINE z == i + 1
    <2>1. z \in 1..n /\ z \in 1..m /\ s[z] = t[z] /\ z - 1 = i
        OBVIOUS
    <2>4. z # 1 => f[i] = g[i]
        BY <1>2
    <2> HIDE DEF z
    <2>2. f[z] = IF z = 1 THEN s[z] ELSE f[z - 1] \o s[z]
        BY <2>1 DEF IsFlat
    <2>3. g[z] = IF z = 1 THEN t[z] ELSE g[z - 1] \o t[z]
        BY <2>1 DEF IsFlat
    <2>5. f[z] = g[z]
        BY <2>1, <2>2, <2>3, <2>4, Zenon
    <2> QED
        BY <2>5 DEF z
<1> HIDE DEF S
<1>3. k \in S
    BY <1>1, <1>2, Induction
<1> QED
    BY <1>3 DEF S

LEMMA FlatEmpty == FlattenSeq(<<>>) = <<>>
BY DEF FlattenSeq

\* One more sequence.
LEMMA FlatAppend ==
    ASSUME NEW T, NEW seqs \in Seq(Seq(T)), NEW x \in Seq(T)
    PROVE  FlattenSeq(Append(seqs, x)) = FlattenSeq(seqs) \o x
<1> DEFINE longer == Append(seqs, x)
           n == Len(seqs)
<1>0. n \in Nat /\ seqs \in Seq(Seq(T)) /\ x \in Seq(T)
    OBVIOUS
<1>1. /\ n \in Nat /\ longer \in Seq(Seq(T)) /\ Len(longer) = n + 1 /\ longer[n + 1] = x /\ longer # <<>>
      /\ \A i \in 1..n : longer[i] = seqs[i]
    <2> DEFINE W == Seq(T)
    <2> HIDE DEF W
    <2>1. /\ longer \in Seq(W) /\ Len(longer) = n + 1 /\ longer[n + 1] = x
          /\ \A i \in 1..n : longer[i] = seqs[i]
        BY <1>0 DEF W
    <2> HIDE DEF longer, n
    <2>2. longer # <<>>
        BY <1>0, <2>1
    <2> QED
        BY <1>0, <2>1, <2>2 DEF W
<1> HIDE DEF longer
<1>2. PICK g : IsFlat(g, n + 1, longer) /\ FlattenSeq(longer) = g[n + 1]
    BY <1>1, FlatIs
<1>3. g[n + 1] = IF n + 1 = 1 THEN x ELSE g[n] \o x
    <2>1. n + 1 \in 1..(n + 1) /\ (n + 1) - 1 = n
        BY <1>1
    <2> QED
        BY <1>1, <1>2, <2>1 DEF IsFlat
<1>4. CASE n = 0
    <2>1. seqs = <<>> /\ <<>> \o x = x
        BY <1>4
    <2>2. FlattenSeq(longer) = x
        BY <1>2, <1>3, <1>4
    <2> QED
        BY <2>1, <2>2, FlatEmpty DEF longer
<1>5. CASE n # 0
    <2>1. seqs # <<>>
        BY <1>5
    <2>2. PICK f : IsFlat(f, n, seqs) /\ FlattenSeq(seqs) = f[n]
        BY <2>1, FlatIs
    <2>3. f[n] = g[n]
        <3>1. 1 <= n /\ n <= n /\ n <= n + 1 /\ n + 1 \in Nat
            BY <1>1, <1>5
        <3> HIDE DEF n
        <3> QED
            BY <1>1, <1>2, <2>2, <3>1, FlatsAgree
    <2>4. n + 1 # 1
        BY <1>1, <1>5
    <2>5. FlattenSeq(longer) = FlattenSeq(seqs) \o x
        BY <1>2, <1>3, <2>2, <2>3, <2>4
    <2> QED
        BY <2>5 DEF longer
<1> QED
    BY <1>4, <1>5

LEMMA FlatIn ==
    ASSUME NEW T, NEW seqs \in Seq(Seq(T))
    PROVE  FlattenSeq(seqs) \in Seq(T)
<1> DEFINE S == {s \in Seq(Seq(T)) : FlattenSeq(s) \in Seq(T)}
<1>1. <<>> \in S
    <2>1. <<>> \in Seq(T) /\ <<>> \in Seq(Seq(T))
        OBVIOUS
    <2> QED
        BY <2>1, FlatEmpty, Zenon
<1>2. ASSUME NEW s \in Seq(Seq(T)), NEW x \in Seq(T), s \in S PROVE Append(s, x) \in S
    <2>1. FlattenSeq(Append(s, x)) = FlattenSeq(s) \o x
        BY FlatAppend
    <2>2. FlattenSeq(s) \o x \in Seq(T)
        BY <1>2
    <2>3. Append(s, x) \in Seq(Seq(T))
        OBVIOUS
    <2> QED
        BY <2>1, <2>2, <2>3
<1> HIDE DEF S
<1>3. Seq(Seq(T)) \subseteq S
    BY <1>1, <1>2, SequenceInduction
<1> QED
    BY <1>3 DEF S
-----------------------------------------------------------------------------
(* Texts joined with a delimiter. *)

\* All parts but the first, each behind its delimiter.
Led(parts, d) == [i \in DOMAIN parts |-> IF i = 1 THEN parts[i] ELSE d \o parts[i]]

LEMMA LedIn ==
    ASSUME NEW T, NEW parts \in Seq(Seq(T)), NEW d \in Seq(T)
    PROVE  Led(parts, d) \in Seq(Seq(T)) /\ Len(Led(parts, d)) = Len(parts)
<1>1. \A i \in DOMAIN parts : parts[i] \in Seq(T) /\ d \o parts[i] \in Seq(T)
    OBVIOUS
<1>2. Len(parts) \in Nat /\ DOMAIN parts = 1..Len(parts)
    OBVIOUS
<1>3. Led(parts, d) \in [1..Len(parts) -> Seq(T)]
    BY <1>1, <1>2 DEF Led
<1> QED
    BY <1>2, <1>3, FunctionIsSequence

LEMMA LedAppend ==
    ASSUME NEW T, NEW parts \in Seq(Seq(T)), NEW d \in Seq(T), NEW p \in Seq(T)
    PROVE  Led(Append(parts, p), d) = Append(Led(parts, d), IF parts = <<>> THEN p ELSE d \o p)
<1> DEFINE W == Seq(T)
           longer == Append(parts, p)
           n == Len(parts)
           last == IF parts = <<>> THEN p ELSE d \o p
           led == Led(parts, d)
           all == Append(led, last)
<1>1. n \in Nat /\ (n = 0 <=> parts = <<>>) /\ p \in W /\ last \in W
    OBVIOUS
<1>2. led \in Seq(W) /\ Len(led) = n
    BY LedIn
<1>3. parts \in Seq(W) /\ DOMAIN parts = 1..n
    OBVIOUS
<1>4. \A i \in 1..n : led[i] = IF i = 1 THEN parts[i] ELSE d \o parts[i]
    BY <1>3 DEF Led
<1> HIDE DEF W, last, led
<1>5. longer \in Seq(W) /\ Len(longer) = n + 1 /\ longer[n + 1] = p /\ \A i \in 1..n : longer[i] = parts[i]
    BY <1>1, <1>3
<1>6. all \in Seq(W) /\ Len(all) = n + 1 /\ all[n + 1] = last /\ \A i \in 1..n : all[i] = led[i]
    BY <1>1, <1>2
<1> HIDE DEF longer, all, n
<1>7. ASSUME NEW i \in 1..(n + 1) PROVE all[i] = IF i = 1 THEN longer[i] ELSE d \o longer[i]
    <2>1. CASE i = n + 1
        <3>1. i = 1 <=> parts = <<>>
            BY <1>1, <2>1
        <3>2. all[i] = last /\ longer[i] = p
            BY <1>5, <1>6, <2>1
        <3> QED
            BY <3>1, <3>2, Zenon DEF last
    <2>2. CASE i # n + 1
        <3>1. i \in 1..n
            BY <1>1, <2>2
        <3> QED
            BY <1>4, <1>5, <1>6, <3>1, Zenon
    <2> QED
        BY <2>1, <2>2
<1>8. all = [i \in 1..(n + 1) |-> all[i]]
    BY <1>1, <1>6
<1>9. DOMAIN longer = 1..(n + 1)
    BY <1>1, <1>5
<1>10. all = [i \in DOMAIN longer |-> IF i = 1 THEN longer[i] ELSE d \o longer[i]]
    BY <1>7, <1>8, <1>9
<1>11. Led(longer, d) = all
    BY <1>10 DEF Led
<1> QED
    BY <1>11 DEF longer, all, led, last

LEMMA DelimitedIs == \A parts, d : Delimited(parts, d) = FlattenSeq(Led(parts, d))
BY DEF Delimited, Led

LEMMA DelimitedIn ==
    ASSUME NEW T, NEW parts \in Seq(Seq(T)), NEW d \in Seq(T)
    PROVE  Delimited(parts, d) \in Seq(T)
BY LedIn, FlatIn, DelimitedIs

LEMMA DelimitedEmpty == \A d : Delimited(<<>>, d) = <<>>
<1> SUFFICES ASSUME NEW d PROVE Delimited(<<>>, d) = <<>>
    OBVIOUS
<1>1. Led(<<>>, d) = <<>>
    BY DEF Led
<1> QED
    BY <1>1, FlatEmpty, DelimitedIs, Zenon

\* What one more part makes of a joined text.
Behind(parts, d, p) == IF Nonempty(parts) THEN Delimited(parts, d) \o (d \o p) ELSE p

\* One more part: behind the delimiter when it is not the first.
LEMMA DelimitedAppend ==
    ASSUME NEW T, NEW parts \in Seq(Seq(T)), NEW d \in Seq(T), NEW p \in Seq(T)
    PROVE  Delimited(Append(parts, p), d) = Behind(parts, d, p)
<1> DEFINE last == IF parts = <<>> THEN p ELSE d \o p
<1>1. last \in Seq(T)
    OBVIOUS
<1>2. Led(parts, d) \in Seq(Seq(T))
    BY LedIn
<1>3. Led(Append(parts, p), d) = Append(Led(parts, d), last)
    BY LedAppend
<1>4. FlattenSeq(Append(Led(parts, d), last)) = FlattenSeq(Led(parts, d)) \o last
    <2> HIDE DEF last
    <2> QED
        BY <1>1, <1>2, FlatAppend
<1> HIDE DEF last
<1>5. Delimited(Append(parts, p), d) = Delimited(parts, d) \o last
    BY <1>3, <1>4, DelimitedIs, Zenon
<1>6. CASE parts = <<>>
    <2>1. Delimited(parts, d) = <<>> /\ <<>> \o p = p /\ last = p
        BY <1>6, DelimitedEmpty DEF last
    <2> QED
        BY <1>5, <1>6, <2>1, Zenon DEF Nonempty, Behind
<1>7. CASE parts # <<>>
    BY <1>5, <1>7, Zenon DEF last, Nonempty, Behind
<1> QED
    BY <1>6, <1>7
-----------------------------------------------------------------------------
(* Splitting a text and expanding a path are folds. *)

LEMMA SplitIs ==
    ASSUME NEW T, NEW text \in Seq(T), NEW d
    PROVE  \E g : /\ IsFold(g, Len(text), <<<<>>>>, text, [kind |-> "split", d |-> d])
                  /\ Split(text, d) = g[1..Len(text)]
<1> DEFINE how == [kind |-> "split", d |-> d]
           base == <<<<>>>>
<1>1. Len(text) \in Nat /\ DOMAIN text = 1..Len(text)
    OBVIOUS
<1>2. \E g : IsFold(g, Len(text), base, text, how)
    <2> HIDE DEF how, base
    <2> QED
        BY <1>1, FoldExists
<1>3. \A x, c : Folded(how, x, c) = NextPiece(x, c, d)
    BY DEF Folded
<1>4. ASSUME NEW f
      PROVE  IsFold(f, Len(text), base, text, how) <=>
                 f = [s \in SUBSET (1..Len(text)) |->
                         IF s = {} THEN base ELSE NextPiece(f[s \ {Max(s)}], text[Max(s)], d)]
    <2> HIDE DEF how, base
    <2> QED
        BY <1>3 DEF IsFold
<1> DEFINE g == CHOOSE f : f = [s \in SUBSET (1..Len(text)) |->
                                    IF s = {} THEN base ELSE NextPiece(f[s \ {Max(s)}], text[Max(s)], d)]
<1>5. g = [s \in SUBSET (1..Len(text)) |-> IF s = {} THEN base ELSE NextPiece(g[s \ {Max(s)}], text[Max(s)], d)]
    <2> HIDE DEF how, base
    <2> QED
        BY <1>2, <1>4
<1>6. Split(text, d) = g[1..Len(text)]
    BY <1>1 DEF Split, FoldLeft, MapThenFoldSet
<1> HIDE DEF g
<1>7. IsFold(g, Len(text), base, text, how)
    BY <1>4, <1>5
<1> QED
    BY <1>6, <1>7

LEMMA ExpandIs ==
    ASSUME NEW T, NEW path \in Seq(T), NEW text
    PROVE  \E g : /\ IsFold(g, Len(path), text, path, [kind |-> "path"])
                  /\ ExpandPath(text, path) = g[1..Len(path)]
<1> DEFINE how == [kind |-> "path"]
           base == text
<1>1. Len(path) \in Nat /\ DOMAIN path = 1..Len(path)
    OBVIOUS
<1>2. \E g : IsFold(g, Len(path), base, path, how)
    <2> HIDE DEF how, base
    <2> QED
        BY <1>1, FoldExists
<1>3. \A x, c : Folded(how, x, c) = Place(x, c)
    BY DEF Folded
<1>4. ASSUME NEW f
      PROVE  IsFold(f, Len(path), base, path, how) <=>
                 f = [s \in SUBSET (1..Len(path)) |->
                         IF s = {} THEN base ELSE Place(f[s \ {Max(s)}], path[Max(s)])]
    <2> HIDE DEF how, base
    <2> QED
        BY <1>3 DEF IsFold
<1> DEFINE g == CHOOSE f : f = [s \in SUBSET (1..Len(path)) |->
                                    IF s = {} THEN base ELSE Place(f[s \ {Max(s)}], path[Max(s)])]
<1>5. g = [s \in SUBSET (1..Len(path)) |-> IF s = {} THEN base ELSE Place(g[s \ {Max(s)}], path[Max(s)])]
    <2> HIDE DEF how, base
    <2> QED
        BY <1>2, <1>4
<1>6. ExpandPath(text, path) = g[1..Len(path)]
    BY <1>1 DEF ExpandPath, FoldLeft, MapThenFoldSet
<1> HIDE DEF g
<1>7. IsFold(g, Len(path), base, path, how)
    BY <1>4, <1>5
<1> QED
    BY <1>6, <1>7

LEMMA SplitEmpty == \A d : Split(<<>>, d) = <<<<>>>>
<1> SUFFICES ASSUME NEW d PROVE Split(<<>>, d) = <<<<>>>>
    OBVIOUS
<1> DEFINE base == <<<<>>>>
           how == [kind |-> "split", d |-> d]
           none == SubSeq(<<0>>, 1, 0)
<1>1. none \in Seq({0}) /\ Len(none) = 0 /\ none = <<>>
    OBVIOUS
<1> HIDE DEF none
<1>2. PICK g : IsFold(g, Len(none), base, none, how) /\ Split(none, d) = g[1..Len(none)]
    BY <1>1, SplitIs
<1> HIDE DEF base, how
<1>3. Split(none, d) = base
    BY <1>1, <1>2 DEF IsFold
<1> QED
    BY <1>1, <1>3, Zenon DEF base

\* Splitting a text with one more character.
LEMMA SplitAppend ==
    ASSUME NEW T, NEW text \in Seq(T), NEW c \in T, NEW d
    PROVE  Split(Append(text, c), d) = NextPiece(Split(text, d), c, d)
<1> DEFINE longer == Append(text, c)
           n == Len(text)
           base == <<<<>>>>
           how == [kind |-> "split", d |-> d]
<1>1. /\ n \in Nat /\ longer \in Seq(T) /\ Len(longer) = n + 1 /\ longer[n + 1] = c
      /\ \A i \in 1..n : longer[i] = text[i]
    OBVIOUS
<1>2. \A x : Folded(how, x, c) = NextPiece(x, c, d)
    BY DEF Folded
<1> HIDE DEF longer
<1>3. PICK g : IsFold(g, n, base, text, how) /\ Split(text, d) = g[1..n]
    BY SplitIs
<1>4. PICK h : IsFold(h, n + 1, base, longer, how) /\ Split(longer, d) = h[1..(n + 1)]
    BY <1>1, SplitIs
<1> HIDE DEF n, base, how
<1>5. h[1..(n + 1)] = Folded(how, h[1..n], c)
    BY <1>1, <1>4, FoldStep
<1>6. g[1..n] = h[1..n]
    BY <1>1, <1>3, <1>4, FoldsAgree
<1>7. Split(longer, d) = NextPiece(Split(text, d), c, d)
    BY <1>2, <1>3, <1>4, <1>5, <1>6, Zenon
<1> QED
    BY <1>7 DEF longer

LEMMA ExpandEmpty == \A text : ExpandPath(text, <<>>) = text
<1> SUFFICES ASSUME NEW text PROVE ExpandPath(text, <<>>) = text
    OBVIOUS
<1> DEFINE how == [kind |-> "path"]
           none == SubSeq(<<0>>, 1, 0)
<1>1. none \in Seq({0}) /\ Len(none) = 0 /\ none = <<>>
    OBVIOUS
<1> HIDE DEF none
<1>2. PICK g : IsFold(g, Len(none), text, none, how) /\ ExpandPath(text, none) = g[1..Len(none)]
    BY <1>1, ExpandIs
<1> HIDE DEF how
<1>3. ExpandPath(text, none) = text
    BY <1>1, <1>2 DEF IsFold
<1> QED
    BY <1>1, <1>3, Zenon

\* Expanding a path with one more parameter.
LEMMA ExpandAppend ==
    ASSUME NEW T, NEW path \in Seq(T), NEW p \in T, NEW text
    PROVE  ExpandPath(text, Append(path, p)) = Place(ExpandPath(text, path), p)
<1> DEFINE longer == Append(path, p)
           n == Len(path)
           how == [kind |-> "path"]
<1>1. /\ n \in Nat /\ longer \in Seq(T) /\ Len(longer) = n + 1 /\ longer[n + 1] = p
      /\ \A i \in 1..n : longer[i] = path[i]
    OBVIOUS
<1>2. \A x : Folded(how, x, p) = Place(x, p)
    BY DEF Folded
<1> HIDE DEF longer
<1>3. PICK g : IsFold(g, n, text, path, how) /\ ExpandPath(text, path) = g[1..n]
    BY ExpandIs
<1>4. PICK h : IsFold(h, n + 1, text, longer, how) /\ ExpandPath(text, longer) = h[1..(n + 1)]
    BY <1>1, ExpandIs
<1> HIDE DEF n, how
<1>5. h[1..(n + 1)] = Folded(how, h[1..n], p)
    BY <1>1, <1>4, FoldStep
<1>6. g[1..n] = h[1..n]
    BY <1>1, <1>3, <1>4, FoldsAgree
<1>7. ExpandPath(text, longer) = Place(ExpandPath(text, path), p)
    BY <1>2, <1>3, <1>4, <1>5, <1>6, Zenon
<1> QED
    BY <1>7 DEF longer
-----------------------------------------------------------------------------
(* Texts split at a delimiter. *)

\* What ends a text, place by place from the end.
LEMMA SuffixIs ==
    ASSUME NEW T, NEW d \in Seq(T), NEW s \in Seq(T)
    PROVE  IsSuffix(d, s) <=>
               Len(d) <= Len(s) /\ \A i \in 1..Len(d) : d[i] = s[Len(s) - Len(d) + i]
<1> DEFINE n == Len(d)
           m == Len(s)
           a == Reverse(d)
           b == Reverse(s)
<1>1. n \in Nat /\ m \in Nat
    OBVIOUS
<1>2. \A i \in 1..n : d[n - i + 1] \in T
    OBVIOUS
<1>3. \A i \in 1..m : s[m - i + 1] \in T
    OBVIOUS
<1>4. a \in Seq(T) /\ Len(a) = n /\ \A i \in 1..n : a[i] = d[n - i + 1]
    <2>1. a \in [1..n -> T] /\ \A i \in 1..n : a[i] = d[n - i + 1]
        BY <1>2 DEF Reverse
    <2> HIDE DEF n, a
    <2> QED
        BY <1>1, <2>1, FunctionIsSequence
<1>5. b \in Seq(T) /\ Len(b) = m /\ \A i \in 1..m : b[i] = s[m - i + 1]
    <2>1. b \in [1..m -> T] /\ \A i \in 1..m : b[i] = s[m - i + 1]
        BY <1>3 DEF Reverse
    <2> HIDE DEF m, b
    <2> QED
        BY <1>1, <2>1, FunctionIsSequence
<1>6. IsSuffix(d, s) <=> n <= m /\ SubSeq(a, 1, n) = SubSeq(b, 1, n)
    BY <1>4, <1>5 DEF IsSuffix, IsPrefix
<1> HIDE DEF n, m, a, b
<1>7. n <= m => (SubSeq(a, 1, n) = SubSeq(b, 1, n) <=> \A i \in 1..n : a[i] = b[i])
    <2> SUFFICES ASSUME n <= m
                 PROVE  SubSeq(a, 1, n) = SubSeq(b, 1, n) <=> \A i \in 1..n : a[i] = b[i]
        OBVIOUS
    <2> DEFINE p == SubSeq(a, 1, n)
               q == SubSeq(b, 1, n)
    <2>1. p \in Seq(T) /\ Len(p) = n /\ \A i \in 1..n : p[i] = a[i]
        BY <1>1, <1>4
    <2>2. q \in Seq(T) /\ Len(q) = n /\ \A i \in 1..n : q[i] = b[i]
        BY <1>1, <1>5
    <2> HIDE DEF p, q
    <2>3. p = q <=> \A i \in 1..n : p[i] = q[i]
        BY <1>1, <2>1, <2>2
    <2>4. p = q <=> \A i \in 1..n : a[i] = b[i]
        BY <2>1, <2>2, <2>3
    <2> QED
        BY <2>4 DEF p, q
<1>8. n <= m => ((\A i \in 1..n : a[i] = b[i]) <=> (\A i \in 1..n : d[i] = s[m - n + i]))
    <2> SUFFICES ASSUME n <= m
                 PROVE  (\A i \in 1..n : a[i] = b[i]) <=> (\A i \in 1..n : d[i] = s[m - n + i])
        OBVIOUS
    <2>1. ASSUME \A i \in 1..n : a[i] = b[i], NEW i \in 1..n PROVE d[i] = s[m - n + i]
        <3> DEFINE j == n - i + 1
        <3>1. j \in 1..n /\ j \in 1..m /\ n - j + 1 = i /\ m - j + 1 = m - n + i
            BY <1>1
        <3> HIDE DEF j
        <3>2. a[j] = d[i] /\ b[j] = s[m - n + i]
            BY <1>4, <1>5, <3>1
        <3> QED
            BY <2>1, <3>1, <3>2
    <2>2. ASSUME \A i \in 1..n : d[i] = s[m - n + i], NEW j \in 1..n PROVE a[j] = b[j]
        <3> DEFINE i == n - j + 1
        <3>1. i \in 1..n /\ j \in 1..m /\ n - j + 1 = i /\ m - n + i = m - j + 1
            BY <1>1
        <3> HIDE DEF i
        <3>2. a[j] = d[i] /\ b[j] = s[m - n + i]
            BY <1>4, <1>5, <3>1
        <3> QED
            BY <2>2, <3>1, <3>2
    <2> QED
        BY <2>1, <2>2
<1> QED
    BY <1>6, <1>7, <1>8 DEF n, m

LEMMA SuffixEnds ==
    ASSUME NEW T, NEW d \in Seq(T), d # <<>>, NEW r \in Seq(T), NEW c \in T, IsSuffix(d, Append(r, c))
    PROVE  d[Len(d)] = c
<1> DEFINE s == Append(r, c)
<1>1. s \in Seq(T) /\ Len(s) = Len(r) + 1 /\ s[Len(r) + 1] = c /\ Len(r) \in Nat
    OBVIOUS
<1> HIDE DEF s
<1>2. \A i \in 1..Len(d) : d[i] = s[Len(s) - Len(d) + i]
    BY <1>1, SuffixIs DEF s
<1>3. Len(d) \in 1..Len(d) /\ Len(s) - Len(d) + Len(d) = Len(r) + 1
    BY <1>1
<1> QED
    BY <1>1, <1>2, <1>3

LEMMA SuffixOne ==
    ASSUME NEW T, NEW x \in T, NEW r \in Seq(T)
    PROVE  IsSuffix(<<x>>, Append(r, x))
<1> DEFINE s == Append(r, x)
           d == <<x>>
<1>1. s \in Seq(T) /\ Len(s) = Len(r) + 1 /\ s[Len(r) + 1] = x /\ Len(r) \in Nat
    OBVIOUS
<1>2. d \in Seq(T) /\ Len(d) = 1 /\ d[1] = x
    OBVIOUS
<1> HIDE DEF s, d
<1>3. Len(d) <= Len(s) /\ \A i \in 1..Len(d) : d[i] = s[Len(s) - Len(d) + i]
    <2>1. \A i \in 1..Len(d) : i = 1
        BY <1>2
    <2>2. Len(s) - Len(d) + 1 = Len(r) + 1
        BY <1>1, <1>2
    <2> QED
        BY <1>1, <1>2, <2>1, <2>2
<1>4. IsSuffix(d, s)
    BY <1>1, <1>2, <1>3, SuffixIs
<1> QED
    BY <1>4 DEF s, d

\* One more character, for parts that end with r.
LEMMA NextOf ==
    ASSUME NEW T, NEW qs \in Seq(Seq(T)), NEW r \in Seq(T), NEW c \in T, NEW d \in Seq(T)
    PROVE  NextPiece(Append(qs, r), c, d) =
               IF IsSuffix(d, Append(r, c))
               THEN Append(Append(qs, SubSeq(Append(r, c), 1, Len(r) + 1 - Len(d))), <<>>)
               ELSE Append(qs, Append(r, c))
<1> DEFINE W == Seq(T)
           ps == Append(qs, r)
           n == Len(qs)
           hold == Append(r, c)
           cut == SubSeq(hold, 1, Len(r) + 1 - Len(d))
<1>1. hold \in W /\ Len(hold) = Len(r) + 1 /\ r \in W /\ n \in Nat /\ Len(r) \in Nat /\ Len(d) \in Nat
    OBVIOUS
<1>2. cut \in W
    <2> HIDE DEF hold
    <2> QED
        BY <1>1
<1> HIDE DEF W, cut, hold
<1>3. Len(ps) = n + 1 /\ ps[n + 1] = r /\ ps \in Seq(W)
    BY <1>1 DEF W
<1>4. ASSUME NEW w \in W PROVE [ps EXCEPT ![n + 1] = w] = Append(qs, w)
    <2> DEFINE e == [ps EXCEPT ![n + 1] = w]
               f == Append(qs, w)
    <2>1. qs \in Seq(W)
        BY DEF W
    <2>2. f \in Seq(W) /\ Len(f) = n + 1 /\ f[n + 1] = w /\ \A i \in 1..n : f[i] = qs[i]
        BY <1>4, <2>1
    <2>3. \A i \in 1..n : ps[i] = qs[i]
        BY <1>1, <2>1
    <2> HIDE DEF ps, f
    <2>4. e \in Seq(W) /\ Len(e) = n + 1 /\ e[n + 1] = w /\ \A i \in 1..n : e[i] = ps[i]
        BY <1>1, <1>3, <1>4
    <2> HIDE DEF e, n
    <2>5. ASSUME NEW i \in 1..(n + 1) PROVE e[i] = f[i]
        <3>1. i = n + 1 \/ i \in 1..n
            BY <1>1
        <3> QED
            BY <2>2, <2>3, <2>4, <3>1
    <2>6. e = f
        BY <2>2, <2>4, <2>5, SequencesEqual
    <2> QED
        BY <2>6 DEF e, f
<1>5. Last(ps) = r
    BY <1>3 DEF Last
<1>6. NextPiece(ps, c, d) = IF IsSuffix(d, hold) THEN Append([ps EXCEPT ![n + 1] = cut], <<>>)
                            ELSE [ps EXCEPT ![n + 1] = hold]
    <2> HIDE DEF ps, n
    <2>1. Append(Last(ps), c) = hold
        BY <1>5 DEF hold
    <2>2. Len(hold) - Len(d) = Len(r) + 1 - Len(d)
        BY <1>1
    <2> QED
        BY <1>3, <2>1, <2>2 DEF NextPiece, cut
<1>7. [ps EXCEPT ![n + 1] = cut] = Append(qs, cut)
    BY <1>2, <1>4
<1>8. [ps EXCEPT ![n + 1] = hold] = Append(qs, hold)
    BY <1>1, <1>4
<1>9. NextPiece(ps, c, d) = IF IsSuffix(d, hold) THEN Append(Append(qs, cut), <<>>) ELSE Append(qs, hold)
    BY <1>6, <1>7, <1>8, Zenon
<1> QED
    BY <1>9, Zenon DEF ps, cut, hold
\* The text splits into qs and then r.
SplitsInto(t, d, qs, r) == Split(t, d) = Append(qs, r)

LEMMA SplitIn ==
    ASSUME NEW T, NEW t \in Seq(T), NEW d \in Seq(T)
    PROVE  Split(t, d) \in Seq(Seq(T)) /\ Nonempty(Split(t, d))
<1> DEFINE W == Seq(T)
           S == {s \in Seq(T) : Split(s, d) \in Seq(W) /\ Split(s, d) # <<>>}
<1>1. <<>> \in S
    <2>1. <<<<>>>> \in Seq(W) /\ <<<<>>>> # <<>> /\ <<>> \in Seq(T)
        OBVIOUS
    <2> QED
        BY <2>1, SplitEmpty, Zenon
<1>2. ASSUME NEW s \in Seq(T), NEW c \in T, s \in S PROVE Append(s, c) \in S
    <2>1. PICK qs \in Seq(W), r \in W : Split(s, d) = Append(qs, r)
        BY <1>2, LastPart
    <2>2. Split(Append(s, c), d) = NextPiece(Append(qs, r), c, d)
        BY <2>1, SplitAppend
    <2> DEFINE hold == Append(r, c)
               cut == SubSeq(hold, 1, Len(r) + 1 - Len(d))
    <2>3. hold \in W /\ cut \in W /\ <<>> \in W
        <3>1. hold \in Seq(T) /\ Len(hold) = Len(r) + 1 /\ Len(r) \in Nat /\ Len(d) \in Nat
            OBVIOUS
        <3> HIDE DEF hold
        <3>2. cut \in Seq(T)
            BY <3>1
        <3> QED
            BY <3>1, <3>2
    <2>4. NextPiece(Append(qs, r), c, d) \in {Append(Append(qs, cut), <<>>), Append(qs, hold)}
        BY NextOf
    <2> HIDE DEF W, cut, hold
    <2>5. /\ Append(Append(qs, cut), <<>>) \in Seq(W) /\ Append(Append(qs, cut), <<>>) # <<>>
          /\ Append(qs, hold) \in Seq(W) /\ Append(qs, hold) # <<>>
        <3>1. Append(qs, cut) \in Seq(W)
            BY <2>3
        <3> QED
            BY <2>3, <3>1, AppendNotEmpty
    <2>6. Append(s, c) \in Seq(T)
        OBVIOUS
    <2> QED
        BY <2>2, <2>4, <2>5, <2>6
<1>3. Seq(T) \subseteq S
    <2> HIDE DEF S
    <2> QED
        BY <1>1, <1>2, SequenceInduction
<1> QED
    BY <1>3 DEF Nonempty

\* A text that goes on without the last character of the delimiter: its last part does.
LEMMA SplitGoesOn ==
    ASSUME NEW T, NEW d \in Seq(T), Nonempty(d), NEW t \in Seq(T),
           NEW qs \in Seq(Seq(T)), NEW r \in Seq(T), SplitsInto(t, d, qs, r),
           NEW F \in SUBSET T, d[Len(d)] \notin F, NEW u \in Seq(F)
    PROVE  SplitsInto(t \o u, d, qs, r \o u)
<1> DEFINE S == {s \in Seq(F) : Split(t \o s, d) = Append(qs, r \o s)}
<1>1. <<>> \in S
    <2>1. t \o <<>> = t /\ r \o <<>> = r /\ <<>> \in Seq(F)
        OBVIOUS
    <2> QED
        BY <2>1, Zenon DEF SplitsInto
<1>2. ASSUME NEW s \in Seq(F), NEW c \in F, s \in S PROVE Append(s, c) \in S
    <2> DEFINE v == t \o s
               w == r \o s
    <2>1. s \in Seq(T) /\ c \in T /\ c # d[Len(d)]
        BY SeqWider
    <2>2. v \in Seq(T) /\ w \in Seq(T)
        BY <2>1
    <2>3. t \o Append(s, c) = Append(v, c) /\ r \o Append(s, c) = Append(w, c)
        <3>1. \A a \in Seq(T), b \in Seq(T), y \in T : a \o Append(b, y) = Append(a \o b, y)
            BY ConcatAppend
        <3> QED
            BY <2>1, <3>1
    <2>4. Split(v, d) = Append(qs, w)
        BY <1>2
    <2> HIDE DEF v, w
    <2>5. Split(Append(v, c), d) = NextPiece(Append(qs, w), c, d)
        BY <2>1, <2>2, <2>4, SplitAppend
    <2>6. ~IsSuffix(d, Append(w, c))
        BY <2>1, <2>2, SuffixEnds DEF Nonempty
    <2>7. NextPiece(Append(qs, w), c, d) = Append(qs, Append(w, c))
        BY <2>1, <2>2, <2>6, NextOf
    <2>8. Append(s, c) \in Seq(F)
        BY <1>2
    <2> QED
        BY <2>3, <2>5, <2>7, <2>8, Zenon
<1>3. Seq(F) \subseteq S
    <2> HIDE DEF S
    <2> QED
        BY <1>1, <1>2, SequenceInduction
<1> QED
    BY <1>3 DEF SplitsInto

\* A text without that character is not split.
LEMMA SplitWhole ==
    ASSUME NEW T, NEW d \in Seq(T), Nonempty(d), NEW F \in SUBSET T, d[Len(d)] \notin F, NEW u \in Seq(F)
    PROVE  Split(u, d) = <<u>>
<1> DEFINE empty == <<>>
<1>1. u \in Seq(T)
    BY SeqWider
<1>2. /\ empty \in Seq(T) /\ empty \in Seq(Seq(T)) /\ Append(empty, empty) = <<<<>>>>
      /\ empty \o u = u /\ Append(empty, u) = <<u>>
    OBVIOUS
<1>3. SplitsInto(empty, d, empty, empty)
    BY <1>2, SplitEmpty, Zenon DEF SplitsInto
<1> HIDE DEF empty
<1>4. SplitsInto(empty \o u, d, empty, empty \o u)
    BY <1>2, <1>3, SplitGoesOn
<1> QED
    BY <1>2, <1>4, Zenon DEF SplitsInto

\* A text split at one character: the character begins a part.
LEMMA SplitThere ==
    ASSUME NEW T, NEW x \in T, NEW t \in Seq(T)
    PROVE  Split(Append(t, x), <<x>>) = Append(Split(t, <<x>>), <<>>)
<1> DEFINE W == Seq(T)
           d == <<x>>
<1>1. d \in Seq(T) /\ Len(d) = 1
    OBVIOUS
<1> HIDE DEF d
<1>2. Split(t, d) \in Seq(W) /\ Split(t, d) # <<>>
    BY <1>1, SplitIn DEF Nonempty
<1>3. PICK qs \in Seq(W), r \in W : Split(t, d) = Append(qs, r)
    BY <1>2, LastPart
<1>4. Split(Append(t, x), d) = NextPiece(Append(qs, r), x, d)
    BY <1>3, SplitAppend
<1>5. IsSuffix(d, Append(r, x))
    BY SuffixOne DEF d
<1>6. SubSeq(Append(r, x), 1, Len(r) + 1 - Len(d)) = r
    BY <1>1
<1>7. NextPiece(Append(qs, r), x, d) = Append(Append(qs, r), <<>>)
    BY <1>1, <1>5, <1>6, NextOf
<1> QED
    BY <1>3, <1>4, <1>7, Zenon DEF d

LEMMA SplitAfter ==
    ASSUME NEW T, NEW x \in T, NEW t \in Seq(T), NEW F \in SUBSET T, x \notin F, NEW u \in Seq(F)
    PROVE  SplitsInto(t \o (<<x>> \o u), <<x>>, Split(t, <<x>>), u)
<1> DEFINE d == <<x>>
           v == Append(t, x)
           ps == Split(t, d)
           empty == <<>>
<1>1. d \in Seq(T) /\ Len(d) = 1 /\ d[Len(d)] = x /\ Nonempty(d)
    BY DEF Nonempty
<1>2. v \in Seq(T) /\ u \in Seq(T) /\ empty \in Seq(T) /\ empty \o u = u
    BY SeqWider
<1>3. v \o u = t \o (d \o u)
    <2>1. v = t \o d
        BY AppendIsConcat
    <2> HIDE DEF d, v
    <2>2. \A f \in Seq(T), g \in Seq(T), h \in Seq(T) : (f \o g) \o h = f \o (g \o h)
        BY ConcatAssociative, SMTT(30)
    <2>3. (t \o d) \o u = t \o (d \o u)
        BY <1>1, <1>2, <2>2
    <2> QED
        BY <2>1, <2>3, Zenon
<1>4. ps \in Seq(Seq(T))
    BY <1>1, SplitIn
<1>5. SplitsInto(v, d, ps, empty)
    BY SplitThere DEF SplitsInto
<1> HIDE DEF d, v, ps, empty
<1>6. SplitsInto(v \o u, d, ps, empty \o u)
    BY <1>1, <1>2, <1>4, <1>5, SplitGoesOn
<1>7. SplitsInto(t \o (d \o u), d, ps, u)
    BY <1>2, <1>3, <1>6, Zenon
<1> QED
    BY <1>7 DEF d, ps
JoinedBehind(t, d, parts) == Split(t \o (d \o Delimited(parts, d)), d) = Split(t, d) \o parts

\* Splitting at one character undoes joining with it.
LEMMA SplitJoined ==
    ASSUME NEW T, NEW x \in T, NEW t \in Seq(T),
           NEW F \in SUBSET T, x \notin F, NEW parts \in Seq(Seq(F)), Nonempty(parts)
    PROVE  /\ JoinedBehind(t, <<x>>, parts)
           /\ Split(Delimited(parts, <<x>>), <<x>>) = parts
<1> DEFINE V == Seq(F)
           d == <<x>>
           W == Seq(T)
           S == {ps \in Seq(V) : Nonempty(ps) =>
                    /\ Split(t \o (d \o Delimited(ps, d)), d) = Split(t, d) \o ps
                    /\ Split(Delimited(ps, d), d) = ps}
<1>1. <<>> \in S
    <2>1. <<>> \in Seq(V) /\ ~Nonempty(<<>>)
        BY DEF Nonempty
    <2> QED
        BY <2>1
<1>2. d \in Seq(T) /\ d[Len(d)] = x /\ Nonempty(d)
    BY DEF Nonempty
<1>3. \A s \in Seq(T) : Split(s, d) \in Seq(W)
    BY <1>2, SplitIn
<1>4. \A s \in Seq(T), u \in Seq(F) : Split(s \o (d \o u), d) = Append(Split(s, d), u)
    BY SplitAfter DEF SplitsInto
<1>5. \A u \in Seq(F) : Split(u, d) = <<u>>
    <2> HIDE DEF d
    <2> QED
        BY <1>2, SplitWhole
<1>6. ASSUME NEW ps \in Seq(V), NEW p \in V, ps \in S PROVE Append(ps, p) \in S
    <2> DEFINE all == Append(ps, p)
               j == Delimited(ps, d)
               e == d \o p
    <2>1. all \in Seq(V)
        BY <1>6
    <2>2. p \in Seq(T) /\ ps \in Seq(W)
        BY SeqWider
    <2>3. j \in Seq(T) /\ e \in Seq(T)
        <3>1. e \in Seq(T)
            BY <1>2, <2>2
        <3> HIDE DEF d
        <3> QED
            BY <1>2, <2>2, <3>1, DelimitedIn
    <2>4. Delimited(all, d) = IF Nonempty(ps) THEN j \o e ELSE p
        <3> HIDE DEF d
        <3>1. Delimited(all, d) = Behind(ps, d, p)
            BY <1>2, <2>2, DelimitedAppend
        <3> QED
            BY <3>1, Zenon DEF Behind
    <2>5. CASE ps = <<>>
        <3>1. all = <<p>> /\ Delimited(all, d) = p
            BY <2>4, <2>5 DEF Nonempty
        <3>2. Append(Split(t, d), p) = Split(t, d) \o <<p>>
            BY <1>3, <2>2, AppendIsConcat
        <3> QED
            BY <1>4, <1>5, <2>1, <3>1, <3>2, Zenon
    <2>6. CASE ps # <<>>
        <3> DEFINE b == d \o j
                   k == t \o b
        <3>1. Split(k, d) = Split(t, d) \o ps /\ Split(j, d) = ps
            BY <1>6, <2>6 DEF Nonempty
        <3>2. b \in Seq(T) /\ k \in Seq(T)
            BY <1>2, <2>3
        <3>3. Split(j \o e, d) = all
            BY <1>4, <2>3, <3>1
        <3>4. Split(k \o e, d) = Append(Split(t, d) \o ps, p)
            BY <1>4, <3>1, <3>2
        <3>5. k \o e = t \o (d \o (j \o e))
            <4> HIDE DEF d, j, e
            <4>3. \A g \in Seq(T), h \in Seq(T), i \in Seq(T) : (g \o h) \o i = g \o (h \o i)
                BY ConcatAssociative
            <4>1. b \o e = d \o (j \o e)
                BY <1>2, <2>3, <4>3
            <4> HIDE DEF b
            <4>2. k \o e = t \o (b \o e)
                BY <2>3, <3>2, <4>3
            <4> QED
                BY <4>1, <4>2, Zenon
        <3>6. Append(Split(t, d) \o ps, p) = Split(t, d) \o all
            <4> DEFINE a == Split(t, d)
            <4>1. a \in Seq(W) /\ ps \in Seq(W) /\ p \in W
                BY <1>3, <2>2
            <4> HIDE DEF a, W
            <4>2. a \o Append(ps, p) = Append(a \o ps, p)
                BY <4>1, ConcatAppend
            <4> QED
                BY <4>2 DEF a
        <3>7. Delimited(all, d) = j \o e
            BY <2>4, <2>6 DEF Nonempty
        <3> HIDE DEF k, j, d, all, e
        <3>8. Split(t \o (d \o Delimited(all, d)), d) = Split(t, d) \o all
            BY <3>4, <3>5, <3>6, <3>7, Zenon
        <3>9. Split(Delimited(all, d), d) = all
            BY <3>3, <3>7, Zenon
        <3> QED
            BY <2>1, <3>8, <3>9, Zenon DEF all
    <2> QED
        BY <2>5, <2>6
<1>7. Seq(V) \subseteq S
    <2> HIDE DEF S, V
    <2> QED
        BY <1>1, <1>6, SequenceInduction
<1> QED
    BY <1>7 DEF JoinedBehind
\* r is s and then t, place by place.
IsRow(r, s, t) ==
    /\ Len(r) = Len(s) + Len(t)
    /\ \A i \in 1..Len(s) : r[i] = s[i]
    /\ \A i \in 1..Len(t) : r[Len(s) + i] = t[i]

LEMMA ConcatRow ==
    ASSUME NEW T, NEW s \in Seq(T), NEW t \in Seq(T)
    PROVE  s \o t \in Seq(T) /\ IsRow(s \o t, s, t)
BY ConcatIs DEF IsRow

\* A part that is closed stays.
LEMMA ClosedStays ==
    ASSUME NEW T, NEW d \in Seq(T), NEW t \in Seq(T), Len(Split(t, d)) > 1, NEW u \in Seq(T)
    PROVE  Split(t \o u, d)[1] = Split(t, d)[1]
<1> DEFINE W == Seq(T)
           first == Split(t, d)[1]
           S == {s \in Seq(T) : Len(Split(t \o s, d)) > 1 /\ Split(t \o s, d)[1] = first}
<1>1. <<>> \in S
    <2>1. t \o <<>> = t /\ <<>> \in Seq(T)
        OBVIOUS
    <2> QED
        BY <2>1
<1>2. ASSUME NEW s \in Seq(T), NEW c \in T, s \in S PROVE Append(s, c) \in S
    <2> DEFINE v == t \o s
               ps == Split(v, d)
    <2>1. v \in Seq(T) /\ Append(s, c) \in Seq(T)
        OBVIOUS
    <2>2. t \o Append(s, c) = Append(v, c)
        BY ConcatAppend
    <2>3. Len(ps) > 1 /\ ps[1] = first
        BY <1>2
    <2> HIDE DEF v, first
    <2>4. ps \in Seq(W) /\ ps # <<>>
        BY <2>1, SplitIn DEF Nonempty
    <2>5. PICK qs \in Seq(W), r \in W : ps = Append(qs, r)
        <3> HIDE DEF ps, W
        <3> QED
            BY <2>4, LastPart
    <2>6. Split(Append(v, c), d) = NextPiece(Append(qs, r), c, d)
        BY <2>1, <2>5, SplitAppend
    <2> DEFINE hold == Append(r, c)
               cut == SubSeq(hold, 1, Len(r) + 1 - Len(d))
               other == Append(qs, cut)
    <2>7. NextPiece(Append(qs, r), c, d) \in {Append(other, <<>>), Append(qs, hold)}
        BY NextOf
    <2>8. hold \in W /\ cut \in W /\ <<>> \in W
        <3>1. hold \in Seq(T) /\ Len(hold) = Len(r) + 1 /\ Len(r) \in Nat /\ Len(d) \in Nat
            OBVIOUS
        <3> HIDE DEF hold
        <3>2. cut \in Seq(T)
            BY <3>1
        <3> QED
            BY <3>1, <3>2
    <2> HIDE DEF W, hold, cut, ps
    <2>9. Len(qs) \in Nat /\ Len(qs) + 1 = Len(ps) /\ Len(qs) >= 1 /\ qs[1] = ps[1]
        BY <2>3, <2>5
    <2>10. Len(Append(qs, hold)) > 1 /\ Append(qs, hold)[1] = first
        BY <2>3, <2>8, <2>9
    <2>11. other \in Seq(W) /\ Len(other) > 1 /\ other[1] = first
        BY <2>3, <2>8, <2>9
    <2> HIDE DEF other
    <2>12. Len(Append(other, <<>>)) > 1 /\ Append(other, <<>>)[1] = first
        BY <2>8, <2>11
    <2>13. Len(Split(Append(v, c), d)) > 1 /\ Split(Append(v, c), d)[1] = first
        BY <2>6, <2>7, <2>10, <2>12
    <2> QED
        BY <2>1, <2>2, <2>13 DEF v
<1>3. Seq(T) \subseteq S
    <2> HIDE DEF S
    <2> QED
        BY <1>1, <1>2, SequenceInduction
<1> QED
    BY <1>3

Around(t, a, d, b) == t = a \o (d \o b)

\* Before the first place of a character there is none.
LEMMA FirstPlace ==
    ASSUME NEW T, NEW t \in Seq(T), NEW x \in T, \E i \in 1..Len(t) : t[i] = x
    PROVE  \E a \in Seq(T \ {x}), b \in Seq(T) : Around(t, a, <<x>>, b)
<1> DEFINE I == {i \in 1..Len(t) : t[i] = x}
<1>1. I \in SUBSET Nat /\ I # {} /\ Len(t) \in Nat
    OBVIOUS
<1>2. PICK i \in I : \A j \in I : i <= j
    BY <1>1, LeastNumber
<1> DEFINE a == SubSeq(t, 1, i - 1)
           b == SubSeq(t, i + 1, Len(t))
<1>3. i \in 1..Len(t) /\ t[i] = x
    OBVIOUS
<1>4. a \in Seq(T) /\ Len(a) = i - 1 /\ \A j \in 1..(i - 1) : a[j] = t[j]
    BY <1>1, <1>3
<1>5. b \in Seq(T) /\ Len(b) = Len(t) - i /\ \A j \in 1..(Len(t) - i) : b[j] = t[i + j]
    BY <1>1, <1>3
<1>6. \A j \in 1..(i - 1) : j \in 1..Len(t) /\ j < i
    BY <1>1, <1>3
<1>7. \A j \in 1..(i - 1) : t[j] # x
    BY <1>2, <1>3, <1>6
<1> HIDE DEF a, b, I
<1>8. a \in Seq(T \ {x})
    <2>1. a \in [1..(i - 1) -> T \ {x}] /\ i - 1 \in Nat
        BY <1>3, <1>4, <1>7
    <2> QED
        BY <2>1, FunctionIsSequence
<1>9. t = a \o (<<x>> \o b)
    <2> DEFINE e == <<x>> \o b
               f == a \o e
    <2>1. e \in Seq(T) /\ Len(e) = Len(t) - i + 1 /\ e[1] = x /\ \A j \in 1..(Len(t) - i) : e[j + 1] = b[j]
        <3> DEFINE d == <<x>>
        <3>1. d \in Seq(T) /\ Len(d) = 1 /\ d[1] = x
            OBVIOUS
        <3> HIDE DEF d
        <3>5. /\ d \o b \in Seq(T) /\ Len(d \o b) = Len(d) + Len(b)
              /\ \A j \in 1..Len(d) : (d \o b)[j] = d[j]
              /\ \A j \in 1..Len(b) : (d \o b)[Len(d) + j] = b[j]
            <4>1. d \o b \in Seq(T) /\ IsRow(d \o b, d, b)
                BY <1>5, <3>1, ConcatRow
            <4> QED
                BY <4>1, Zenon DEF IsRow
        <3>2. /\ d \o b \in Seq(T) /\ Len(d \o b) = 1 + Len(b)
              /\ (d \o b)[1] = x /\ \A j \in 1..Len(b) : (d \o b)[1 + j] = b[j]
            BY <3>1, <3>5
        <3>3. e = d \o b
            BY DEF d
        <3>4. Len(b) = Len(t) - i /\ Len(t) - i \in Nat /\ \A j \in Nat : 1 + j = j + 1
            BY <1>1, <1>3, <1>5
        <3> HIDE DEF e
        <3> QED
            BY <3>2, <3>3, <3>4
    <2> HIDE DEF e
    <2>5. /\ f \in Seq(T) /\ Len(f) = (i - 1) + Len(e)
          /\ \A j \in 1..(i - 1) : f[j] = a[j]
          /\ \A j \in 1..Len(e) : f[i - 1 + j] = e[j]
        <3>1. /\ f \in Seq(T) /\ Len(f) = Len(a) + Len(e)
              /\ \A j \in 1..Len(a) : f[j] = a[j]
              /\ \A j \in 1..Len(e) : f[Len(a) + j] = e[j]
            <4>1. f \in Seq(T) /\ IsRow(f, a, e)
                BY <1>4, <2>1, ConcatRow
            <4> QED
                BY <4>1, Zenon DEF IsRow
        <3> QED
            BY <1>4, <3>1
    <2> HIDE DEF f
    <2>2. f \in Seq(T) /\ Len(f) = Len(t)
        BY <1>1, <1>3, <2>1, <2>5
    <2>3. ASSUME NEW j \in 1..Len(t) PROVE t[j] = f[j]
        <3>1. CASE j < i
            <4>1. j \in 1..(i - 1)
                BY <1>1, <1>3, <3>1
            <4> QED
                BY <1>4, <2>5, <4>1
        <3>2. CASE j = i
            <4>1. 1 \in 1..Len(e) /\ i - 1 + 1 = i
                BY <1>1, <1>3, <2>1
            <4>2. f[i] = e[1]
                BY <2>5, <4>1
            <4> QED
                BY <1>3, <2>1, <3>2, <4>2
        <3>3. CASE j > i
            <4> DEFINE k == j - i
            <4>1. k \in 1..(Len(t) - i) /\ j = i + k /\ k + 1 \in 1..Len(e) /\ i - 1 + (k + 1) = j
                BY <1>1, <1>3, <2>1, <3>3
            <4> HIDE DEF k
            <4>2. f[i - 1 + (k + 1)] = e[k + 1]
                BY <2>5, <4>1
            <4> QED
                BY <1>5, <2>1, <4>1, <4>2
        <3>4. i \in Int /\ j \in Int
            BY <1>1, <1>3
        <3> QED
            BY <3>1, <3>2, <3>3, <3>4
    <2>4. t = f
        BY <2>2, <2>3, SequencesEqual
    <2> QED
        BY <2>4 DEF f, e
<1>10. Around(t, a, <<x>>, b)
    BY <1>9, Zenon DEF Around
<1> QED
    BY <1>5, <1>8, <1>10

\* What a text has before and after the first place of a character.
LEMMA SplitFirst ==
    ASSUME NEW T, NEW x \in T, NEW a \in Seq(T \ {x}), NEW b \in Seq(T)
    PROVE  LET t == a \o (<<x>> \o b) IN
           /\ Split(t, <<x>>)[1] = a
           /\ SubSeq(t, Len(a) + 2, Len(t)) = b
<1> DEFINE d == <<x>>
           e == d \o b
           v == Append(a, x)
           F == T \ {x}
<1>1. d \in Seq(T) /\ Len(d) = 1 /\ d[1] = x /\ d[Len(d)] = x /\ Nonempty(d)
    BY DEF Nonempty
<1>2. F \in SUBSET T /\ x \notin F
    OBVIOUS
<1>3. a \in Seq(T) /\ v \in Seq(T) /\ Len(a) \in Nat /\ Len(b) \in Nat
    OBVIOUS
<1>4. Split(a, d) = <<a>>
    <2>1. a \in Seq(F)
        OBVIOUS
    <2> HIDE DEF d, F
    <2> QED
        BY <1>1, <1>2, <2>1, SplitWhole
<1>5. Split(v, d) = Append(<<a>>, <<>>)
    BY <1>3, <1>4, SplitThere
<1>6. Len(Append(<<a>>, <<>>)) = 2 /\ Append(<<a>>, <<>>)[1] = a
    OBVIOUS
<1>7. v \o b = a \o e
    <2>1. v = a \o d
        BY <1>3, AppendIsConcat
    <2> HIDE DEF d, v
    <2>2. (a \o d) \o b = a \o (d \o b)
        BY <1>1, <1>3, ConcatAssociative
    <2> QED
        BY <2>1, <2>2, Zenon
<1>8. Split(v \o b, d)[1] = a
    <2> HIDE DEF d, v
    <2>1. Len(Split(v, d)) > 1 /\ Split(v, d)[1] = a
        BY <1>5, <1>6
    <2> QED
        BY <1>1, <1>3, <2>1, ClosedStays
<1>9. SubSeq(a \o e, Len(a) + 2, Len(a \o e)) = b
    <2> DEFINE t == a \o e
               n == Len(a)
               m == Len(b)
               s == SubSeq(t, n + 2, Len(t))
    <2>1. e \in Seq(T) /\ Len(e) = 1 + m /\ \A i \in 1..m : e[1 + i] = b[i]
        <3> HIDE DEF d
        <3>1. /\ e \in Seq(T) /\ Len(e) = Len(d) + Len(b)
              /\ \A i \in 1..Len(b) : e[Len(d) + i] = b[i]
            <4>1. e \in Seq(T) /\ IsRow(e, d, b)
                BY <1>1, ConcatRow
            <4> QED
                BY <4>1, Zenon DEF IsRow
        <3> HIDE DEF e
        <3> QED
            BY <1>1, <3>1
    <2> HIDE DEF e
    <2>2. t \in Seq(T) /\ Len(t) = n + Len(e) /\ \A i \in 1..Len(e) : t[n + i] = e[i]
        <3>1. e \in Seq(T)
            BY <2>1
        <3> QED
            <4>1. t \in Seq(T) /\ IsRow(t, a, e)
                BY <1>3, <3>1, ConcatRow
            <4> QED
                BY <4>1, Zenon DEF IsRow
    <2>3. ASSUME NEW i \in 1..m PROVE t[n + 1 + i] = b[i]
        <3>1. n + (1 + i) = n + 1 + i /\ 1 + i \in 1..Len(e)
            BY <1>3, <2>1
        <3>2. t[n + (1 + i)] = e[1 + i]
            BY <2>2, <3>1
        <3> QED
            BY <2>1, <3>1, <3>2
    <2> HIDE DEF t
    <2>4. s \in Seq(T) /\ Len(s) = m /\ \A i \in 1..m : s[i] = t[n + 1 + i]
        BY <1>3, <2>1, <2>2
    <2> HIDE DEF s, n, m
    <2>5. s = b
        BY <2>3, <2>4, SequencesEqual DEF m
    <2> QED
        BY <2>5 DEF s, t, n
<1> QED
    BY <1>7, <1>8, <1>9
-----------------------------------------------------------------------------
(* The characters of a request target. *)

\* A character as it is.
Sign(c) == [c |-> c, raw |-> TRUE]

\* The delimiters are strings, which the provers do not know of a literal.
Glyphs == STRING \cup {"{", "}", "[", "]", "/", "?", "&", "=", ",", ".", ";", "|", " "}
Wire == [c : Glyphs, raw : BOOLEAN]

\* Those of a quoted text.
Kept == {w \in Wire : w.raw => w.c \in Unreserved}

LEMMA SignIs == \A c : Mark(c) = <<Sign(c)>> /\ (c \in Glyphs => Sign(c) \in Wire)
BY DEF Mark, Sign, Wire

LEMMA SignsDiffer == \A a, b : Sign(a) = Sign(b) => a = b
<1> SUFFICES ASSUME NEW a, NEW b, Sign(a) = Sign(b) PROVE a = b
    OBVIOUS
<1>1. Sign(a).c = a /\ Sign(b).c = b
    BY DEF Sign
<1> QED
    BY <1>1

LEMMA SignKept == \A c : Sign(c) \in Kept => c \in Unreserved
<1> SUFFICES ASSUME NEW c, Sign(c) \in Kept PROVE c \in Unreserved
    OBVIOUS
<1>1. Sign(c).c = c /\ Sign(c).raw
    BY DEF Sign
<1>2. Sign(c).raw => Sign(c).c \in Unreserved
    BY Zenon DEF Kept
<1> QED
    BY <1>1, <1>2

LEMMA UnquotedIn ==
    ASSUME NEW text \in Texts
    PROVE  /\ Unquoted(text) \in Seq(Wire) /\ Len(Unquoted(text)) = Len(text) /\ Len(text) \in Nat
           /\ \A i \in 1..Len(text) : Unquoted(text)[i] = Sign(text[i])
<1>1. text \in Seq(STRING) /\ Len(text) \in Nat /\ DOMAIN text = 1..Len(text)
    BY DEF Texts
<1>2. \A i \in DOMAIN text : text[i] \in Glyphs
    <2>1. \A i \in DOMAIN text : text[i] \in STRING
        BY <1>1
    <2> QED
        BY <2>1 DEF Glyphs
<1>3. Unquoted(text) = [i \in DOMAIN text |-> Sign(text[i])]
    BY DEF Unquoted, Sign
<1>4. \A i \in DOMAIN text : Sign(text[i]) \in Wire
    BY <1>2, SignIs
<1>5. Unquoted(text) \in [1..Len(text) -> Wire]
    BY <1>1, <1>3, <1>4
<1> QED
    BY <1>1, <1>3, <1>5, FunctionIsSequence

LEMMA QuotedIn ==
    ASSUME NEW text \in Texts
    PROVE  Quoted(text, FALSE) \in Seq(Kept)
<1>1. text \in Seq(STRING) /\ Len(text) \in Nat /\ DOMAIN text = 1..Len(text)
    BY DEF Texts
<1> DEFINE plain(c) == c \in Unreserved \/ (FALSE /\ c \in Reserved)
           coded(c) == [c |-> c, raw |-> plain(c)]
<1>2. ASSUME NEW c \in Glyphs PROVE coded(c) \in Kept
    <2> DEFINE raw == plain(c)
    <2>1. raw \in BOOLEAN /\ (raw => c \in Unreserved)
        OBVIOUS
    <2> HIDE DEF raw
    <2>2. [c |-> c, raw |-> raw] \in Wire
        BY <2>1 DEF Wire
    <2>3. [c |-> c, raw |-> raw].c = c /\ [c |-> c, raw |-> raw].raw = raw
        OBVIOUS
    <2>4. [c |-> c, raw |-> raw] \in Kept
        BY <2>1, <2>2, <2>3 DEF Kept
    <2> QED
        BY <2>4 DEF raw
<1>3. Quoted(text, FALSE) = [i \in DOMAIN text |-> coded(text[i])]
    BY DEF Quoted
<1> HIDE DEF coded
<1>4. \A i \in DOMAIN text : text[i] \in Glyphs
    <2>1. \A i \in DOMAIN text : text[i] \in STRING
        BY <1>1
    <2> QED
        BY <2>1 DEF Glyphs
<1>5. \A i \in DOMAIN text : coded(text[i]) \in Kept
    BY <1>2, <1>4
<1>6. Quoted(text, FALSE) \in [1..Len(text) -> Kept]
    BY <1>1, <1>3, <1>5
<1> QED
    BY <1>1, <1>6, FunctionIsSequence

LEMMA EscapedIn == \A c \in Glyphs : Escaped(c) \in Seq(Kept)
<1> SUFFICES ASSUME NEW c \in Glyphs PROVE Escaped(c) \in Seq(Kept)
    OBVIOUS
<1> DEFINE w == [c |-> c, raw |-> FALSE]
<1>1. w \in Wire /\ ~w.raw
    BY DEF Wire
<1>2. Escaped(c) = <<w>>
    BY DEF Escaped
<1> HIDE DEF w
<1>3. w \in Kept
    BY <1>1 DEF Kept
<1> QED
    BY <1>2, <1>3
-----------------------------------------------------------------------------
(* The texts of parameters. *)

\* Parameters of a location that have a value and do not keep reserved characters.
Given(where) == {p \in ParameterSpecs : p.in = where /\ p.kind # "absent" /\ ~p.reserved}

LEMMA SpecIs ==
    ASSUME NEW p \in ParameterSpecs
    PROVE  /\ p.name \in Texts /\ p.reserved \in BOOLEAN
           /\ p.kind # "object" => p.value \in Seq(Texts)
           /\ p.kind = "object" => p.value \in Seq(Texts \X Seq(Texts))
BY DEF ParameterSpecs

LEMMA CodedIn ==
    ASSUME NEW p \in Given("path") \cup Given("query"), NEW text \in Texts
    PROVE  Coded(p, text) = Quoted(text, FALSE) /\ Coded(p, text) \in Seq(Kept)
<1>1. p \in ParameterSpecs /\ p.in \in {"path", "query"} /\ ~p.reserved
    BY DEF Given
<1>2. p.reserved = FALSE
    BY <1>1, SpecIs
<1>3. Coded(p, text) = Quoted(text, FALSE)
    BY <1>1, <1>2 DEF Coded
<1> QED
    BY <1>3, QuotedIn

LEMMA MembersIn ==
    ASSUME NEW p \in Given("path") \cup Given("query"), p.kind = "object"
    PROVE  Members(p) \in Seq(Seq(Kept) \X Seq(Kept))
<1> DEFINE K == Seq(Kept)
           value == p.value
           row(i) == [j \in DOMAIN value[i][2] |-> <<Coded(p, value[i][1]), Coded(p, value[i][2][j])>>]
<1>1. value \in Seq(Texts \X Seq(Texts))
    BY SpecIs DEF Given
<1>2. \A t \in Texts : Coded(p, t) \in K
    BY CodedIn
<1> HIDE DEF value, K
<1>3. ASSUME NEW i \in DOMAIN value PROVE row(i) \in Seq(K \X K)
    <2> DEFINE k == value[i][1]
               vs == value[i][2]
    <2>1. k \in Texts /\ vs \in Seq(Texts)
        BY <1>1, <1>3
    <2> HIDE DEF k, vs
    <2>2. Len(vs) \in Nat /\ DOMAIN vs = 1..Len(vs) /\ \A j \in DOMAIN vs : vs[j] \in Texts
        BY <2>1
    <2>3. Coded(p, k) \in K /\ \A j \in DOMAIN vs : Coded(p, vs[j]) \in K
        BY <1>2, <2>1, <2>2
    <2>4. [j \in DOMAIN vs |-> <<Coded(p, k), Coded(p, vs[j])>>] \in [1..Len(vs) -> K \X K]
        BY <2>2, <2>3
    <2>5. [j \in DOMAIN vs |-> <<Coded(p, k), Coded(p, vs[j])>>] \in Seq(K \X K)
        BY <2>2, <2>4, FunctionIsSequence
    <2> QED
        BY <2>5 DEF k, vs
<1> HIDE DEF row
<1>4. Len(value) \in Nat /\ DOMAIN value = 1..Len(value)
    BY <1>1
<1>5. [i \in DOMAIN value |-> row(i)] \in [1..Len(value) -> Seq(K \X K)]
    BY <1>3, <1>4
<1>6. [i \in DOMAIN value |-> row(i)] \in Seq(Seq(K \X K))
    BY <1>4, <1>5, FunctionIsSequence
<1>7. FlattenSeq([i \in DOMAIN value |-> row(i)]) \in Seq(K \X K)
    BY <1>6, FlatIn
<1>8. Members(p) = FlattenSeq([i \in DOMAIN value |-> row(i)])
    BY DEF Members, row, value
<1> QED
    BY <1>7, <1>8 DEF K

LEMMA AssignedIn ==
    ASSUME NEW T, NEW F \in SUBSET T, Sign("=") \in T, NEW pairs \in Seq(Seq(F) \X Seq(F))
    PROVE  /\ Assigned(pairs) \in Seq(Seq(T)) /\ Len(Assigned(pairs)) = Len(pairs)
           /\ \A i \in 1..Len(pairs) : Around(Assigned(pairs)[i], pairs[i][1], <<Sign("=")>>, pairs[i][2])
<1> DEFINE W == Seq(T)
           d == Mark("=")
           text(i) == pairs[i][1] \o d \o pairs[i][2]
<1>1. d \in W /\ d = <<Sign("=")>>
    <2>1. d = <<Sign("=")>>
        BY SignIs, Zenon
    <2> HIDE DEF d
    <2> QED
        BY <2>1
<1>2. Len(pairs) \in Nat /\ DOMAIN pairs = 1..Len(pairs)
    OBVIOUS
<1> HIDE DEF d
<1>3. ASSUME NEW i \in 1..Len(pairs) PROVE text(i) \in W /\ text(i) = pairs[i][1] \o (d \o pairs[i][2])
    <2> DEFINE k == pairs[i][1]
               v == pairs[i][2]
    <2>1. k \in Seq(F) /\ v \in Seq(F)
        BY <1>2
    <2> HIDE DEF k, v
    <2>2. k \in Seq(T) /\ v \in Seq(T)
        BY <2>1, SeqWider
    <2>3. (k \o d) \o v = k \o (d \o v)
        <3>1. \A f \in Seq(T), g \in Seq(T), h \in Seq(T) : (f \o g) \o h = f \o (g \o h)
            BY ConcatAssociative, SMTT(30)
        <3> QED
            BY <1>1, <2>2, <3>1
    <2>4. (k \o d) \o v \in Seq(T)
        BY <1>1, <2>2
    <2> QED
        BY <2>3, <2>4 DEF k, v
<1>4. Assigned(pairs) = [i \in DOMAIN pairs |-> text(i)]
    BY DEF Assigned, d
<1> HIDE DEF text, W
<1>5. Assigned(pairs) \in [1..Len(pairs) -> W]
    BY <1>2, <1>3, <1>4
<1>6. Assigned(pairs) \in Seq(W) /\ Len(Assigned(pairs)) = Len(pairs)
    BY <1>2, <1>5, FunctionIsSequence
<1>7. \A i \in 1..Len(pairs) : Assigned(pairs)[i] = text(i)
    BY <1>2, <1>4
<1>8. \A i \in 1..Len(pairs) : Assigned(pairs)[i] = pairs[i][1] \o (<<Sign("=")>> \o pairs[i][2])
    BY <1>1, <1>3, <1>7, Zenon
<1>9. \A i \in 1..Len(pairs) : Around(Assigned(pairs)[i], pairs[i][1], <<Sign("=")>>, pairs[i][2])
    BY <1>8, Zenon DEF Around
<1> QED
    BY <1>6, <1>9 DEF W

\* The parts of a value: its members as assignments are the only ones with a delimiter.
LEMMA PartsIn ==
    ASSUME NEW p \in Given("path") \cup Given("query")
    PROVE  /\ Parts(p) \in Seq(Seq(Kept \cup {Sign("=")}))
           /\ ~(p.kind = "object" /\ EffectiveExplode(p)) => Parts(p) \in Seq(Seq(Kept))
           /\ p.kind # "object" => Parts(p) = [i \in DOMAIN p.value |-> Quoted(p.value[i], FALSE)]
<1> DEFINE K == Seq(Kept)
           E == Kept \cup {Sign("=")}
<1>1. Seq(K) \subseteq Seq(Seq(E))
    <2>1. K \subseteq Seq(E)
        BY SeqWider
    <2> HIDE DEF K, E
    <2> QED
        BY <2>1, SeqWider
<1>2. CASE p.kind # "object"
    <2> DEFINE value == p.value
    <2>1. value \in Seq(Texts)
        BY <1>2, SpecIs DEF Given
    <2>2. Parts(p) = [i \in DOMAIN value |-> Coded(p, value[i])]
        BY <1>2 DEF Parts
    <2> HIDE DEF value, K
    <2>3. Len(value) \in Nat /\ DOMAIN value = 1..Len(value) /\ \A i \in DOMAIN value : value[i] \in Texts
        BY <2>1
    <2>4. \A i \in DOMAIN value : Coded(p, value[i]) = Quoted(value[i], FALSE) /\ Coded(p, value[i]) \in K
        BY <2>3, CodedIn DEF K
    <2>5. Parts(p) \in [1..Len(value) -> K]
        BY <2>2, <2>3, <2>4
    <2>6. Parts(p) \in Seq(K)
        BY <2>3, <2>5, FunctionIsSequence
    <2>7. Parts(p) = [i \in DOMAIN value |-> Quoted(value[i], FALSE)]
        BY <2>2, <2>4
    <2> QED
        BY <1>1, <1>2, <2>6, <2>7 DEF value, K
<1>3. CASE p.kind = "object" /\ EffectiveExplode(p)
    <2>1. Parts(p) = Assigned(Members(p))
        BY <1>3 DEF Parts
    <2>2. Members(p) \in Seq(Seq(Kept) \X Seq(Kept))
        BY <1>3, MembersIn
    <2>3. Assigned(Members(p)) \in Seq(Seq(E))
        <3>1. Kept \in SUBSET E /\ Sign("=") \in E
            OBVIOUS
        <3> HIDE DEF E
        <3> QED
            BY <2>2, <3>1, AssignedIn
    <2> QED
        BY <1>3, <2>1, <2>3
<1>4. CASE p.kind = "object" /\ ~EffectiveExplode(p)
    <2>1. Parts(p) = FlattenSeq(Members(p))
        BY <1>4 DEF Parts
    <2>2. Members(p) \in Seq(K \X K)
        BY <1>4, MembersIn
    <2> HIDE DEF K
    <2>3. ASSUME NEW e \in K \X K PROVE e \in Seq(K)
        <3>1. PICK k \in K, v \in K : e = <<k, v>>
            OBVIOUS
        <3>2. <<k, v>> \in Seq(K)
            OBVIOUS
        <3> QED
            BY <3>1, <3>2
    <2>4. Members(p) \in Seq(Seq(K))
        BY <2>2, <2>3, SeqWider
    <2>5. Parts(p) \in Seq(K)
        BY <2>1, <2>4, FlatIn
    <2> QED
        BY <1>1, <1>4, <2>5 DEF K
<1> QED
    BY <1>2, <1>3, <1>4
\* What can stand between two placeholders, and what the parts of a query are made of.
OpenBrace == "{"
CloseBrace == "}"
Closed == {w \in Wire : w # Sign(CloseBrace)}
Quiet == Kept \cup {Sign(","), Sign("|")}

LEMMA SignsApart ==
    /\ Kept \subseteq Closed
    /\ \A c \in {",", ".", ";", "="} : Sign(c) \in Closed
    /\ Sign(",") \notin Kept
    /\ Sign("&") \notin Quiet \cup {Sign("=")}
    /\ Sign("=") \notin Quiet
    /\ Quiet \subseteq Wire
    /\ \A c \in Glyphs : Sign(c) \in Wire
<1>1. \A c \in Glyphs : Sign(c) \in Wire
    BY SignIs, Zenon
<1>2. \A a, b \in {"&", "=", ",", "|", ".", ";", "}"} : Sign(a) = Sign(b) => a = b
    BY SignsDiffer, Zenon
<1>3. \A c \in {"&", "=", ",", "}"} : Sign(c) \notin Kept
    <2>1. \A c \in {"&", "=", ",", "}"} : c \notin Unreserved
        <3>1. \A c \in {"&", "=", ",", "}"} : c \notin Range(PathTokens)
            BY TokensAssumption DEF Reserved
        <3>2. \A c \in {"&", "=", ",", "}"} : c \notin {"a", "b", "c"}
            OBVIOUS
        <3> QED
            BY <3>1, <3>2 DEF Unreserved
    <2> QED
        BY <2>1, SignKept, Zenon
<1>4. Kept \subseteq Wire
    BY DEF Kept
<1>5. \A c \in {",", ".", ";", "="} : Sign(c) # Sign("}")
    BY <1>2
<1>6. Sign("&") \notin {Sign(","), Sign("|"), Sign("=")} /\ Sign("=") \notin {Sign(","), Sign("|")}
    BY <1>2
<1>7. Kept \subseteq Closed
    BY <1>3, <1>4, Zenon DEF Closed, CloseBrace
<1>8. \A c \in {",", ".", ";", "="} : Sign(c) \in Closed
    BY <1>1, <1>5, Zenon DEF Closed, CloseBrace, Glyphs
<1>9. Sign("&") \notin Quiet \cup {Sign("=")} /\ Sign("=") \notin Quiet
    BY <1>3, <1>6 DEF Quiet
<1>10. Quiet \subseteq Wire
    <2>1. "," \in Glyphs /\ "|" \in Glyphs
        BY DEF Glyphs
    <2> QED
        BY <1>1, <1>4, <2>1 DEF Quiet
<1> QED
    BY <1>1, <1>3, <1>7, <1>8, <1>9, <1>10

LEMMA PathTextIn ==
    ASSUME NEW p \in Given("path"), EffectiveStyle(p) \in {"simple", "label", "matrix"}
    PROVE  PathText(p) \in Seq(Closed)
<1> DEFINE C == Seq(Closed)
           parts == Parts(p)
           name == Mark(";") \o Quoted(p.name, FALSE) \o Mark("=")
<1>1. \A c \in {",", ".", ";", "="} : Mark(c) \in C
    <2>1. \A c \in {",", ".", ";", "="} : Mark(c) = <<Sign(c)>> /\ Sign(c) \in Closed
        BY SignIs, SignsApart
    <2>2. \A w \in Closed : <<w>> \in C
        OBVIOUS
    <2> QED
        BY <2>1, <2>2, Zenon
<1>2. parts \in Seq(C)
    <2>1. parts \in Seq(Seq(Kept \cup {Sign("=")}))
        BY PartsIn
    <2>2. Kept \cup {Sign("=")} \subseteq Closed
        BY SignsApart
    <2>3. Seq(Kept \cup {Sign("=")}) \subseteq C
        BY <2>2, SeqWider
    <2> HIDE DEF parts, C
    <2> QED
        BY <2>1, <2>3, SeqWider
<1>3. name \in C
    <2> DEFINE own == Quoted(p.name, FALSE)
    <2>1. own \in Seq(Kept)
        BY SpecIs, QuotedIn DEF Given
    <2> HIDE DEF own
    <2>2. own \in C
        BY <2>1, SignsApart, SeqWider
    <2>3. Mark(";") \in C /\ Mark("=") \in C
        BY <1>1
    <2>4. \A f, g \in C : f \o g \in C
        OBVIOUS
    <2> HIDE DEF C
    <2> QED
        BY <2>2, <2>3, <2>4 DEF own
<1>4. \A d \in C : Delimited(parts, d) \in C
    BY <1>2, DelimitedIn
<1>5. \A f, g \in C : f \o g \in C
    OBVIOUS
<1>6. FlattenSeq([i \in DOMAIN parts |-> Mark(";") \o parts[i]]) \in C
    <2> HIDE DEF parts, C
    <2>1. Len(parts) \in Nat /\ DOMAIN parts = 1..Len(parts) /\ \A i \in DOMAIN parts : parts[i] \in C
        BY <1>2
    <2> DEFINE led == [i \in DOMAIN parts |-> Mark(";") \o parts[i]]
    <2>2. \A i \in DOMAIN parts : Mark(";") \o parts[i] \in C
        BY <1>1, <1>5, <2>1
    <2>3. led \in [1..Len(parts) -> C]
        BY <2>1, <2>2
    <2> HIDE DEF led
    <2>4. led \in Seq(C)
        BY <2>1, <2>3, FunctionIsSequence
    <2>5. FlattenSeq(led) \in C
        BY <2>4, FlatIn DEF C
    <2> QED
        BY <2>5 DEF led
<1> HIDE DEF C, parts, name
<1>7. CASE EffectiveStyle(p) = "simple"
    <2>1. PathText(p) = Delimited(parts, Mark(","))
        BY <1>7 DEF PathText, parts
    <2> QED
        BY <1>1, <1>4, <2>1 DEF C
<1>8. CASE EffectiveStyle(p) = "label"
    <2> DEFINE d == Mark(IF EffectiveExplode(p) THEN "." ELSE ",")
    <2>1. PathText(p) = Mark(".") \o Delimited(parts, d)
        BY <1>8 DEF PathText, parts
    <2>2. d \in C
        BY <1>1
    <2> HIDE DEF d
    <2> QED
        BY <1>1, <1>4, <1>5, <2>1, <2>2 DEF C
<1>9. CASE EffectiveStyle(p) = "matrix"
    <2>1. CASE p.kind = "object" /\ EffectiveExplode(p)
        <3>1. PathText(p) = FlattenSeq([i \in DOMAIN parts |-> Mark(";") \o parts[i]])
            BY <1>9, <2>1 DEF PathText, parts
        <3> QED
            BY <1>6, <3>1 DEF C
    <2>2. CASE ~(p.kind = "object" /\ EffectiveExplode(p))
        <3> DEFINE d == IF EffectiveExplode(p) THEN name ELSE Mark(",")
        <3>1. PathText(p) = name \o Delimited(parts, d)
            BY <1>9, <2>2 DEF PathText, parts, name
        <3>2. d \in C
            BY <1>1, <1>3
        <3> HIDE DEF d
        <3> QED
            BY <1>3, <1>4, <1>5, <3>1, <3>2 DEF C
    <2> QED
        BY <2>1, <2>2
<1> QED
    BY <1>7, <1>8, <1>9

LEMMA QueryPairsIn ==
    ASSUME NEW p \in Given("query")
    PROVE  QueryPairs(p) \in Seq(Seq(Quiet) \X Seq(Quiet))
<1> DEFINE Q == Seq(Quiet)
           K == Seq(Kept)
           name == Coded(p, p.name)
           members == Members(p)
           parts == Parts(p)
<1>1. K \subseteq Q
    BY SeqWider DEF Quiet
<1>2. name \in K
    BY SpecIs, CodedIn DEF Given
<1>3. p.kind = "object" => members \in Seq(K \X K)
    BY MembersIn
<1>4. ~(p.kind = "object" /\ EffectiveExplode(p)) => parts \in Seq(K)
    BY PartsIn
<1>5. \A c \in {",", "|"} : Mark(c) \in Q
    <2>1. \A c \in {",", "|"} : Mark(c) = <<Sign(c)>> /\ Sign(c) \in Quiet
        BY SignIs DEF Quiet
    <2>2. \A w \in Quiet : <<w>> \in Q
        OBVIOUS
    <2> QED
        BY <2>1, <2>2, Zenon
<1>6. Escaped("[") \in Q /\ Escaped("]") \in Q /\ Escaped(" ") \in Q
    <2>1. \A c \in Glyphs : Escaped(c) \in Q
        BY <1>1, EscapedIn
    <2>2. "[" \in Glyphs /\ "]" \in Glyphs /\ " " \in Glyphs
        BY DEF Glyphs
    <2> QED
        BY <2>1, <2>2, Zenon
<1>7. \A d \in Q : parts \in Seq(K) => Delimited(parts, d) \in Q
    <2>1. parts \in Seq(K) => parts \in Seq(Q)
        <3> HIDE DEF K, Q, parts
        <3> QED
            BY <1>1, SeqWider
    <2> QED
        BY <2>1, DelimitedIn
<1>8. \A f, g \in Q : f \o g \in Q
    OBVIOUS
<1> HIDE DEF K, Q, name, members, parts
<1>9. \A v \in Q : <<<<name, v>>>> \in Seq(Q \X Q)
    BY <1>1, <1>2
<1>10. FormPairs(p) \in Seq(Q \X Q)
    <2>1. CASE p.kind = "object" /\ EffectiveExplode(p)
        <3>1. FormPairs(p) = members
            BY <2>1 DEF FormPairs, members
        <3>2. K \X K \subseteq Q \X Q
            BY <1>1
        <3> QED
            BY <1>3, <2>1, <3>1, <3>2, SeqWider
    <2>2. CASE p.kind = "array" /\ EffectiveExplode(p)
        <3> DEFINE value == p.value
        <3>1. value \in Seq(Texts)
            BY <2>2, SpecIs DEF Given
        <3>2. parts = [i \in DOMAIN value |-> Quoted(value[i], FALSE)]
            BY <2>2, PartsIn DEF parts
        <3>3. FormPairs(p) = [i \in DOMAIN value |-> <<name, parts[i]>>]
            BY <2>2 DEF FormPairs, name, parts
        <3> HIDE DEF value
        <3>4. Len(value) \in Nat /\ DOMAIN value = 1..Len(value) /\ \A i \in DOMAIN value : value[i] \in Texts
            BY <3>1
        <3>5. \A i \in DOMAIN value : parts[i] \in Q
            BY <1>1, <3>2, <3>4, QuotedIn DEF K
        <3>6. \A i \in DOMAIN value : <<name, parts[i]>> \in Q \X Q
            BY <1>1, <1>2, <3>5
        <3>7. FormPairs(p) \in [1..Len(value) -> Q \X Q]
            BY <3>3, <3>4, <3>6
        <3> QED
            BY <3>4, <3>7, FunctionIsSequence
    <2>3. CASE ~(p.kind = "object" /\ EffectiveExplode(p)) /\ ~(p.kind = "array" /\ EffectiveExplode(p))
        <3>1. FormPairs(p) = <<<<name, Delimited(parts, Mark(","))>>>>
            BY <2>3 DEF FormPairs, name, parts
        <3>2. Delimited(parts, Mark(",")) \in Q
            BY <1>4, <1>5, <1>7, <2>3
        <3> QED
            BY <1>9, <3>1, <3>2
    <2> QED
        BY <2>1, <2>2, <2>3
<1>11. CASE p.kind = "object" /\ EffectiveStyle(p) = "deepObject"
    <2> DEFINE key(i) == name \o Escaped("[") \o members[i][1] \o Escaped("]")
    <2>1. QueryPairs(p) = [i \in DOMAIN members |-> <<key(i), members[i][2]>>]
        BY <1>11 DEF QueryPairs, name, members
    <2>2. Len(members) \in Nat /\ DOMAIN members = 1..Len(members)
        BY <1>3, <1>11
    <2>3. \A i \in DOMAIN members : members[i][1] \in Q /\ members[i][2] \in Q
        BY <1>1, <1>3, <1>11
    <2>4. \A i \in DOMAIN members : key(i) \in Q
        <3>1. name \in Q /\ Escaped("[") \in Q /\ Escaped("]") \in Q
            BY <1>1, <1>2, <1>6
        <3> QED
            BY <1>8, <2>3, <3>1
    <2> HIDE DEF key
    <2>5. QueryPairs(p) \in [1..Len(members) -> Q \X Q]
        BY <2>1, <2>2, <2>3, <2>4
    <2> QED
        BY <2>2, <2>5, FunctionIsSequence DEF Q
<1>12. CASE p.kind = "array" /\ EffectiveStyle(p) = "spaceDelimited"
    <2>1. QueryPairs(p) = <<<<name, Delimited(parts, Escaped(" "))>>>>
        BY <1>12 DEF QueryPairs, name, parts
    <2>2. Delimited(parts, Escaped(" ")) \in Q
        BY <1>4, <1>6, <1>7, <1>12
    <2> QED
        BY <1>9, <2>1, <2>2 DEF Q
<1>13. CASE p.kind = "array" /\ EffectiveStyle(p) = "pipeDelimited"
    <2>1. QueryPairs(p) = <<<<name, Delimited(parts, Mark("|"))>>>>
        BY <1>13 DEF QueryPairs, name, parts
    <2>2. Delimited(parts, Mark("|")) \in Q
        BY <1>4, <1>5, <1>7, <1>13
    <2> QED
        BY <1>9, <2>1, <2>2 DEF Q
<1>14. CASE /\ ~(p.kind = "object" /\ EffectiveStyle(p) = "deepObject")
            /\ ~(p.kind = "array" /\ EffectiveStyle(p) = "spaceDelimited")
            /\ ~(p.kind = "array" /\ EffectiveStyle(p) = "pipeDelimited")
    <2>1. QueryPairs(p) = FormPairs(p)
        BY <1>14 DEF QueryPairs
    <2> QED
        BY <1>10, <2>1 DEF Q
<1> QED
    BY <1>11, <1>12, <1>13, <1>14

\* The parameters of a location are chosen from all.
LEMMA LocatedIn ==
    ASSUME NEW Q, NEW parameters \in Seq(Q), NEW where
    PROVE  Located(parameters, where) \in Seq({p \in Q : p.in = where /\ p.kind # "absent"})
<1> DEFINE L == {p \in Q : p.in = where /\ p.kind # "absent"}
           chosen(p) == IF p.in = where /\ p.kind # "absent" THEN <<p>> ELSE <<>>
           rows == [i \in DOMAIN parameters |-> chosen(parameters[i])]
<1>1. \A p \in Q : chosen(p) \in Seq(L)
    <2>1. ASSUME NEW p \in Q, p.in = where /\ p.kind # "absent" PROVE chosen(p) \in Seq(L)
        <3>1. p \in L /\ chosen(p) = <<p>>
            BY <2>1
        <3> HIDE DEF L, chosen
        <3> QED
            BY <3>1
    <2>2. ASSUME NEW p \in Q, ~(p.in = where /\ p.kind # "absent") PROVE chosen(p) \in Seq(L)
        <3>1. chosen(p) = <<>>
            BY <2>2
        <3> HIDE DEF L, chosen
        <3> QED
            BY <3>1
    <2> QED
        BY <2>1, <2>2
<1>2. /\ Len(parameters) \in Nat /\ DOMAIN parameters = 1..Len(parameters)
      /\ \A i \in DOMAIN parameters : parameters[i] \in Q
    OBVIOUS
<1>3. Located(parameters, where) = FlattenSeq(rows)
    BY DEF Located
<1> HIDE DEF L, chosen
<1>4. rows \in [1..Len(parameters) -> Seq(L)]
    BY <1>1, <1>2
<1>5. rows \in Seq(Seq(L))
    BY <1>2, <1>4, FunctionIsSequence
<1> HIDE DEF rows
<1>6. Located(parameters, where) \in Seq(L)
    BY <1>3, <1>5, FlatIn
<1> QED
    BY <1>6 DEF L

LEMMA PairsIn ==
    ASSUME NEW parameters, Located(parameters, "query") \in Seq(Given("query"))
    PROVE  PairsOf(parameters) \in Seq(Seq(Quiet) \X Seq(Quiet))
<1> DEFINE D == Seq(Quiet) \X Seq(Quiet)
           query == Located(parameters, "query")
           rows == [i \in DOMAIN query |-> QueryPairs(query[i])]
<1>1. PairsOf(parameters) = FlattenSeq(rows)
    BY DEF PairsOf
<1>2. \A p \in Given("query") : QueryPairs(p) \in Seq(D)
    BY QueryPairsIn
<1> HIDE DEF D, query
<1>3. Len(query) \in Nat /\ DOMAIN query = 1..Len(query) /\ \A i \in DOMAIN query : query[i] \in Given("query")
    BY DEF query
<1>4. rows \in [1..Len(query) -> Seq(D)]
    BY <1>2, <1>3
<1>5. rows \in Seq(Seq(D))
    BY <1>3, <1>4, FunctionIsSequence
<1> HIDE DEF rows
<1>6. PairsOf(parameters) \in Seq(D)
    BY <1>1, <1>5, FlatIn
<1> QED
    BY <1>6 DEF D
-----------------------------------------------------------------------------
(* Placeholders. *)

Names == {name \in Texts : Braceless(name)}

LEMMA BracesApart ==
    /\ OpenBrace \in Glyphs /\ CloseBrace \in Glyphs
    /\ Sign(OpenBrace) \in Wire /\ Sign(CloseBrace) \in Wire /\ Sign(OpenBrace) # Sign(CloseBrace)
<1>1. OpenBrace \in Glyphs /\ CloseBrace \in Glyphs /\ OpenBrace # CloseBrace
    BY Zenon DEF Glyphs, OpenBrace, CloseBrace
<1> QED
    BY <1>1, SignIs, SignsDiffer, Zenon

LEMMA BracelessIs ==
    ASSUME NEW name \in Names
    PROVE  /\ name \in Texts /\ name \in Seq(STRING) /\ DOMAIN name = 1..Len(name)
           /\ \A i \in 1..Len(name) : name[i] # OpenBrace /\ name[i] # CloseBrace
<1>1. name \in Texts /\ \A i \in DOMAIN name : name[i] # OpenBrace /\ name[i] # CloseBrace
    BY Zenon DEF Names, Braceless, OpenBrace, CloseBrace
<1>2. name \in Seq(STRING)
    BY <1>1 DEF Texts
<1>3. DOMAIN name = 1..Len(name)
    BY <1>2
<1> QED
    BY <1>1, <1>2, <1>3, Zenon

\* A placeholder without its closing brace.
Opening(name) == Mark(OpenBrace) \o Unquoted(name)

LEMMA OpeningIs ==
    ASSUME NEW name \in Names
    PROVE  /\ Opening(name) \in Seq(Closed) /\ Len(Opening(name)) = Len(name) + 1 /\ Len(name) \in Nat
           /\ Opening(name)[1] = Sign(OpenBrace)
           /\ \A i \in 1..Len(name) : Opening(name)[i + 1] = Sign(name[i])
<1> DEFINE d == Mark(OpenBrace)
           u == Unquoted(name)
           n == Len(name)
           front == d \o u
<1>1. name \in Texts /\ DOMAIN name = 1..n /\ \A i \in 1..n : name[i] # OpenBrace /\ name[i] # CloseBrace
    BY BracelessIs
<1>2. u \in Seq(Wire) /\ Len(u) = n /\ n \in Nat /\ \A i \in 1..n : u[i] = Sign(name[i])
    BY <1>1, UnquotedIn
<1>3. d = <<Sign(OpenBrace)>>
    BY SignIs, Zenon
<1>4. Sign(OpenBrace) \in Wire /\ Sign(OpenBrace) # Sign(CloseBrace)
    BY BracesApart
<1> HIDE DEF d, u, n
<1>5. d \in Seq(Closed) /\ Len(d) = 1 /\ d[1] = Sign(OpenBrace)
    <2> DEFINE w == Sign(OpenBrace)
    <2>1. w \in Closed
        BY <1>4 DEF Closed
    <2> HIDE DEF w
    <2>2. <<w>> \in Seq(Closed) /\ Len(<<w>>) = 1 /\ <<w>>[1] = w
        BY <2>1
    <2> QED
        BY <1>3, <2>2, Zenon DEF w
<1>6. u \in Seq(Closed)
    <2>1. \A i \in 1..n : u[i] # Sign(CloseBrace)
        BY <1>1, <1>2, SignsDiffer
    <2>2. \A i \in 1..n : u[i] \in Wire
        BY <1>2
    <2>3. u \in [1..n -> Closed]
        BY <1>2, <2>1, <2>2 DEF Closed
    <2> QED
        BY <1>2, <2>3, FunctionIsSequence
<1>7. front \in Seq(Closed) /\ IsRow(front, d, u)
    BY <1>5, <1>6, ConcatRow
<1> HIDE DEF front
<1>8. /\ Len(front) = n + 1
      /\ front[1] = Sign(OpenBrace)
      /\ \A i \in 1..n : front[i + 1] = Sign(name[i])
    <2>1. Len(front) = 1 + n /\ front[1] = d[1] /\ \A i \in 1..n : front[1 + i] = u[i]
        BY <1>2, <1>5, <1>7 DEF IsRow
    <2>2. \A i \in 1..n : 1 + i = i + 1
        OBVIOUS
    <2> QED
        BY <1>2, <1>5, <2>1, <2>2
<1>9. Opening(name) = front
    BY DEF Opening, front, d, u
<1> QED
    BY <1>2, <1>7, <1>8, <1>9 DEF n

LEMMA PlaceholderIs ==
    ASSUME NEW name \in Names
    PROVE  /\ Placeholder(name) = Append(Opening(name), Sign(CloseBrace))
           /\ Placeholder(name) \in Seq(Wire) /\ Len(Placeholder(name)) = Len(name) + 2 /\ Len(name) \in Nat
           /\ Placeholder(name)[1] = Sign(OpenBrace)
           /\ \A i \in 1..Len(name) : Placeholder(name)[i + 1] = Sign(name[i])
           /\ Placeholder(name)[Len(name) + 2] = Sign(CloseBrace)
           /\ Nonempty(Placeholder(name))
<1> DEFINE e == Sign(CloseBrace)
           front == Opening(name)
           all == Append(front, e)
           n == Len(name)
<1>1. Mark(CloseBrace) = <<e>>
    BY SignIs, Zenon
<1>2. e \in Wire
    BY BracesApart
<1>3. /\ front \in Seq(Wire) /\ Len(front) = n + 1 /\ n \in Nat /\ front[1] = Sign(OpenBrace)
      /\ \A i \in 1..n : front[i + 1] = Sign(name[i])
    <2>1. front \in Seq(Closed) /\ Closed \subseteq Wire
        BY OpeningIs DEF Closed
    <2>2. front \in Seq(Wire)
        BY <2>1, SeqWider
    <2> QED
        BY <2>2, OpeningIs
<1> HIDE DEF e, front, n
<1>4. all = front \o <<e>>
    BY <1>2, <1>3, AppendIsConcat
<1>5. Placeholder(name) = all
    BY <1>1, <1>4, Zenon DEF Placeholder, Opening, front, OpenBrace, CloseBrace
<1>6. /\ all \in Seq(Wire) /\ Len(all) = n + 2 /\ all[n + 2] = e
      /\ \A i \in 1..(n + 1) : all[i] = front[i]
    BY <1>2, <1>3
<1> HIDE DEF all
<1>7. Nonempty(all)
    BY <1>3, <1>6 DEF Nonempty
<1>8. all[1] = Sign(OpenBrace) /\ \A i \in 1..n : all[i + 1] = Sign(name[i])
    <2>1. 1 \in 1..(n + 1) /\ \A i \in 1..n : i + 1 \in 1..(n + 1)
        BY <1>3
    <2> QED
        BY <1>3, <1>6, <2>1
<1> QED
    BY <1>3, <1>5, <1>6, <1>7, <1>8 DEF all, e, front, n

\* Placeholders of different names differ at the end of any text.
LEMMA EndsWithPlaceholder ==
    ASSUME NEW r \in Seq(Wire), NEW m \in Names, NEW n \in Names
    PROVE  IsSuffix(Placeholder(n), r \o Placeholder(m)) <=> m = n
<1> DEFINE d == Placeholder(n)
           e == Placeholder(m)
           s == r \o e
           k == Len(n)
           l == Len(m)
<1>1. /\ d \in Seq(Wire) /\ Len(d) = k + 2 /\ k \in Nat /\ d[1] = Sign(OpenBrace) /\ d[k + 2] = Sign(CloseBrace)
      /\ \A i \in 1..k : d[i + 1] = Sign(n[i])
    BY PlaceholderIs
<1>2. /\ e \in Seq(Wire) /\ Len(e) = l + 2 /\ l \in Nat /\ e[1] = Sign(OpenBrace) /\ e[l + 2] = Sign(CloseBrace)
      /\ \A i \in 1..l : e[i + 1] = Sign(m[i])
    BY PlaceholderIs
<1>3. /\ \A i \in 1..k : n[i] # OpenBrace
      /\ \A i \in 1..l : m[i] # OpenBrace
      /\ n \in Seq(STRING) /\ m \in Seq(STRING)
    BY BracelessIs
<1> HIDE DEF d, e
<1>4. s \in Seq(Wire) /\ IsRow(s, r, e) /\ Len(r) \in Nat
    BY <1>2, ConcatRow
<1> HIDE DEF s, k, l
<1>5. Len(s) = Len(r) + (l + 2) /\ \A i \in 1..(l + 2) : s[Len(r) + i] = e[i]
    BY <1>2, <1>4 DEF IsRow
<1>6. IsSuffix(d, s) <=> k + 2 <= Len(s) /\ \A i \in 1..(k + 2) : d[i] = s[Len(s) - (k + 2) + i]
    <2>1. d \in Seq(Wire) /\ s \in Seq(Wire)
        BY <1>1, <1>4
    <2>2. IsSuffix(d, s) <=> Len(d) <= Len(s) /\ \A i \in 1..Len(d) : d[i] = s[Len(s) - Len(d) + i]
        BY <2>1, SuffixIs
    <2>3. Len(d) = k + 2
        BY <1>1
    <2> QED
        BY <2>2, <2>3, Zenon
<1>7. ASSUME m = n PROVE IsSuffix(d, s)
    <2>1. d = e /\ k = l
        BY <1>7 DEF d, e, k, l
    <2>2. Len(s) - (k + 2) = Len(r)
        BY <1>1, <1>4, <1>5, <2>1
    <2> QED
        BY <1>1, <1>4, <1>5, <1>6, <2>1, <2>2
<1>8. ASSUME IsSuffix(d, s), k = l PROVE m = n
    <2>1. Len(s) - (k + 2) = Len(r)
        BY <1>1, <1>4, <1>5, <1>8
    <2>2. \A i \in 1..(k + 2) : d[i] = e[i]
        BY <1>5, <1>6, <1>8, <2>1
    <2>3. ASSUME NEW i \in 1..k PROVE n[i] = m[i]
        <3>1. i + 1 \in 1..(k + 2)
            BY <1>1
        <3>2. Sign(n[i]) = Sign(m[i])
            BY <1>1, <1>2, <1>8, <2>2, <3>1
        <3> QED
            BY <3>2, SignsDiffer
    <2> QED
        BY <1>3, <1>8, <2>3, SequencesEqual DEF k, l
<1>9. ASSUME IsSuffix(d, s), k > l PROVE FALSE
    <2> DEFINE i == k - l
    <2>1. i \in 1..k /\ i + 1 \in 1..(k + 2) /\ Len(s) - (k + 2) + (i + 1) = Len(r) + 1 /\ 1 \in 1..(l + 2)
        BY <1>1, <1>2, <1>4, <1>5, <1>9
    <2> HIDE DEF i
    <2>2. d[i + 1] = e[1]
        BY <1>5, <1>6, <1>9, <2>1
    <2>3. Sign(n[i]) = Sign(OpenBrace)
        BY <1>1, <1>2, <2>1, <2>2
    <2> QED
        BY <1>3, <2>1, <2>3, SignsDiffer
<1>10. ASSUME IsSuffix(d, s), k < l PROVE FALSE
    <2> DEFINE i == l - k
    <2>1. i \in 1..l /\ i + 1 \in 1..(l + 2) /\ Len(s) - (k + 2) + 1 = Len(r) + (i + 1) /\ 1 \in 1..(k + 2)
        BY <1>1, <1>2, <1>4, <1>5, <1>10
    <2> HIDE DEF i
    <2>2. d[1] = e[i + 1]
        BY <1>5, <1>6, <1>10, <2>1
    <2>3. Sign(OpenBrace) = Sign(m[i])
        BY <1>1, <1>2, <2>1, <2>2
    <2> QED
        BY <1>3, <2>1, <2>3, SignsDiffer
<1>11. IsSuffix(d, s) <=> m = n
    BY <1>1, <1>2, <1>7, <1>8, <1>9, <1>10
<1> QED
    BY <1>11 DEF d, s, e

\* A text with one more placeholder: the one it is split at ends a part, another does not.
LEMMA PlaceholderSplits ==
    ASSUME NEW m \in Names, NEW n \in Names, NEW t \in Seq(Wire), NEW qs \in Seq(Seq(Wire)), NEW r \in Seq(Wire),
           SplitsInto(t, Placeholder(n), qs, r)
    PROVE  SplitsInto(t \o Placeholder(m), Placeholder(n), IF m = n THEN Append(qs, r) ELSE qs,
                      IF m = n THEN <<>> ELSE r \o Placeholder(m))
<1> DEFINE d == Placeholder(n)
           e == Placeholder(m)
           x == Sign(CloseBrace)
           front == Opening(m)
           v == t \o front
           w == r \o front
           hold == Append(w, x)
           cut == SubSeq(hold, 1, Len(w) + 1 - Len(d))
<1>1. x \in Wire /\ Closed \in SUBSET Wire /\ x \notin Closed
    BY BracesApart DEF Closed
<1>2. d \in Seq(Wire) /\ Nonempty(d) /\ d[Len(d)] = x
    BY PlaceholderIs
<1>3. front \in Seq(Closed) /\ front \in Seq(Wire)
    BY <1>1, OpeningIs, SeqWider
<1>4. e = Append(front, x) /\ e \in Seq(Wire)
    BY PlaceholderIs
<1> HIDE DEF d, e, x, front
<1>5. SplitsInto(v, d, qs, w)
    <2>1. SplitsInto(t, d, qs, r)
        BY DEF d
    <2> QED
        BY <1>1, <1>2, <1>3, <2>1, SplitGoesOn
<1>6. v \in Seq(Wire) /\ w \in Seq(Wire)
    BY <1>3
<1>7. t \o e = Append(v, x) /\ r \o e = hold
    <2>1. \A f \in Seq(Wire), g \in Seq(Wire), y \in Wire : f \o Append(g, y) = Append(f \o g, y)
        BY ConcatAppend
    <2> QED
        BY <1>1, <1>3, <1>4, <2>1
<1>8. Len(w) = Len(r) + Len(front) /\ Len(r) \in Nat /\ Len(front) \in Nat /\ \A i \in 1..Len(r) : w[i] = r[i]
    BY <1>3
<1> HIDE DEF v, w
<1>9. Split(t \o e, d) = NextPiece(Append(qs, w), x, d)
    BY <1>1, <1>5, <1>6, <1>7, SplitAppend DEF SplitsInto
<1>10. NextPiece(Append(qs, w), x, d) = IF IsSuffix(d, hold) THEN Append(Append(qs, cut), <<>>) ELSE Append(qs, hold)
    BY <1>1, <1>2, <1>6, NextOf
<1>11. IsSuffix(d, hold) <=> m = n
    <2>1. IsSuffix(Placeholder(n), r \o Placeholder(m)) <=> m = n
        BY EndsWithPlaceholder
    <2> QED
        BY <1>7, <2>1, Zenon DEF d, e
<1>12. m = n => cut = r
    <2> SUFFICES ASSUME m = n PROVE cut = r
        OBVIOUS
    <2>1. Len(d) = Len(front) + 1
        BY PlaceholderIs, OpeningIs DEF d, front
    <2>2. Len(w) + 1 - Len(d) = Len(r)
        BY <1>8, <2>1
    <2>3. hold \in Seq(Wire) /\ Len(hold) = Len(w) + 1 /\ \A i \in 1..Len(w) : hold[i] = w[i]
        BY <1>1, <1>6
    <2> HIDE DEF hold
    <2>4. cut \in Seq(Wire) /\ Len(cut) = Len(r) /\ \A i \in 1..Len(r) : cut[i] = r[i]
        <3>1. cut = SubSeq(hold, 1, Len(r)) /\ Len(r) \in Nat
            BY <2>2
        <3>2. Len(r) <= Len(hold) /\ \A i \in 1..Len(r) : i \in 1..Len(w) /\ i \in 1..Len(hold)
            BY <1>6, <1>8, <2>3, <3>1
        <3>3. \A i \in 1..Len(r) : hold[i] = r[i]
            BY <1>8, <2>3, <3>2
        <3>4. SubSeq(hold, 1, Len(r)) \in Seq(Wire) /\ Len(SubSeq(hold, 1, Len(r))) = Len(r)
              /\ \A i \in 1..Len(r) : SubSeq(hold, 1, Len(r))[i] = hold[i]
            BY <2>3, <3>1, <3>2
        <3> QED
            BY <3>1, <3>3, <3>4
    <2> HIDE DEF cut
    <2> QED
        BY <2>4, SequencesEqual
<1> HIDE DEF hold, cut
<1>13. CASE m = n
    <2>1. Split(t \o e, d) = Append(Append(qs, r), <<>>)
        BY <1>9, <1>10, <1>11, <1>12, <1>13, Zenon
    <2> QED
        BY <1>13, <2>1, Zenon DEF SplitsInto, d, e
<1>14. CASE m # n
    <2>1. Split(t \o e, d) = Append(qs, r \o e)
        BY <1>7, <1>9, <1>10, <1>11, <1>14, Zenon
    <2> QED
        BY <1>14, <2>1, Zenon DEF SplitsInto, d, e
<1> QED
    BY <1>13, <1>14
\* Texts between placeholders, and placeholders.
Tokens == Seq(Closed) \cup {Placeholder(name) : name \in Names}

LEMMA TokensAre ==
    /\ Tokens \subseteq Seq(Wire)
    /\ \A m, n \in Names : Placeholder(m) = Placeholder(n) => m = n
    /\ \A m \in Names : Placeholder(m) \notin Seq(Closed)
<1>1. Seq(Closed) \subseteq Seq(Wire)
    <2>1. Closed \subseteq Wire
        BY DEF Closed
    <2> QED
        BY <2>1, SeqWider
<1>2. \A m \in Names : Placeholder(m) \in Seq(Wire)
    BY PlaceholderIs
<1>3. ASSUME NEW m \in Names, NEW n \in Names, Placeholder(m) = Placeholder(n) PROVE m = n
    <2>1. <<>> \in Seq(Wire)
        OBVIOUS
    <2>2. IsSuffix(Placeholder(n), <<>> \o Placeholder(m)) <=> m = n
        BY <2>1, EndsWithPlaceholder
    <2>3. IsSuffix(Placeholder(n), <<>> \o Placeholder(n))
        BY <2>1, EndsWithPlaceholder
    <2> QED
        BY <1>3, <2>2, <2>3, Zenon
<1>4. ASSUME NEW m \in Names PROVE Placeholder(m) \notin Seq(Closed)
    <2> DEFINE e == Placeholder(m)
               x == Sign(CloseBrace)
    <2>1. Len(e) = Len(m) + 2 /\ Len(m) \in Nat /\ e[Len(m) + 2] = x
        BY PlaceholderIs
    <2>2. x \notin Closed
        BY DEF Closed
    <2> HIDE DEF e, x
    <2>3. ASSUME e \in Seq(Closed) PROVE FALSE
        <3>1. Len(m) + 2 \in 1..Len(e)
            BY <2>1
        <3>2. e[Len(m) + 2] \in Closed
            BY <2>3, <3>1
        <3> QED
            BY <2>1, <2>2, <3>2
    <2> QED
        BY <2>3 DEF e
<1> QED
    BY <1>1, <1>2, <1>3, <1>4 DEF Tokens

\* The tokens with a value in the place of one name.
Placed(toks, name, v) == [i \in DOMAIN toks |-> IF toks[i] = Placeholder(name) THEN v ELSE toks[i]]

LEMMA FilledAppend ==
    ASSUME NEW W, NEW toks \in Seq(W), NEW u \in W, NEW name, NEW v \in W
    PROVE  Placed(Append(toks, u), name, v) = Append(Placed(toks, name, v), IF u = Placeholder(name) THEN v ELSE u)
<1> DEFINE e == Placeholder(name)
           n == Len(toks)
           longer == Append(toks, u)
           last == IF u = e THEN v ELSE u
           some == Placed(toks, name, v)
           all == Append(some, last)
<1>1. n \in Nat /\ DOMAIN toks = 1..n /\ \A i \in 1..n : toks[i] \in W
    OBVIOUS
<1>2. longer \in Seq(W) /\ DOMAIN longer = 1..(n + 1) /\ longer[n + 1] = u /\ \A i \in 1..n : longer[i] = toks[i]
    OBVIOUS
<1>3. last \in W
    OBVIOUS
<1> HIDE DEF e, n, longer, last
<1>4. some = [i \in 1..n |-> IF toks[i] = e THEN v ELSE toks[i]]
    BY <1>1, Zenon DEF Placed, e
<1>5. some \in [1..n -> W]
    BY <1>1, <1>4
<1>6. some \in Seq(W) /\ Len(some) = n
    BY <1>1, <1>5, FunctionIsSequence
<1>7. \A i \in 1..n : some[i] = IF toks[i] = e THEN v ELSE toks[i]
    BY <1>4
<1> HIDE DEF some
<1>8. all \in Seq(W) /\ Len(all) = n + 1 /\ all[n + 1] = last /\ \A i \in 1..n : all[i] = some[i]
    BY <1>1, <1>3, <1>6
<1> HIDE DEF all
<1>9. \A i \in 1..(n + 1) : all[i] = IF longer[i] = e THEN v ELSE longer[i]
    <2>1. \A i \in 1..(n + 1) : i = n + 1 \/ i \in 1..n
        BY <1>1
    <2>2. all[n + 1] = IF longer[n + 1] = e THEN v ELSE longer[n + 1]
        BY <1>2, <1>8, Zenon DEF last
    <2>3. \A i \in 1..n : all[i] = IF longer[i] = e THEN v ELSE longer[i]
        BY <1>2, <1>7, <1>8
    <2> QED
        BY <2>1, <2>2, <2>3
<1>10. all = [i \in 1..(n + 1) |-> all[i]]
    BY <1>1, <1>8
<1>11. all = [i \in DOMAIN longer |-> IF longer[i] = e THEN v ELSE longer[i]]
    BY <1>2, <1>9, <1>10
<1>12. Placed(longer, name, v) = all
    BY <1>11, Zenon DEF Placed, e
<1> QED
    BY <1>12, Zenon DEF longer, all, last, some, e

\* A text is one that goes on with another.
Extends(w, r, u) == w = r \o u

\* A last part that goes on.
LEMMA BehindGoesOn ==
    ASSUME NEW T, NEW qs \in Seq(Seq(T)), NEW d \in Seq(T), NEW r \in Seq(T), NEW u \in Seq(T),
           NEW w, Extends(w, r, u)
    PROVE  Extends(Behind(qs, d, w), Behind(qs, d, r), u)
<1> DEFINE j == Delimited(qs, d)
           e == d \o r
<1>1. j \in Seq(T) /\ e \in Seq(T)
    BY DelimitedIn
<1>2. \A f \in Seq(T), g \in Seq(T), h \in Seq(T) : (f \o g) \o h = f \o (g \o h)
    BY ConcatAssociative, SMTT(30)
<1> HIDE DEF j
<1>3. d \o (r \o u) = e \o u
    BY <1>2
<1> HIDE DEF e
<1>4. j \o (e \o u) = (j \o e) \o u
    BY <1>1, <1>2
<1>5. CASE Nonempty(qs)
    <2>1. Behind(qs, d, w) = j \o (d \o (r \o u)) /\ Behind(qs, d, r) = j \o (d \o r)
        BY <1>5, Zenon DEF Behind, Extends, j
    <2> QED
        BY <1>3, <1>4, <2>1, Zenon DEF Extends, e
<1>6. CASE ~Nonempty(qs)
    BY <1>6, Zenon DEF Behind, Extends
<1> QED
    BY <1>5, <1>6

\* Splitting at a placeholder and joining with a value is putting the value in its places.
LEMMA PlaceholdersFilled ==
    ASSUME NEW name \in Names, NEW v \in Seq(Wire), NEW toks \in Seq(Tokens)
    PROVE  Delimited(Split(FlattenSeq(toks), Placeholder(name)), v) = FlattenSeq(Placed(toks, name, v))
<1> DEFINE W == Seq(Wire)
           d == Placeholder(name)
           empty == <<>>
           S == {s \in Seq(Tokens) : Delimited(Split(FlattenSeq(s), d), v) = FlattenSeq(Placed(s, name, v))}
<1>1. Tokens \subseteq W /\ Seq(Tokens) \subseteq Seq(W)
    <2>1. Tokens \subseteq W
        BY TokensAre
    <2> HIDE DEF W
    <2> QED
        BY <2>1, SeqWider
<1>2. d \in W
    BY PlaceholderIs
<1>3. empty \in S
    <2>1. Split(empty, d) = Append(empty, empty) /\ empty \in Seq(Tokens)
        BY SplitEmpty
    <2>2. Delimited(Append(empty, empty), v) = empty
        <3>1. empty \in Seq(W) /\ empty \in W /\ ~Nonempty(empty)
            BY DEF Nonempty
        <3> HIDE DEF empty, W
        <3>2. Delimited(Append(empty, empty), v) = Behind(empty, v, empty)
            BY <3>1, DelimitedAppend DEF W
        <3> QED
            BY <3>1, <3>2, Zenon DEF Behind
    <2>3. Placed(empty, name, v) = empty
        BY DEF Placed
    <2>4. FlattenSeq(empty) = empty
        BY FlatEmpty
    <2> HIDE DEF empty
    <2> QED
        BY <2>1, <2>2, <2>3, <2>4, Zenon
<1>4. ASSUME NEW s \in Seq(Tokens), NEW u \in Tokens, s \in S PROVE Append(s, u) \in S
    <2> DEFINE t == FlattenSeq(s)
               filled == Placed(s, name, v)
               w == IF u = d THEN v ELSE u
    <2>1. s \in Seq(W) /\ u \in W /\ Append(s, u) \in Seq(Tokens)
        BY <1>1
    <2>2. t \in W /\ FlattenSeq(Append(s, u)) = t \o u
        BY <2>1, FlatIn, FlatAppend
    <2>3. Placed(Append(s, u), name, v) = Append(filled, w)
        BY <2>1, FilledAppend
    <2>4. filled \in Seq(W) /\ w \in W
        <3> HIDE DEF W
        <3>1. Len(s) \in Nat /\ DOMAIN s = 1..Len(s) /\ \A i \in 1..Len(s) : s[i] \in W
            BY <2>1
        <3>2. v \in W
            BY DEF W
        <3>3. filled \in [1..Len(s) -> W]
            BY <3>1, <3>2 DEF Placed
        <3> HIDE DEF filled
        <3> QED
            BY <2>1, <3>1, <3>2, <3>3, FunctionIsSequence
    <2>5. FlattenSeq(Append(filled, w)) = FlattenSeq(filled) \o w
        <3> HIDE DEF filled, w
        <3> QED
            BY <2>4, FlatAppend
    <2>6. Delimited(Split(t, d), v) = FlattenSeq(filled)
        BY <1>4
    <2>7. PICK qs \in Seq(W), r \in W : Split(t, d) = Append(qs, r)
        <3> HIDE DEF d, t
        <3>1. Split(t, d) \in Seq(W) /\ Split(t, d) # <<>>
            BY <1>2, <2>2, SplitIn DEF Nonempty
        <3> HIDE DEF W
        <3> QED
            BY <3>1, LastPart
    <2>8. SplitsInto(t, d, qs, r)
        BY <2>7, Zenon DEF SplitsInto
    <2>9. Delimited(Append(qs, r), v) = Behind(qs, v, r)
        BY DelimitedAppend
    <2>10. Delimited(Split(t \o u, d), v) = Behind(qs, v, r) \o w
        <3>1. CASE u = d
            <4>1. SplitsInto(t \o u, d, Append(qs, r), empty)
                <5>1. SplitsInto(t \o Placeholder(name), Placeholder(name),
                                 IF name = name THEN Append(qs, r) ELSE qs,
                                 IF name = name THEN <<>> ELSE r \o Placeholder(name))
                    <6> HIDE DEF t, S, filled
                    <6> QED
                        BY <2>2, <2>8, PlaceholderSplits, SMTT(30) DEF d
                <5> QED
                    BY <3>1, <5>1, Zenon
            <4>2. Append(qs, r) \in Seq(W) /\ empty \in W
                OBVIOUS
            <4>3. Nonempty(Append(qs, r))
                <5> HIDE DEF W
                <5> QED
                    BY AppendNotEmpty DEF Nonempty
            <4>4. v \o empty = v
                OBVIOUS
            <4> HIDE DEF empty
            <4>5. Delimited(Append(Append(qs, r), empty), v) = Behind(Append(qs, r), v, empty)
                BY <4>2, DelimitedAppend
            <4>6. Delimited(Append(Append(qs, r), empty), v) = Behind(qs, v, r) \o v
                BY <2>9, <4>3, <4>4, <4>5, Zenon DEF Behind
            <4> QED
                BY <3>1, <4>1, <4>6, Zenon DEF SplitsInto
        <3>2. CASE u # d
            <4>1. SplitsInto(t \o u, d, qs, r \o u)
                <5>1. CASE u \in Seq(Closed)
                    <6>1. /\ Closed \in SUBSET Wire /\ Nonempty(d) /\ d[Len(d)] = Sign(CloseBrace)
                          /\ Sign(CloseBrace) \notin Closed
                        BY PlaceholderIs DEF Closed
                    <6> HIDE DEF d, t, S, filled
                    <6> QED
                        BY <1>2, <2>2, <2>8, <5>1, <6>1, SplitGoesOn
                <5>2. CASE u \notin Seq(Closed)
                    <6>1. PICK m \in Names : u = Placeholder(m)
                        BY <5>2 DEF Tokens
                    <6>2. m # name
                        BY <3>2, <6>1
                    <6>3. SplitsInto(t \o Placeholder(m), Placeholder(name),
                                     IF m = name THEN Append(qs, r) ELSE qs,
                                     IF m = name THEN <<>> ELSE r \o Placeholder(m))
                        <7> HIDE DEF t, S, filled
                        <7> QED
                            BY <2>2, <2>8, PlaceholderSplits, SMTT(30) DEF d
                    <6> QED
                        BY <6>1, <6>2, <6>3, Zenon
                <5> QED
                    BY <5>1, <5>2
            <4>2. r \o u \in W
                BY <2>1
            <4>3. Delimited(Append(qs, r \o u), v) = Behind(qs, v, r \o u)
                BY <4>2, DelimitedAppend
            <4>4. Behind(qs, v, r \o u) = Behind(qs, v, r) \o u
                <5> HIDE DEF t, S, filled, d, empty, w
                <5>1. r \in Seq(Wire) /\ u \in Seq(Wire) /\ qs \in Seq(Seq(Wire))
                    BY <2>1
                <5>2. Extends(r \o u, r, u)
                    BY DEF Extends
                <5>3. Extends(Behind(qs, v, r \o u), Behind(qs, v, r), u)
                    BY <5>1, <5>2, BehindGoesOn
                <5> QED
                    BY <5>3, Zenon DEF Extends
            <4> QED
                BY <3>2, <4>1, <4>3, <4>4, Zenon DEF SplitsInto
        <3> QED
            BY <3>1, <3>2
    <2> HIDE DEF t, filled, w, d
    <2>11. Delimited(Split(FlattenSeq(Append(s, u)), d), v) = FlattenSeq(Placed(Append(s, u), name, v))
        BY <2>2, <2>3, <2>5, <2>6, <2>7, <2>9, <2>10, Zenon
    <2> QED
        BY <2>1, <2>11
<1>5. Seq(Tokens) \subseteq S
    <2> HIDE DEF S
    <2> QED
        BY <1>3, <1>4, SequenceInduction
<1> QED
    BY <1>5
-----------------------------------------------------------------------------
(* Tokens of a URI template: what stands for a placeholder while other names are expanded. *)

\* What a character becomes when the tokens that were placed are placeholders again.
Back(w, path, placed) ==
    LET k == {j \in placed : Mark(PathTokens[j]) = <<w>>} IN
    IF k = {} THEN <<w>> ELSE Placeholder(path[Min(k)].name)

Returns(W, path, placed) == \A w \in W : Back(w, path, placed) \in Seq(W)

LEMMA RestoredIs ==
    \A text, path, placed : Restored(text, path, placed) = FlattenSeq([i \in DOMAIN text |-> Back(text[i], path, placed)])
BY DEF Restored, Back

LEMMA RestoredAppend ==
    ASSUME NEW W, NEW path, NEW placed, Returns(W, path, placed),
           NEW t \in Seq(W), NEW w \in W
    PROVE  /\ Restored(t, path, placed) \in Seq(W)
           /\ Restored(Append(t, w), path, placed) = Restored(t, path, placed) \o Back(w, path, placed)
<1> DEFINE back(x) == Back(x, path, placed)
           rows(s) == [i \in DOMAIN s |-> back(s[i])]
           n == Len(t)
           longer == Append(t, w)
<1>1. /\ n \in Nat /\ DOMAIN t = 1..n /\ \A i \in 1..n : t[i] \in W
      /\ DOMAIN longer = 1..(n + 1) /\ longer[n + 1] = w /\ \A i \in 1..n : longer[i] = t[i]
    OBVIOUS
<1>2. \A x \in W : back(x) \in Seq(W)
    BY DEF Returns
<1>3. Restored(t, path, placed) = FlattenSeq(rows(t)) /\ Restored(longer, path, placed) = FlattenSeq(rows(longer))
    BY RestoredIs, Zenon
<1> HIDE DEF back, longer, n
<1>4. rows(t) \in Seq(Seq(W)) /\ Len(rows(t)) = n /\ \A i \in 1..n : rows(t)[i] = back(t[i])
    <2>1. rows(t) \in [1..n -> Seq(W)] /\ \A i \in 1..n : rows(t)[i] = back(t[i])
        BY <1>1, <1>2
    <2> QED
        BY <1>1, <2>1, FunctionIsSequence
<1>5. rows(longer) = Append(rows(t), back(w))
    <2> DEFINE a == rows(longer)
               b == Append(rows(t), back(w))
    <2>1. a \in [1..(n + 1) -> Seq(W)] /\ a[n + 1] = back(w) /\ \A i \in 1..n : a[i] = back(t[i])
        <3>1. \A i \in 1..(n + 1) : i \in 1..n \/ i = n + 1
            BY <1>1
        <3>2. \A i \in 1..(n + 1) : longer[i] \in W
            BY <1>1, <3>1
        <3>3. \A i \in 1..(n + 1) : a[i] = back(longer[i])
            BY <1>1
        <3>4. n + 1 \in 1..(n + 1) /\ \A i \in 1..n : i \in 1..(n + 1)
            BY <1>1
        <3>5. a = [i \in 1..(n + 1) |-> back(longer[i])]
            BY <1>1
        <3> HIDE DEF a
        <3> QED
            BY <1>1, <1>2, <3>2, <3>3, <3>4, <3>5
    <2>2. n + 1 \in Nat
        BY <1>1
    <2> HIDE DEF a
    <2>3. a \in Seq(Seq(W)) /\ Len(a) = n + 1
        BY <2>1, <2>2, FunctionIsSequence
    <2> DEFINE r == rows(t)
               e == back(w)
               S == Seq(W)
    <2>4. r \in Seq(S) /\ Len(r) = n /\ e \in S /\ \A i \in 1..n : r[i] = back(t[i])
        BY <1>2, <1>4
    <2> HIDE DEF r, e, S
    <2>5. Append(r, e) \in Seq(S) /\ Len(Append(r, e)) = n + 1 /\ Append(r, e)[n + 1] = e
          /\ \A i \in 1..n : Append(r, e)[i] = r[i]
        BY <1>1, <2>4
    <2>6. \A i \in 1..(n + 1) : i \in 1..n \/ i = n + 1
        BY <1>1
    <2>7. \A i \in 1..(n + 1) : a[i] = Append(r, e)[i]
        BY <2>1, <2>4, <2>5, <2>6 DEF e
    <2>8. a \in Seq(S) /\ Len(a) = Len(Append(r, e))
        BY <2>3, <2>5 DEF S
    <2>9. a = Append(r, e)
        BY <2>3, <2>5, <2>7, <2>8, SequencesEqual
    <2> QED
        BY <2>9 DEF a, r, e
<1>6. FlattenSeq(rows(longer)) = FlattenSeq(rows(t)) \o back(w) /\ FlattenSeq(rows(t)) \in Seq(W)
    <2> DEFINE r == rows(t)
               e == back(w)
    <2>1. r \in Seq(Seq(W)) /\ e \in Seq(W) /\ rows(longer) = Append(r, e)
        BY <1>2, <1>4, <1>5
    <2> HIDE DEF r, e
    <2>2. FlattenSeq(Append(r, e)) = FlattenSeq(r) \o e /\ FlattenSeq(r) \in Seq(W)
        BY <2>1, FlatAppend, FlatIn
    <2> QED
        BY <2>1, <2>2, Zenon DEF r, e
<1> QED
    BY <1>3, <1>6, Zenon DEF back, longer

LEMMA RestoredEmpty == \A path, placed : Restored(<<>>, path, placed) = <<>>
<1> SUFFICES ASSUME NEW path, NEW placed PROVE Restored(<<>>, path, placed) = <<>>
    OBVIOUS
<1>1. [i \in DOMAIN <<>> |-> Back(<<>>[i], path, placed)] = <<>>
    OBVIOUS
<1> QED
    BY <1>1, RestoredIs, FlatEmpty

LEMMA RestoredConcat ==
    ASSUME NEW W, NEW path, NEW placed, Returns(W, path, placed), NEW s \in Seq(W)
    PROVE  \A t \in Seq(W) : Restored(s \o t, path, placed) = Restored(s, path, placed) \o Restored(t, path, placed)
<1> DEFINE restored(t) == Restored(t, path, placed)
           S == {t \in Seq(W) : restored(s \o t) = restored(s) \o restored(t)}
<1>0. \A t \in Seq(W) : restored(t) \in Seq(W)
    <2>1. CASE W = {}
        <3>1. \A t \in Seq(W) : t = <<>>
            BY <2>1
        <3>2. <<>> \in Seq(W)
            OBVIOUS
        <3> QED
            BY <3>1, <3>2, RestoredEmpty
    <2>2. CASE W # {}
        BY <2>2, RestoredAppend
    <2> QED
        BY <2>1, <2>2
<1>1. <<>> \in S
    <2>1. <<>> \in Seq(W) /\ s \o <<>> = s
        OBVIOUS
    <2>2. restored(s) \in Seq(W) /\ restored(<<>>) = <<>>
        BY <1>0, RestoredEmpty
    <2> HIDE DEF restored
    <2>3. restored(s) \o <<>> = restored(s)
        BY <2>2
    <2> QED
        BY <2>1, <2>2, <2>3
<1>2. ASSUME NEW t \in Seq(W), NEW w \in W, t \in S PROVE Append(t, w) \in S
    <2> DEFINE b == Back(w, path, placed)
    <2>1. s \o t \in Seq(W) /\ b \in Seq(W) /\ Append(t, w) \in Seq(W)
        BY DEF Returns
    <2>2. s \o Append(t, w) = Append(s \o t, w)
        BY ConcatAppend
    <2>3. \A u \in Seq(W) : restored(Append(u, w)) = restored(u) \o b
        <3> SUFFICES ASSUME NEW u \in Seq(W) PROVE restored(Append(u, w)) = restored(u) \o b
            OBVIOUS
        <3> QED
            BY RestoredAppend
    <2>4. restored(Append(s \o t, w)) = restored(s \o t) \o b /\ restored(Append(t, w)) = restored(t) \o b
        BY <2>1, <2>3, Zenon
    <2>5. restored(s) \in Seq(W) /\ restored(t) \in Seq(W)
        BY <1>0
    <2> DEFINE x == restored(s)
               y == restored(t)
    <2> HIDE DEF restored, b, x, y
    <2>6. (x \o y) \o b = x \o (y \o b)
        <3>1. x \in Seq(W) /\ y \in Seq(W) /\ b \in Seq(W)
            BY <2>1, <2>5 DEF x, y
        <3> QED
            BY <3>1, ConcatAssociative, SMTT(30)
    <2> QED
        BY <1>2, <2>1, <2>2, <2>4, <2>6, Zenon DEF x, y
<1>3. Seq(W) \subseteq S
    <2> HIDE DEF S
    <2> QED
        BY <1>1, <1>2, SequenceInduction
<1> QED
    BY <1>3

\* Texts in a row are restored each for itself.
LEMMA RestoredFlat ==
    ASSUME NEW W, NEW path, NEW placed, Returns(W, path, placed), W # {}
    PROVE  \A texts \in Seq(Seq(W)) :
               Restored(FlattenSeq(texts), path, placed)
                   = FlattenSeq([i \in DOMAIN texts |-> Restored(texts[i], path, placed)])
<1> DEFINE restored(t) == Restored(t, path, placed)
           each(s) == [i \in DOMAIN s |-> restored(s[i])]
           S == {s \in Seq(Seq(W)) : restored(FlattenSeq(s)) = FlattenSeq(each(s))}
<1>0. \A t \in Seq(W) : restored(t) \in Seq(W)
    BY RestoredAppend
<1>1. <<>> \in S
    <2>1. <<>> \in Seq(Seq(W)) /\ each(<<>>) = <<>>
        OBVIOUS
    <2> QED
        BY <2>1, FlatEmpty, RestoredEmpty, Zenon
<1>2. ASSUME NEW s \in Seq(Seq(W)), NEW t \in Seq(W), s \in S PROVE Append(s, t) \in S
    <2> DEFINE T == Seq(W)
               n == Len(s)
               longer == Append(s, t)
               r == restored(t)
    <2>1. /\ n \in Nat /\ DOMAIN s = 1..n /\ \A i \in 1..n : s[i] \in T
          /\ longer \in Seq(T) /\ DOMAIN longer = 1..(n + 1) /\ longer[n + 1] = t /\ \A i \in 1..n : longer[i] = s[i]
        <3> HIDE DEF T
        <3> QED
            BY DEF T
    <2>2. FlattenSeq(longer) = FlattenSeq(s) \o t /\ FlattenSeq(s) \in T
        BY FlatAppend, FlatIn
    <2>3. restored(FlattenSeq(s) \o t) = restored(FlattenSeq(s)) \o r
        <3>1. \A u \in Seq(W) : restored(u \o t) = restored(u) \o r
            <4> SUFFICES ASSUME NEW u \in Seq(W) PROVE restored(u \o t) = restored(u) \o r
                OBVIOUS
            <4> QED
                BY RestoredConcat
        <3> QED
            BY <2>2, <3>1, Zenon
    <2> HIDE DEF restored, longer, n, T
    <2>4. each(s) \in Seq(T) /\ Len(each(s)) = n /\ r \in T /\ \A i \in 1..n : each(s)[i] = restored(s[i])
        <3>1. r \in T /\ each(s) \in [1..n -> T] /\ \A i \in 1..n : each(s)[i] = restored(s[i])
            BY <1>0, <2>1 DEF T
        <3> QED
            BY <2>1, <3>1, FunctionIsSequence
    <2>5. each(longer) \in Seq(T) /\ Len(each(longer)) = n + 1 /\ each(longer)[n + 1] = r
          /\ \A i \in 1..n : each(longer)[i] = restored(s[i])
        <3>1. n + 1 \in Nat
            BY <2>1
        <3>2. each(longer) \in [1..(n + 1) -> T] /\ each(longer)[n + 1] = r
              /\ \A i \in 1..n : each(longer)[i] = restored(s[i])
            BY <1>0, <2>1 DEF T
        <3> QED
            BY <3>1, <3>2, FunctionIsSequence
    <2>6. each(longer) = Append(each(s), r)
        <3> DEFINE a == each(longer)
                   b == each(s)
        <3>1. a \in Seq(T) /\ Len(a) = n + 1 /\ a[n + 1] = r /\ b \in Seq(T) /\ Len(b) = n /\ r \in T
              /\ \A i \in 1..n : a[i] = b[i]
            BY <2>4, <2>5
        <3> HIDE DEF a, b, r
        <3>2. Append(b, r) \in Seq(T) /\ Len(Append(b, r)) = n + 1 /\ Append(b, r)[n + 1] = r
              /\ \A i \in 1..n : Append(b, r)[i] = b[i]
            BY <2>1, <3>1
        <3>3. \A i \in 1..(n + 1) : i \in 1..n \/ i = n + 1
            BY <2>1
        <3>4. \A i \in 1..(n + 1) : a[i] = Append(b, r)[i]
            BY <3>1, <3>2, <3>3
        <3>5. a = Append(b, r)
            BY <3>1, <3>2, <3>4, SequencesEqual
        <3> QED
            BY <3>5 DEF a, b
    <2>7. FlattenSeq(Append(each(s), r)) = FlattenSeq(each(s)) \o r
        <3> DEFINE b == each(s)
        <3>1. b \in Seq(Seq(W)) /\ r \in Seq(W)
            BY <2>4 DEF T
        <3> HIDE DEF b, r
        <3>2. FlattenSeq(Append(b, r)) = FlattenSeq(b) \o r
            BY <3>1, FlatAppend
        <3> QED
            BY <3>2 DEF b
    <2>8. restored(FlattenSeq(s)) = FlattenSeq(each(s))
        BY <1>2
    <2>9. restored(FlattenSeq(longer)) = FlattenSeq(each(longer))
        <3> HIDE DEF each, r
        <3> QED
            BY <2>2, <2>3, <2>6, <2>7, <2>8, Zenon
    <2>10. longer \in Seq(Seq(W))
        BY <2>1 DEF T
    <2> HIDE DEF each
    <2> QED
        BY <2>9, <2>10 DEF longer
<1>3. Seq(Seq(W)) \subseteq S
    <2> HIDE DEF S
    <2> QED
        BY <1>1, <1>2, SequenceInduction
<1> QED
    BY <1>3

\* A text of characters that stay is restored to itself.
LEMMA RestoredSame ==
    ASSUME NEW W, NEW path, NEW placed, \A w \in W : Back(w, path, placed) = <<w>>
    PROVE  \A t \in Seq(W) : Restored(t, path, placed) = t
<1> DEFINE S == {t \in Seq(W) : Restored(t, path, placed) = t}
<1>0. Returns(W, path, placed)
    <2>1. \A w \in W : <<w>> \in Seq(W)
        OBVIOUS
    <2> QED
        BY <2>1 DEF Returns
<1>1. <<>> \in S
    <2>1. <<>> \in Seq(W)
        OBVIOUS
    <2> QED
        BY <2>1, RestoredEmpty
<1>2. ASSUME NEW t \in Seq(W), NEW w \in W, t \in S PROVE Append(t, w) \in S
    <2>1. Restored(Append(t, w), path, placed) = Restored(t, path, placed) \o Back(w, path, placed)
        BY <1>0, RestoredAppend
    <2>2. Append(t, w) = t \o <<w>> /\ Append(t, w) \in Seq(W)
        BY AppendIsConcat
    <2>3. Restored(t, path, placed) = t /\ Back(w, path, placed) = <<w>>
        BY <1>2
    <2> QED
        BY <2>1, <2>2, <2>3, Zenon
<1>3. Seq(W) \subseteq S
    <2> HIDE DEF S
    <2> QED
        BY <1>1, <1>2, SequenceInduction
<1> QED
    BY <1>3
-----------------------------------------------------------------------------
(* The path of a request target: its parameters are put in their places one after the other. *)

PathNames(o) ==
    {Located(o.parameters, "path")[i].name : i \in DOMAIN Located(o.parameters, "path")}

\* What can be put into a path.
Placeable(o) == {p \in Given("path") : p.name \in Names \cap PathNames(o) /\ PathText(p) \in Seq(Closed)}

\* A piece of the template: a name without a parameter is left to expand, or is supplied.
Legible(o, piece) ==
    /\ piece.literal \in BOOLEAN /\ piece.text \in Names
    /\ (~piece.literal /\ o.template.uri /\ piece.text \notin PathNames(o)) =>
           piece.text \in DOMAIN o.supplied /\ o.supplied[piece.text] \in Texts

\* What the first parameters of a path make of a piece.
Token(o, q, piece) ==
    LET named == {i \in DOMAIN q : q[i].name = piece.text} IN
    CASE piece.literal -> Unquoted(piece.text)
      [] ~piece.literal /\ named # {} -> PathText(q[Min(named)])
      [] ~piece.literal /\ named = {} /\ (~o.template.uri \/ piece.text \in PathNames(o)) -> Placeholder(piece.text)
      [] OTHER -> Quoted(o.supplied[piece.text], FALSE)

LEMMA MinimumIs ==
    ASSUME NEW I \in SUBSET Nat, NEW m \in I, \A i \in I : m <= i
    PROVE  Min(I) = m
<1>1. \A x \in I : (\A y \in I : x <= y) => x = m
    OBVIOUS
<1> QED
    BY <1>1 DEF Min

LEMMA UnquotedClosed == \A name \in Names : Unquoted(name) \in Seq(Closed)
<1> SUFFICES ASSUME NEW name \in Names PROVE Unquoted(name) \in Seq(Closed)
    OBVIOUS
<1> DEFINE u == Unquoted(name)
           n == Len(name)
<1>1. name \in Texts /\ \A i \in 1..n : name[i] # CloseBrace
    BY BracelessIs
<1>2. u \in Seq(Wire) /\ Len(u) = n /\ n \in Nat /\ \A i \in 1..n : u[i] = Sign(name[i])
    BY <1>1, UnquotedIn
<1> HIDE DEF u, n
<1>3. \A i \in 1..n : u[i] # Sign(CloseBrace)
    BY <1>1, <1>2, SignsDiffer
<1>4. \A i \in 1..n : u[i] \in Wire
    BY <1>2
<1>5. \A i \in 1..n : u[i] \in Closed
    BY <1>3, <1>4 DEF Closed
<1>6. u \in [1..n -> Closed]
    BY <1>2, <1>5
<1> QED
    BY <1>2, <1>6, FunctionIsSequence DEF u

LEMMA QuotedClosed == \A text \in Texts : Quoted(text, FALSE) \in Seq(Closed)
<1>1. \A text \in Texts : Quoted(text, FALSE) \in Seq(Kept)
    BY QuotedIn
<1>2. Seq(Kept) \subseteq Seq(Closed)
    BY SignsApart, SeqWider
<1> QED
    BY <1>1, <1>2

\* A piece is closed text, or its own placeholder as long as no parameter has its name.
LEMMA TokenIs ==
    ASSUME NEW o, NEW q \in Seq(Placeable(o)), NEW piece, Legible(o, piece)
    PROVE  LET named == {i \in DOMAIN q : q[i].name = piece.text}
               open == ~piece.literal /\ named = {} /\ (~o.template.uri \/ piece.text \in PathNames(o)) IN
           /\ open => Token(o, q, piece) = Placeholder(piece.text)
           /\ ~open => Token(o, q, piece) \in Seq(Closed)
           /\ Token(o, q, piece) \in Tokens
<1> DEFINE P == Placeable(o)
           named == {i \in DOMAIN q : q[i].name = piece.text}
           C == Seq(Closed)
           token == Token(o, q, piece)
<1>1. DOMAIN q \subseteq Nat /\ \A i \in DOMAIN q : q[i] \in P
    OBVIOUS
<1>2. named # {} => Min(named) \in named
    <2>1. named \in SUBSET Nat
        BY <1>1
    <2> HIDE DEF named
    <2> QED
        BY <2>1, MinimumIn
<1>3. CASE piece.literal
    <2>1. token = Unquoted(piece.text)
        BY <1>3 DEF Token
    <2>2. token \in C
        BY <2>1, UnquotedClosed DEF Legible
    <2> QED
        BY <1>3, <2>2 DEF Tokens
<1>4. CASE ~piece.literal /\ named # {}
    <2>1. token = PathText(q[Min(named)])
        BY <1>4 DEF Token
    <2>2. Min(named) \in DOMAIN q
        BY <1>2, <1>4
    <2>3. q[Min(named)] \in P
        BY <1>1, <2>2
    <2>4. token \in C
        BY <2>1, <2>3 DEF Placeable
    <2> QED
        BY <1>4, <2>4 DEF Tokens
<1>5. CASE ~piece.literal /\ named = {} /\ (~o.template.uri \/ piece.text \in PathNames(o))
    <2>1. token = Placeholder(piece.text)
        BY <1>5 DEF Token
    <2>2. token \in Tokens
        BY <2>1 DEF Tokens, Legible
    <2> QED
        BY <1>5, <2>1, <2>2
<1>6. CASE ~piece.literal /\ named = {} /\ ~(~o.template.uri \/ piece.text \in PathNames(o))
    <2>1. token = Quoted(o.supplied[piece.text], FALSE)
        BY <1>6 DEF Token
    <2>2. token \in C
        BY <1>6, <2>1, QuotedClosed DEF Legible
    <2> QED
        BY <1>6, <2>2 DEF Tokens
<1> QED
    BY <1>3, <1>4, <1>5, <1>6

\* One more parameter: it takes the places of its name that are left.
LEMMA TokenAppend ==
    ASSUME NEW o, NEW q \in Seq(Placeable(o)), NEW p \in Placeable(o), NEW piece, Legible(o, piece)
    PROVE  Token(o, Append(q, p), piece) =
               IF Token(o, q, piece) = Placeholder(p.name) THEN PathText(p) ELSE Token(o, q, piece)
<1> DEFINE P == Placeable(o)
           n == Len(q)
           r == Append(q, p)
           e == Placeholder(p.name)
           before == {i \in DOMAIN q : q[i].name = piece.text}
           after == {i \in DOMAIN r : r[i].name = piece.text}
           token == Token(o, q, piece)
           next == Token(o, r, piece)
           known == ~o.template.uri \/ piece.text \in PathNames(o)
<1>1. p.name \in Names /\ p.name \in PathNames(o) /\ piece.text \in Names
    BY DEF Placeable, Legible
<1>2. e \notin Seq(Closed) /\ (Placeholder(piece.text) = e => piece.text = p.name)
    BY <1>1, TokensAre
<1>3. /\ ~piece.literal /\ before = {} /\ known => token = Placeholder(piece.text)
      /\ ~(~piece.literal /\ before = {} /\ known) => token # e
    BY <1>2, TokenIs
<1>4. /\ n \in Nat /\ DOMAIN q = 1..n /\ DOMAIN r = 1..(n + 1) /\ r[n + 1] = p
      /\ \A i \in 1..n : r[i] = q[i]
    <2> HIDE DEF P
    <2> QED
        OBVIOUS
<1> HIDE DEF e, token, r, P, n
<1>5. /\ before \in SUBSET (1..n)
      /\ after \in SUBSET (1..(n + 1))
      /\ n + 1 \in after <=> p.name = piece.text
      /\ \A i \in 1..n : i \in after <=> i \in before
    <2>1. n + 1 \in 1..(n + 1) /\ \A i \in 1..n : i \in 1..(n + 1)
        BY <1>4
    <2> QED
        BY <1>4, <2>1
<1>6. CASE piece.literal
    <2>1. next = Unquoted(piece.text) /\ token = Unquoted(piece.text)
        BY <1>6, Zenon DEF Token, token
    <2> QED
        BY <1>3, <1>6, <2>1, Zenon DEF r, e, token
<1>7. CASE ~piece.literal /\ before # {}
    <2>1. before \in SUBSET Nat /\ after \in SUBSET Nat /\ after # {}
        BY <1>4, <1>5, <1>7
    <2> DEFINE m == Min(before)
    <2>2. m \in before /\ \A i \in before : m <= i
        <3> HIDE DEF before
        <3>1. \E i \in before : \A j \in before : i <= j
            BY <1>7, <2>1, LeastNumber
        <3> QED
            BY <3>1 DEF Min
    <2> HIDE DEF m
    <2>3. m \in after /\ \A i \in after : m <= i
        <3>1. m \in 1..n
            BY <1>5, <2>2
        <3>2. \A i \in 1..(n + 1) : i \in 1..n \/ i = n + 1
            BY <1>4
        <3>3. m <= n + 1
            BY <1>4, <3>1
        <3> HIDE DEF before, after
        <3> QED
            BY <1>5, <2>2, <3>1, <3>2, <3>3
    <2>4. Min(after) = m
        <3> HIDE DEF before, after
        <3> QED
            BY <2>1, <2>3, MinimumIs
    <2>5. r[m] = q[m]
        BY <1>4, <1>5, <2>2
    <2>6. token = PathText(q[m])
        BY <1>7, Zenon DEF Token, token, m
    <2>7. next = PathText(r[Min(after)])
        BY <1>7, <2>1, Zenon DEF Token
    <2>8. next = token /\ token # e
        BY <1>3, <1>7, <2>4, <2>5, <2>6, <2>7, Zenon
    <2> QED
        BY <2>8, Zenon DEF r, e, token
<1>8. CASE ~piece.literal /\ before = {} /\ p.name = piece.text
    <2>1. after \in SUBSET Nat /\ n + 1 \in after /\ \A i \in after : n + 1 <= i
        <3>1. \A i \in 1..(n + 1) : i \in 1..n \/ i = n + 1
            BY <1>4
        <3>2. n + 1 \in Nat /\ n + 1 <= n + 1 /\ 1..(n + 1) \subseteq Nat
            BY <1>4
        <3> HIDE DEF before, after
        <3> QED
            BY <1>5, <1>8, <3>1, <3>2
    <2>2. Min(after) = n + 1
        <3> HIDE DEF before, after
        <3> QED
            BY <2>1, MinimumIs
    <2>3. next = PathText(r[Min(after)])
        BY <1>8, <2>1, Zenon DEF Token
    <2>4. next = PathText(p)
        BY <1>4, <2>2, <2>3, Zenon
    <2>5. token = e
        BY <1>1, <1>3, <1>8, Zenon DEF e
    <2> QED
        BY <2>4, <2>5, Zenon DEF r, e, token
<1>9. CASE ~piece.literal /\ before = {} /\ p.name # piece.text
    <2>1. after = {}
        <3>1. \A i \in 1..(n + 1) : i \in 1..n \/ i = n + 1
            BY <1>4
        <3> HIDE DEF before, after
        <3> QED
            BY <1>5, <1>9, <3>1
    <2>2. CASE known
        <3>1. next = Placeholder(piece.text)
            BY <1>9, <2>1, <2>2, Zenon DEF Token
        <3>2. token = Placeholder(piece.text)
            BY <1>3, <1>9, <2>2
        <3>3. token # e
            BY <1>2, <1>9, <3>2
        <3> QED
            BY <3>1, <3>2, <3>3, Zenon DEF r, e, token
    <2>3. CASE ~known
        <3>1. next = Quoted(o.supplied[piece.text], FALSE)
            BY <1>9, <2>1, <2>3, Zenon DEF Token
        <3>2. token = Quoted(o.supplied[piece.text], FALSE)
            BY <1>9, <2>3, Zenon DEF Token, token
        <3>3. token # e
            BY <1>3, <2>3
        <3> QED
            BY <3>1, <3>2, <3>3, Zenon DEF r, e, token
    <2> QED
        BY <2>2, <2>3
<1> QED
    BY <1>6, <1>7, <1>8, <1>9
Filling(o, q) == [i \in DOMAIN o.template.pieces |-> Token(o, q, o.template.pieces[i])]

\* The pieces of a template, as far as its path is read from them.
LegiblePieces(o) ==
    /\ o.template.pieces \in Seq([literal : BOOLEAN, text : Texts])
    /\ \A i \in DOMAIN o.template.pieces : Legible(o, o.template.pieces[i])

LEMMA FillingIs ==
    ASSUME NEW o, LegiblePieces(o), NEW q \in Seq(Placeable(o))
    PROVE  /\ Filling(o, q) \in Seq(Tokens)
           /\ \A p \in Placeable(o) : Filling(o, Append(q, p)) = Placed(Filling(o, q), p.name, PathText(p))
<1> DEFINE pieces == o.template.pieces
           n == Len(pieces)
           f == Filling(o, q)
<1>1. n \in Nat /\ DOMAIN pieces = 1..n /\ \A i \in 1..n : Legible(o, pieces[i])
    BY DEF LegiblePieces
<1> HIDE DEF pieces, n
<1>2. f = [i \in 1..n |-> Token(o, q, pieces[i])]
    BY <1>1, Zenon DEF Filling, pieces
<1>3. \A i \in 1..n : Token(o, q, pieces[i]) \in Tokens
    BY <1>1, TokenIs
<1>4. f \in [1..n -> Tokens] /\ DOMAIN f = 1..n /\ \A i \in 1..n : f[i] = Token(o, q, pieces[i])
    BY <1>2, <1>3
<1> HIDE DEF f
<1>5. f \in Seq(Tokens)
    BY <1>1, <1>4, FunctionIsSequence
<1>6. ASSUME NEW p \in Placeable(o) PROVE Filling(o, Append(q, p)) = Placed(f, p.name, PathText(p))
    <2>1. \A i \in 1..n : Token(o, Append(q, p), pieces[i]) =
                              IF f[i] = Placeholder(p.name) THEN PathText(p) ELSE f[i]
        <3>1. \A i \in 1..n : Token(o, Append(q, p), pieces[i]) =
                  IF Token(o, q, pieces[i]) = Placeholder(p.name) THEN PathText(p) ELSE Token(o, q, pieces[i])
            BY <1>1, TokenAppend
        <3> QED
            BY <1>4, <3>1, Zenon
    <2>2. Filling(o, Append(q, p)) = [i \in 1..n |-> Token(o, Append(q, p), pieces[i])]
        BY <1>1, Zenon DEF Filling, pieces
    <2>3. Placed(f, p.name, PathText(p)) = [i \in 1..n |-> IF f[i] = Placeholder(p.name) THEN PathText(p) ELSE f[i]]
        BY <1>4, Zenon DEF Placed
    <2> QED
        BY <2>1, <2>2, <2>3
<1> QED
    BY <1>5, <1>6 DEF f

\* What is restored to itself: characters that are no tokens.
Common == {w \in Wire : w.c \notin Range(PathTokens)}

LEMMA CommonText ==
    ASSUME NEW text \in Texts, Tokenless(text)
    PROVE  Unquoted(text) \in Seq(Common) /\ Quoted(text, FALSE) \in Seq(Common)
<1>1. text \in Seq(STRING) /\ Len(text) \in Nat /\ DOMAIN text = 1..Len(text)
    BY DEF Texts
<1>2. \A i \in DOMAIN text : text[i] \in Glyphs /\ text[i] \notin Range(PathTokens)
    <2>1. \A i \in DOMAIN text : text[i] \in STRING
        BY <1>1
    <2> QED
        BY <2>1 DEF Glyphs, Tokenless
<1> DEFINE plain(c) == c \in Unreserved \/ (FALSE /\ c \in Reserved)
<1>3. \A c \in Glyphs, raw \in BOOLEAN : c \notin Range(PathTokens) => [c |-> c, raw |-> raw] \in Common
    BY DEF Common, Wire
<1>4. \A c \in Glyphs : c \notin Range(PathTokens) =>
          [c |-> c, raw |-> TRUE] \in Common /\ [c |-> c, raw |-> plain(c)] \in Common
    <2>1. \A c : plain(c) \in BOOLEAN
        OBVIOUS
    <2> HIDE DEF plain
    <2> QED
        BY <1>3, <2>1
<1>5. Quoted(text, FALSE) = [i \in DOMAIN text |-> [c |-> text[i], raw |-> plain(text[i])]]
    BY DEF Quoted
<1> HIDE DEF plain
<1>6. Quoted(text, FALSE) \in [1..Len(text) -> Common]
    BY <1>1, <1>2, <1>4, <1>5
<1>7. Unquoted(text) \in [1..Len(text) -> Common]
    BY <1>1, <1>2, <1>4 DEF Unquoted
<1> QED
    BY <1>1, <1>6, <1>7, FunctionIsSequence

LEMMA CommonBack ==
    ASSUME NEW path, NEW placed \in SUBSET DOMAIN PathTokens, NEW w \in Common
    PROVE  Back(w, path, placed) = <<w>>
<1>1. ASSUME NEW j \in placed, Mark(PathTokens[j]) = <<w>> PROVE FALSE
    <2>1. <<Sign(PathTokens[j])>> = <<w>>
        BY <1>1, SignIs
    <2>2. w = Sign(PathTokens[j])
        BY <2>1
    <2>3. w.c = PathTokens[j]
        BY <2>2 DEF Sign
    <2>4. PathTokens[j] \in Range(PathTokens)
        BY DEF Range
    <2> QED
        BY <2>3, <2>4 DEF Common
<1>2. {j \in placed : Mark(PathTokens[j]) = <<w>>} = {}
    BY <1>1
<1> QED
    BY <1>2, Zenon DEF Back

LEMMA TokenBack ==
    ASSUME NEW path, NEW placed \in SUBSET DOMAIN PathTokens, NEW k \in placed
    PROVE  Back(Sign(PathTokens[k]), path, placed) = Placeholder(path[k].name)
<1> DEFINE same == {j \in placed : Mark(PathTokens[j]) = <<Sign(PathTokens[k])>>}
<1>1. DOMAIN PathTokens \subseteq Nat
    <2>1. PathTokens \in Seq(STRING)
        BY TokensAssumption
    <2> QED
        BY <2>1
<1>2. ASSUME NEW j \in placed, Mark(PathTokens[j]) = <<Sign(PathTokens[k])>> PROVE j = k
    <2>1. <<Sign(PathTokens[j])>> = <<Sign(PathTokens[k])>>
        BY <1>2, SignIs
    <2>2. Sign(PathTokens[j]) = Sign(PathTokens[k])
        BY <2>1
    <2>3. PathTokens[j] = PathTokens[k]
        BY <2>2, SignsDiffer
    <2> QED
        BY <2>3, TokensAssumption
<1>3. k \in same
    BY SignIs
<1>4. same = {k} /\ k \in Nat
    BY <1>1, <1>2, <1>3
<1>5. Min(same) = k
    <2>1. same \in SUBSET Nat /\ k \in same /\ \A i \in same : k <= i
        BY <1>4
    <2> HIDE DEF same
    <2> QED
        BY <2>1, MinimumIs
<1>6. same # {}
    BY <1>3
<1> QED
    BY <1>5, <1>6, Zenon DEF Back

\* The template of an operation, as far as a text is made of it.
Readable(o) ==
    /\ LegiblePieces(o) /\ TokenFree(o)
    /\ Located(o.parameters, "path") \in Seq(Placeable(o))
    /\ Len(Located(o.parameters, "path")) <= Len(PathTokens)

\* The tokens placed in a URI template.
PlacedTokens(o) ==
    LET path == Located(o.parameters, "path")
        pieces == o.template.pieces
        variables == {pieces[i].text : i \in {j \in DOMAIN pieces : ~pieces[j].literal}}
    IN  {Min(Named(path, name)) : name \in {n \in variables : Named(path, n) # {}}}

\* A piece while the names that are left are expanded.
Expanding(o, piece) ==
    LET path == Located(o.parameters, "path") IN
    CASE piece.literal -> Unquoted(piece.text)
      [] ~piece.literal /\ ~o.template.uri -> Placeholder(piece.text)
      [] ~piece.literal /\ o.template.uri /\ Named(path, piece.text) # {} ->
             Mark(PathTokens[Min(Named(path, piece.text))])
      [] OTHER -> Quoted(o.supplied[piece.text], FALSE)

LEMMA TokensPlaced ==
    ASSUME NEW o, Readable(o)
    PROVE  /\ PlacedTokens(o) \in SUBSET DOMAIN PathTokens
           /\ Returns(Wire, Located(o.parameters, "path"), PlacedTokens(o))
           /\ \A name : Named(Located(o.parameters, "path"), name) # {} =>
                  /\ Min(Named(Located(o.parameters, "path"), name)) \in DOMAIN Located(o.parameters, "path")
                  /\ Located(o.parameters, "path")[Min(Named(Located(o.parameters, "path"), name))].name = name
<1> DEFINE path == Located(o.parameters, "path")
           placed == PlacedTokens(o)
           P == Placeable(o)
<1>1. path \in Seq(P) /\ Len(path) <= Len(PathTokens)
    BY Zenon DEF Readable
<1>2. \A p \in P : p.name \in Names
    BY DEF Placeable
<1> HIDE DEF path, placed, P
<1>3. /\ Len(path) \in Nat /\ DOMAIN path = 1..Len(path) /\ DOMAIN path \in SUBSET Nat
      /\ \A i \in DOMAIN path : path[i].name \in Names
    BY <1>1, <1>2
<1>4. DOMAIN path \subseteq DOMAIN PathTokens
    <2>1. PathTokens \in Seq(STRING)
        BY TokensAssumption
    <2>2. Len(PathTokens) \in Nat /\ DOMAIN PathTokens = 1..Len(PathTokens)
        BY <2>1
    <2> QED
        BY <1>1, <1>3, <2>2
<1>5. ASSUME NEW name, Named(path, name) # {}
      PROVE  Min(Named(path, name)) \in DOMAIN path /\ path[Min(Named(path, name))].name = name
    <2> DEFINE I == Named(path, name)
    <2>1. I \in SUBSET Nat /\ I \subseteq DOMAIN path /\ \A i \in I : path[i].name = name
        BY <1>3 DEF Named
    <2> HIDE DEF I
    <2>2. I # {}
        BY <1>5 DEF I
    <2>3. Min(I) \in I
        BY <2>1, <2>2, MinimumIn
    <2> QED
        BY <2>1, <2>3 DEF I
<1>6. placed \subseteq DOMAIN path
    BY <1>5, Zenon DEF placed, path, PlacedTokens
<1>7. ASSUME NEW w \in Wire PROVE Back(w, path, placed) \in Seq(Wire)
    <2> DEFINE k == {j \in placed : Mark(PathTokens[j]) = <<w>>}
    <2>1. <<w>> \in Seq(Wire)
        OBVIOUS
    <2>2. CASE k = {}
        BY <2>1, <2>2, Zenon DEF Back
    <2>3. CASE k # {}
        <3>1. k \in SUBSET Nat /\ k \subseteq DOMAIN path
            BY <1>3, <1>6
        <3>2. Back(w, path, placed) = Placeholder(path[Min(k)].name)
            BY <2>3, Zenon DEF Back
        <3> HIDE DEF k
        <3>3. Min(k) \in DOMAIN path
            BY <2>3, <3>1, MinimumIn
        <3>4. Placeholder(path[Min(k)].name) \in Seq(Wire)
            BY <1>3, <3>3, PlaceholderIs
        <3> QED
            BY <3>2, <3>4
    <2> QED
        BY <2>2, <2>3
<1>8. Returns(Wire, path, placed)
    BY <1>7 DEF Returns
<1>9. placed \in SUBSET DOMAIN PathTokens
    BY <1>4, <1>6
<1> QED
    BY <1>5, <1>8, <1>9, Zenon DEF path, placed

\* Restored, a piece is what expand_path finds of it.
LEMMA PieceRestored ==
    ASSUME NEW o, Readable(o), o.template.uri, NEW i \in DOMAIN o.template.pieces
    PROVE  LET piece == o.template.pieces[i] IN
           /\ Expanding(o, piece) \in Seq(Wire)
           /\ Restored(Expanding(o, piece), Located(o.parameters, "path"), PlacedTokens(o)) = Token(o, <<>>, piece)
<1> DEFINE path == Located(o.parameters, "path")
           placed == PlacedTokens(o)
           piece == o.template.pieces[i]
           restored(t) == Restored(t, path, placed)
<1>1. /\ piece.literal \in BOOLEAN /\ piece.text \in Texts /\ Tokenless(piece.text)
      /\ ~piece.literal /\ piece.text \notin PathNames(o) =>
             o.supplied[piece.text] \in Texts /\ Tokenless(o.supplied[piece.text])
    <2>1. Legible(o, piece)
        BY Zenon DEF Readable, LegiblePieces
    <2>2. piece.literal \in BOOLEAN /\ piece.text \in Texts
        BY <2>1, BracelessIs, Zenon DEF Legible
    <2> QED
        BY <2>1, <2>2, Zenon DEF Legible, Readable, TokenFree
<1>2. {j \in DOMAIN <<>> : <<>>[j].name = piece.text} = {}
    OBVIOUS
<1>3. Named(path, piece.text) = {} <=> piece.text \notin PathNames(o)
    BY Zenon DEF Named, PathNames
<1>4. placed \in SUBSET DOMAIN PathTokens /\ Returns(Wire, path, placed)
    BY TokensPlaced
<1>5. ASSUME NEW text \in Texts, Tokenless(text)
      PROVE  /\ Unquoted(text) \in Seq(Wire) /\ restored(Unquoted(text)) = Unquoted(text)
             /\ Quoted(text, FALSE) \in Seq(Wire) /\ restored(Quoted(text, FALSE)) = Quoted(text, FALSE)
    <2>1. Unquoted(text) \in Seq(Common) /\ Quoted(text, FALSE) \in Seq(Common)
        BY <1>5, CommonText
    <2>2. Common \subseteq Wire
        BY DEF Common
    <2>3. \A w \in Common : Back(w, path, placed) = <<w>>
        BY <1>4, CommonBack
    <2>4. \A t \in Seq(Common) : restored(t) = t
        <3> HIDE DEF path, placed
        <3> QED
            BY <2>3, RestoredSame
    <2>5. Unquoted(text) \in Seq(Wire) /\ Quoted(text, FALSE) \in Seq(Wire)
        BY <2>1, <2>2, SeqWider
    <2> QED
        BY <2>1, <2>4, <2>5
<1>6. CASE piece.literal
    <2>1. Expanding(o, piece) = Unquoted(piece.text) /\ Token(o, <<>>, piece) = Unquoted(piece.text)
        BY <1>6, Zenon DEF Expanding, Token
    <2> QED
        BY <1>1, <1>5, <2>1, Zenon
<1>7. CASE ~piece.literal /\ Named(path, piece.text) # {}
    <2> DEFINE k == Min(Named(path, piece.text))
               w == Sign(PathTokens[k])
    <2>1. k \in placed
        BY <1>7, Zenon DEF PlacedTokens
    <2>2. path[k].name = piece.text
        BY <1>7, TokensPlaced, Zenon
    <2>3. Expanding(o, piece) = <<w>>
        <3>1. Expanding(o, piece) = Mark(PathTokens[k])
            BY <1>7, Zenon DEF Expanding
        <3> QED
            BY <3>1, SignIs, Zenon
    <2>4. Token(o, <<>>, piece) = Placeholder(piece.text)
        BY <1>2, <1>3, <1>7, Zenon DEF Token
    <2>5. w \in Wire
        <3>1. PathTokens \in Seq(STRING) /\ k \in DOMAIN PathTokens
            BY <1>4, <2>1, TokensAssumption, Zenon
        <3> HIDE DEF k
        <3>2. PathTokens[k] \in STRING
            BY <3>1
        <3>3. PathTokens[k] \in Glyphs
            BY <3>2 DEF Glyphs
        <3> QED
            BY <3>3, SignIs, Zenon
    <2>6. Back(w, path, placed) = Placeholder(piece.text)
        <3>1. Back(w, path, placed) = Placeholder(path[k].name)
            <4> HIDE DEF k, path, placed
            <4> QED
                BY <1>4, <2>1, TokenBack
        <3> QED
            BY <2>2, <3>1, Zenon
    <2> HIDE DEF w, path, placed
    <2>7. restored(Append(<<>>, w)) = restored(<<>>) \o Back(w, path, placed)
        <3>1. \A u \in Seq(Wire) : restored(Append(u, w)) = restored(u) \o Back(w, path, placed)
            <4> SUFFICES ASSUME NEW u \in Seq(Wire)
                         PROVE  restored(Append(u, w)) = restored(u) \o Back(w, path, placed)
                OBVIOUS
            <4> QED
                BY <1>4, <2>5, RestoredAppend
        <3>2. <<>> \in Seq(Wire)
            OBVIOUS
        <3> QED
            BY <3>1, <3>2, Zenon
    <2>8. restored(<<>>) = <<>>
        BY RestoredEmpty
    <2>9. Append(<<>>, w) = <<w>> /\ <<w>> \in Seq(Wire)
        BY <2>5
    <2>10. <<>> \o Back(w, path, placed) = Back(w, path, placed)
        <3>1. Back(w, path, placed) \in Seq(Wire)
            BY <1>4, <2>5 DEF Returns
        <3> QED
            BY <3>1
    <2>11. restored(<<w>>) = Placeholder(piece.text)
        BY <2>6, <2>7, <2>8, <2>9, <2>10, Zenon
    <2> QED
        BY <2>3, <2>4, <2>9, <2>11, Zenon DEF path, placed
<1>8. CASE ~piece.literal /\ Named(path, piece.text) = {}
    <2>1. Expanding(o, piece) = Quoted(o.supplied[piece.text], FALSE)
        BY <1>8, Zenon DEF Expanding
    <2>2. Token(o, <<>>, piece) = Quoted(o.supplied[piece.text], FALSE)
        BY <1>2, <1>3, <1>8, Zenon DEF Token
    <2> QED
        BY <1>1, <1>3, <1>5, <1>8, <2>1, <2>2, Zenon
<1> QED
    BY <1>6, <1>7, <1>8, Zenon

\* The text of a template before any parameter has its place.
LEMMA TemplateIs ==
    ASSUME NEW o, Readable(o)
    PROVE  TemplateText(o.template, o.parameters, o.supplied) = FlattenSeq(Filling(o, <<>>))
<1> DEFINE pieces == o.template.pieces
           path == Located(o.parameters, "path")
           texts == [i \in DOMAIN pieces |-> Expanding(o, pieces[i])]
<1>1. TemplateText(o.template, o.parameters, o.supplied) =
          IF o.template.uri THEN Restored(FlattenSeq(texts), path, PlacedTokens(o)) ELSE FlattenSeq(texts)
    BY DEF TemplateText, Expanding, PlacedTokens
<1>2. Filling(o, <<>>) = [i \in DOMAIN pieces |-> Token(o, <<>>, pieces[i])]
    BY Zenon DEF Filling
<1>3. CASE ~o.template.uri
    <2>1. ASSUME NEW piece PROVE Token(o, <<>>, piece) = Expanding(o, piece)
        <3>1. {i \in DOMAIN <<>> : <<>>[i].name = piece.text} = {}
            OBVIOUS
        <3>2. CASE piece.literal
            BY <3>2, Zenon DEF Token, Expanding
        <3>3. CASE ~piece.literal
            BY <1>3, <3>1, <3>3, Zenon DEF Token, Expanding
        <3> QED
            BY <3>2, <3>3
    <2>2. Filling(o, <<>>) = texts
        BY <1>2, <2>1
    <2> QED
        BY <1>1, <1>3, <2>2, Zenon
<1>4. CASE o.template.uri
    <2>1. pieces \in Seq([literal : BOOLEAN, text : Texts])
        BY Zenon DEF Readable, LegiblePieces
    <2>2. Len(pieces) \in Nat /\ DOMAIN pieces = 1..Len(pieces)
        BY <2>1
    <2>3. \A i \in DOMAIN pieces :
              /\ Expanding(o, pieces[i]) \in Seq(Wire)
              /\ Restored(Expanding(o, pieces[i]), path, PlacedTokens(o)) = Token(o, <<>>, pieces[i])
        BY <1>4, PieceRestored, Zenon
    <2>4. texts \in Seq(Seq(Wire)) /\ DOMAIN texts = DOMAIN pieces
        <3> HIDE DEF pieces
        <3>1. texts \in [1..Len(pieces) -> Seq(Wire)] /\ DOMAIN texts = DOMAIN pieces
            BY <2>2, <2>3
        <3> QED
            BY <2>2, <3>1, FunctionIsSequence
    <2>5. Returns(Wire, path, PlacedTokens(o)) /\ Wire # {}
        BY TokensPlaced, BracesApart
    <2>6. Restored(FlattenSeq(texts), path, PlacedTokens(o))
              = FlattenSeq([i \in DOMAIN texts |-> Restored(texts[i], path, PlacedTokens(o))])
        <3> HIDE DEF texts, path
        <3> QED
            BY <2>4, <2>5, RestoredFlat
    <2>7. [i \in DOMAIN texts |-> Restored(texts[i], path, PlacedTokens(o))] = Filling(o, <<>>)
        <3> HIDE DEF pieces, path
        <3>1. \A i \in DOMAIN pieces : Restored(texts[i], path, PlacedTokens(o)) = Token(o, <<>>, pieces[i])
            BY <2>3
        <3> QED
            BY <1>2, <2>4, <3>1
    <2> QED
        BY <1>1, <1>4, <2>6, <2>7, Zenon
<1> QED
    BY <1>3, <1>4

LEMMA PlaceEmpty == \A p : Place(<<>>, p) = <<>>
<1> SUFFICES ASSUME NEW p PROVE Place(<<>>, p) = <<>>
    OBVIOUS
<1>1. Split(<<>>, Placeholder(p.name)) = <<<<>>>>
    BY SplitEmpty
<1>2. Len(<<<<>>>>) = 1
    OBVIOUS
<1> QED
    BY <1>1, <1>2, Zenon DEF Place

\* A path that has places for all its parameters is its pieces, each filled once.
LEMMA PathExpanded ==
    ASSUME NEW o, Readable(o), NEW path \in Seq(Placeable(o))
    PROVE  ExpandPath(TemplateText(o.template, o.parameters, o.supplied), path)
               \in {<<>>, FlattenSeq(Filling(o, path))}
<1> DEFINE P == Placeable(o)
           text == TemplateText(o.template, o.parameters, o.supplied)
           S == {q \in Seq(P) : ExpandPath(text, q) \in {<<>>, FlattenSeq(Filling(o, q))}}
<1>1. <<>> \in S
    <2>1. <<>> \in Seq(P)
        OBVIOUS
    <2>2. ExpandPath(text, <<>>) = FlattenSeq(Filling(o, <<>>))
        BY ExpandEmpty, TemplateIs, Zenon
    <2> QED
        BY <2>1, <2>2
<1>2. ASSUME NEW q \in Seq(P), NEW p \in P, q \in S PROVE Append(q, p) \in S
    <2> DEFINE x == ExpandPath(text, q)
               toks == Filling(o, q)
    <2>1. ExpandPath(text, Append(q, p)) = Place(x, p)
        BY ExpandAppend
    <2>2. Place(x, p) \in {<<>>, FlattenSeq(Filling(o, Append(q, p)))}
        <3>1. CASE x = <<>>
            BY <3>1, PlaceEmpty, Zenon
        <3>2. CASE x = FlattenSeq(toks)
            <4> DEFINE d == Placeholder(p.name)
                       v == PathText(p)
            <4>1. toks \in Seq(Tokens) /\ Filling(o, Append(q, p)) = Placed(toks, p.name, v)
                BY FillingIs DEF Readable
            <4>2. p.name \in Names /\ v \in Seq(Wire)
                <5>1. v \in Seq(Closed) /\ Closed \subseteq Wire
                    BY DEF Placeable, Closed
                <5> QED
                    BY <5>1, SeqWider DEF Placeable
            <4> HIDE DEF toks, v
            <4>3. Delimited(Split(FlattenSeq(toks), d), v) = FlattenSeq(Placed(toks, p.name, v))
                BY <4>1, <4>2, PlaceholdersFilled
            <4>4. Place(x, p) \in {<<>>, Delimited(Split(x, d), v)}
                BY Zenon DEF Place, v
            <4> QED
                BY <3>2, <4>1, <4>3, <4>4, Zenon
        <3> QED
            BY <1>2, <3>1, <3>2
    <2>3. Append(q, p) \in Seq(P)
        <3> HIDE DEF P
        <3> QED
            OBVIOUS
    <2> QED
        BY <2>1, <2>2, <2>3, Zenon
<1>3. Seq(P) \subseteq S
    <2> HIDE DEF S, P
    <2> QED
        BY <1>1, <1>2, SequenceInduction
<1> QED
    BY <1>3
-----------------------------------------------------------------------------
(* A request target: a path and the pairs of its query. *)

\* A name and a value, split at the sign between them.
LEMMA SplitPair ==
    ASSUME NEW T, NEW x \in T, NEW F \in SUBSET T, x \notin F, NEW k \in Seq(F), NEW v \in Seq(F),
           NEW s, Around(s, k, <<x>>, v)
    PROVE  Split(s, <<x>>) = <<k, v>>
<1> DEFINE d == <<x>>
<1>1. k \in Seq(T)
    BY SeqWider
<1>2. Split(k \o (d \o v), d) = Append(Split(k, d), v)
    BY <1>1, SplitAfter, Zenon DEF SplitsInto
<1>3. d \in Seq(T) /\ Nonempty(d) /\ d[Len(d)] = x
    BY DEF Nonempty
<1>4. Split(k, d) = <<k>>
    <2> HIDE DEF d
    <2> QED
        BY <1>3, SplitWhole
<1>5. Append(<<k>>, v) = <<k, v>>
    <2> DEFINE W == Seq(F)
               a == Append(<<k>>, v)
               b == <<k, v>>
    <2>1. k \in W /\ v \in W
        OBVIOUS
    <2> HIDE DEF W
    <2>2. a \in Seq(W) /\ Len(a) = 2 /\ a[1] = k /\ a[2] = v
        BY <2>1
    <2>3. b \in Seq(W) /\ Len(b) = 2 /\ b[1] = k /\ b[2] = v
        BY <2>1
    <2> HIDE DEF a, b
    <2>4. a = b
        BY <2>2, <2>3
    <2> QED
        BY <2>4 DEF a, b
<1> QED
    BY <1>2, <1>4, <1>5, Zenon DEF Around

LEMMA AroundGoesOn ==
    ASSUME NEW T, NEW a \in Seq(T), NEW d \in Seq(T), NEW b \in Seq(T), NEW e \in Seq(T), NEW q \in Seq(T),
           NEW t, Around(t, a, d, b)
    PROVE  Around((t \o e) \o q, a, d, b \o (e \o q))
<1> DEFINE f == d \o b
           g == e \o q
<1>1. \A x \in Seq(T), y \in Seq(T), z \in Seq(T) : (x \o y) \o z = x \o (y \o z)
    BY ConcatAssociative, SMTT(30)
<1>2. f \in Seq(T) /\ g \in Seq(T) /\ a \o f \in Seq(T)
    OBVIOUS
<1>3. ((a \o f) \o e) \o q = (a \o f) \o g
    <2> DEFINE h == a \o f
    <2>1. h \in Seq(T)
        BY <1>2
    <2> HIDE DEF h, f
    <2>2. \A y \in Seq(T), z \in Seq(T) : (h \o y) \o z = h \o (y \o z)
        BY <1>1, <2>1, Zenon
    <2>3. (h \o e) \o q = h \o (e \o q)
        BY <2>2, Zenon
    <2> QED
        BY <2>3 DEF h
<1>4. (a \o f) \o g = a \o (f \o g)
    <2> HIDE DEF f, g
    <2>1. \A y \in Seq(T), z \in Seq(T) : (a \o y) \o z = a \o (y \o z)
        BY <1>1, Zenon
    <2>2. f \in Seq(T) /\ g \in Seq(T)
        BY <1>2
    <2> QED
        BY <2>1, <2>2, Zenon
<1>5. f \o g = d \o (b \o g)
    <2> HIDE DEF g
    <2> QED
        BY <1>1, <1>2
<1> HIDE DEF f, g
<1>6. t = a \o f
    BY Zenon DEF Around, f
<1>7. (t \o e) \o q = a \o (d \o (b \o g))
    BY <1>3, <1>4, <1>5, <1>6, Zenon
<1> QED
    BY <1>7, Zenon DEF Around, g

\* A path, a mark that depends on whether the path has one, and the query.
IsTarget(target, path, query, d, e) ==
    LET joint == IF \E i \in DOMAIN path : path[i] = d[1] THEN e ELSE d
    IN  target = path \o joint \o query

FoundBehind(target, path, parts, d, e, T) ==
    LET first == Split(target, d)[1]
        rest == SubSeq(target, Len(first) + 2, Len(target)) IN
    first = Split(path, d)[1] /\ \E before \in Seq(Seq(T)) : Split(rest, e) = before \o parts

\* What follows a path is found behind the first of its marks, whether the path has one or not.
LEMMA QueryFollows ==
    ASSUME NEW T, NEW x \in T, NEW y \in T, NEW F \in SUBSET T, y \notin F,
           NEW path \in Seq(T), NEW parts \in Seq(Seq(F)), Nonempty(parts),
           NEW target, IsTarget(target, path, Delimited(parts, <<y>>), <<x>>, <<y>>)
    PROVE  FoundBehind(target, path, parts, <<x>>, <<y>>, T)
<1> DEFINE d == <<x>>
           e == <<y>>
           query == Delimited(parts, e)
           first == Split(target, d)[1]
           rest == SubSeq(target, Len(first) + 2, Len(target))
<1>1. d \in Seq(T) /\ e \in Seq(T)
    OBVIOUS
<1>2. query \in Seq(T)
    <2>1. Seq(F) \subseteq Seq(T)
        BY SeqWider
    <2>2. parts \in Seq(Seq(T))
        BY <2>1, SeqWider
    <2> HIDE DEF e
    <2> QED
        BY <1>1, <2>2, DelimitedIn
<1>3. /\ \A t \in Seq(T) : Split(t \o (e \o query), e) = Split(t, e) \o parts
      /\ Split(query, e) = parts
    <2>1. \A t \in Seq(T) : JoinedBehind(t, <<y>>, parts)
        BY SplitJoined
    <2>2. <<>> \in Seq(T)
        OBVIOUS
    <2>3. Split(Delimited(parts, <<y>>), <<y>>) = parts
        BY <2>2, SplitJoined
    <2> QED
        BY <2>1, <2>3, Zenon DEF JoinedBehind
<1>4. \A f \in Seq(T), g \in Seq(T), h \in Seq(T) : (f \o g) \o h = f \o (g \o h)
    BY ConcatAssociative, SMTT(30)
<1>5. \A a \in Seq(T \ {x}), b \in Seq(T) : /\ Split(a \o (d \o b), d)[1] = a
                                             /\ SubSeq(a \o (d \o b), Len(a) + 2, Len(a \o (d \o b))) = b
    BY SplitFirst
<1>6. Seq(T \ {x}) \subseteq Seq(T)
    BY SeqWider
<1>7. CASE \E i \in DOMAIN path : path[i] = x
    <2>1. target = path \o e \o query
        <3>1. d[1] = x
            OBVIOUS
        <3> QED
            BY <1>7, <3>1, Zenon DEF IsTarget
    <2>2. \E i \in 1..Len(path) : path[i] = x
        BY <1>7
    <2>3. PICK a \in Seq(T \ {x}), b \in Seq(T) : Around(path, a, d, b)
        BY <2>2, FirstPlace
    <2> DEFINE g == e \o query
               tail == b \o g
    <2> HIDE DEF d, e, query
    <2>4. a \in Seq(T) /\ g \in Seq(T) /\ tail \in Seq(T)
        BY <1>1, <1>2, <1>6
    <2>5. target = a \o (d \o tail)
        <3>1. Around((path \o e) \o query, a, d, b \o (e \o query))
            BY <1>1, <1>2, <2>3, <2>4, AroundGoesOn
        <3> QED
            BY <2>1, <3>1, Zenon DEF Around
    <2> HIDE DEF g, tail
    <2>6. first = a /\ rest = tail
        <3>1. Split(a \o (d \o tail), d)[1] = a /\ SubSeq(a \o (d \o tail), Len(a) + 2, Len(a \o (d \o tail))) = tail
            BY <1>5, <2>4
        <3>2. first = a
            BY <2>5, <3>1, Zenon
        <3> HIDE DEF first
        <3> QED
            BY <2>5, <3>1, <3>2, Zenon
    <2>7. Split(path, d)[1] = a
        BY <1>5, <2>3, Zenon DEF Around
    <2>8. Split(rest, e) = Split(b, e) \o parts
        <3>1. tail = b \o (e \o query)
            BY Zenon DEF tail, g
        <3>2. Split(b \o (e \o query), e) = Split(b, e) \o parts
            BY <1>3
        <3> HIDE DEF rest
        <3> QED
            BY <2>6, <3>1, <3>2, Zenon
    <2>9. Split(b, e) \in Seq(Seq(T))
        BY <1>1, SplitIn
    <2> HIDE DEF rest, first
    <2>10. first = Split(path, d)[1] /\ \E before \in Seq(Seq(T)) : Split(rest, e) = before \o parts
        BY <2>6, <2>7, <2>8, <2>9, Zenon
    <2> QED
        BY <2>10, Zenon DEF FoundBehind, rest, first, d, e
<1>8. CASE ~\E i \in DOMAIN path : path[i] = x
    <2>1. target = path \o d \o query
        <3>1. d[1] = x
            OBVIOUS
        <3> QED
            BY <1>8, <3>1, Zenon DEF IsTarget
    <2>2. path \in Seq(T \ {x})
        <3>1. Len(path) \in Nat /\ path \in [1..Len(path) -> T] /\ DOMAIN path = 1..Len(path)
            OBVIOUS
        <3>2. path \in [1..Len(path) -> T \ {x}]
            BY <1>8, <3>1
        <3> QED
            BY <3>1, <3>2, FunctionIsSequence
    <2> HIDE DEF query
    <2>3. target = path \o (d \o query)
        <3>1. target = (path \o d) \o query
            BY <2>1, Zenon
        <3> HIDE DEF d
        <3>2. (path \o d) \o query = path \o (d \o query)
            BY <1>1, <1>2, <1>4
        <3> QED
            BY <3>1, <3>2, Zenon
    <2>4. first = path /\ rest = query
        <3> HIDE DEF d
        <3>1. /\ Split(path \o (d \o query), d)[1] = path
              /\ SubSeq(path \o (d \o query), Len(path) + 2, Len(path \o (d \o query))) = query
            BY <1>2, <1>5, <2>2
        <3>2. first = path
            BY <2>3, <3>1, Zenon
        <3> HIDE DEF first
        <3> QED
            BY <2>3, <3>1, <3>2, Zenon
    <2>5. Split(path, d) = <<path>>
        <3> DEFINE G == T \ {x}
        <3>1. Nonempty(d) /\ d[Len(d)] \notin G /\ G \in SUBSET T
            BY DEF Nonempty
        <3> HIDE DEF d, G
        <3>2. path \in Seq(G)
            BY <2>2 DEF G
        <3> QED
            BY <1>1, <3>1, <3>2, SplitWhole
    <2>6. Split(rest, e) = <<>> \o parts
        <3>1. parts \in Seq(Seq(F))
            OBVIOUS
        <3>2. <<>> \o parts = parts
            BY <3>1, ConcatEmpty
        <3> HIDE DEF rest, e
        <3> QED
            BY <1>3, <2>4, <3>2, Zenon
    <2>7. <<>> \in Seq(Seq(T)) /\ <<path>>[1] = path
        OBVIOUS
    <2> HIDE DEF rest, first
    <2>8. first = Split(path, d)[1] /\ \E before \in Seq(Seq(T)) : Split(rest, e) = before \o parts
        BY <2>4, <2>5, <2>6, <2>7, Zenon
    <2> QED
        BY <2>8, Zenon DEF FoundBehind, rest, first, d, e
<1> QED
    BY <1>7, <1>8
-----------------------------------------------------------------------------
(* What an operation puts into a target is what is found there. *)

Sendable(o) ==
    /\ Addressed(o) /\ TokenFree(o) /\ Serializable(o.parameters)
    /\ \A i \in DOMAIN o.parameters : ~o.parameters[i].reserved
    /\ MissingNames(o.template, o.parameters, o.supplied) = {}

\* A parameter that can be sent.
Passable(p) ==
    /\ ~p.reserved
    /\ p.in = "path" => p.name \in Names
    /\ p.kind # "absent" => EffectiveStyle(p) \in Styles(p)

LEMMA LocatedGiven ==
    ASSUME NEW o, Sendable(o)
    PROVE  /\ Located(o.parameters, "path") \in Seq(Placeable(o))
           /\ Located(o.parameters, "query") \in Seq(Given("query"))
<1> DEFINE Q == {p \in ParameterSpecs : Passable(p)}
           given == o.parameters
           path == Located(o.parameters, "path")
<1>1. given \in Seq(ParameterSpecs) /\ \A i \in DOMAIN given : Passable(given[i])
    <2>1. given \in Seq(ParameterSpecs) /\ \A i \in DOMAIN given : given[i].in = "path" => Braceless(given[i].name)
        BY Zenon DEF Sendable, Addressed
    <2>2. \A i \in DOMAIN given : given[i] \in ParameterSpecs
        BY <2>1
    <2>3. \A i \in DOMAIN given : given[i].name \in Texts
        BY <2>2, SpecIs
    <2>4. \A i \in DOMAIN given : given[i].in = "path" => given[i].name \in Names
        BY <2>1, <2>3, Zenon DEF Names
    <2> QED
        BY <2>1, <2>4, Zenon DEF Sendable, Serializable, Passable
<1>2. given \in Seq(Q)
    <2>1. Len(given) \in Nat /\ given \in [1..Len(given) -> ParameterSpecs] /\ DOMAIN given = 1..Len(given)
        BY <1>1
    <2> HIDE DEF given
    <2>2. given \in [1..Len(given) -> Q]
        BY <1>1, <2>1
    <2> HIDE DEF Q
    <2> QED
        BY <2>1, <2>2, FunctionIsSequence
<1>3. \A where : Located(given, where) \in Seq({p \in Q : p.in = where /\ p.kind # "absent"})
    <2> HIDE DEF Q, given
    <2> QED
        BY <1>2, LocatedIn
<1>4. Located(given, "query") \in Seq(Given("query"))
    <2>1. {p \in Q : p.in = "query" /\ p.kind # "absent"} \subseteq Given("query")
        BY DEF Given, Passable
    <2> DEFINE chosen == {p \in Q : p.in = "query" /\ p.kind # "absent"}
               all == Given("query")
               query == Located(given, "query")
    <2>2. chosen \subseteq all /\ query \in Seq(chosen)
        BY <1>3, <2>1
    <2> HIDE DEF chosen, all, query
    <2>3. query \in Seq(all)
        BY <2>2, SeqWider
    <2> QED
        BY <2>3 DEF all, query
<1> DEFINE L == {p \in Q : p.in = "path" /\ p.kind # "absent"}
<1>5. path \in Seq(L)
    BY <1>3
<1>6. \A p \in L : p \in Given("path") /\ p.name \in Names /\ PathText(p) \in Seq(Closed)
    <2> SUFFICES ASSUME NEW p \in L
                 PROVE  p \in Given("path") /\ p.name \in Names /\ PathText(p) \in Seq(Closed)
        OBVIOUS
    <2>1. p \in Given("path") /\ p.name \in Names
        BY DEF Given, Passable
    <2>2. EffectiveStyle(p) \in {"simple", "label", "matrix"}
        BY DEF Passable, Styles
    <2> QED
        BY <2>1, <2>2, PathTextIn
<1> HIDE DEF L
<1>7. Len(path) \in Nat /\ DOMAIN path = 1..Len(path) /\ \A i \in DOMAIN path : path[i] \in L
    <2> HIDE DEF path
    <2> QED
        BY <1>5
<1>8. path = [i \in 1..Len(path) |-> path[i]]
    <2> HIDE DEF path
    <2> QED
        BY <1>5
<1>9. \A i \in DOMAIN path : path[i] \in Placeable(o)
    <2>1. \A i \in DOMAIN path : path[i].name \in PathNames(o)
        BY Zenon DEF PathNames
    <2> HIDE DEF path
    <2> QED
        BY <1>6, <1>7, <2>1 DEF Placeable
<1>10. path \in Seq(Placeable(o))
    <2> HIDE DEF path
    <2>1. path \in [1..Len(path) -> Placeable(o)]
        BY <1>7, <1>8, <1>9
    <2> QED
        BY <1>7, <2>1, FunctionIsSequence
<1> QED
    BY <1>4, <1>10

LEMMA PiecesLegible ==
    ASSUME NEW o, Sendable(o)
    PROVE  LegiblePieces(o)
<1> DEFINE pieces == o.template.pieces
<1>1. /\ pieces \in Seq([literal : BOOLEAN, text : Texts])
      /\ \A i \in DOMAIN pieces : Braceless(pieces[i].text)
      /\ \A name \in DOMAIN o.supplied : o.supplied[name] \in Texts
    BY Zenon DEF Sendable, Addressed
<1>2. \A i \in DOMAIN pieces : o.template.uri /\ ~pieces[i].literal =>
          pieces[i].text \in PathNames(o) \cup DOMAIN o.supplied
    <2>1. {pieces[i].text : i \in {j \in DOMAIN pieces : o.template.uri /\ ~pieces[j].literal}}
              \ (PathNames(o) \cup DOMAIN o.supplied) = {}
        BY Zenon DEF Sendable, MissingNames, PathNames
    <2> HIDE DEF pieces
    <2> QED
        BY <2>1
<1>3. ASSUME NEW i \in DOMAIN pieces PROVE Legible(o, pieces[i])
    <2> DEFINE piece == pieces[i]
    <2>1. piece \in [literal : BOOLEAN, text : Texts]
        <3> DEFINE R == [literal : BOOLEAN, text : Texts]
        <3>1. pieces \in Seq(R)
            BY <1>1
        <3> HIDE DEF R
        <3>2. piece \in R
            BY <1>3, <3>1
        <3> QED
            BY <3>2 DEF R
    <2>2. piece.literal \in BOOLEAN /\ piece.text \in Texts
        BY <2>1
    <2>3. piece.text \in Names
        BY <1>1, <1>3, <2>2, Zenon DEF Names
    <2>4. ~piece.literal /\ o.template.uri /\ piece.text \notin PathNames(o) =>
              piece.text \in DOMAIN o.supplied /\ o.supplied[piece.text] \in Texts
        <3>1. o.template.uri /\ ~piece.literal => piece.text \in PathNames(o) \cup DOMAIN o.supplied
            BY <1>2, <1>3, Zenon
        <3> HIDE DEF piece
        <3> QED
            BY <1>1, <3>1
    <2> QED
        BY <2>2, <2>3, <2>4, Zenon DEF Legible
<1> QED
    BY <1>1, <1>3, Zenon DEF LegiblePieces

\* All parameters of the path make its pieces of the template.
LEMMA FillingPieces ==
    \A o : Filling(o, Located(o.parameters, "path"))
               = [i \in DOMAIN o.template.pieces |-> Piece(o, o.template.pieces[i])]
<1> SUFFICES ASSUME NEW o
             PROVE  Filling(o, Located(o.parameters, "path"))
                        = [i \in DOMAIN o.template.pieces |-> Piece(o, o.template.pieces[i])]
    OBVIOUS
<1> DEFINE path == Located(o.parameters, "path")
<1>1. ASSUME NEW piece PROVE Token(o, path, piece) = Piece(o, piece)
    <2> DEFINE named == {i \in DOMAIN path : path[i].name = piece.text}
    <2>1. named = {} <=> piece.text \notin PathNames(o)
        BY Zenon DEF PathNames
    <2>2. CASE piece.literal
        BY <2>2, Zenon DEF Token, Piece, Named
    <2>3. CASE ~piece.literal /\ named # {}
        BY <2>3, Zenon DEF Token, Piece, Named
    <2>4. CASE ~piece.literal /\ named = {} /\ ~o.template.uri
        BY <2>4, Zenon DEF Token, Piece, Named
    <2>5. CASE ~piece.literal /\ named = {} /\ o.template.uri
        <3>1. Piece(o, piece) = Quoted(o.supplied[piece.text], FALSE)
            BY <2>5, Zenon DEF Piece, Named
        <3>2. Token(o, path, piece) = Quoted(o.supplied[piece.text], FALSE)
            BY <2>1, <2>5, Zenon DEF Token
        <3> QED
            BY <3>1, <3>2
    <2> QED
        BY <2>2, <2>3, <2>4, <2>5
<1> QED
    BY <1>1 DEF Filling
\* The marks of a target.
Ask == Sign("?")
Ampersand == Sign("&")
Equals == Sign("=")
Comma == Sign(",")

LEMMA MarksAre ==
    /\ Mark("?") = <<Ask>> /\ Mark("&") = <<Ampersand>> /\ Mark("=") = <<Equals>> /\ Mark(",") = <<Comma>>
    /\ Ask \in Wire /\ Ampersand \in Wire /\ Equals \in Wire /\ Comma \in Wire
    /\ Ampersand \notin Quiet \cup {Equals} /\ Equals \notin Quiet /\ Comma \notin Kept
    /\ Quiet \subseteq Wire /\ Kept \subseteq Wire
<1>1. Mark("?") = <<Ask>> /\ Mark("&") = <<Ampersand>> /\ Mark("=") = <<Equals>> /\ Mark(",") = <<Comma>>
    BY SignIs, Zenon DEF Ask, Ampersand, Equals, Comma
<1>2. Ask \in Wire /\ Ampersand \in Wire /\ Equals \in Wire /\ Comma \in Wire
    <2>1. "?" \in Glyphs /\ "&" \in Glyphs /\ "=" \in Glyphs /\ "," \in Glyphs
        BY Zenon DEF Glyphs
    <2> QED
        BY <2>1, SignIs, Zenon DEF Ask, Ampersand, Equals, Comma
<1>3. Ampersand \notin Quiet \cup {Equals} /\ Equals \notin Quiet /\ Comma \notin Kept
    BY SignsApart, Zenon DEF Ampersand, Equals, Comma
<1>4. Quiet \subseteq Wire /\ Kept \subseteq Wire
    BY SignsApart DEF Kept
<1> QED
    BY <1>1, <1>2, <1>3, <1>4

\* The path that an operation asks for, and the target it gets.
PathOf(o) == FlattenSeq([i \in DOMAIN o.template.pieces |-> Piece(o, o.template.pieces[i])])
TargetOf(o) == Target(o.template, o.parameters, o.supplied)
QueryOf(o) == Delimited(Assigned(PairsOf(o.parameters)), <<Ampersand>>)

LEMMA TargetIs ==
    ASSUME NEW o, Sendable(o), TargetOf(o) # <<>>
    PROVE  /\ PathOf(o) \in Seq(Wire)
           /\ PairsOf(o.parameters) = <<>> => TargetOf(o) = PathOf(o)
           /\ PairsOf(o.parameters) # <<>> =>
                  IsTarget(TargetOf(o), PathOf(o), QueryOf(o), <<Ask>>, <<Ampersand>>)
<1> DEFINE path == Located(o.parameters, "path")
           text == ExpandPath(TemplateText(o.template, o.parameters, o.supplied), path)
<1>1. LegiblePieces(o) /\ path \in Seq(Placeable(o)) /\ Readable(o)
    <2>1. LegiblePieces(o) /\ path \in Seq(Placeable(o))
        BY PiecesLegible, LocatedGiven
    <2>2. TokenFree(o) /\ Len(path) <= Len(PathTokens)
        BY Zenon DEF Sendable, Addressed
    <2> QED
        BY <2>1, <2>2, Zenon DEF Readable
<1>2. FlattenSeq(Filling(o, path)) = PathOf(o)
    BY FillingPieces, Zenon DEF PathOf
<1>3. text \in {<<>>, PathOf(o)}
    <2> HIDE DEF path
    <2>1. text \in {<<>>, FlattenSeq(Filling(o, path))}
        BY <1>1, PathExpanded
    <2> QED
        BY <1>2, <2>1, Zenon
<1>4. PathOf(o) \in Seq(Wire)
    <2> HIDE DEF path
    <2>1. Filling(o, path) \in Seq(Tokens)
        BY <1>1, FillingIs
    <2>2. Filling(o, path) \in Seq(Seq(Wire))
        BY <2>1, TokensAre, SeqWider
    <2>3. FlattenSeq(Filling(o, path)) \in Seq(Wire)
        BY <2>2, FlatIn
    <2> QED
        BY <1>2, <2>3, Zenon
<1>5. text # <<>> /\ text = PathOf(o)
    <2>1. text # <<>>
        BY Zenon DEF TargetOf, Target
    <2> QED
        BY <1>3, <2>1
<1> DEFINE joint == IF \E i \in DOMAIN text : text[i] = Mark("?")[1] THEN Mark("&") ELSE Mark("?")
           query == Delimited(Assigned(PairsOf(o.parameters)), Mark("&"))
<1>6. TargetOf(o) = IF PairsOf(o.parameters) = <<>> THEN text ELSE text \o joint \o query
    <2>1. MissingNames(o.template, o.parameters, o.supplied) = {}
        BY Zenon DEF Sendable
    <2> QED
        BY <1>5, <2>1, Zenon DEF TargetOf, Target
<1> HIDE DEF text
<1>7. PairsOf(o.parameters) # <<>> => IsTarget(TargetOf(o), text, query, Mark("?"), Mark("&"))
    BY <1>6, Zenon DEF IsTarget
<1>8. PairsOf(o.parameters) # <<>> => IsTarget(TargetOf(o), PathOf(o), QueryOf(o), <<Ask>>, <<Ampersand>>)
    BY <1>5, <1>7, MarksAre, Zenon DEF QueryOf
<1> QED
    BY <1>4, <1>5, <1>6, <1>8, Zenon

\* The pairs of a query are found behind the path, at the end of what is there.
LEMMA PairsArrive ==
    ASSUME NEW o, Sendable(o), TargetOf(o) # <<>>, PairsOf(o.parameters) # <<>>
    PROVE  LET first == Split(TargetOf(o), <<Ask>>)[1]
               sent == Split(SubSeq(TargetOf(o), Len(first) + 2, Len(TargetOf(o))), <<Ampersand>>)
               pairs == PairsOf(o.parameters) IN
           /\ first = Split(PathOf(o), <<Ask>>)[1]
           /\ \A i \in DOMAIN pairs : Split(sent[Len(sent) - Len(pairs) + i], <<Equals>>) = pairs[i]
<1> DEFINE pairs == PairsOf(o.parameters)
           n == Len(pairs)
           parts == Assigned(pairs)
           target == TargetOf(o)
           path == PathOf(o)
           F == Quiet \cup {Equals}
           first == Split(target, <<Ask>>)[1]
           sent == Split(SubSeq(target, Len(first) + 2, Len(target)), <<Ampersand>>)
<1>1. pairs \in Seq(Seq(Quiet) \X Seq(Quiet))
    BY LocatedGiven, PairsIn
<1>2. /\ n \in Nat /\ n # 0 /\ DOMAIN pairs = 1..n
      /\ \A i \in 1..n : pairs[i][1] \in Seq(Quiet) /\ pairs[i][2] \in Seq(Quiet) /\ pairs[i] = <<pairs[i][1], pairs[i][2]>>
    <2> HIDE DEF pairs
    <2>1. n \in Nat /\ DOMAIN pairs = 1..n /\ \A i \in 1..n : pairs[i] \in Seq(Quiet) \X Seq(Quiet)
        BY <1>1
    <2>2. n # 0
        BY <1>1 DEF pairs
    <2> QED
        BY <2>1, <2>2
<1> HIDE DEF pairs
<1>3. /\ parts \in Seq(Seq(F)) /\ Len(parts) = n
      /\ \A i \in 1..n : Around(parts[i], pairs[i][1], <<Equals>>, pairs[i][2])
    <2>1. Quiet \in SUBSET F /\ Sign("=") \in F
        BY Zenon DEF Equals
    <2>2. parts \in Seq(Seq(F)) /\ Len(parts) = n
        <3> HIDE DEF F
        <3> QED
            BY <1>1, <2>1, AssignedIn
    <2>3. \A i \in 1..n : Around(parts[i], pairs[i][1], <<Sign("=")>>, pairs[i][2])
        <3> HIDE DEF F
        <3> QED
            BY <1>1, <2>1, AssignedIn
    <2> QED
        BY <2>2, <2>3, Zenon DEF Equals
<1>4. Nonempty(parts)
    <2> HIDE DEF parts, F, n
    <2>1. parts # <<>>
        BY <1>2, <1>3
    <2> QED
        BY <2>1 DEF Nonempty
<1>5. path \in Seq(Wire) /\ IsTarget(target, path, Delimited(parts, <<Ampersand>>), <<Ask>>, <<Ampersand>>)
    BY TargetIs, Zenon DEF QueryOf, pairs
<1>6. Ask \in Wire /\ Ampersand \in Wire /\ Ampersand \notin F /\ F \in SUBSET Wire
    BY MarksAre
<1> HIDE DEF parts, target, path, F
<1>7. /\ first = Split(path, <<Ask>>)[1]
      /\ \E before \in Seq(Seq(Wire)) : sent = before \o parts
    <2>1. FoundBehind(target, path, parts, <<Ask>>, <<Ampersand>>, Wire)
        BY <1>3, <1>4, <1>5, <1>6, QueryFollows
    <2> QED
        BY <2>1, Zenon DEF FoundBehind, first, sent
<1> HIDE DEF first, sent
<1>8. PICK before \in Seq(Seq(Wire)) : sent = before \o parts
    BY <1>7
<1>9. \A i \in 1..n : sent[Len(sent) - n + i] = parts[i]
    <2>1. parts \in Seq(Seq(Wire))
        <3>1. Seq(F) \subseteq Seq(Wire)
            BY <1>6, SeqWider
        <3> QED
            BY <1>3, <3>1, SeqWider
    <2>2. IsRow(sent, before, parts)
        BY <1>8, <2>1, ConcatRow
    <2>3. Len(sent) - n = Len(before)
        BY <1>2, <1>3, <2>2 DEF IsRow
    <2> QED
        BY <1>3, <2>2, <2>3, Zenon DEF IsRow
<1>10. \A k \in Seq(Quiet), v \in Seq(Quiet) :
           \A s : Around(s, k, <<Equals>>, v) => Split(s, <<Equals>>) = <<k, v>>
    <2>1. Equals \in Wire /\ Quiet \in SUBSET Wire /\ Equals \notin Quiet
        BY MarksAre
    <2> QED
        BY <2>1, SplitPair
<1>11. \A i \in 1..n : Split(sent[Len(sent) - n + i], <<Equals>>) = pairs[i]
    BY <1>2, <1>3, <1>9, <1>10, Zenon
<1> QED
    BY <1>2, <1>7, <1>11, Zenon DEF first, sent, target, path, pairs
LEMMA SplitItems ==
    ASSUME NEW T, NEW x \in T, NEW F \in SUBSET T, x \notin F, NEW items \in Seq(Seq(F)), Nonempty(items)
    PROVE  Split(Delimited(items, <<x>>), <<x>>) = items
<1> DEFINE t == <<>>
<1>1. t \in Seq(T)
    OBVIOUS
<1> HIDE DEF t
<1> QED
    BY <1>1, SplitJoined

\* The items of a list, sent as one text, are found at its commas.
LEMMA ItemsArrive ==
    ASSUME NEW o, Sendable(o),
           LET query == Located(o.parameters, "query") IN
           Len(query) = 1 /\ query[1].kind = "array" /\ query[1].explode = {FALSE} /\ query[1].value # <<>>
               /\ EffectiveStyle(query[1]) = "form"
    PROVE  LET p == Located(o.parameters, "query")[1] IN
           Split(PairsOf(o.parameters)[1][2], <<Comma>>) = [i \in DOMAIN Parts(p) |-> Quoted(p.value[i], FALSE)]
<1> DEFINE query == Located(o.parameters, "query")
           p == query[1]
           value == p.value
           name == Coded(p, p.name)
           parts == Parts(p)
           text == Delimited(parts, Mark(","))
           D == Seq(Quiet) \X Seq(Quiet)
<1>1. query \in Seq(Given("query")) /\ Len(query) = 1
    BY LocatedGiven
<1>2. p.kind = "array" /\ p.explode = {FALSE} /\ value # <<>> /\ EffectiveStyle(p) = "form"
    OBVIOUS
<1>3. p \in Given("query") /\ DOMAIN query = 1..1
    <2> HIDE DEF query
    <2> QED
        BY <1>1
<1> HIDE DEF query, p
<1>4. ~EffectiveExplode(p)
    <2>1. {FALSE} # {TRUE} /\ {FALSE} # {}
        OBVIOUS
    <2> QED
        BY <1>2, <2>1 DEF EffectiveExplode
<1>5. QueryPairs(p) = <<<<name, text>>>>
    <2>1. QueryPairs(p) = FormPairs(p)
        BY <1>2, Zenon DEF QueryPairs
    <2>2. FormPairs(p) = <<<<name, text>>>>
        BY <1>2, <1>4, Zenon DEF FormPairs
    <2> QED
        BY <2>1, <2>2
<1>6. PairsOf(o.parameters) = QueryPairs(p)
    <2> DEFINE pairs == QueryPairs(p)
               rows == [i \in DOMAIN query |-> QueryPairs(query[i])]
               empty == <<>>
    <2>1. PairsOf(o.parameters) = FlattenSeq(rows)
        BY DEF PairsOf, query
    <2>2. pairs \in Seq(D)
        BY <1>3, QueryPairsIn
    <2>3. rows = [i \in 1..1 |-> pairs]
        BY <1>3 DEF p
    <2> HIDE DEF rows, pairs, D
    <2>4. rows = Append(empty, pairs) /\ empty \in Seq(Seq(D)) /\ empty \o pairs = pairs
        BY <2>2, <2>3
    <2>5. FlattenSeq(Append(empty, pairs)) = FlattenSeq(empty) \o pairs
        BY <2>2, <2>4, FlatAppend
    <2>6. FlattenSeq(empty) = empty
        BY FlatEmpty
    <2> HIDE DEF empty
    <2>7. PairsOf(o.parameters) = pairs
        BY <2>1, <2>4, <2>5, <2>6, Zenon
    <2> QED
        BY <2>7 DEF pairs
<1>7. PairsOf(o.parameters)[1][2] = text
    <2> HIDE DEF name, text
    <2>1. <<<<name, text>>>>[1][2] = text
        OBVIOUS
    <2> QED
        BY <1>5, <1>6, <2>1, Zenon
<1>8. parts \in Seq(Seq(Kept)) /\ parts = [i \in DOMAIN value |-> Quoted(value[i], FALSE)]
    BY <1>2, <1>3, PartsIn
<1>9. DOMAIN parts = DOMAIN value /\ Nonempty(parts)
    <2>1. value \in Seq(Texts)
        BY <1>2, <1>3, SpecIs DEF Given
    <2> HIDE DEF value, parts
    <2>2. DOMAIN parts = DOMAIN value
        BY <1>8
    <2>3. 1 \in DOMAIN value
        BY <1>2, <2>1
    <2> QED
        BY <2>2, <2>3 DEF Nonempty
<1>10. Split(text, <<Comma>>) = parts
    <2>1. Mark(",") = <<Comma>>
        BY MarksAre
    <2>2. Split(Delimited(parts, <<Comma>>), <<Comma>>) = parts
        <3> DEFINE K == Kept
                   W == Wire
                   x == Comma
        <3>1. K \in SUBSET W /\ x \in W /\ x \notin K
            BY MarksAre
        <3>2. parts \in Seq(Seq(K)) /\ Nonempty(parts)
            BY <1>8, <1>9, Zenon
        <3> HIDE DEF K, W, x, parts
        <3>3. Split(Delimited(parts, <<x>>), <<x>>) = parts
            BY <3>1, <3>2, SplitItems
        <3> QED
            BY <3>3 DEF x
    <2> QED
        BY <2>1, <2>2, Zenon
<1>11. parts = [i \in DOMAIN parts |-> Quoted(value[i], FALSE)]
    <2> HIDE DEF parts, value
    <2> QED
        BY <1>8, <1>9
<1>12. Split(PairsOf(o.parameters)[1][2], <<Comma>>) = [i \in DOMAIN parts |-> Quoted(value[i], FALSE)]
    BY <1>7, <1>10, <1>11, Zenon
<1> QED
    BY <1>12, Zenon DEF parts, value, p, query

\* A request that is built or sent has the target of its operation.
TargetInv ==
    stage \in {"adapting", "sending"} =>
        /\ op \in Operations /\ Serializable(op.parameters)
        /\ native.target = TargetOf(op) /\ TargetOf(op) # <<>>

LEMMA BuiltTarget ==
    ASSUME NEW o \in Operations, BuiltRequest(o) # NotBuilt
    PROVE  Serializable(o.parameters) /\ TargetOf(o) # <<>> /\ BuiltRequest(o).target = TargetOf(o)
<1>1. \A type, codec : Built(o, type, codec).target = TargetOf(o)
    BY DEF Built, TargetOf
<1>2. Multipart(o) # NotBuilt => Multipart(o).target = TargetOf(o)
    BY <1>1, Zenon DEF Multipart
<1>3. Streamed(o) # NotBuilt => Streamed(o).target = TargetOf(o)
    BY <1>1, Zenon DEF Streamed
<1>4. Raw(o) # NotBuilt => Raw(o).target = TargetOf(o)
    BY <1>1, Zenon DEF Raw
<1>5. Encoded(o) # NotBuilt => Encoded(o).target = TargetOf(o)
    BY <1>1, <1>4, Zenon DEF Encoded
<1>6. Serializable(o.parameters) /\ TargetOf(o) # <<>>
    BY Zenon DEF BuiltRequest, TargetOf
<1>7. BuiltRequest(o) \in {Multipart(o), Streamed(o), Built(o, o.explicit, "none"), Encoded(o)}
    BY DEF BuiltRequest
<1> QED
    BY <1>1, <1>2, <1>3, <1>5, <1>6, <1>7

LEMMA TargetInvStep == TargetInv /\ [ExchangeNext]_exchangeVars => TargetInv'
<1> SUFFICES ASSUME TargetInv, [ExchangeNext]_exchangeVars PROVE TargetInv'
    OBVIOUS
<1> USE DEF TargetInv
<1>1. \A how : EndExchange(how) => TargetInv'
    BY DEF EndExchange
<1>2. UNCHANGED <<op, native, stage>> => TargetInv'
    OBVIOUS
<1>3. CASE \E installed \in SUBSET Optional : Open(installed)
    BY <1>2, <1>3 DEF Open
<1>4. CASE RegisterCodec \/ RegisterProblem \/ CloseTransport \/ CloseBody
    BY <1>2, <1>4 DEF RegisterCodec, RegisterProblem, CloseTransport, CloseBody
<1>5. CASE Execute
    <2>1. PICK o \in Operations :
              LET request == IF transport = "closed" THEN NotBuilt ELSE BuiltRequest(o) IN
              \/ request = NotBuilt /\ EndExchange("refused")
              \/ /\ request # NotBuilt
                 /\ op' = o /\ native' = request
                 /\ stage' = "adapting" /\ adapted' = 0
                 /\ answer' = Absent /\ outcome' = "none"
        BY <1>5 DEF Execute
    <2>2. CASE EndExchange("refused")
        BY <1>1, <2>2
    <2>3. CASE BuiltRequest(o) # NotBuilt /\ op' = o /\ native' = BuiltRequest(o)
        <3>1. Serializable(o.parameters) /\ TargetOf(o) # <<>> /\ native'.target = TargetOf(o)
            BY <2>3, BuiltTarget
        <3> QED
            BY <2>3, <3>1
    <2> QED
        BY <2>1, <2>2, <2>3
<1>6. CASE Adapt
    BY <1>1, <1>2, <1>6 DEF Adapt
<1>7. CASE Send
    BY <1>1, <1>7 DEF Send
<1>8. CASE SendFails \/ Release
    BY <1>1, <1>8 DEF SendFails, Release
<1>9. CASE Receive
    BY <1>9 DEF Receive
<1>10. CASE UNCHANGED exchangeVars
    BY <1>2, <1>10 DEF exchangeVars
<1> QED
    BY <1>3, <1>4, <1>5, <1>6, <1>7, <1>8, <1>9, <1>10 DEF ExchangeNext

LEMMA TargetInvariant == ExchangeSpec => []TargetInv
<1>1. ExchangeInit => TargetInv
    BY DEF ExchangeInit, TargetInv
<1> QED
    BY <1>1, TargetInvStep, PTL DEF ExchangeSpec

\* ParametersArrive for all operations, values and templates without the text of a token (lines
\* 139-141): what is put into parameters is what a server takes out of the path, the query and
\* its lists (parameters.py, uri.py and _transport.py lines 132-158).
THEOREM ParametersArriveHolds == ExchangeSpec => []ParametersArrive
<1>1. TargetInv => ParametersArrive
    <2> SUFFICES ASSUME TargetInv, stage = "sending", TokenFree(op),
                        \A i \in DOMAIN op.parameters : ~op.parameters[i].reserved
                 PROVE  LET address == Split(native.target, Mark("?"))
                            pairs == PairsOf(op.parameters)
                            query == Located(op.parameters, "query")
                            items == [i \in DOMAIN Parts(query[1]) |-> Quoted(query[1].value[i], FALSE)] IN
                        /\ PathArrives(op, native.target)
                        /\ pairs # <<>> =>
                              LET sent == Split(SubSeq(native.target, Len(address[1]) + 2, Len(native.target)), Mark("&")) IN
                              \A i \in DOMAIN pairs : Split(sent[Len(sent) - Len(pairs) + i], Mark("=")) = pairs[i]
                        /\ (Len(query) = 1 /\ query[1].kind = "array" /\ query[1].explode = {FALSE} /\ query[1].value # <<>>
                              /\ EffectiveStyle(query[1]) = "form") => Split(pairs[1][2], Mark(",")) = items
        BY Zenon DEF ParametersArrive
    <2>1. op \in Operations /\ Serializable(op.parameters) /\ native.target = TargetOf(op) /\ TargetOf(op) # <<>>
        BY DEF TargetInv
    <2>2. Sendable(op)
        <3>1. Addressed(op)
            BY <2>1, ExchangeAssumption, Zenon
        <3>2. MissingNames(op.template, op.parameters, op.supplied) = {}
            BY <2>1, Zenon DEF TargetOf, Target
        <3> QED
            BY <2>1, <3>1, <3>2, Zenon DEF Sendable
    <2>3. Split(native.target, Mark("?"))[1] = Split(PathOf(op), Mark("?"))[1]
        <3>1. CASE PairsOf(op.parameters) = <<>>
            BY <2>1, <2>2, <3>1, TargetIs, Zenon
        <3>2. CASE PairsOf(op.parameters) # <<>>
            <4>1. Split(TargetOf(op), <<Ask>>)[1] = Split(PathOf(op), <<Ask>>)[1]
                BY <2>1, <2>2, <3>2, PairsArrive
            <4>2. Mark("?") = <<Ask>> /\ native.target = TargetOf(op)
                BY <2>1, MarksAre
            <4> QED
                BY <4>1, <4>2, Zenon
        <3> QED
            BY <3>1, <3>2
    <2>4. ASSUME PairsOf(op.parameters) # <<>>
          PROVE  LET address == Split(native.target, Mark("?"))
                     pairs == PairsOf(op.parameters)
                     sent == Split(SubSeq(native.target, Len(address[1]) + 2, Len(native.target)), Mark("&")) IN
                 \A i \in DOMAIN pairs : Split(sent[Len(sent) - Len(pairs) + i], Mark("=")) = pairs[i]
        BY <2>1, <2>2, <2>4, PairsArrive, MarksAre, Zenon
    <2>5. ASSUME LET query == Located(op.parameters, "query") IN
                 Len(query) = 1 /\ query[1].kind = "array" /\ query[1].explode = {FALSE} /\ query[1].value # <<>>
                     /\ EffectiveStyle(query[1]) = "form"
          PROVE  LET p == Located(op.parameters, "query")[1] IN
                 Split(PairsOf(op.parameters)[1][2], Mark(",")) = [i \in DOMAIN Parts(p) |-> Quoted(p.value[i], FALSE)]
        BY <2>2, <2>5, ItemsArrive, MarksAre, Zenon
    <2>6. PathArrives(op, native.target)
        BY <2>3, Zenon DEF PathArrives, PathOf
    <2> QED
        BY <2>4, <2>5, <2>6, Zenon
<1> QED
    BY <1>1, TargetInvariant, PTL
==============================================================================
