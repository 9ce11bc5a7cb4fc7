---------------------------- MODULE LibraryProofs ----------------------------
(***************************************************************************)
(* What the event parser, exchanges and client settings promise on every   *)
(* instance: that the events of a text are those it defines as a whole,    *)
(* however it is cut into chunks, that what a request asks for can be      *)
(* decoded, that its content is of the type it names, and that credentials *)
(* of one scheme never serve another.                                      *)
(***************************************************************************)
EXTENDS EventParser, Exchange, ClientSettings, FiniteSetTheorems, WellFoundedInduction, TLAPS

\* A nonempty set of numbers has a least one, which is the one chosen as its minimum.
LEMMA LeastNumber ==
    ASSUME NEW T \in SUBSET Nat, T # {}
    PROVE  \E x \in T : \A y \in T : x <= y
<1> DEFINE R == OpToRel(<, Nat)
<1>1. IsWellFoundedOn(R, Nat)
    BY NatLessThanWellFounded
<1>2. \A a, b \in Nat : <<a, b>> \in R <=> a < b
    BY DEF OpToRel
<1> HIDE DEF R
<1>3. PICK x \in T : \A y \in T : ~(<<y, x>> \in R)
    BY <1>1, WFMin
<1>4. ASSUME NEW y \in T PROVE x <= y
    <2>1. ~(<<y, x>> \in R)
        BY <1>3
    <2>2. x \in Nat /\ y \in Nat
        OBVIOUS
    <2>3. ~(y < x)
        BY <1>2, <2>1, <2>2
    <2> QED
        BY <2>2, <2>3
<1> QED
    BY <1>4

\* A set of numbers with zero and the successor of each of its numbers has all of them.
LEMMA Induction ==
    ASSUME NEW S, 0 \in S, \A n \in Nat : n \in S => n + 1 \in S
    PROVE  Nat \subseteq S
<1>1. ASSUME Nat \ S # {} PROVE FALSE
    <2>1. PICK x \in Nat \ S : \A y \in Nat \ S : x <= y
        BY <1>1, LeastNumber
    <2>2. x # 0 /\ x - 1 \in Nat /\ x = (x - 1) + 1
        BY <2>1
    <2>3. x - 1 \in S
        BY <2>1, <2>2
    <2>4. (x - 1) + 1 \in S
        BY <2>2, <2>3
    <2> QED
        BY <2>1, <2>2, <2>4
<1> QED
    BY <1>1

LEMMA MinimumIn ==
    ASSUME NEW I \in SUBSET Nat, I # {}
    PROVE  Min(I) \in I
<1>1. \E x \in I : \A y \in I : x <= y
    BY LeastNumber
<1> QED
    BY <1>1 DEF Min
-----------------------------------------------------------------------------
(* Folds: over the bytes of a text, the characters of a text, the parameters of a path. *)

\* What the fold does with one more element.
Folded(how, x, c) ==
    CASE how.kind = "bytes" -> Byte(x, c)
      [] how.kind = "split" -> NextPiece(x, c, how.d)
      [] OTHER -> Place(x, c)

\* g is the recursive function whose value at 1..n is the fold over n elements.
IsFold(g, n, base, text, how) ==
    g = [s \in SUBSET (1..n) |-> IF s = {} THEN base ELSE Folded(how, g[s \ {Max(s)}], text[Max(s)])]

LEMMA MaxOfInterval ==
    ASSUME NEW n \in Nat
    PROVE  /\ Max(1..(n + 1)) = n + 1
           /\ (1..(n + 1)) \ {n + 1} = 1..n
           /\ 1..(n + 1) # {}
<1>1. n + 1 \in 1..(n + 1) /\ \A y \in 1..(n + 1) : n + 1 >= y
    OBVIOUS
<1>2. ASSUME NEW x \in 1..(n + 1), \A y \in 1..(n + 1) : x >= y PROVE x = n + 1
    <2>1. x >= n + 1
        BY <1>1, <1>2
    <2> QED
        BY <2>1
<1>3. Max(1..(n + 1)) = n + 1
    BY <1>1, <1>2 DEF Max
<1> QED
    BY <1>1, <1>3

\* Sets with n + 1 have it as their maximum.
LEMMA MaxWith ==
    ASSUME NEW n \in Nat, NEW s \in SUBSET (1..(n + 1)), n + 1 \in s
    PROVE  Max(s) = n + 1
<1>1. \A y \in s : n + 1 >= y
    OBVIOUS
<1>2. ASSUME NEW x \in s, \A y \in s : x >= y PROVE x = n + 1
    <2>1. x >= n + 1 /\ x \in 1..(n + 1)
        BY <1>2
    <2> QED
        BY <2>1
<1> QED
    BY <1>1, <1>2 DEF Max

LEMMA FoldExists ==
    ASSUME NEW how, NEW base, NEW text, NEW n \in Nat
    PROVE  \E g : IsFold(g, n, base, text, how)
<1> DEFINE S == {k \in Nat : \E g : IsFold(g, k, base, text, how)}
<1>1. 0 \in S
    <2> DEFINE g == [s \in SUBSET (1..0) |-> base]
    <2>1. \A s \in SUBSET (1..0) : s = {}
        OBVIOUS
    <2>2. IsFold(g, 0, base, text, how)
        BY <2>1 DEF IsFold
    <2> QED
        BY <2>2
<1>2. ASSUME NEW k \in Nat, k \in S PROVE k + 1 \in S
    <2>1. PICK g : IsFold(g, k, base, text, how)
        BY <1>2
    <2> DEFINE h == [s \in SUBSET (1..(k + 1)) |->
                        IF s \in SUBSET (1..k) THEN g[s] ELSE Folded(how, g[s \ {k + 1}], text[k + 1])]
    <2>2. ASSUME NEW s \in SUBSET (1..(k + 1))
          PROVE  h[s] = IF s = {} THEN base ELSE Folded(how, h[s \ {Max(s)}], text[Max(s)])
        <3>1. CASE s \in SUBSET (1..k)
            <4>1. h[s] = g[s]
                BY <3>1
            <4>2. g[s] = IF s = {} THEN base ELSE Folded(how, g[s \ {Max(s)}], text[Max(s)])
                BY <2>1, <3>1 DEF IsFold
            <4>3. s \ {Max(s)} \in SUBSET (1..k) /\ s \ {Max(s)} \in SUBSET (1..(k + 1))
                BY <3>1
            <4>4. h[s \ {Max(s)}] = g[s \ {Max(s)}]
                BY <4>3
            <4> HIDE DEF h
            <4> QED
                BY <4>1, <4>2, <4>4
        <3>2. CASE s \notin SUBSET (1..k)
            <4>1. k + 1 \in s
                BY <3>2
            <4>2. Max(s) = k + 1 /\ s # {}
                BY <4>1, MaxWith
            <4>3. s \ {k + 1} \in SUBSET (1..k) /\ s \ {k + 1} \in SUBSET (1..(k + 1))
                OBVIOUS
            <4>4. h[s \ {k + 1}] = g[s \ {k + 1}]
                BY <4>3
            <4>5. h[s] = Folded(how, g[s \ {k + 1}], text[k + 1])
                BY <3>2
            <4> HIDE DEF h
            <4> QED
                BY <4>2, <4>4, <4>5
        <3> QED
            BY <3>1, <3>2
    <2>3. h = [s \in SUBSET (1..(k + 1)) |-> h[s]]
        OBVIOUS
    <2> HIDE DEF h
    <2>4. IsFold(h, k + 1, base, text, how)
        BY <2>2, <2>3 DEF IsFold
    <2> QED
        BY <2>4
<1> HIDE DEF S
<1>3. n \in S
    BY <1>1, <1>2, Induction
<1> QED
    BY <1>3 DEF S

\* One more element of a fold.
LEMMA FoldStep ==
    ASSUME NEW how, NEW base, NEW text, NEW n \in Nat, NEW g, IsFold(g, n, base, text, how),
           NEW k \in Nat, k + 1 <= n
    PROVE  g[1..(k + 1)] = Folded(how, g[1..k], text[k + 1])
<1>1. 1..(k + 1) \in SUBSET (1..n)
    OBVIOUS
<1>2. g[1..(k + 1)] = Folded(how, g[(1..(k + 1)) \ {Max(1..(k + 1))}], text[Max(1..(k + 1))])
    BY <1>1, MaxOfInterval DEF IsFold
<1> QED
    BY <1>2, MaxOfInterval

\* Folds from one base over texts that begin alike agree there.
LEMMA FoldsAgree ==
    ASSUME NEW how, NEW base, NEW s, NEW t, NEW n \in Nat, NEW m \in Nat,
           NEW g, IsFold(g, n, base, s, how), NEW h, IsFold(h, m, base, t, how),
           NEW k \in Nat, k <= n, k <= m, \A i \in 1..k : s[i] = t[i]
    PROVE  g[1..k] = h[1..k]
<1> DEFINE S == {i \in Nat : i <= k => g[1..i] = h[1..i]}
<1>1. 0 \in S
    <2>1. 1..0 = {} /\ 1..0 \in SUBSET (1..n) /\ 1..0 \in SUBSET (1..m)
        OBVIOUS
    <2> QED
        BY <2>1 DEF IsFold
<1>2. ASSUME NEW i \in Nat, i \in S PROVE i + 1 \in S
    <2> SUFFICES ASSUME i + 1 <= k PROVE g[1..(i + 1)] = h[1..(i + 1)]
        OBVIOUS
    <2>1. g[1..i] = h[1..i] /\ s[i + 1] = t[i + 1]
        BY <1>2
    <2>2. i + 1 <= n /\ i + 1 <= m
        OBVIOUS
    <2>3. g[1..(i + 1)] = Folded(how, g[1..i], s[i + 1])
        BY <2>2, FoldStep
    <2>4. h[1..(i + 1)] = Folded(how, h[1..i], t[i + 1])
        BY <2>2, FoldStep
    <2> QED
        BY <2>1, <2>3, <2>4, Zenon
<1> HIDE DEF S
<1>3. k \in S
    BY <1>1, <1>2, Induction
<1> QED
    BY <1>3 DEF S

-----------------------------------------------------------------------------
(* The event parser: folds of Byte over a text. *)

LEMMA FoldIs ==
    ASSUME NEW base, NEW text \in Seq(Bytes)
    PROVE  \E g : IsFold(g, Len(text), base, text, [kind |-> "bytes"]) /\ FoldLeft(Byte, base, text) = g[1..Len(text)]
<1> DEFINE how == [kind |-> "bytes"]
<1>1. Len(text) \in Nat /\ DOMAIN text = 1..Len(text)
    OBVIOUS
<1>2. \E g : IsFold(g, Len(text), base, text, how)
    <2> HIDE DEF how
    <2> QED
        BY <1>1, FoldExists
<1>3. \A x, c : Folded(how, x, c) = Byte(x, c)
    BY DEF Folded
<1>4. ASSUME NEW f
      PROVE  IsFold(f, Len(text), base, text, how) <=>
                 f = [s \in SUBSET (1..Len(text)) |-> IF s = {} THEN base ELSE Byte(f[s \ {Max(s)}], text[Max(s)])]
    <2> HIDE DEF how
    <2> QED
        BY <1>3 DEF IsFold
<1> DEFINE g == CHOOSE f : f = [s \in SUBSET (1..Len(text)) |-> IF s = {} THEN base ELSE Byte(f[s \ {Max(s)}], text[Max(s)])]
<1>5. g = [s \in SUBSET (1..Len(text)) |-> IF s = {} THEN base ELSE Byte(g[s \ {Max(s)}], text[Max(s)])]
    <2> HIDE DEF how
    <2> QED
        BY <1>2, <1>4
<1>6. FoldLeft(Byte, base, text) = g[1..Len(text)]
    BY <1>1 DEF FoldLeft, MapThenFoldSet
<1> HIDE DEF g
<1>7. IsFold(g, Len(text), base, text, how)
    BY <1>4, <1>5
<1> QED
    BY <1>6, <1>7

LEMMA FoldEmpty ==
    ASSUME NEW base
    PROVE  FoldLeft(Byte, base, <<>>) = base
<1> DEFINE none == SubSeq(<<"lf">>, 1, 0)
           how == [kind |-> "bytes"]
<1>1. none \in Seq(Bytes) /\ Len(none) = 0 /\ none = <<>>
    BY DEF Bytes
<1> HIDE DEF none
<1>2. PICK g : IsFold(g, Len(none), base, none, how) /\ FoldLeft(Byte, base, none) = g[1..Len(none)]
    BY <1>1, FoldIs
<1> HIDE DEF how
<1> QED
    BY <1>1, <1>2 DEF IsFold

LEMMA FoldAppend ==
    ASSUME NEW base, NEW text \in Seq(Bytes), NEW b \in Bytes
    PROVE  FoldLeft(Byte, base, Append(text, b)) = Byte(FoldLeft(Byte, base, text), b)
<1> DEFINE longer == Append(text, b)
           n == Len(text)
           how == [kind |-> "bytes"]
<1>1. /\ n \in Nat /\ longer \in Seq(Bytes) /\ Len(longer) = n + 1 /\ longer[n + 1] = b
      /\ \A i \in 1..n : longer[i] = text[i]
    OBVIOUS
<1>2. \A x : Folded(how, x, b) = Byte(x, b)
    BY DEF Folded
<1> HIDE DEF longer
<1>3. PICK g : IsFold(g, n, base, text, how) /\ FoldLeft(Byte, base, text) = g[1..n]
    BY FoldIs
<1>4. PICK h : IsFold(h, n + 1, base, longer, how) /\ FoldLeft(Byte, base, longer) = h[1..(n + 1)]
    BY <1>1, FoldIs
<1> HIDE DEF n, how
<1>5. h[1..(n + 1)] = Folded(how, h[1..n], b)
    BY <1>1, <1>4, FoldStep
<1>6. g[1..n] = h[1..n]
    BY <1>1, <1>3, <1>4, FoldsAgree
<1>7. FoldLeft(Byte, base, longer) = Byte(FoldLeft(Byte, base, text), b)
    BY <1>2, <1>3, <1>4, <1>5, <1>6, Zenon
<1> QED
    BY <1>7 DEF longer

LEMMA FoldConcat ==
    ASSUME NEW base, NEW s \in Seq(Bytes), NEW t \in Seq(Bytes)
    PROVE  FoldLeft(Byte, base, s \o t) = FoldLeft(Byte, FoldLeft(Byte, base, s), t)
<1> DEFINE Joins(u) == FoldLeft(Byte, base, s \o u) = FoldLeft(Byte, FoldLeft(Byte, base, s), u)
           S == {k \in Nat : \A u \in Seq(Bytes) : Len(u) = k => Joins(u)}
<1>1. 0 \in S
    <2> SUFFICES ASSUME NEW u \in Seq(Bytes), Len(u) = 0 PROVE Joins(u)
        OBVIOUS
    <2>1. u = <<>> /\ s \o u = s
        OBVIOUS
    <2> QED
        BY <2>1, FoldEmpty, Zenon
<1>2. ASSUME NEW k \in Nat, k \in S PROVE k + 1 \in S
    <2> SUFFICES ASSUME NEW u \in Seq(Bytes), Len(u) = k + 1 PROVE Joins(u)
        OBVIOUS
    <2> DEFINE v == SubSeq(u, 1, k)
               b == u[k + 1]
    <2>1. v \in Seq(Bytes) /\ Len(v) = k /\ b \in Bytes
        OBVIOUS
    <2>2. u = Append(v, b)
        OBVIOUS
    <2>3. s \o u = Append(s \o v, b) /\ s \o v \in Seq(Bytes)
        BY <2>1, <2>2
    <2>4. Joins(v)
        BY <1>2, <2>1
    <2> DEFINE w == s \o v
    <2>5. FoldLeft(Byte, base, s \o u) = Byte(FoldLeft(Byte, base, s \o v), b)
        <3>1. w \in Seq(Bytes) /\ b \in Bytes /\ s \o u = Append(w, b)
            BY <2>1, <2>3
        <3> HIDE DEF w, b
        <3>2. FoldLeft(Byte, base, Append(w, b)) = Byte(FoldLeft(Byte, base, w), b)
            BY <3>1, FoldAppend, Zenon
        <3>3. FoldLeft(Byte, base, s \o u) = Byte(FoldLeft(Byte, base, w), b)
            BY <3>1, <3>2, Zenon
        <3> QED
            BY <3>3 DEF w
    <2> HIDE DEF v, b
    <2>6. FoldLeft(Byte, FoldLeft(Byte, base, s), u) = Byte(FoldLeft(Byte, FoldLeft(Byte, base, s), v), b)
        BY <2>1, <2>2, FoldAppend, Zenon
    <2> QED
        BY <2>4, <2>5, <2>6, Zenon
<1> HIDE DEF S
<1>3. Len(t) \in S
    BY <1>1, <1>2, Induction
<1> QED
    BY <1>3 DEF S


-----------------------------------------------------------------------------
(* The elements of a set of places in ascending order. *)

\* Places of a sequence are finite in number.
LEMMA PlacesFinite ==
    ASSUME NEW n \in Nat, NEW S \in SUBSET (0..n)
    PROVE  IsFiniteSet(S) /\ Cardinality(S) \in Nat
<1>1. IsFiniteSet(0..n)
    BY FS_Interval
<1> QED
    BY <1>1, FS_Subset, FS_CardinalityType

\* A place after the others adds one to their number and changes the rank of none.
LEMMA OneMorePlace ==
    ASSUME NEW n \in Nat, NEW S \in SUBSET (0..n), NEW m \in Nat, n < m
    PROVE  /\ Cardinality(S \cup {m}) = Cardinality(S) + 1
           /\ \A e \in S : {x \in S \cup {m} : x <= e} = {x \in S : x <= e}
           /\ {x \in S \cup {m} : x <= m} = S \cup {m}
           /\ m \notin S
<1>1. m \notin S
    OBVIOUS
<1>2. Cardinality(S \cup {m}) = Cardinality(S) + 1
    BY <1>1, PlacesFinite, FS_AddElement
<1>3. \A e \in S : {x \in S \cup {m} : x <= e} = {x \in S : x <= e}
    OBVIOUS
<1>4. {x \in S \cup {m} : x <= m} = S \cup {m}
    <2>1. ASSUME NEW x \in S \cup {m} PROVE x <= m
        <3>1. CASE x = m
            BY <3>1
        <3>2. CASE x \in S
            BY <3>2
        <3> QED
            BY <3>1, <3>2
    <2> QED
        BY <2>1, Zenon
<1> QED
    BY <1>1, <1>2, <1>3, <1>4

\* Every rank has a place.
LEMMA RankedPlace ==
    ASSUME NEW n \in Nat, NEW S \in SUBSET (0..n), NEW k \in 1..Cardinality(S)
    PROVE  \E e \in S : Cardinality({x \in S : x <= e}) = k
<1> DEFINE Ranked(T) == \A r \in 1..Cardinality(T) : \E e \in T : Cardinality({x \in T : x <= e}) = r
           N == {i \in Nat : \A T \in SUBSET (0..i) : Ranked(T)}
<1>1. Ranked({})
    BY FS_EmptySet
<1>2. 0 \in N
    <2> SUFFICES ASSUME NEW T \in SUBSET (0..0), T # {} PROVE Ranked(T)
        BY <1>1
    <2>1. \A x \in T : x = 0
        OBVIOUS
    <2>2. T = {0}
        BY <2>1
    <2>3. {x \in T : x <= 0} = {0}
        BY <2>2
    <2>4. Cardinality(T) = 1
        BY <2>2, FS_Singleton
    <2> QED
        BY <2>2, <2>3, <2>4
<1>3. ASSUME NEW i \in Nat, i \in N PROVE i + 1 \in N
    <2> SUFFICES ASSUME NEW T \in SUBSET (0..(i + 1)), NEW r \in 1..Cardinality(T)
                 PROVE  \E e \in T : Cardinality({x \in T : x <= e}) = r
        OBVIOUS
    <2>1. CASE i + 1 \notin T
        <3>1. T \in SUBSET (0..i)
            BY <2>1
        <3> QED
            BY <1>3, <3>1
    <2>2. CASE i + 1 \in T
        <3> DEFINE U == T \ {i + 1}
        <3>1. U \in SUBSET (0..i) /\ T = U \cup {i + 1} /\ i + 1 \in Nat /\ i < i + 1
            BY <2>2
        <3> HIDE DEF U
        <3>2. /\ Cardinality(T) = Cardinality(U) + 1
              /\ \A e \in U : {x \in T : x <= e} = {x \in U : x <= e}
              /\ {x \in T : x <= i + 1} = T
            <4> DEFINE m == i + 1
            <4>1. m \in Nat /\ i < m /\ U \in SUBSET (0..i)
                BY <3>1
            <4>2. T = U \cup {m}
                BY <3>1
            <4> HIDE DEF m
            <4>3. /\ Cardinality(U \cup {m}) = Cardinality(U) + 1
                  /\ \A e \in U : {x \in U \cup {m} : x <= e} = {x \in U : x <= e}
                  /\ {x \in U \cup {m} : x <= m} = U \cup {m}
                BY <4>1, OneMorePlace
            <4> QED
                BY <4>2, <4>3, Zenon DEF m
        <3>3. Cardinality(U) \in Nat
            BY <3>1, PlacesFinite
        <3>4. CASE r = Cardinality(T)
            BY <2>2, <3>2, <3>4
        <3>5. CASE r \in 1..Cardinality(U)
            <4>1. Ranked(U)
                BY <1>3, <3>1
            <4>2. PICK e \in U : Cardinality({x \in U : x <= e}) = r
                BY <3>5, <4>1
            <4> QED
                BY <3>1, <3>2, <4>2
        <3> QED
            BY <3>2, <3>3, <3>4, <3>5
    <2> QED
        BY <2>1, <2>2
<1> HIDE DEF N
<1>4. n \in N
    BY <1>2, <1>3, Induction
<1> QED
    BY <1>4 DEF N

\* The ascending places are those places, one for each.
LEMMA AscendingIn ==
    ASSUME NEW n \in Nat, NEW S \in SUBSET (0..n)
    PROVE  /\ Ascending(S) \in Seq(S)
           /\ Len(Ascending(S)) = Cardinality(S)
           /\ \A k \in 1..Cardinality(S) : Ascending(S)[k] \in S
<1>1. Cardinality(S) \in Nat
    BY PlacesFinite
<1>2. ASSUME NEW k \in 1..Cardinality(S) PROVE Ascending(S)[k] \in S
    <2>1. \E e \in S : Cardinality({x \in S : x <= e}) = k
        BY RankedPlace
    <2>2. Ascending(S)[k] = CHOOSE e \in S : Cardinality({x \in S : x <= e}) = k
        BY DEF Ascending
    <2> QED
        BY <2>1, <2>2
<1>3. Ascending(S) \in [1..Cardinality(S) -> S]
    BY <1>2 DEF Ascending
<1> QED
    BY <1>1, <1>2, <1>3

\* A place after the others comes last.
LEMMA AscendingAppend ==
    ASSUME NEW n \in Nat, NEW S \in SUBSET (0..n), NEW m \in Nat, n < m
    PROVE  /\ Ascending(S \cup {m})[Cardinality(S) + 1] = m
           /\ \A k \in 1..Cardinality(S) : Ascending(S \cup {m})[k] = Ascending(S)[k]
           /\ Cardinality(S \cup {m}) = Cardinality(S) + 1
<1> DEFINE T == S \cup {m}
           c == Cardinality(S)
<1>1. /\ Cardinality(T) = c + 1 /\ c \in Nat
      /\ \A e \in S : {x \in T : x <= e} = {x \in S : x <= e}
      /\ {x \in T : x <= m} = T
    BY OneMorePlace, PlacesFinite
<1>2. ASSUME NEW k \in 1..c PROVE Ascending(T)[k] = Ascending(S)[k]
    <2>1. Ascending(T)[k] = CHOOSE e \in T : Cardinality({x \in T : x <= e}) = k
        <3>1. k \in 1..Cardinality(T)
            BY <1>1
        <3> HIDE DEF T
        <3> QED
            BY <3>1 DEF Ascending
    <2>2. Ascending(S)[k] = CHOOSE e \in S : Cardinality({x \in S : x <= e}) = k
        BY <1>1 DEF Ascending
    <2>3. \A e : e \in T /\ Cardinality({x \in T : x <= e}) = k
             <=> e \in S /\ Cardinality({x \in S : x <= e}) = k
        <3>1. Cardinality({x \in T : x <= m}) # k
            BY <1>1
        <3>2. \A e \in S : {x \in T : x <= e} = {x \in S : x <= e}
            BY <1>1
        <3>3. \A e : e \in T <=> e \in S \/ e = m
            OBVIOUS
        <3> HIDE DEF T
        <3> QED
            BY <3>1, <3>2, <3>3, Zenon
    <2> HIDE DEF T
    <2>4. (CHOOSE e \in T : Cardinality({x \in T : x <= e}) = k)
              = CHOOSE e \in S : Cardinality({x \in S : x <= e}) = k
        BY <2>3, Zenon
    <2> QED
        BY <2>1, <2>2, <2>4
<1>3. Ascending(T)[c + 1] = m
    <2>1. Ascending(T)[c + 1] = CHOOSE e \in T : Cardinality({x \in T : x <= e}) = c + 1
        <3>1. c + 1 \in 1..Cardinality(T)
            BY <1>1
        <3> HIDE DEF T, c
        <3> QED
            BY <3>1 DEF Ascending
    <2>2. ASSUME NEW e \in T, Cardinality({x \in T : x <= e}) = c + 1 PROVE e = m
        <3> SUFFICES ASSUME e \in S PROVE FALSE
            OBVIOUS
        <3>1. {x \in S : x <= e} \subseteq S
            OBVIOUS
        <3>2. Cardinality({x \in S : x <= e}) <= c
            BY <3>1, PlacesFinite, FS_Subset
        <3> QED
            BY <1>1, <2>2, <3>2
    <2>3. m \in T /\ Cardinality({x \in T : x <= m}) = c + 1
        BY <1>1
    <2> QED
        BY <2>1, <2>2, <2>3
<1> QED
    BY <1>1, <1>2, <1>3

LEMMA AppendIs ==
    ASSUME NEW R, NEW q \in Seq(R), NEW x, NEW m \in Nat, m = Len(q) + 1
    PROVE  Append(q, x) = [k \in 1..m |-> IF k = m THEN x ELSE q[k]]
<1> DEFINE p == Append(q, x)
<1>1. /\ p \in Seq(R \cup {x}) /\ Len(p) = m /\ p[m] = x
      /\ \A k \in 1..Len(q) : p[k] = q[k]
    OBVIOUS
<1> HIDE DEF p
<1>2. p = [k \in 1..m |-> p[k]]
    BY <1>1
<1>3. ASSUME NEW k \in 1..m PROVE p[k] = IF k = m THEN x ELSE q[k]
    <2>1. k = m \/ (k # m /\ k \in 1..Len(q))
        OBVIOUS
    <2> QED
        BY <1>1, <2>1
<1>4. p = [k \in 1..m |-> IF k = m THEN x ELSE q[k]]
    BY <1>2, <1>3
<1> QED
    BY <1>4 DEF p

\* No place, no element.
LEMMA PickedNone == \A s : Picked(s, {}) = <<>>
<1>1. 1..Cardinality({}) = {}
    BY FS_EmptySet
<1> QED
    BY <1>1 DEF Picked

LEMMA PickedSame ==
    ASSUME NEW n \in Nat, NEW S \in SUBSET (0..n), NEW s, NEW t, \A i \in S : s[i] = t[i]
    PROVE  Picked(s, S) = Picked(t, S)
BY AscendingIn DEF Picked

LEMMA PickedIn ==
    ASSUME NEW n \in Nat, NEW S \in SUBSET (0..n), NEW s, NEW T, \A i \in S : s[i] \in T
    PROVE  Picked(s, S) \in Seq(T) /\ Len(Picked(s, S)) = Cardinality(S)
<1>1. Cardinality(S) \in Nat
    BY PlacesFinite
<1>2. Picked(s, S) \in [1..Cardinality(S) -> T]
    BY AscendingIn DEF Picked
<1> QED
    BY <1>1, <1>2

\* One more place, after the others, appends its element.
LEMMA PickedAppend ==
    ASSUME NEW n \in Nat, NEW S \in SUBSET (0..n), NEW m \in Nat, n < m,
           NEW s, NEW t, \A i \in S : s[i] = t[i]
    PROVE  Picked(t, S \cup {m}) = Append(Picked(s, S), t[m])
<1> DEFINE c == Cardinality(S)
           R == {s[i] : i \in S}
<1>1. c \in Nat
    BY PlacesFinite
<1>2. Picked(s, S) \in Seq(R) /\ Len(Picked(s, S)) = c
    <2>1. \A i \in S : s[i] \in R
        OBVIOUS
    <2> HIDE DEF R
    <2> QED
        BY <2>1, PickedIn
<1>3. \A k \in 1..c : Picked(s, S)[k] = t[Ascending(S)[k]]
    BY AscendingIn DEF Picked
<1>4. Picked(t, S \cup {m}) = [k \in 1..(c + 1) |-> IF k = c + 1 THEN t[m] ELSE t[Ascending(S)[k]]]
    <2>1. Picked(t, S \cup {m}) = [k \in 1..(c + 1) |-> t[Ascending(S \cup {m})[k]]]
        BY AscendingAppend DEF Picked
    <2>2. \A k \in 1..(c + 1) : Ascending(S \cup {m})[k] = IF k = c + 1 THEN m ELSE Ascending(S)[k]
        BY <1>1, AscendingAppend
    <2> QED
        BY <2>1, <2>2
<1> HIDE DEF c, R
<1>5. Append(Picked(s, S), t[m]) = [k \in 1..(c + 1) |-> IF k = c + 1 THEN t[m] ELSE Picked(s, S)[k]]
    BY <1>1, <1>2, AppendIs
<1> QED
    BY <1>1, <1>3, <1>4, <1>5
-----------------------------------------------------------------------------
(* Characters: what the decoder has handed on after a text. *)

Chars == {"cr", "lf", "bom", "bad", "data", "id", "retry", "7"}

\* The text ends in the middle of a character.
Pending(text) == text # <<>> /\ text[Len(text)] = "lead"

\* The characters before a pending one.
Handed(text) ==
    Picked([i \in DOMAIN text |-> CharacterAt(text, i)],
           CharacterEnds(text) \ {i \in {Len(text)} : Pending(text)})

\* The characters one more byte adds.
Orphaned(text, b) == IF Pending(text) /\ b # "trail" THEN Append(Handed(text), "bad") ELSE Handed(text)

CharacterOf(text, b) ==
    IF b = "trail" THEN IF Pending(text) THEN "bom" ELSE "bad" ELSE b

LEMMA TextPlaces ==
    ASSUME NEW text \in Seq(Bytes)
    PROVE  /\ Len(text) \in Nat
           /\ DOMAIN text = 1..Len(text)
           /\ CharacterEnds(text) \in SUBSET (0..Len(text))
           /\ CharacterEnds(text) \in SUBSET (1..Len(text))
           /\ \A i \in 1..Len(text) : CharacterAt(text, i) \in Chars
<1>1. Len(text) \in Nat /\ DOMAIN text = 1..Len(text) /\ \A i \in 1..Len(text) : text[i] \in Bytes
    OBVIOUS
<1>2. CharacterEnds(text) \in SUBSET (1..Len(text))
    BY <1>1 DEF CharacterEnds
<1>3. 1..Len(text) \subseteq 0..Len(text)
    BY <1>1
<1>4. \A i \in 1..Len(text) : CharacterAt(text, i) \in Chars
    BY <1>1 DEF CharacterAt, Chars, Bytes
<1> QED
    BY <1>1, <1>2, <1>3, <1>4

LEMMA HandedIn ==
    ASSUME NEW text \in Seq(Bytes)
    PROVE  Handed(text) \in Seq(Chars)
<1> DEFINE S == CharacterEnds(text) \ {i \in {Len(text)} : Pending(text)}
           s == [i \in DOMAIN text |-> CharacterAt(text, i)]
<1>1. S \in SUBSET (0..Len(text)) /\ \A i \in S : s[i] \in Chars
    BY TextPlaces
<1> HIDE DEF S, s
<1>2. Picked(s, S) \in Seq(Chars)
    BY <1>1, TextPlaces, PickedIn
<1> QED
    BY <1>2 DEF Handed, S, s

LEMMA HandedEmpty == Handed(<<>>) = <<>> /\ ~Pending(<<>>)
<1>1. CharacterEnds(<<>>) \ {i \in {Len(<<>>)} : Pending(<<>>)} = {}
    BY DEF CharacterEnds
<1>2. Handed(<<>>) = <<>>
    BY <1>1, PickedNone, Zenon DEF Handed
<1> QED
    BY <1>2 DEF Pending

\* A pending character is one of the text, and replaced.
LEMMA CharactersHanded ==
    ASSUME NEW text \in Seq(Bytes)
    PROVE  Characters(text) = IF Pending(text) THEN Append(Handed(text), "bad") ELSE Handed(text)
<1> DEFINE n == Len(text)
           S == CharacterEnds(text) \ {i \in {Len(text)} : Pending(text)}
           s == [i \in DOMAIN text |-> CharacterAt(text, i)]
<1>1. CASE ~Pending(text)
    <2>1. S = CharacterEnds(text)
        BY <1>1
    <2> QED
        BY <1>1, <2>1, Zenon DEF Characters, Handed
<1>2. CASE Pending(text)
    <2>1. n \in Nat \ {0} /\ text[n] = "lead" /\ n \in DOMAIN text
        BY <1>2, TextPlaces DEF Pending
    <2>2. n \in CharacterEnds(text)
        BY <2>1 DEF CharacterEnds
    <2>3. CharacterEnds(text) = S \cup {n}
        BY <1>2, <2>2
    <2>4. S \in SUBSET (0..(n - 1)) /\ n - 1 \in Nat /\ n - 1 < n
        BY <1>2, <2>1, TextPlaces
    <2>5. s[n] = "bad"
        BY <2>1 DEF CharacterAt
    <2> HIDE DEF S, s, n
    <2>6. Picked(s, S \cup {n}) = Append(Picked(s, S), s[n])
        <3> DEFINE k == n - 1
        <3>1. k \in Nat /\ k < n /\ S \in SUBSET (0..k) /\ n \in Nat
            BY <2>1, <2>4
        <3> HIDE DEF k
        <3>2. \A x, y : (\A i \in S : x[i] = y[i]) => Picked(y, S \cup {n}) = Append(Picked(x, S), y[n])
            BY <3>1, PickedAppend
        <3> QED
            BY <3>2, Zenon
    <2>7. Characters(text) = Append(Picked(s, S), "bad")
        BY <2>3, <2>5, <2>6, Zenon DEF Characters, s
    <2>8. Handed(text) = Picked(s, S)
        BY DEF Handed, S, s
    <2> QED
        BY <1>2, <2>7, <2>8, Zenon
<1> QED
    BY <1>1, <1>2

\* What one more byte hands on.
LEMMA OneMoreByte ==
    ASSUME NEW text \in Seq(Bytes), NEW b \in Bytes
    PROVE  /\ Pending(Append(text, b)) <=> b = "lead"
           /\ Handed(Append(text, b)) =
                 IF b = "lead" THEN Orphaned(text, b)
                 ELSE Append(Orphaned(text, b), CharacterOf(text, b))
<1> DEFINE n == Len(text)
           t == Append(text, b)
           s == [i \in DOMAIN t |-> CharacterAt(t, i)]
           E == CharacterEnds(text)
           O == IF Pending(text) /\ b = "trail" THEN E \ {n} ELSE E
<1>1. /\ n \in Nat /\ t \in Seq(Bytes) /\ Len(t) = n + 1 /\ t[n + 1] = b
      /\ \A i \in 1..n : t[i] = text[i] /\ text[i] \in Bytes
      /\ DOMAIN t = 1..(n + 1) /\ DOMAIN text = 1..n
    OBVIOUS
<1>2. Pending(t) <=> b = "lead"
    <2>1. t # <<>>
        BY <1>1
    <2> QED
        BY <1>1, <2>1 DEF Pending
<1>3. \A i \in 1..n : s[i] = CharacterAt(text, i)
    BY <1>1 DEF CharacterAt
<1>4. s[n + 1] = IF b = "lead" THEN "bad" ELSE CharacterOf(text, b)
    <2>1. s[n + 1] = CharacterAt(t, n + 1)
        BY <1>1
    <2>2. n + 1 > 1 /\ t[n] = "lead" <=> Pending(text)
        <3>1. CASE n = 0
            <4>1. text = <<>>
                BY <3>1
            <4> QED
                BY <3>1, <4>1 DEF Pending
        <3>2. CASE n # 0
            <4>1. n \in 1..n /\ text # <<>>
                BY <1>1, <3>2
            <4> QED
                BY <1>1, <4>1 DEF Pending
        <3> QED
            BY <3>1, <3>2
    <2> HIDE DEF t, s
    <2>3. (n + 1) - 1 = n
        BY <1>1
    <2> QED
        BY <1>1, <2>1, <2>2, <2>3 DEF CharacterAt, CharacterOf
<1>5. CharacterEnds(t) = O \cup {n + 1}
    BY <1>1 DEF CharacterEnds, Pending
<1>6. O \in SUBSET (0..n)
    BY TextPlaces
<1> DEFINE r == [i \in DOMAIN text |-> CharacterAt(text, i)]
<1>7. Picked(r, O) = Orphaned(text, b)
    <2>1. CASE Pending(text) /\ b # "trail"
        BY <2>1, CharactersHanded DEF Characters, Orphaned
    <2>2. CASE ~(Pending(text) /\ b # "trail")
        <3>1. O = E \ {i \in {n} : Pending(text)}
            BY <2>2
        <3> HIDE DEF O, r, E
        <3>2. Orphaned(text, b) = Handed(text)
            BY <2>2 DEF Orphaned
        <3> QED
            BY <3>1, <3>2, Zenon DEF Handed, E, r
    <2> QED
        BY <2>1, <2>2
<1>8. Picked(s, O) = Picked(r, O)
    <2>1. \A i \in O : s[i] = r[i]
        BY <1>1, <1>3, TextPlaces
    <2> HIDE DEF O, r, s
    <2> QED
        BY <1>1, <1>6, <2>1, PickedSame
<1>9. CASE b = "lead"
    <2>1. CharacterEnds(t) \ {i \in {Len(t)} : Pending(t)} = O
        BY <1>1, <1>2, <1>5, <1>6, <1>9
    <2> HIDE DEF O, r, s, t
    <2>2. Handed(t) = Picked(s, O)
        BY <2>1, Zenon DEF Handed, s
    <2>3. Handed(t) = Orphaned(text, b)
        BY <1>7, <1>8, <2>2, Zenon
    <2> QED
        BY <1>2, <1>9, <2>3 DEF t
<1>10. CASE b # "lead"
    <2>1. CharacterEnds(t) \ {i \in {Len(t)} : Pending(t)} = O \cup {n + 1}
        BY <1>2, <1>5, <1>10
    <2>2. \A i \in O : r[i] = s[i]
        BY <1>1, <1>3, TextPlaces
    <2> HIDE DEF O, r, s, t
    <2>3. Handed(t) = Picked(s, O \cup {n + 1})
        BY <2>1, Zenon DEF Handed, s
    <2>4. n + 1 \in Nat /\ n < n + 1 /\ n \in Nat
        BY <1>1
    <2>5. Picked(s, O \cup {n + 1}) = Append(Picked(r, O), s[n + 1])
        <3> DEFINE m == n + 1
        <3>1. m \in Nat /\ n < m /\ n \in Nat
            BY <2>4
        <3> HIDE DEF m, n
        <3>2. Picked(s, O \cup {m}) = Append(Picked(r, O), s[m])
            <4>1. \A i \in O : r[i] = s[i]
                BY <2>2
            <4>2. O \in SUBSET (0..n)
                BY <1>6
            <4>3. \A x, y : (\A i \in O : x[i] = y[i]) => Picked(y, O \cup {m}) = Append(Picked(x, O), y[m])
                BY <4>2, <3>1, PickedAppend
            <4> QED
                BY <4>1, <4>3, Zenon
        <3> QED
            BY <3>2 DEF m
    <2>6. s[n + 1] = CharacterOf(text, b)
        BY <1>4, <1>10
    <2>7. Handed(t) = Append(Orphaned(text, b), CharacterOf(text, b))
        BY <1>7, <2>3, <2>5, <2>6, Zenon
    <2> QED
        BY <1>2, <1>10, <2>7 DEF t
<1> QED
    BY <1>9, <1>10
-----------------------------------------------------------------------------
(* Lines: what one more character does to them. *)

\* The last character is a carriage return.
EndsCr(chars) == chars # <<>> /\ chars[Len(chars)] = "cr"

\* One more character ends a line: not the second of a CR LF.
EndsLine(chars, c) == c = "cr" \/ (c = "lf" /\ ~EndsCr(chars))

LastOf(places) == Ascending(places)[Cardinality(places)]

\* The line that has no end yet.
OpenLine(chars) == LineFrom(chars, LastOf(LineEnds(chars)) + 1, Len(chars))

\* Zero is a place, so that there is a last one.
LEMMA LastPlace ==
    ASSUME NEW n \in Nat, NEW S \in SUBSET (0..n), 0 \in S
    PROVE  LastOf(S) \in S /\ Cardinality(S) \in Nat \ {0}
<1>1. IsFiniteSet(S) /\ Cardinality(S) \in Nat
    BY PlacesFinite
<1>2. Cardinality(S) # 0
    BY <1>1, FS_EmptySet
<1>3. Cardinality(S) \in 1..Cardinality(S)
    BY <1>1, <1>2
<1> QED
    BY <1>1, <1>2, <1>3, AscendingIn DEF LastOf

LEMMA LineIn ==
    ASSUME NEW T, NEW chars \in Seq(T), NEW i \in Nat, NEW j \in Nat, j <= Len(chars)
    PROVE  LineFrom(chars, i + 1, j) \in Seq(T)
<1> DEFINE S == {k \in (i + 1)..j : chars[k] \notin {"cr", "lf"}}
<1>1. S \in SUBSET (0..j) /\ \A k \in S : chars[k] \in T
    OBVIOUS
<1> HIDE DEF S
<1>2. Picked(chars, S) \in Seq(T)
    BY <1>1, PickedIn
<1> QED
    BY <1>2 DEF LineFrom, S

LEMMA EndsIn ==
    ASSUME NEW chars \in Seq(Chars)
    PROVE  LineEnds(chars) \in SUBSET (0..Len(chars)) /\ 0 \in LineEnds(chars)
BY DEF LineEnds

\* A line within the old characters is the same.
LEMMA LineKept ==
    ASSUME NEW chars \in Seq(Chars), NEW c \in Chars, NEW i \in Nat, NEW j \in Nat, j <= Len(chars)
    PROVE  LineFrom(Append(chars, c), i + 1, j) = LineFrom(chars, i + 1, j)
<1> DEFINE t == Append(chars, c)
           S == {k \in (i + 1)..j : chars[k] \notin {"cr", "lf"}}
<1>1. \A k \in (i + 1)..j : t[k] = chars[k]
    OBVIOUS
<1>2. {k \in (i + 1)..j : t[k] \notin {"cr", "lf"}} = S
    BY <1>1, Zenon
<1>3. S \in SUBSET (0..j) /\ \A k \in S : t[k] = chars[k]
    BY <1>1
<1> HIDE DEF S, t
<1>4. Picked(t, S) = Picked(chars, S)
    BY <1>3, PickedSame
<1> QED
    BY <1>2, <1>4, Zenon DEF LineFrom, S, t

\* A character that ends a line adds its place to the ends.
LEMMA OneMoreEnd ==
    ASSUME NEW chars \in Seq(Chars), NEW c \in Chars
    PROVE  LineEnds(Append(chars, c)) =
               IF EndsLine(chars, c) THEN LineEnds(chars) \cup {Len(chars) + 1} ELSE LineEnds(chars)
<1> DEFINE t == Append(chars, c)
           n == Len(chars)
           Ends(s, i) == s[i] = "cr" \/ (s[i] = "lf" /\ ~(i > 1 /\ s[i - 1] = "cr"))
<1>1. /\ n \in Nat /\ t[n + 1] = c /\ \A i \in 1..n : t[i] = chars[i]
      /\ DOMAIN t = 1..(n + 1) /\ DOMAIN chars = 1..n
    OBVIOUS
<1>2. \A i \in 1..n : Ends(t, i) <=> Ends(chars, i)
    BY <1>1
<1>3. Ends(t, n + 1) <=> EndsLine(chars, c)
    <2>1. CASE n = 0
        <3>1. chars = <<>>
            BY <2>1
        <3> QED
            BY <1>1, <2>1, <3>1 DEF EndsLine, EndsCr
    <2>2. CASE n # 0
        <3>1. n \in 1..n /\ chars # <<>> /\ (n + 1) - 1 = n /\ n + 1 > 1
            BY <1>1, <2>2
        <3>2. t[n] = chars[n]
            BY <1>1, <3>1
        <3> HIDE DEF t
        <3> QED
            BY <1>1, <3>1, <3>2 DEF EndsLine, EndsCr
    <2> QED
        BY <2>1, <2>2
<1>4. \A i : i \in 1..(n + 1) <=> i \in 1..n \/ i = n + 1
    BY <1>1
<1>5. LineEnds(t) = {0} \cup {i \in 1..(n + 1) : Ends(t, i)}
    BY <1>1, Zenon DEF LineEnds
<1>6. LineEnds(chars) = {0} \cup {i \in 1..n : Ends(chars, i)}
    BY <1>1, Zenon DEF LineEnds
<1> HIDE DEF t, Ends, n
<1>7. LineEnds(t) = IF EndsLine(chars, c) THEN LineEnds(chars) \cup {n + 1} ELSE LineEnds(chars)
    BY <1>2, <1>3, <1>4, <1>5, <1>6
<1> QED
    BY <1>7 DEF t, n

LEMMA LinesIn ==
    ASSUME NEW chars \in Seq(Chars)
    PROVE  /\ LinesOf(chars) \in Seq(Seq(Chars))
           /\ Len(LinesOf(chars)) = Cardinality(LineEnds(chars)) - 1
           /\ OpenLine(chars) \in Seq(Chars)
<1> DEFINE n == Len(chars)
           S == LineEnds(chars)
           a == Ascending(S)
           m == Cardinality(S)
<1>1. n \in Nat /\ S \in SUBSET (0..n) /\ 0 \in S
    BY EndsIn
<1>2. m \in Nat \ {0} /\ LastOf(S) \in 0..n
    BY <1>1, LastPlace
<1>3. Len(a) = m /\ \A k \in 1..m : a[k] \in 0..n
    BY <1>1, AscendingIn
<1> HIDE DEF S, a, m
<1>4. ASSUME NEW k \in 1..(m - 1) PROVE LineFrom(chars, a[k] + 1, a[k + 1] - 1) \in Seq(Chars)
    <2>1. a[k] \in Nat /\ a[k + 1] \in 0..n
        BY <1>2, <1>3
    <2>2. CASE a[k + 1] = 0
        <3>1. {i \in (a[k] + 1)..(a[k + 1] - 1) : chars[i] \notin {"cr", "lf"}} = {}
            BY <2>1, <2>2
        <3>2. LineFrom(chars, a[k] + 1, a[k + 1] - 1) = <<>>
            BY <3>1, PickedNone, Zenon DEF LineFrom
        <3>3. <<>> \in Seq(Chars)
            OBVIOUS
        <3> QED
            BY <3>2, <3>3, Zenon
    <2>3. CASE a[k + 1] # 0
        <3>1. a[k + 1] - 1 \in Nat /\ a[k + 1] - 1 <= n
            BY <1>1, <2>1, <2>3
        <3> QED
            BY <2>1, <3>1, LineIn
    <2> QED
        BY <2>2, <2>3
<1>5. LinesOf(chars) = [k \in 1..(m - 1) |-> LineFrom(chars, a[k] + 1, a[k + 1] - 1)]
    BY <1>3 DEF LinesOf, a, S
<1>6. m - 1 \in Nat
    BY <1>2
<1>7. LinesOf(chars) \in Seq(Seq(Chars)) /\ Len(LinesOf(chars)) = m - 1
    BY <1>4, <1>5, <1>6
<1>8. OpenLine(chars) \in Seq(Chars)
    BY <1>1, <1>2, LineIn DEF OpenLine, S
<1> QED
    BY <1>7, <1>8 DEF m, S

\* A character that ends a line adds the open line to the lines; another one adds to it.
LEMMA OneMoreCharacter ==
    ASSUME NEW chars \in Seq(Chars), NEW c \in Chars
    PROVE  IF EndsLine(chars, c)
           THEN /\ LinesOf(Append(chars, c)) = Append(LinesOf(chars), OpenLine(chars))
                /\ OpenLine(Append(chars, c)) = <<>>
           ELSE /\ LinesOf(Append(chars, c)) = LinesOf(chars)
                /\ OpenLine(Append(chars, c)) =
                       IF c \in {"cr", "lf"} THEN OpenLine(chars) ELSE Append(OpenLine(chars), c)
<1> DEFINE n == Len(chars)
           t == Append(chars, c)
           S == LineEnds(chars)
           T == LineEnds(t)
           m == Cardinality(S)
           a == Ascending(S)
           Line(s, b, k) == LineFrom(s, b[k] + 1, b[k + 1] - 1)
<1>1. /\ n \in Nat /\ S \in SUBSET (0..n) /\ 0 \in S
      /\ t \in Seq(Chars) /\ Len(t) = n + 1 /\ t[n + 1] = c
      /\ \A k \in 1..n : t[k] = chars[k]
    BY EndsIn
<1>2. m \in Nat \ {0} /\ LastOf(S) \in 0..n /\ LastOf(S) = a[m]
    BY <1>1, LastPlace DEF LastOf
<1>3. Len(a) = m /\ \A k \in 1..m : a[k] \in 0..n
    BY <1>1, AscendingIn
<1>4. LinesOf(chars) = [k \in 1..(m - 1) |-> Line(chars, a, k)]
    BY <1>3 DEF LinesOf
<1>5. \A k \in 1..(m - 1) : Line(t, a, k) = Line(chars, a, k)
    <2> SUFFICES ASSUME NEW k \in 1..(m - 1) PROVE Line(t, a, k) = Line(chars, a, k)
        OBVIOUS
    <2>1. a[k] \in Nat /\ a[k + 1] \in 0..n
        BY <1>2, <1>3
    <2> HIDE DEF a
    <2>2. CASE a[k + 1] = 0
        <3>1. \A s : {i \in (a[k] + 1)..(a[k + 1] - 1) : s[i] \notin {"cr", "lf"}} = {}
            BY <2>1, <2>2
        <3> HIDE DEF t
        <3> QED
            BY <3>1, PickedNone, Zenon DEF LineFrom
    <2>3. CASE a[k + 1] # 0
        <3>1. a[k + 1] - 1 \in Nat /\ a[k + 1] - 1 <= n
            BY <1>1, <2>1, <2>3
        <3> QED
            BY <2>1, <3>1, LineKept
    <2> QED
        BY <2>2, <2>3
<1>6. LinesOf(chars) \in Seq(Seq(Chars)) /\ Len(LinesOf(chars)) = m - 1
    BY LinesIn
<1>7. OpenLine(chars) = LineFrom(t, a[m] + 1, n)
    BY <1>1, <1>2, LineKept DEF OpenLine
<1>8. T = IF EndsLine(chars, c) THEN S \cup {n + 1} ELSE S
    BY OneMoreEnd
<1> HIDE DEF n, t, S, T, m, a
<1>9. CASE EndsLine(chars, c)
    <2> DEFINE z == Ascending(T)
    <2>1. T = S \cup {n + 1} /\ n + 1 \in Nat /\ n < n + 1
        BY <1>1, <1>8, <1>9
    <2>2. z[m + 1] = n + 1 /\ (\A k \in 1..m : z[k] = a[k]) /\ Cardinality(T) = m + 1
        BY <1>1, <2>1, AscendingAppend DEF m, a
    <2>3. Len(z) = m + 1
        <3>1. T \in SUBSET (0..(n + 1))
            BY <1>1, <2>1
        <3> QED
            BY <2>1, <2>2, <3>1, AscendingIn
    <2>4. LinesOf(t) = [k \in 1..m |-> Line(t, z, k)]
        BY <1>2, <2>3 DEF LinesOf, T
    <2> HIDE DEF z
    <2>5. LinesOf(t) = [k \in 1..m |-> IF k = m THEN OpenLine(chars) ELSE LinesOf(chars)[k]]
        <3>1. ASSUME NEW k \in 1..(m - 1) PROVE Line(t, z, k) = LinesOf(chars)[k]
            <4>1. z[k] = a[k] /\ z[k + 1] = a[k + 1]
                BY <1>2, <2>2
            <4> QED
                BY <1>4, <1>5, <4>1, Zenon
        <3>2. Line(t, z, m) = OpenLine(chars)
            <4>1. z[m] = a[m] /\ z[m + 1] - 1 = n
                BY <1>1, <1>2, <2>2
            <4> QED
                BY <1>7, <4>1, Zenon
        <3>3. ASSUME NEW k \in 1..m
              PROVE  Line(t, z, k) = IF k = m THEN OpenLine(chars) ELSE LinesOf(chars)[k]
            <4>1. k = m \/ (k # m /\ k \in 1..(m - 1))
                BY <1>2
            <4> QED
                BY <3>1, <3>2, <4>1, Zenon
        <3> QED
            BY <2>4, <3>3, Zenon
    <2>6. Append(LinesOf(chars), OpenLine(chars))
              = [k \in 1..m |-> IF k = m THEN OpenLine(chars) ELSE LinesOf(chars)[k]]
        <3> DEFINE l == LinesOf(chars)
                   o == OpenLine(chars)
        <3>1. l \in Seq(Seq(Chars)) /\ m \in Nat /\ m = Len(l) + 1
            BY <1>2, <1>6
        <3> HIDE DEF l, o
        <3>2. Append(l, o) = [k \in 1..m |-> IF k = m THEN o ELSE l[k]]
            BY <3>1, AppendIs
        <3> QED
            BY <3>2 DEF l, o
    <2>7. OpenLine(t) = <<>>
        <3>1. LastOf(T) = n + 1
            BY <2>2, Zenon DEF LastOf, z
        <3>2. OpenLine(t) = LineFrom(t, (n + 1) + 1, n + 1)
            BY <1>1, <3>1, Zenon DEF OpenLine, T
        <3>3. ((n + 1) + 1)..(n + 1) = {}
            BY <1>1
        <3>4. {k \in ((n + 1) + 1)..(n + 1) : t[k] \notin {"cr", "lf"}} = {}
            BY <3>3, Zenon
        <3> QED
            BY <3>2, <3>4, PickedNone, Zenon DEF LineFrom
    <2> QED
        BY <1>9, <2>5, <2>6, <2>7 DEF t
<1>10. CASE ~EndsLine(chars, c)
    <2>1. T = S
        BY <1>8, <1>10
    <2>2. LinesOf(t) = LinesOf(chars)
        <3>1. LinesOf(t) = [k \in 1..(m - 1) |-> Line(t, a, k)]
            BY <1>3, <2>1 DEF LinesOf, T, a
        <3> QED
            BY <1>4, <1>5, <3>1, Zenon
    <2> DEFINE i == a[m] + 1
               P == {k \in i..n : t[k] \notin {"cr", "lf"}}
    <2>3. OpenLine(t) = LineFrom(t, i, n + 1)
        BY <1>1, <1>2, <2>1, Zenon DEF OpenLine, T
    <2>4. i \in 1..(n + 1)
        BY <1>1, <1>2
    <2>5. {k \in i..(n + 1) : t[k] \notin {"cr", "lf"}} = IF c \in {"cr", "lf"} THEN P ELSE P \cup {n + 1}
        <3>1. \A k : k \in i..(n + 1) <=> k \in i..n \/ k = n + 1
            BY <1>1, <2>4
        <3> HIDE DEF i
        <3>2. t[n + 1] = c
            BY <1>1
        <3> QED
            BY <3>1, <3>2
    <2>6. P \in SUBSET (0..n) /\ n \in Nat /\ n + 1 \in Nat /\ n < n + 1
        BY <1>1, <2>4
    <2> HIDE DEF P, i
    <2>7. OpenLine(chars) = Picked(t, P)
        BY <1>7, Zenon DEF P, i, LineFrom
    <2>8. CASE c \in {"cr", "lf"}
        <3>1. OpenLine(t) = Picked(t, P)
            BY <2>3, <2>5, <2>8, Zenon DEF LineFrom
        <3> QED
            BY <1>10, <2>2, <2>7, <2>8, <3>1, Zenon DEF t
    <2>9. CASE c \notin {"cr", "lf"}
        <3>1. OpenLine(t) = Picked(t, P \cup {n + 1})
            BY <2>3, <2>5, <2>9, Zenon DEF LineFrom
        <3>2. Picked(t, P \cup {n + 1}) = Append(Picked(t, P), t[n + 1])
            <4> DEFINE z == n + 1
            <4>1. z \in Nat /\ n < z /\ n \in Nat /\ P \in SUBSET (0..n)
                BY <2>6
            <4> HIDE DEF z
            <4>2. \A x, y : (\A k \in P : x[k] = y[k]) => Picked(y, P \cup {z}) = Append(Picked(x, P), y[z])
                BY <4>1, PickedAppend
            <4>3. Picked(t, P \cup {z}) = Append(Picked(t, P), t[z])
                BY <4>2, Zenon
            <4> QED
                BY <4>3 DEF z
        <3>3. OpenLine(t) = Append(OpenLine(chars), c)
            BY <1>1, <2>7, <3>1, <3>2, Zenon
        <3> QED
            BY <1>10, <2>2, <2>9, <3>3, Zenon DEF t
    <2> QED
        BY <2>8, <2>9
<1> QED
    BY <1>9, <1>10
-----------------------------------------------------------------------------
(* Frames: what one more line does to them. *)

\* The places of a field's lines, and the values of a sequence's lines.
FieldAt(lines, i, j, name) == {k \in i..j : Head(lines[k]) = name}
Values(lines, i, j) == [k \in i..j |-> Tail(lines[k])]

\* The last of some places.
Greatest(places) == {m \in places : \A l \in places : l <= m}

LastValue(lines, i, j, name) == {Values(lines, i, j)[k] : k \in Greatest(FieldAt(lines, i, j, name))}

IsNumber(v) == v # <<>> /\ \A k \in DOMAIN v : v[k] = "7"

\* A frame in these terms.
LEMMA FrameIs ==
    ASSUME NEW lines, NEW i, NEW j
    PROVE  FrameOf(lines, i, j) =
               [data |-> Picked(Values(lines, i, j), FieldAt(lines, i, j, "data")),
                id |-> LastValue(lines, i, j, "id"),
                retry |-> {v \in LastValue(lines, i, j, "retry") : IsNumber(v)}]
BY Zenon DEF FrameOf, Values, FieldAt, LastValue, Greatest, IsNumber

\* A frame within the old lines is the same.
LEMMA FrameKept ==
    ASSUME NEW lines, NEW t, NEW i, NEW j, \A k \in i..j : t[k] = lines[k]
    PROVE  FrameOf(t, i, j) = FrameOf(lines, i, j)
<1>1. Values(t, i, j) = Values(lines, i, j)
    BY DEF Values
<1>2. \A name : FieldAt(t, i, j, name) = FieldAt(lines, i, j, name)
    BY DEF FieldAt
<1>3. ASSUME NEW name PROVE LastValue(t, i, j, name) = LastValue(lines, i, j, name)
    <2>1. FieldAt(t, i, j, name) = FieldAt(lines, i, j, name)
        BY <1>2
    <2> QED
        BY <1>1, <2>1, Zenon DEF LastValue
<1> QED
    BY <1>1, <1>2, <1>3, FrameIs, Zenon

\* No lines, no frame.
LEMMA FrameEmpty ==
    ASSUME NEW lines, NEW i, NEW j, i..j = {}
    PROVE  FrameOf(lines, i, j) = NoFrame
<1>1. \A name : FieldAt(lines, i, j, name) = {}
    BY DEF FieldAt
<1>2. \A name : LastValue(lines, i, j, name) = {}
    BY <1>1 DEF LastValue, Greatest
<1>3. Picked(Values(lines, i, j), FieldAt(lines, i, j, "data")) = <<>>
    BY <1>1, PickedNone, Zenon
<1> QED
    BY <1>2, <1>3, FrameIs DEF NoFrame

\* One more line adds its field.
LEMMA OneMoreField ==
    ASSUME NEW n \in Nat, NEW i \in Nat, i <= n + 1, NEW lines, NEW t,
           \A k \in i..n : t[k] = lines[k]
    PROVE  FrameOf(t, i, n + 1) = Field(FrameOf(lines, i, n), t[n + 1])
<1> DEFINE l == t[n + 1]
           f == FrameOf(lines, i, n)
           S == FieldAt(lines, i, n, "data")
           v == Values(lines, i, n)
           w == Values(t, i, n + 1)
<1>1. \A k : k \in i..(n + 1) <=> k \in i..n \/ k = n + 1
    OBVIOUS
<1>2. \A k \in i..n : w[k] = v[k]
    BY <1>1 DEF Values
<1>3. w[n + 1] = Tail(l)
    BY DEF Values
<1>4. S \in SUBSET (0..n) /\ S \in SUBSET (i..n) /\ \A k \in S : v[k] = w[k]
    BY <1>2 DEF FieldAt
<1>5. f = [data |-> Picked(v, S),
           id |-> LastValue(lines, i, n, "id"),
           retry |-> {x \in LastValue(lines, i, n, "retry") : IsNumber(x)}]
    BY FrameIs, Zenon
<1>6. FrameOf(t, i, n + 1) =
          [data |-> Picked(w, FieldAt(t, i, n + 1, "data")),
           id |-> LastValue(t, i, n + 1, "id"),
           retry |-> {x \in LastValue(t, i, n + 1, "retry") : IsNumber(x)}]
    BY FrameIs, Zenon
<1>7. Picked(w, FieldAt(t, i, n + 1, "data")) =
          IF Head(l) = "data" THEN Append(Picked(v, S), Tail(l)) ELSE Picked(v, S)
    <2>1. CASE Head(l) = "data"
        <3>1. \A k : k \in FieldAt(t, i, n + 1, "data") <=> k \in S \cup {n + 1}
            BY <1>1, <2>1 DEF FieldAt
        <3>2. FieldAt(t, i, n + 1, "data") = S \cup {n + 1}
            BY <3>1
        <3> DEFINE z == n + 1
        <3>3. z \in Nat /\ n < z
            OBVIOUS
        <3> HIDE DEF S, v, w, z, l
        <3>4. \A x, y : (\A k \in S : x[k] = y[k]) => Picked(y, S \cup {z}) = Append(Picked(x, S), y[z])
            BY <1>4, <3>3, PickedAppend
        <3>5. Picked(w, S \cup {z}) = Append(Picked(v, S), w[z])
            BY <1>4, <3>4, Zenon
        <3>6. Picked(w, S \cup {n + 1}) = Append(Picked(v, S), Tail(l))
            BY <1>3, <3>5, Zenon DEF z
        <3> QED
            BY <2>1, <3>2, <3>6, Zenon
    <2>2. CASE Head(l) # "data"
        <3>1. \A k : k \in FieldAt(t, i, n + 1, "data") <=> k \in S
            BY <1>1, <2>2 DEF FieldAt
        <3>2. FieldAt(t, i, n + 1, "data") = S
            BY <3>1
        <3> HIDE DEF S, v, w, l
        <3>3. Picked(v, S) = Picked(w, S)
            BY <1>4, PickedSame
        <3> QED
            BY <2>2, <3>2, <3>3, Zenon
    <2> QED
        BY <2>1, <2>2
<1>8. ASSUME NEW name
      PROVE  LastValue(t, i, n + 1, name) = IF Head(l) = name THEN {Tail(l)} ELSE LastValue(lines, i, n, name)
    <2> DEFINE F == FieldAt(lines, i, n, name)
               G == FieldAt(t, i, n + 1, name)
    <2>1. CASE Head(l) = name
        <3>1. n + 1 \in G /\ \A k \in G : k <= n + 1 /\ k \in Int
            BY <1>1, <2>1 DEF FieldAt
        <3>2. \A k \in G : n + 1 <= k => k = n + 1
            BY <3>1
        <3>3. Greatest(G) = {n + 1}
            BY <3>1, <3>2 DEF Greatest
        <3> QED
            BY <1>3, <2>1, <3>3 DEF LastValue
    <2>2. CASE Head(l) # name
        <3>1. \A k : k \in G <=> k \in F
            BY <1>1, <2>2 DEF FieldAt
        <3>2. G = F
            BY <3>1
        <3>3. \A k \in Greatest(F) : k \in i..n
            BY DEF Greatest, FieldAt
        <3> HIDE DEF G, F, v, w
        <3>4. {w[k] : k \in Greatest(G)} = {v[k] : k \in Greatest(F)}
            BY <1>2, <3>2, <3>3
        <3> QED
            BY <2>2, <3>4, Zenon DEF LastValue, G, F, v, w
    <2> QED
        BY <2>1, <2>2
<1>9. /\ LastValue(t, i, n + 1, "id") = IF Head(l) = "id" THEN {Tail(l)} ELSE LastValue(lines, i, n, "id")
      /\ LastValue(t, i, n + 1, "retry") =
             IF Head(l) = "retry" THEN {Tail(l)} ELSE LastValue(lines, i, n, "retry")
    BY <1>8, Zenon
<1>10. {x \in {Tail(l)} : IsNumber(x)} = Milliseconds(Tail(l), f.retry)
    BY DEF Milliseconds, IsNumber
<1> HIDE DEF l, f, S, v, w
<1>11. FrameOf(t, i, n + 1) = Field(f, l)
    <2>1. CASE Head(l) = "data"
        BY <1>5, <1>6, <1>7, <1>9, <2>1 DEF Field
    <2>2. CASE Head(l) = "id"
        BY <1>5, <1>6, <1>7, <1>9, <2>2 DEF Field
    <2>3. CASE Head(l) = "retry"
        BY <1>5, <1>6, <1>7, <1>9, <1>10, <2>3 DEF Field
    <2>4. CASE Head(l) \notin {"data", "id", "retry"}
        BY <1>5, <1>6, <1>7, <1>9, <2>4 DEF Field
    <2> QED
        BY <2>1, <2>2, <2>3, <2>4
<1> QED
    BY <1>11 DEF l, f


\* The frame that has not been dispatched.
OpenFrame(lines) == FrameOf(lines, LastOf(BlankLines(lines)) + 1, Len(lines))

Frames(lines) ==
    [j \in 1..(Len(Ascending(BlankLines(lines))) - 1) |->
        FrameOf(lines, Ascending(BlankLines(lines))[j] + 1, Ascending(BlankLines(lines))[j + 1] - 1)]

Filled(frames) == {j \in DOMAIN frames : frames[j] # NoFrame}

LEMMA EventsAre == \A lines : EventsOf(lines) = Picked(Frames(lines), Filled(Frames(lines)))
BY Zenon DEF EventsOf, Frames, Filled

\* A blank line adds its place.
LEMMA OneMoreBlank ==
    ASSUME NEW lines \in Seq(Seq(Chars)), NEW l \in Seq(Chars)
    PROVE  /\ BlankLines(lines) \in SUBSET (0..Len(lines))
           /\ 0 \in BlankLines(lines)
           /\ BlankLines(Append(lines, l)) =
                  IF l = <<>> THEN BlankLines(lines) \cup {Len(lines) + 1} ELSE BlankLines(lines)
<1> DEFINE t == Append(lines, l)
           n == Len(lines)
<1>1. /\ n \in Nat /\ t[n + 1] = l /\ \A i \in 1..n : t[i] = lines[i]
      /\ DOMAIN t = 1..(n + 1) /\ DOMAIN lines = 1..n
    OBVIOUS
<1>2. \A i : i \in 1..(n + 1) <=> i \in 1..n \/ i = n + 1
    BY <1>1
<1>3. BlankLines(lines) \in SUBSET (0..n) /\ 0 \in BlankLines(lines)
    BY <1>1 DEF BlankLines
<1> HIDE DEF t, n
<1>4. BlankLines(t) = IF l = <<>> THEN BlankLines(lines) \cup {n + 1} ELSE BlankLines(lines)
    BY <1>1, <1>2 DEF BlankLines
<1> QED
    BY <1>3, <1>4 DEF t, n

\* A blank line dispatches the open frame, if it is not empty; another line adds to it.
LEMMA OneMoreLine ==
    ASSUME NEW lines \in Seq(Seq(Chars)), NEW l \in Seq(Chars)
    PROVE  IF l = <<>>
           THEN /\ EventsOf(Append(lines, l)) =
                       IF OpenFrame(lines) = NoFrame THEN EventsOf(lines)
                       ELSE Append(EventsOf(lines), OpenFrame(lines))
                /\ OpenFrame(Append(lines, l)) = NoFrame
           ELSE /\ EventsOf(Append(lines, l)) = EventsOf(lines)
                /\ OpenFrame(Append(lines, l)) = Field(OpenFrame(lines), l)
<1> DEFINE n == Len(lines)
           t == Append(lines, l)
           S == BlankLines(lines)
           T == BlankLines(t)
           m == Cardinality(S)
           a == Ascending(S)
           Frame(s, b, k) == FrameOf(s, b[k] + 1, b[k + 1] - 1)
<1>1. /\ n \in Nat /\ S \in SUBSET (0..n) /\ 0 \in S
      /\ Len(t) = n + 1 /\ t[n + 1] = l
      /\ \A k \in 1..n : t[k] = lines[k]
    BY OneMoreBlank
<1>2. m \in Nat \ {0} /\ LastOf(S) \in 0..n /\ LastOf(S) = a[m]
    BY <1>1, LastPlace DEF LastOf
<1>3. Len(a) = m /\ \A k \in 1..m : a[k] \in 0..n
    BY <1>1, AscendingIn
<1>4. Frames(lines) = [k \in 1..(m - 1) |-> Frame(lines, a, k)]
    BY <1>3 DEF Frames
<1>5. ASSUME NEW k \in 1..(m - 1) PROVE Frame(t, a, k) = Frame(lines, a, k)
    <2>1. a[k] \in 0..n /\ a[k + 1] \in 0..n
        BY <1>2, <1>3
    <2>2. \A i \in (a[k] + 1)..(a[k + 1] - 1) : i \in 1..n
        BY <2>1
    <2>3. \A i \in (a[k] + 1)..(a[k + 1] - 1) : t[i] = lines[i]
        BY <1>1, <2>2
    <2> HIDE DEF t, a
    <2> QED
        BY <2>3, FrameKept
<1>6. T = IF l = <<>> THEN S \cup {n + 1} ELSE S
    BY OneMoreBlank
<1>7. OpenFrame(lines) = FrameOf(lines, a[m] + 1, n)
    BY <1>2, Zenon DEF OpenFrame
<1>8. \A k \in (a[m] + 1)..n : t[k] = lines[k]
    <2>1. \A k \in (a[m] + 1)..n : k \in 1..n
        BY <1>1, <1>2
    <2> QED
        BY <1>1, <2>1
<1>9. DOMAIN Frames(lines) = 1..(m - 1) /\ m - 1 \in Nat
    BY <1>2, <1>4
<1> HIDE DEF n, t, S, T, m, a
<1>10. CASE l = <<>>
    <2> DEFINE z == Ascending(T)
               f == Frames(lines)
               g == Frames(t)
    <2>1. T = S \cup {n + 1} /\ n + 1 \in Nat /\ n < n + 1
        BY <1>1, <1>6, <1>10
    <2>2. z[m + 1] = n + 1 /\ (\A k \in 1..m : z[k] = a[k]) /\ Cardinality(T) = m + 1
        BY <1>1, <2>1, AscendingAppend DEF m, a
    <2>3. Len(z) = m + 1
        <3>1. T \in SUBSET (0..(n + 1))
            BY <1>1, <2>1
        <3> QED
            BY <2>1, <2>2, <3>1, AscendingIn
    <2>4. g = [k \in 1..m |-> Frame(t, z, k)]
        BY <1>2, <2>3 DEF Frames, T
    <2> HIDE DEF z
    <2>5. \A k \in 1..(m - 1) : f[k] = g[k]
        <3> SUFFICES ASSUME NEW k \in 1..(m - 1) PROVE f[k] = g[k]
            OBVIOUS
        <3>1. k \in 1..m /\ z[k] = a[k] /\ z[k + 1] = a[k + 1]
            BY <1>2, <2>2
        <3>2. g[k] = Frame(t, z, k)
            BY <2>4, <3>1
        <3>3. f[k] = Frame(lines, a, k)
            BY <1>4
        <3> QED
            BY <1>5, <3>1, <3>2, <3>3, Zenon
    <2>6. g[m] = OpenFrame(lines)
        <3>1. z[m] = a[m] /\ z[m + 1] - 1 = n /\ m \in 1..m
            BY <1>1, <1>2, <2>2
        <3>2. g[m] = FrameOf(t, a[m] + 1, n)
            BY <2>4, <3>1
        <3>3. FrameOf(t, a[m] + 1, n) = FrameOf(lines, a[m] + 1, n)
            BY <1>8, FrameKept
        <3> QED
            BY <1>7, <3>2, <3>3, Zenon
    <2>7. Filled(g) = IF OpenFrame(lines) = NoFrame THEN Filled(f) ELSE Filled(f) \cup {m}
        <3>1. DOMAIN f = 1..(m - 1) /\ DOMAIN g = 1..m
            BY <1>9, <2>4
        <3>2. \A k : k \in 1..m <=> k \in 1..(m - 1) \/ k = m
            BY <1>2
        <3> HIDE DEF f, g
        <3> QED
            BY <2>5, <2>6, <3>1, <3>2 DEF Filled
    <2>8. Filled(f) \in SUBSET (0..(m - 1)) /\ m \in Nat /\ m - 1 \in Nat /\ m - 1 < m
        BY <1>2, <1>9 DEF Filled
    <2>9. \A k \in Filled(f) : f[k] = g[k]
        BY <1>9, <2>5 DEF Filled
    <2>10. EventsOf(t) = IF OpenFrame(lines) = NoFrame THEN EventsOf(lines)
                         ELSE Append(EventsOf(lines), OpenFrame(lines))
        <3>1. EventsOf(t) = Picked(g, Filled(g)) /\ EventsOf(lines) = Picked(f, Filled(f))
            BY EventsAre, Zenon
        <3> HIDE DEF f, g
        <3>2. CASE OpenFrame(lines) = NoFrame
            <4>1. Picked(f, Filled(f)) = Picked(g, Filled(f))
                BY <2>8, <2>9, PickedSame
            <4> QED
                BY <2>7, <3>1, <3>2, <4>1, Zenon
        <3>3. CASE OpenFrame(lines) # NoFrame
            <4> DEFINE P == Filled(f)
                       q == m - 1
            <4>1. q \in Nat /\ q < m /\ P \in SUBSET (0..q) /\ m \in Nat
                BY <2>8
            <4> HIDE DEF P, q
            <4>2. \A x, y : (\A k \in P : x[k] = y[k]) => Picked(y, P \cup {m}) = Append(Picked(x, P), y[m])
                BY <4>1, PickedAppend
            <4>3. Picked(g, P \cup {m}) = Append(Picked(f, P), g[m])
                BY <2>9, <4>2, Zenon DEF P
            <4> QED
                BY <2>6, <2>7, <3>1, <3>3, <4>3, Zenon DEF P
        <3> QED
            BY <3>2, <3>3
    <2>11. OpenFrame(t) = NoFrame
        <3>1. LastOf(T) = n + 1
            BY <2>2, Zenon DEF LastOf, z
        <3>2. OpenFrame(t) = FrameOf(t, (n + 1) + 1, n + 1)
            BY <1>1, <3>1, Zenon DEF OpenFrame, T
        <3>3. ((n + 1) + 1)..(n + 1) = {}
            BY <1>1
        <3> QED
            BY <3>2, <3>3, FrameEmpty, Zenon
    <2> QED
        BY <1>10, <2>10, <2>11, Zenon DEF t
<1>11. CASE l # <<>>
    <2>1. T = S
        BY <1>6, <1>11
    <2>2. Frames(t) = Frames(lines)
        <3>1. Frames(t) = [k \in 1..(m - 1) |-> Frame(t, a, k)]
            BY <1>3, <2>1 DEF Frames, T, a
        <3> QED
            BY <1>4, <1>5, <3>1, Zenon
    <2>3. EventsOf(t) = EventsOf(lines)
        BY <2>2, EventsAre, Zenon
    <2> DEFINE i == a[m] + 1
    <2>4. i \in Nat /\ i <= n + 1
        BY <1>1, <1>2
    <2>5. OpenFrame(t) = FrameOf(t, i, n + 1)
        BY <1>1, <1>2, <2>1, Zenon DEF OpenFrame, T
    <2>6. OpenFrame(lines) = FrameOf(lines, i, n)
        BY <1>7
    <2>7. \A k \in i..n : t[k] = lines[k]
        BY <1>8
    <2> HIDE DEF i
    <2>8. FrameOf(t, i, n + 1) = Field(FrameOf(lines, i, n), t[n + 1])
        BY <1>1, <2>4, <2>7, OneMoreField
    <2>9. OpenFrame(t) = Field(OpenFrame(lines), l)
        BY <1>1, <2>5, <2>6, <2>8, Zenon
    <2> QED
        BY <1>11, <2>3, <2>9, Zenon DEF t
<1> QED
    BY <1>10, <1>11
-----------------------------------------------------------------------------
(* The parser after some characters and after some bytes. *)

Step(lead, first, skip, line, frame, out) ==
    [p |-> [lead |-> lead, first |-> first, skip |-> skip, line |-> line, frame |-> frame], out |-> out]

\* What characters come to: the open line and frame, and the events.
Told(chars, lead) ==
    Step(lead, chars = <<>>, EndsCr(WithoutMark(chars)), OpenLine(WithoutMark(chars)),
         OpenFrame(LinesOf(WithoutMark(chars))), EventsOf(LinesOf(WithoutMark(chars))))

\* s with one field changed is t.
LeadSet(s, z, t) == t = [s EXCEPT !.p.lead = z]
FirstSet(s, z, t) == t = [s EXCEPT !.p.first = z]
SkipSet(s, z, t) == t = [s EXCEPT !.p.skip = z]

\* The other fields stay.
LEMMA StepFields ==
    ASSUME NEW lead, NEW first, NEW skip, NEW line, NEW frame, NEW out, NEW z
    PROVE  /\ LeadSet(Step(lead, first, skip, line, frame, out), z, Step(z, first, skip, line, frame, out))
           /\ FirstSet(Step(lead, first, skip, line, frame, out), z, Step(lead, z, skip, line, frame, out))
           /\ SkipSet(Step(lead, first, skip, line, frame, out), z, Step(lead, first, z, line, frame, out))
<1>1. LeadSet(Step(lead, first, skip, line, frame, out), z, Step(z, first, skip, line, frame, out))
    BY DEF Step, LeadSet
<1>2. FirstSet(Step(lead, first, skip, line, frame, out), z, Step(lead, z, skip, line, frame, out))
    BY DEF Step, FirstSet
<1>3. SkipSet(Step(lead, first, skip, line, frame, out), z, Step(lead, first, z, line, frame, out))
    BY DEF Step, SkipSet
<1> QED
    BY <1>1, <1>2, <1>3

\* Only the first character of a text can be its mark.
LEMMA MarkRemoved ==
    ASSUME NEW chars \in Seq(Chars), NEW c \in Chars
    PROVE  /\ WithoutMark(chars) \in Seq(Chars)
           /\ WithoutMark(Append(chars, c)) =
                  IF chars = <<>> /\ c = "bom" THEN <<>> ELSE Append(WithoutMark(chars), c)
           /\ chars = <<>> => WithoutMark(chars) = <<>>
<1>1. WithoutMark(chars) \in Seq(Chars)
    BY DEF WithoutMark
<1>2. CASE chars = <<>>
    <2>1. Append(chars, c) = <<c>> /\ Head(<<c>>) = c /\ Tail(<<c>>) = <<>> /\ <<c>> # <<>>
        BY <1>2
    <2>2. WithoutMark(chars) = <<>>
        BY <1>2 DEF WithoutMark
    <2> QED
        BY <1>1, <1>2, <2>1, <2>2 DEF WithoutMark
<1>3. CASE chars # <<>>
    <2>1. Append(chars, c) # <<>> /\ Head(Append(chars, c)) = Head(chars)
        BY <1>3
    <2>2. Tail(Append(chars, c)) = Append(Tail(chars), c)
        BY <1>3
    <2> QED
        BY <1>1, <1>3, <2>1, <2>2 DEF WithoutMark
<1> QED
    BY <1>2, <1>3

\* _process_line brings the parser past the line that stood open.
LEMMA LineProcessed ==
    ASSUME NEW lead, NEW first, NEW skip, NEW line \in Seq(Chars), NEW lines \in Seq(Seq(Chars))
    PROVE  ProcessLine(Step(lead, first, skip, line, OpenFrame(lines), EventsOf(lines))) =
               Step(lead, first, skip, <<>>, OpenFrame(Append(lines, line)), EventsOf(Append(lines, line)))
<1> DEFINE f == OpenFrame(lines)
           e == EventsOf(lines)
<1>1. CASE line # <<>>
    <2>1. OpenFrame(Append(lines, line)) = Field(f, line) /\ EventsOf(Append(lines, line)) = e
        BY <1>1, OneMoreLine
    <2> HIDE DEF f, e
    <2>2. ProcessLine(Step(lead, first, skip, line, f, e)) = Step(lead, first, skip, <<>>, Field(f, line), e)
        BY <1>1 DEF ProcessLine, Step
    <2> QED
        BY <2>1, <2>2, Zenon DEF f, e
<1>2. CASE line = <<>> /\ f = NoFrame
    <2>1. OpenFrame(Append(lines, line)) = NoFrame /\ EventsOf(Append(lines, line)) = e
        BY <1>2, OneMoreLine
    <2> HIDE DEF f, e
    <2>2. ProcessLine(Step(lead, first, skip, line, f, e)) = Step(lead, first, skip, line, f, e)
        BY <1>2 DEF ProcessLine, Step
    <2> QED
        BY <1>2, <2>1, <2>2, Zenon DEF f, e
<1>3. CASE line = <<>> /\ f # NoFrame
    <2>1. OpenFrame(Append(lines, line)) = NoFrame /\ EventsOf(Append(lines, line)) = Append(e, f)
        BY <1>3, OneMoreLine
    <2> HIDE DEF f, e
    <2>2. ProcessLine(Step(lead, first, skip, line, f, e)) = Step(lead, first, skip, line, NoFrame, Append(e, f))
        BY <1>3 DEF ProcessLine, Step
    <2> QED
        BY <1>3, <2>1, <2>2, Zenon DEF f, e
<1> QED
    BY <1>1, <1>2, <1>3

\* The loop of _consume goes from what characters come to to what one more brings.
LEMMA CharacterTold ==
    ASSUME NEW chars \in Seq(Chars), NEW lead \in BOOLEAN, NEW c \in Chars
    PROVE  Character(Told(chars, lead), c) = Told(Append(chars, c), lead)
<1> DEFINE d == WithoutMark(chars)
           e == WithoutMark(Append(chars, c))
           skip == EndsCr(d)
           line == OpenLine(d)
           frame == OpenFrame(LinesOf(d))
           out == EventsOf(LinesOf(d))
           s == Step(lead, chars = <<>>, skip, line, frame, out)
           begun == Step(lead, FALSE, skip, line, frame, out)
           next == Step(lead, FALSE, FALSE, line, frame, out)
<1>1. d \in Seq(Chars) /\ e = IF chars = <<>> /\ c = "bom" THEN <<>> ELSE Append(d, c)
    BY MarkRemoved
<1>2. LinesOf(d) \in Seq(Seq(Chars)) /\ line \in Seq(Chars) /\ skip \in BOOLEAN
    BY <1>1, LinesIn DEF EndsCr
<1>3. Append(chars, c) # <<>>
    OBVIOUS
<1>4. Told(chars, lead) = s
    BY Zenon DEF Told
<1>5. Told(Append(chars, c), lead) = Step(lead, FALSE, EndsCr(e), OpenLine(e), OpenFrame(LinesOf(e)), EventsOf(LinesOf(e)))
    BY <1>3 DEF Told, Step
<1>12. [[s EXCEPT !.p.first = FALSE] EXCEPT !.p.skip = FALSE] = next
    <2>1. FirstSet(s, FALSE, begun) /\ SkipSet(begun, FALSE, next)
        BY StepFields, Zenon
    <2> HIDE DEF s, begun, next
    <2> QED
        BY <2>1, Zenon DEF FirstSet, SkipSet
<1>6. CASE chars = <<>> /\ c = "bom"
    <2>1. e = d /\ d = <<>>
        BY <1>1, <1>6, MarkRemoved
    <2>2. EndsCr(d) = FALSE
        BY <2>1 DEF EndsCr
    <2> HIDE DEF d, e, line, frame, out
    <2>3. Character(s, c) = Step(lead, FALSE, skip, line, frame, out)
        BY <1>6 DEF Character, Step
    <2> QED
        BY <1>4, <1>5, <2>1, <2>3, Zenon DEF line, frame, out
<1>7. CASE ~(chars = <<>> /\ c = "bom")
    <2>1. e = Append(d, c) /\ EndsCr(e) = (c = "cr")
        <3>1. e = Append(d, c)
            BY <1>1, <1>7
        <3> HIDE DEF d, e
        <3>2. e # <<>> /\ e[Len(e)] = c
            BY <1>1, <3>1
        <3> QED
            BY <3>1, <3>2 DEF EndsCr
    <2>2. ProcessLine(next) = Step(lead, FALSE, FALSE, <<>>, OpenFrame(Append(LinesOf(d), line)), EventsOf(Append(LinesOf(d), line)))
        BY <1>2, LineProcessed, Zenon
    <2> DEFINE lines == LinesOf(d)
               longer == Append(lines, line)
    <2>3. EndsLine(d, c) => LinesOf(e) = longer /\ OpenLine(e) = <<>>
        BY <1>1, <2>1, OneMoreCharacter
    <2>4. ~EndsLine(d, c) => /\ LinesOf(e) = lines
                             /\ OpenLine(e) = IF c \in {"cr", "lf"} THEN line ELSE Append(line, c)
        BY <1>1, <2>1, OneMoreCharacter
    <2>5. CASE skip /\ c = "lf"
        <3>1. ~EndsLine(d, c) /\ EndsCr(e) = FALSE
            BY <2>1, <2>5 DEF EndsLine
        <3>2. LinesOf(e) = lines /\ OpenLine(e) = line
            BY <2>4, <2>5, <3>1
        <3>3. frame = OpenFrame(lines) /\ out = EventsOf(lines)
            OBVIOUS
        <3> HIDE DEF d, e, lines, line, frame, out, skip
        <3>4. Character(s, c) = next
            BY <1>2, <1>7, <2>5 DEF Character, Step
        <3> QED
            BY <1>4, <1>5, <3>1, <3>2, <3>3, <3>4, Zenon
    <2>6. CASE c = "cr"
        <3>1. EndsLine(d, c) /\ EndsCr(e) = TRUE
            BY <2>1, <2>6 DEF EndsLine
        <3>2. LinesOf(e) = longer /\ OpenLine(e) = <<>>
            BY <2>3, <3>1
        <3>3. ProcessLine(next) = Step(lead, FALSE, FALSE, <<>>, OpenFrame(longer), EventsOf(longer))
            BY <2>2, Zenon
        <3> HIDE DEF d, e, lines, longer, line, frame, out, skip
        <3>5. Character(s, c) = [ProcessLine(next) EXCEPT !.p.skip = TRUE]
            <4> HIDE DEF s, next
            <4> QED
                BY <1>7, <1>12, <2>6 DEF Character
        <3>6. Character(s, c) = Step(lead, FALSE, TRUE, <<>>, OpenFrame(longer), EventsOf(longer))
            <4> DEFINE f == OpenFrame(longer)
                       v == EventsOf(longer)
            <4> HIDE DEF f, v
            <4>1. SkipSet(Step(lead, FALSE, FALSE, <<>>, f, v), TRUE, Step(lead, FALSE, TRUE, <<>>, f, v))
                BY StepFields, Zenon
            <4>2. SkipSet(ProcessLine(next), TRUE, Step(lead, FALSE, TRUE, <<>>, f, v))
                BY <3>3, <4>1, Zenon DEF f, v
            <4> HIDE DEF next
            <4> QED
                BY <3>5, <4>2, Zenon DEF f, v, SkipSet
        <3> QED
            BY <1>4, <1>5, <3>1, <3>2, <3>6, Zenon
    <2>7. CASE c = "lf" /\ ~skip
        <3>1. EndsLine(d, c) /\ EndsCr(e) = FALSE
            BY <2>1, <2>7 DEF EndsLine
        <3>2. LinesOf(e) = longer /\ OpenLine(e) = <<>>
            BY <2>3, <3>1
        <3>3. ProcessLine(next) = Step(lead, FALSE, FALSE, <<>>, OpenFrame(longer), EventsOf(longer))
            BY <2>2, Zenon
        <3>5. s.p.skip = skip
            <4> HIDE DEF d, e, lines, longer, line, frame, out, skip
            <4> QED
                BY DEF Step
        <3> HIDE DEF d, e, lines, longer, line, frame, out, skip, s, next
        <3>6. Character(s, c) = ProcessLine(next)
            BY <1>7, <1>12, <2>7, <3>5 DEF Character
        <3> QED
            BY <1>4, <1>5, <3>1, <3>2, <3>3, <3>6, Zenon
    <2>8. CASE c \notin {"cr", "lf"}
        <3>1. ~EndsLine(d, c) /\ EndsCr(e) = FALSE
            BY <2>1, <2>8 DEF EndsLine
        <3>2. LinesOf(e) = lines /\ OpenLine(e) = Append(line, c)
            BY <2>4, <2>8, <3>1
        <3>3. frame = OpenFrame(lines) /\ out = EventsOf(lines)
            OBVIOUS
        <3> HIDE DEF d, e, lines, line, frame, out, skip
        <3>4. Character(s, c) = Step(lead, FALSE, FALSE, Append(line, c), frame, out)
            BY <1>2, <1>7, <2>8 DEF Character, Step
        <3> QED
            BY <1>4, <1>5, <3>1, <3>2, <3>3, <3>4, Zenon
    <2> QED
        BY <1>2, <2>5, <2>6, <2>7, <2>8
<1> QED
    BY <1>6, <1>7
-----------------------------------------------------------------------------
(* The parser agrees with the definition of the events of a whole text. *)

\* The decoder and the loop go from what a text comes to to what one more byte brings.
LEMMA ByteTold ==
    ASSUME NEW text \in Seq(Bytes), NEW b \in Bytes
    PROVE  Byte(Told(Handed(text), Pending(text)), b) = Told(Handed(Append(text, b)), Pending(Append(text, b)))
<1> DEFINE h == Handed(text)
           l == Pending(text)
           p == b = "lead"
           o == Orphaned(text, b)
           s == Told(h, l)
           ready == [s EXCEPT !.p.lead = (b = "lead")]
           orphan == IF s.p.lead /\ b # "trail" THEN Character(ready, "bad") ELSE ready
<1>1. h \in Seq(Chars) /\ l \in BOOLEAN /\ p \in BOOLEAN
    BY HandedIn DEF Pending
<1>2. o \in Seq(Chars)
    BY <1>1 DEF Orphaned, Chars
<1>3. s.p.lead = l
    <2> HIDE DEF h, l
    <2> QED
        BY DEF Told, Step
<1>4. LeadSet(s, p, Told(h, p))
    <2> HIDE DEF h, l, p
    <2> QED
        BY StepFields, Zenon DEF Told
<1>5. ready = Told(h, p)
    BY <1>4, Zenon DEF LeadSet
<1>6. orphan = Told(o, p)
    <2>1. CASE l /\ b # "trail"
        <3>1. o = Append(h, "bad")
            BY <2>1 DEF Orphaned
        <3>2. orphan = Character(ready, "bad")
            <4> HIDE DEF s, ready, l
            <4> QED
                BY <1>3, <2>1, Zenon
        <3>3. "bad" \in Chars
            BY DEF Chars
        <3> HIDE DEF h, o, p, ready, orphan
        <3>4. Character(Told(h, p), "bad") = Told(Append(h, "bad"), p)
            BY <1>1, <3>3, CharacterTold
        <3> QED
            BY <1>5, <3>1, <3>2, <3>4, Zenon
    <2>2. CASE ~(l /\ b # "trail")
        <3>1. o = h
            BY <2>2 DEF Orphaned
        <3>2. orphan = ready
            <4> HIDE DEF s, ready, l
            <4> QED
                BY <1>3, <2>2, Zenon
        <3> HIDE DEF h, o, p, ready, orphan
        <3> QED
            BY <1>5, <3>1, <3>2, Zenon
    <2> QED
        BY <2>1, <2>2
<1>7. /\ Pending(Append(text, b)) = p
      /\ Handed(Append(text, b)) = IF b = "lead" THEN o ELSE Append(o, CharacterOf(text, b))
    <2>1. Pending(Append(text, b)) \in BOOLEAN
        BY DEF Pending
    <2> HIDE DEF o
    <2> QED
        BY <2>1, OneMoreByte DEF o
<1>8. CASE b = "lead"
    <2>1. Byte(s, b) = orphan
        <3> HIDE DEF s
        <3> QED
            BY <1>8, Zenon DEF Byte
    <2>2. Handed(Append(text, b)) = o
        BY <1>7, <1>8
    <2> HIDE DEF o, p, orphan
    <2>3. Byte(s, b) = Told(Handed(Append(text, b)), p)
        BY <1>6, <2>1, <2>2, Zenon
    <2> QED
        BY <1>7, <2>3, Zenon
<1>9. CASE b = "trail"
    <2> DEFINE c == CharacterOf(text, b)
    <2>1. c \in Chars /\ c = IF l THEN "bom" ELSE "bad"
        BY <1>9 DEF CharacterOf, Chars
    <2>2. Handed(Append(text, b)) = Append(o, c) /\ o = h
        BY <1>7, <1>9 DEF Orphaned
    <2>3. Byte(s, b) = Character(ready, c)
        <3>1. b # "lead"
            BY <1>9
        <3> HIDE DEF s, c, l, ready
        <3> QED
            BY <1>3, <1>9, <2>1, <3>1, Zenon DEF Byte, ready
    <2> HIDE DEF h, o, p, c, ready
    <2>4. Character(Told(h, p), c) = Told(Append(h, c), p)
        BY <1>1, <2>1, CharacterTold
    <2>5. Byte(s, b) = Told(Handed(Append(text, b)), p)
        BY <1>5, <2>2, <2>3, <2>4, Zenon
    <2> QED
        BY <1>7, <2>5, Zenon DEF h
<1>10. CASE b \notin {"lead", "trail"}
    <2>1. b \in Chars /\ CharacterOf(text, b) = b
        BY <1>10 DEF CharacterOf, Chars, Bytes
    <2>2. Handed(Append(text, b)) = Append(o, b)
        BY <1>7, <1>10, <2>1
    <2>3. Byte(s, b) = Character(orphan, b)
        <3>1. b # "lead" /\ b # "trail"
            BY <1>10
        <3> HIDE DEF s
        <3> QED
            BY <3>1, Zenon DEF Byte
    <2> HIDE DEF o, p, orphan
    <2>4. Character(Told(o, p), b) = Told(Append(o, b), p)
        BY <1>1, <1>2, <2>1, CharacterTold
    <2>5. Byte(s, b) = Told(Handed(Append(text, b)), p)
        BY <1>6, <2>2, <2>3, <2>4, Zenon
    <2> QED
        BY <1>7, <2>5, Zenon
<1> QED
    BY <1>8, <1>9, <1>10

\* What a new parser is.
Fresh == Step(FALSE, TRUE, FALSE, <<>>, NoFrame, <<>>)

\* A new parser is what no text comes to.
LEMMA NothingTold == Told(Handed(<<>>), Pending(<<>>)) = Fresh
<1>1. WithoutMark(<<>>) = <<>> /\ EndsCr(<<>>) = FALSE
    BY DEF WithoutMark, EndsCr
<1>2. <<>> \in Seq(Chars) /\ Len(<<>>) = 0 /\ <<>> \in Seq(Seq(Chars))
    OBVIOUS
<1>3. LineEnds(<<>>) = {0} /\ BlankLines(<<>>) = {0}
    BY <1>2 DEF LineEnds, BlankLines
<1>4. Cardinality({0}) = 1 /\ Len(Ascending({0})) = 1 /\ LastOf({0}) = 0
    <2>1. Cardinality({0}) = 1
        BY FS_Singleton
    <2>2. {0} \in SUBSET (0..0) /\ 0 \in {0}
        OBVIOUS
    <2> QED
        BY <2>1, <2>2, AscendingIn, LastPlace
<1>5. 1..(1 - 1) = {} /\ (0 + 1)..0 = {}
    OBVIOUS
<1>6. LinesOf(<<>>) = <<>>
    <2>1. LinesOf(<<>>) \in Seq(Seq(Chars)) /\ Len(LinesOf(<<>>)) = 1 - 1
        BY <1>2, <1>3, <1>4, LinesIn
    <2> QED
        BY <2>1
<1>7. OpenLine(<<>>) = <<>>
    <2>1. OpenLine(<<>>) = LineFrom(<<>>, 0 + 1, 0)
        BY <1>2, <1>3, <1>4, Zenon DEF OpenLine
    <2>2. {k \in (0 + 1)..0 : <<>>[k] \notin {"cr", "lf"}} = {}
        BY <1>5
    <2> QED
        BY <2>1, <2>2, PickedNone, Zenon DEF LineFrom
<1>8. OpenFrame(<<>>) = NoFrame
    BY <1>2, <1>3, <1>4, <1>5, FrameEmpty DEF OpenFrame
<1>9. EventsOf(<<>>) = <<>>
    <2>1. DOMAIN Frames(<<>>) = {}
        BY <1>3, <1>4, <1>5 DEF Frames
    <2>2. Filled(Frames(<<>>)) = {}
        BY <2>1 DEF Filled
    <2> QED
        BY <2>2, EventsAre, PickedNone, Zenon
<1>10. Pending(<<>>) = FALSE /\ Handed(<<>>) = <<>>
    BY HandedEmpty DEF Pending
<1> QED
    BY <1>1, <1>6, <1>7, <1>8, <1>9, <1>10 DEF Told, Step, Fresh

\* A parser fed a text from the start is what the text comes to.
LEMMA TextTold ==
    ASSUME NEW text \in Seq(Bytes)
    PROVE  FoldLeft(Byte, Fresh, text) = Told(Handed(text), Pending(text))
<1> DEFINE Agrees(u) == FoldLeft(Byte, Fresh, u) = Told(Handed(u), Pending(u))
           S == {k \in Nat : \A u \in Seq(Bytes) : Len(u) = k => Agrees(u)}
<1>1. 0 \in S
    <2> SUFFICES ASSUME NEW u \in Seq(Bytes), Len(u) = 0 PROVE Agrees(u)
        OBVIOUS
    <2>1. u = <<>>
        OBVIOUS
    <2>2. FoldLeft(Byte, Fresh, <<>>) = Fresh
        BY FoldEmpty, Zenon
    <2> QED
        BY <2>1, <2>2, NothingTold, Zenon
<1>2. ASSUME NEW k \in Nat, k \in S PROVE k + 1 \in S
    <2> SUFFICES ASSUME NEW u \in Seq(Bytes), Len(u) = k + 1 PROVE Agrees(u)
        OBVIOUS
    <2> DEFINE v == SubSeq(u, 1, k)
               b == u[k + 1]
    <2>1. v \in Seq(Bytes) /\ Len(v) = k /\ b \in Bytes
        OBVIOUS
    <2>2. u = Append(v, b)
        OBVIOUS
    <2>3. Agrees(v)
        BY <1>2, <2>1
    <2> HIDE DEF v, b
    <2>4. FoldLeft(Byte, Fresh, Append(v, b)) = Byte(FoldLeft(Byte, Fresh, v), b)
        BY <2>1, FoldAppend, Zenon
    <2>5. Byte(Told(Handed(v), Pending(v)), b) = Told(Handed(Append(v, b)), Pending(Append(v, b)))
        BY <2>1, ByteTold
    <2> QED
        BY <2>2, <2>3, <2>4, <2>5, Zenon
<1> HIDE DEF S
<1>3. Len(text) \in S
    BY <1>1, <1>2, Induction
<1> QED
    BY <1>3 DEF S

\* A carriage return leaves no open line.
LEMMA NoOpenLine ==
    ASSUME NEW chars \in Seq(Chars), EndsCr(chars)
    PROVE  OpenLine(chars) = <<>>
<1> DEFINE n == Len(chars)
           d == SubSeq(chars, 1, n - 1)
<1>1. n \in Nat \ {0} /\ chars[n] = "cr"
    BY DEF EndsCr
<1>2. d \in Seq(Chars) /\ chars = Append(d, "cr")
    BY <1>1
<1> HIDE DEF d
<1>3. "cr" \in Chars /\ EndsLine(d, "cr")
    BY DEF Chars, EndsLine
<1> QED
    BY <1>2, <1>3, OneMoreCharacter

\* A pending character is not the end of a line.
LEMMA PendingTold ==
    ASSUME NEW text \in Seq(Bytes)
    PROVE  /\ Decoded(text) \in Seq(Chars)
           /\ EventsOf(LinesOf(Decoded(text))) = EventsOf(LinesOf(WithoutMark(Handed(text))))
<1> DEFINE h == Handed(text)
           d == WithoutMark(h)
<1>1. h \in Seq(Chars) /\ d \in Seq(Chars) /\ "bad" \in Chars
    BY HandedIn, MarkRemoved DEF Chars
<1>2. CASE ~Pending(text)
    BY <1>1, <1>2, CharactersHanded, Zenon DEF Decoded
<1>3. CASE Pending(text)
    <2>1. Decoded(text) = WithoutMark(Append(h, "bad"))
        BY <1>3, CharactersHanded, Zenon DEF Decoded
    <2>2. WithoutMark(Append(h, "bad")) = Append(d, "bad")
        BY <1>1, MarkRemoved
    <2> HIDE DEF d
    <2>3. ~EndsLine(d, "bad") /\ Append(d, "bad") \in Seq(Chars)
        BY <1>1 DEF EndsLine
    <2>4. LinesOf(Append(d, "bad")) = LinesOf(d)
        BY <1>1, <2>3, OneMoreCharacter
    <2> QED
        BY <2>1, <2>2, <2>3, <2>4, Zenon DEF d
<1> QED
    BY <1>2, <1>3

\* A parser that stands at an open line after lines.
StandsAt(s, line, lines) ==
    s = Step(s.p.lead, s.p.first, s.p.skip, line, OpenFrame(lines), EventsOf(lines))

\* The other three fields are any.
LEMMA StepStandsAt ==
    ASSUME NEW lead, NEW first, NEW skip, NEW line, NEW lines
    PROVE  StandsAt(Step(lead, first, skip, line, OpenFrame(lines), EventsOf(lines)), line, lines)
<1> DEFINE f == OpenFrame(lines)
           e == EventsOf(lines)
<1> HIDE DEF f, e
<1>1. /\ Step(lead, first, skip, line, f, e).p.lead = lead
      /\ Step(lead, first, skip, line, f, e).p.first = first
      /\ Step(lead, first, skip, line, f, e).p.skip = skip
    BY DEF Step
<1> QED
    BY <1>1, Zenon DEF StandsAt, f, e

\* The next line of one that stands open.
LEMMA NextLine ==
    ASSUME NEW s, NEW line \in Seq(Chars), NEW lines \in Seq(Seq(Chars)), StandsAt(s, line, lines)
    PROVE  /\ s.p.line = line /\ s.out = EventsOf(lines)
           /\ StandsAt(ProcessLine(s), <<>>, Append(lines, line))
<1> DEFINE lead == s.p.lead
           first == s.p.first
           skip == s.p.skip
<1>1. s = Step(lead, first, skip, line, OpenFrame(lines), EventsOf(lines))
    BY Zenon DEF StandsAt
<1> HIDE DEF lead, first, skip
<1>2. s.p.line = line /\ s.out = EventsOf(lines)
    <2> DEFINE f == OpenFrame(lines)
               e == EventsOf(lines)
    <2> HIDE DEF f, e
    <2>1. Step(lead, first, skip, line, f, e).p.line = line /\ Step(lead, first, skip, line, f, e).out = e
        BY DEF Step
    <2> QED
        BY <1>1, <2>1, Zenon DEF f, e
<1>3. ProcessLine(s) = Step(lead, first, skip, <<>>, OpenFrame(Append(lines, line)), EventsOf(Append(lines, line)))
    BY <1>1, LineProcessed, Zenon
<1>4. StandsAt(ProcessLine(s), <<>>, Append(lines, line))
    BY <1>3, StepStandsAt, Zenon
<1> QED
    BY <1>2, <1>4

LEMMA ToldStandsAt ==
    ASSUME NEW chars, NEW lead
    PROVE  StandsAt(Told(chars, lead), OpenLine(WithoutMark(chars)), LinesOf(WithoutMark(chars)))
BY StepStandsAt, Zenon DEF Told

\* The end of a text ends its line and dispatches its frame.
LEMMA EndTold ==
    ASSUME NEW chars \in Seq(Chars)
    PROVE  LET flushed == Told(chars, FALSE)
               lined == IF flushed.p.line = <<>> THEN flushed ELSE ProcessLine(flushed)
           IN  ProcessLine(lined).out = EventsOf(LinesOf(WithoutMark(chars) \o <<"lf", "lf">>))
<1> DEFINE d == WithoutMark(chars)
           line == OpenLine(d)
           lines == LinesOf(d)
           flushed == Told(chars, FALSE)
           lined == IF flushed.p.line = <<>> THEN flushed ELSE ProcessLine(flushed)
           longer == Append(lines, line)
           one == Append(d, "lf")
           two == Append(one, "lf")
<1>1. d \in Seq(Chars) /\ "lf" \in Chars /\ one \in Seq(Chars)
    BY MarkRemoved DEF Chars
<1>2. d \o <<"lf", "lf">> = two
    BY <1>1
<1>3. line \in Seq(Chars) /\ lines \in Seq(Seq(Chars)) /\ <<>> \in Seq(Chars)
    BY <1>1, LinesIn
<1>4. longer \in Seq(Seq(Chars)) /\ Append(longer, <<>>) \in Seq(Seq(Chars))
    BY <1>3
<1>5. EndsLine(one, "lf")
    <2> HIDE DEF d
    <2>1. one # <<>> /\ one[Len(one)] = "lf"
        BY <1>1
    <2> QED
        BY <2>1 DEF EndsLine, EndsCr
<1>6. StandsAt(flushed, line, lines)
    BY ToldStandsAt, Zenon
<1>9. LinesOf(two) = Append(LinesOf(one), OpenLine(one))
    BY <1>1, <1>5, OneMoreCharacter
<1> HIDE DEF d, line, lines, flushed, longer, one, two
<1>7. flushed.p.line = line /\ StandsAt(ProcessLine(flushed), <<>>, longer)
    BY <1>3, <1>6, NextLine, Zenon DEF longer
<1>8. ProcessLine(flushed).out = EventsOf(longer) /\ StandsAt(ProcessLine(ProcessLine(flushed)), <<>>, Append(longer, <<>>))
    BY <1>3, <1>4, <1>7, NextLine, Zenon
<1>10. CASE line = <<>>
    <2>1. ProcessLine(lined).out = EventsOf(longer)
        BY <1>7, <1>8, <1>10, Zenon
    <2>2. EventsOf(LinesOf(two)) = EventsOf(longer)
        <3>1. CASE EndsCr(d)
            <4>1. ~EndsLine(d, "lf")
                BY <3>1 DEF EndsLine
            <4>2. LinesOf(one) = lines /\ OpenLine(one) = line
                BY <1>1, <4>1, OneMoreCharacter DEF one, lines, line
            <4> QED
                BY <1>9, <4>2, Zenon DEF longer
        <3>2. CASE ~EndsCr(d)
            <4>1. EndsLine(d, "lf")
                BY <3>2 DEF EndsLine
            <4>2. LinesOf(one) = longer /\ OpenLine(one) = <<>>
                BY <1>1, <4>1, OneMoreCharacter DEF one, longer, lines, line
            <4>3. OpenFrame(longer) = NoFrame
                BY <1>3, <1>10, OneMoreLine DEF longer
            <4>4. EventsOf(Append(longer, <<>>)) = EventsOf(longer)
                BY <1>3, <1>4, <4>3, OneMoreLine
            <4> QED
                BY <1>9, <4>2, <4>4, Zenon
        <3> QED
            BY <3>1, <3>2
    <2> QED
        BY <1>2, <2>1, <2>2, Zenon DEF flushed, d
<1>11. CASE line # <<>>
    <2>1. ~EndsCr(d)
        BY <1>1, <1>11, NoOpenLine DEF line
    <2>2. EndsLine(d, "lf")
        BY <2>1 DEF EndsLine
    <2>3. LinesOf(one) = longer /\ OpenLine(one) = <<>>
        BY <1>1, <2>2, OneMoreCharacter DEF one, longer, lines, line
    <2>4. lined = ProcessLine(flushed)
        BY <1>7, <1>11, Zenon
    <2>6. ProcessLine(lined).out = EventsOf(Append(longer, <<>>))
        BY <1>3, <1>4, <1>8, <2>4, NextLine, Zenon
    <2> QED
        BY <1>2, <1>9, <2>3, <2>6, Zenon DEF flushed, d
<1> QED
    BY <1>10, <1>11

\* However a text is cut into chunks, the parser is where one byte after the other brings it.
FedBytes == fed \in Seq(Bytes)
FedAtOnce == ~finished => [p |-> parser, out |-> events] = FoldLeft(Byte, Fresh, fed)

ParserInv == FedBytes /\ FedAtOnce /\ EventsOfWholeText

\* What the parser returned before the end is the events of the text fed.
LEMMA WholeText ==
    ASSUME NEW text \in Seq(Bytes), NEW p, NEW out, [p |-> p, out |-> out] = FoldLeft(Byte, Fresh, text)
    PROVE  out = EventsOf(LinesOf(Decoded(text) \o <<>>))
<1>1. Decoded(text) \in Seq(Chars) /\ Decoded(text) \o <<>> = Decoded(text)
    BY PendingTold
<1>2. [p |-> p, out |-> out] = Told(Handed(text), Pending(text))
    BY TextTold
<1>3. out = EventsOf(LinesOf(WithoutMark(Handed(text))))
    BY <1>2 DEF Told, Step
<1> QED
    BY <1>1, <1>3, PendingTold, Zenon

\* finalize turns what is pending into the last character.
LEMMA Flushed ==
    ASSUME NEW text \in Seq(Bytes), NEW s, s = FoldLeft(Byte, Fresh, text)
    PROVE  (IF s.p.lead THEN Character([s EXCEPT !.p.lead = FALSE], "bad") ELSE s) =
               Told(Characters(text), FALSE)
<1> DEFINE h == Handed(text)
           l == Pending(text)
<1>1. h \in Seq(Chars) /\ "bad" \in Chars /\ l \in BOOLEAN /\ FALSE \in BOOLEAN
    BY HandedIn DEF Chars, Pending
<1>2. s = Told(h, l)
    BY TextTold, Zenon
<1>3. Characters(text) = IF l THEN Append(h, "bad") ELSE h
    BY CharactersHanded, Zenon
<1> HIDE DEF h, l
<1>4. s.p.lead = l
    BY <1>2 DEF Told, Step
<1>5. CASE l
    <2>1. LeadSet(Told(h, l), FALSE, Told(h, FALSE))
        BY StepFields, Zenon DEF Told
    <2>2. [s EXCEPT !.p.lead = FALSE] = Told(h, FALSE)
        BY <1>2, <2>1, Zenon DEF LeadSet
    <2>3. Character(Told(h, FALSE), "bad") = Told(Append(h, "bad"), FALSE)
        BY <1>1, CharacterTold
    <2> QED
        BY <1>3, <1>4, <1>5, <2>2, <2>3, Zenon
<1>6. CASE ~l
    <2>1. l = FALSE
        BY <1>1, <1>6
    <2> QED
        BY <1>2, <1>3, <1>4, <2>1, Zenon
<1> QED
    BY <1>5, <1>6

LEMMA ParserInvInit == ParserInit => ParserInv
<1> SUFFICES ASSUME ParserInit PROVE ParserInv
    OBVIOUS
<1>1. fed = <<>> /\ <<>> \in Seq(Bytes) /\ ~finished
    BY DEF ParserInit
<1>2. [p |-> parser, out |-> events] = Fresh
    BY DEF ParserInit, Fresh, Step
<1>3. FoldLeft(Byte, Fresh, <<>>) = Fresh
    BY FoldEmpty
<1>4. [p |-> parser, out |-> events] = FoldLeft(Byte, Fresh, fed)
    BY <1>1, <1>2, <1>3, Zenon
<1>5. events = EventsOf(LinesOf(Decoded(fed) \o <<>>))
    BY <1>1, <1>4, WholeText, Zenon
<1> QED
    BY <1>1, <1>4, <1>5, Zenon DEF ParserInv, FedBytes, FedAtOnce, EventsOfWholeText

LEMMA FeedKeeps == ParserInv /\ Feed => ParserInv'
<1> SUFFICES ASSUME ParserInv, Feed PROVE ParserInv'
    OBVIOUS
<1>1. PICK n \in 1..MaxChunk : \E chunk \in [1..n -> Bytes] :
          /\ fed' = fed \o chunk
          /\ parser' = Parsed(chunk).p
          /\ events' = Parsed(chunk).out
    BY DEF Feed
<1>2. PICK chunk \in [1..n -> Bytes] :
          /\ fed' = fed \o chunk
          /\ parser' = Parsed(chunk).p
          /\ events' = Parsed(chunk).out
    BY <1>1
<1>3. chunk \in Seq(Bytes) /\ fed \in Seq(Bytes) /\ ~finished /\ ~finished'
    BY <1>2 DEF ParserInv, FedBytes, Feed
<1>4. Parsed(chunk) = FoldLeft(Byte, FoldLeft(Byte, Fresh, fed), chunk)
    BY <1>3, Zenon DEF Parsed, Resumed, ParserInv, FedAtOnce
<1>5. Parsed(chunk) = FoldLeft(Byte, Fresh, fed')
    BY <1>2, <1>3, <1>4, FoldConcat, Zenon
<1>6. fed' \in Seq(Bytes)
    BY <1>2, <1>3
<1>7. Parsed(chunk) = Told(Handed(fed'), Pending(fed'))
    BY <1>5, <1>6, TextTold, Zenon
<1>8. [p |-> Parsed(chunk).p, out |-> Parsed(chunk).out] = Parsed(chunk)
    <2> DEFINE h == Handed(fed')
               l == Pending(fed')
               s == Parsed(chunk)
    <2> HIDE DEF h, l, s
    <2>1. s = Told(h, l)
        BY <1>7, Zenon DEF h, l, s
    <2>2. [p |-> s.p, out |-> s.out] = s
        BY <2>1 DEF Told, Step
    <2> QED
        BY <2>2, Zenon DEF s
<1>9. [p |-> parser', out |-> events'] = FoldLeft(Byte, Fresh, fed')
    BY <1>2, <1>5, <1>8, Zenon
<1>10. events' = EventsOf(LinesOf(Decoded(fed') \o <<>>))
    BY <1>6, <1>9, WholeText, Zenon
<1> QED
    BY <1>3, <1>6, <1>9, <1>10, Zenon DEF ParserInv, FedBytes, FedAtOnce, EventsOfWholeText

LEMMA FinalizeKeeps == ParserInv /\ Finalize => ParserInv'
<1> SUFFICES ASSUME ParserInv, Finalize PROVE ParserInv'
    OBVIOUS
<1> DEFINE s == [p |-> parser, out |-> events]
           flushed == IF s.p.lead THEN Character([s EXCEPT !.p.lead = FALSE], "bad") ELSE s
           told == Told(Characters(fed), FALSE)
           lined == IF told.p.line = <<>> THEN told ELSE ProcessLine(told)
<1>1. fed \in Seq(Bytes) /\ fed' = fed /\ finished' /\ s = FoldLeft(Byte, Fresh, fed)
    BY DEF ParserInv, FedBytes, FedAtOnce, Finalize
<1>2. flushed = told
    <2> HIDE DEF s
    <2> QED
        BY <1>1, Flushed, Zenon
<1>3. Characters(fed) \in Seq(Chars)
    BY <1>1, CharactersHanded, HandedIn DEF Chars
<1>4. ProcessLine(lined).out = EventsOf(LinesOf(WithoutMark(Characters(fed)) \o <<"lf", "lf">>))
    BY <1>3, EndTold, Zenon
<1>5. parser.lead = s.p.lead
    OBVIOUS
<1>6. events' = ProcessLine(IF flushed.p.line = <<>> THEN flushed ELSE ProcessLine(flushed)).out
    BY <1>5, Zenon DEF Finalize
<1>7. events' = ProcessLine(lined).out
    <2> HIDE DEF flushed, told
    <2> QED
        BY <1>2, <1>6, Zenon
<1> QED
    BY <1>1, <1>4, <1>7, Zenon DEF ParserInv, FedBytes, FedAtOnce, EventsOfWholeText, Decoded

LEMMA ParserInvariant == ParserSpec => []ParserInv
<1>1. ParserInv /\ [ParserNext]_parserVars => ParserInv'
    <2> SUFFICES ASSUME ParserInv, [ParserNext]_parserVars PROVE ParserInv'
        OBVIOUS
    <2>1. CASE UNCHANGED parserVars
        <3>1. parser' = parser /\ events' = events /\ fed' = fed /\ finished' = finished
            BY <2>1 DEF parserVars
        <3> QED
            BY <3>1, Zenon DEF ParserInv, FedBytes, FedAtOnce, EventsOfWholeText
    <2> QED
        BY <2>1, FeedKeeps, FinalizeKeeps DEF ParserNext
<1> QED
    BY <1>1, ParserInvInit, PTL DEF ParserSpec

\* However a text was cut into chunks, the parser is where it would be had it been fed all of it
\* at once: no feed loses, repeats or reinterprets what the one before left (sse.py lines 59-93).
THEOREM ChunkIndependent == ParserSpec => [](FedBytes /\ FedAtOnce)
<1>1. ParserInv => FedBytes /\ FedAtOnce
    BY DEF ParserInv
<1> QED
    BY <1>1, ParserInvariant, PTL

\* The events returned are those that the text as a whole defines, for texts and chunks of
\* every length, before finalize and after it (sse.py lines 59-141).
THEOREM EventsOfWholeTextHolds == ParserSpec => []EventsOfWholeText
<1>1. ParserInv => EventsOfWholeText
    BY DEF ParserInv
<1> QED
    BY <1>1, ParserInvariant, PTL
-----------------------------------------------------------------------------
(* Media types and registries. *)

\* What a range accepts, a wider range accepts.
LEMMA MatchesTransitive ==
    ASSUME NEW r, NEW m, NEW a, Matches(r, m), Matches(m, a)
    PROVE  Matches(r, a)
<1>1. r.type \in {"*", a.type}
    BY DEF Matches
<1>2. CASE r.base = "*" /\ r.suffix = ""
    BY <1>1, <1>2 DEF Matches
<1>3. CASE r.base = m.base /\ r.suffix = m.suffix
    BY <1>1, <1>3 DEF Matches
<1>4. CASE r.base = "*" /\ r.suffix = m.suffix
    BY <1>1, <1>4 DEF Matches
<1> QED
    BY <1>2, <1>3, <1>4 DEF Matches

Codecs == {"json", "cbor", "xml", "yaml", "form", "text", "binary", "custom"}

Registry == Seq(Codecs)

\* A codec of the registry supports the type.
Fit(registry, m) ==
    {i \in 1..Len(registry) : \E supported \in Supports(registry[i]) : Matches(supported, m)}

\* find returns a codec that supports the type, and "none" only when no codec does.
LEMMA FindFits ==
    ASSUME NEW registry \in Registry, NEW m
    PROVE  /\ Find(registry, m) = "none" <=> Fit(registry, m) = {}
           /\ Find(registry, m) # "none" => \E supported \in Supports(Find(registry, m)) : Matches(supported, m)
<1> DEFINE I == Fit(registry, m)
<1>1. Find(registry, m) = LET i == IF I # {} THEN Min(I) ELSE 0 IN IF i = 0 THEN "none" ELSE registry[i]
    BY DEF Find, SelectInSeq, Fit
<1>2. CASE I = {}
    BY <1>1, <1>2
<1>3. CASE I # {}
    <2>1. I \in SUBSET Nat
        BY DEF Registry, Fit
    <2>2. PICK i \in I : i = Min(I)
        BY <1>3, <2>1, MinimumIn
    <2>3. i \in 1..Len(registry) /\ \E supported \in Supports(registry[i]) : Matches(supported, m)
        BY DEF Fit
    <2>4. i # 0 /\ registry[i] \in Codecs
        BY <2>3 DEF Registry
    <2>5. Find(registry, m) = registry[i]
        BY <1>1, <1>3, <2>2, <2>4
    <2> QED
        BY <1>3, <2>3, <2>4, <2>5 DEF Codecs
<1> QED
    BY <1>2, <1>3

\* What a codec supports, it supports for every type of the range.
LEMMA FitNarrows ==
    ASSUME NEW registry, NEW m, NEW a, Matches(m, a), Fit(registry, m) # {}
    PROVE  Fit(registry, a) # {}
<1>1. PICK i \in 1..Len(registry) : \E supported \in Supports(registry[i]) : Matches(supported, m)
    BY DEF Fit
<1>2. PICK supported \in Supports(registry[i]) : Matches(supported, m)
    BY <1>1
<1>3. Matches(supported, a)
    BY <1>2, MatchesTransitive
<1> QED
    BY <1>3 DEF Fit

LEMMA DefaultsType == ASSUME NEW installed PROVE Defaults(installed) \in Registry
<1>1. ASSUME NEW c \in Codecs PROVE Optionally(c, installed) \in Seq(Codecs)
    BY DEF Optionally
<1>2. <<"json">> \in Seq(Codecs) /\ <<"form", "text", "binary">> \in Seq(Codecs)
    BY DEF Codecs
<1>3. /\ Optionally("cbor", installed) \in Seq(Codecs)
      /\ Optionally("xml", installed) \in Seq(Codecs)
      /\ Optionally("yaml", installed) \in Seq(Codecs)
    BY <1>1 DEF Codecs
<1> QED
    BY <1>2, <1>3 DEF Defaults, Registry

\* Registering a codec loses none, first or last.
LEMMA RegisteredKeeps ==
    ASSUME NEW registry \in Registry, NEW codec \in Codecs, NEW first \in BOOLEAN
    PROVE  /\ Registered(registry, codec, first) \in Registry
           /\ \A m : Fit(registry, m) # {} => Fit(Registered(registry, codec, first), m) # {}
<1> DEFINE new == Registered(registry, codec, first)
<1>1. registry \in Seq(Codecs) /\ Len(registry) \in Nat
    BY DEF Registry
<1>2. new \in Seq(Codecs) /\ Len(new) = Len(registry) + 1
    BY <1>1 DEF Registered
<1>3. ASSUME NEW i \in 1..Len(registry)
      PROVE  \E j \in 1..Len(new) : new[j] = registry[i]
    <2>1. CASE first
        <3>1. new = <<codec>> \o registry
            BY <2>1 DEF Registered
        <3>2. i + 1 \in 1..Len(new) /\ new[i + 1] = registry[i]
            BY <1>1, <1>2, <3>1
        <3> QED
            BY <3>2
    <2>2. CASE ~first
        <3>1. new = Append(registry, codec)
            BY <2>2 DEF Registered
        <3>2. i \in 1..Len(new) /\ new[i] = registry[i]
            BY <1>1, <1>2, <3>1
        <3> QED
            BY <3>2
    <2> QED
        BY <2>1, <2>2
<1> HIDE DEF new
<1>4. ASSUME NEW m, Fit(registry, m) # {} PROVE Fit(new, m) # {}
    <2>1. PICK i \in 1..Len(registry) : \E supported \in Supports(registry[i]) : Matches(supported, m)
        BY <1>4 DEF Fit
    <2>2. PICK j \in 1..Len(new) : new[j] = registry[i]
        BY <1>3
    <2> QED
        BY <2>1, <2>2 DEF Fit
<1> QED
    BY <1>2, <1>4 DEF Registry, new
-----------------------------------------------------------------------------
(* Exchanges. *)

RegistriesOK == encoders \in Registry /\ decoders \in Registry

\* What a request under way asks for has a decoder.
AcceptInv ==
    (/\ stage \in {"adapting", "sending"}
     /\ ~op.acceptGiven
     /\ BinaryTypes(op) = {})
        => \A m \in native.accept : Fit(decoders, m) # {}

Unencoded == {"none", "stream", "raw", "multipart"}

\* The content of a request under way is what its header says.
ContentInv ==
    (stage \in {"adapting", "sending"} /\ native.codec \notin Unencoded)
        => \E m \in Supports(native.codec) : Matches(m, native.type)

\* Nothing is executed before there is a transport.
UnopenedInv == transport = "none" => stage = "idle"

ExchangeInv == UnopenedInv /\ RegistriesOK /\ AcceptInv /\ ContentInv /\ NegotiatedDecodes

LEMMA ExchangeInvInit == ExchangeInit => ExchangeInv
<1> SUFFICES ASSUME ExchangeInit PROVE ExchangeInv
    OBVIOUS
<1>1. <<>> \in Registry
    BY DEF Registry
<1>2. encoders = <<>> /\ decoders = <<>> /\ stage = "idle"
    BY DEF ExchangeInit
<1> QED
    BY <1>1, <1>2 DEF ExchangeInv, UnopenedInv, RegistriesOK, AcceptInv, ContentInv, NegotiatedDecodes

\* The candidates of a content type: the application's header is the only one when it is there.
LEMMA CandidateFits ==
    ASSUME NEW o \in Operations, encoders \in Registry, Encodable(o) # 0
    PROVE  LET type == ContentCandidates(o)[Encodable(o)]
               codec == Find(encoders, type) IN
           /\ Header(o, type) = type
           /\ \E m \in Supports(codec) : Matches(m, type)
<1> DEFINE s == ContentCandidates(o)
           I == {i \in 1..Len(s) : Find(encoders, s[i]) # "none"}
           type == s[Encodable(o)]
           codec == Find(encoders, type)
<1>1. s \in Seq(MediaType) \/ s = <<o.explicit>> \/ s = <<DefaultType(o)>>
    <2>1. CASE o.explicit # Absent
        BY <2>1 DEF ContentCandidates
    <2>2. CASE o.explicit = Absent /\ o.types # <<>>
        BY <2>2, ExchangeAssumption DEF ContentCandidates
    <2>3. CASE o.explicit = Absent /\ o.types = <<>>
        BY <2>3 DEF ContentCandidates
    <2> QED
        BY <2>1, <2>2, <2>3
<1>2. Len(s) \in Nat
    BY <1>1
<1>3. Encodable(o) = IF I # {} THEN Min(I) ELSE 0
    BY DEF Encodable, SelectInSeq
<1>4. I # {} /\ I \in SUBSET Nat
    BY <1>2, <1>3
<1>5. Encodable(o) \in I
    BY <1>3, <1>4, MinimumIn
<1>6. Encodable(o) \in 1..Len(s) /\ Find(encoders, s[Encodable(o)]) # "none"
    BY <1>5
<1>7. Header(o, type) = type
    <2>1. CASE o.explicit # Absent
        <3>1. s = <<o.explicit>>
            BY <2>1 DEF ContentCandidates
        <3>2. type = o.explicit
            BY <1>6, <3>1
        <3> QED
            BY <3>2 DEF Header
    <2>2. CASE o.explicit = Absent
        BY <2>2 DEF Header
    <2> QED
        BY <2>1, <2>2
<1>8. \E m \in Supports(codec) : Matches(m, type)
    BY <1>6, FindFits
<1> QED
    BY <1>7, <1>8

\* A request that is built asks for what can be decoded, and its content is of its type.
LEMMA BuiltWell ==
    ASSUME NEW o \in Operations, encoders \in Registry, BuiltRequest(o) # NotBuilt
    PROVE  /\ BuiltRequest(o).accept = Accept(o)
           /\ BuiltRequest(o).codec \notin Unencoded
                => \E m \in Supports(BuiltRequest(o).codec) : Matches(m, BuiltRequest(o).type)
<1> DEFINE Well(r) == /\ r.accept = Accept(o)
                      /\ r.codec \notin Unencoded => \E m \in Supports(r.codec) : Matches(m, r.type)
<1>1. ASSUME NEW type, NEW codec \in Unencoded PROVE Well(Built(o, type, codec))
    BY DEF Built
<1>2. Multipart(o) # NotBuilt => Well(Multipart(o))
    BY <1>1 DEF Multipart, Unencoded
<1>3. Streamed(o) # NotBuilt => Well(Streamed(o))
    BY <1>1 DEF Streamed, Unencoded
<1>4. Well(Built(o, o.explicit, "none"))
    BY <1>1 DEF Unencoded
<1>5. Raw(o) # NotBuilt => Well(Raw(o))
    BY <1>1 DEF Raw, Unencoded
<1>6. Encoded(o) # NotBuilt => Well(Encoded(o))
    <2>1. CASE o.explicit = Invalid \/ Encodable(o) = 0
        BY <1>5, <2>1 DEF Encoded
    <2>2. CASE ~(o.explicit = Invalid \/ Encodable(o) = 0)
        <3> DEFINE type == ContentCandidates(o)[Encodable(o)]
                   codec == Find(encoders, type)
        <3>1. Header(o, type) = type /\ \E m \in Supports(codec) : Matches(m, type)
            BY <2>2, CandidateFits
        <3> HIDE DEF type
        <3>2. Well(Built(o, type, codec))
            BY <3>1 DEF Built
        <3>3. Encoded(o) \in {Built(o, Header(o, type), codec), NotBuilt}
            BY <2>2 DEF Encoded, type
        <3> QED
            BY <3>1, <3>2, <3>3
    <2> QED
        BY <2>1, <2>2
<1>7. BuiltRequest(o) \in {Multipart(o), Streamed(o), Built(o, o.explicit, "none"), Encoded(o)}
    BY DEF BuiltRequest
<1> HIDE DEF Well
<1>8. Well(BuiltRequest(o))
    BY <1>2, <1>3, <1>4, <1>6, <1>7
<1> QED
    BY <1>8 DEF Well

\* Only the want of a decoder fails a response for want of a decoder.
LEMMA Undecoded ==
    ASSUME NEW o, NEW a, Outcome(o, a) = "noDecoder"
    PROVE  Find(decoders, a.type) = "none"
<1>1. Decode(o, a) = "noDecoder"
    BY DEF Outcome
<1>2. ASSUME NEW spec, NEW kind, kind # "noDecoder" PROVE Complete(spec, a, kind) # "noDecoder"
    BY <1>2 DEF Complete
<1>3. \E spec : DecodeBody(spec, a) = "noDecoder"
    BY <1>1, <1>2 DEF Decode
<1> QED
    BY <1>2, <1>3 DEF DecodeBody

\* An execution that ends leaves nothing to promise.
LEMMA ExchangeEnds ==
    ASSUME ExchangeInv, NEW how, EndExchange(how), UNCHANGED <<encoders, decoders, transport>>
    PROVE  ExchangeInv'
BY DEF ExchangeInv, UnopenedInv, EndExchange, RegistriesOK, AcceptInv, ContentInv, NegotiatedDecodes

\* A step within an execution that keeps the request.
LEMMA ExchangeGoesOn ==
    ASSUME ExchangeInv, UNCHANGED <<encoders, decoders, op, native>>,
           transport' = "none" => transport = "none" /\ stage' = stage,
           stage' \in {"adapting", "sending"} => stage \in {"adapting", "sending"},
           stage' = "releasing" => UNCHANGED <<stage, answer, outcome>>
    PROVE  ExchangeInv'
BY DEF ExchangeInv, UnopenedInv, RegistriesOK, AcceptInv, ContentInv, NegotiatedDecodes

LEMMA OpenKeeps ==
    ASSUME ExchangeInv, NEW installed \in SUBSET Optional, Open(installed)
    PROVE  ExchangeInv'
<1>1. encoders' \in Registry /\ decoders' \in Registry
    BY DefaultsType DEF Open
<1>2. stage' = "idle" /\ transport' = "open"
    BY DEF Open, ExchangeInv, UnopenedInv
<1> QED
    BY <1>1, <1>2 DEF ExchangeInv, UnopenedInv, RegistriesOK, AcceptInv, ContentInv, NegotiatedDecodes

LEMMA RegisterKeeps == ExchangeInv /\ RegisterCodec => ExchangeInv'
<1> SUFFICES ASSUME ExchangeInv, RegisterCodec PROVE ExchangeInv'
    OBVIOUS
<1>1. PICK first \in BOOLEAN :
          \/ encoders' = Registered(encoders, "custom", first) /\ UNCHANGED decoders
          \/ decoders' = Registered(decoders, "custom", first) /\ UNCHANGED encoders
    BY DEF RegisterCodec
<1>2. encoders \in Registry /\ decoders \in Registry /\ "custom" \in Codecs
    BY DEF ExchangeInv, RegistriesOK, Codecs
<1>3. encoders' \in Registry /\ decoders' \in Registry
    BY <1>1, <1>2, RegisteredKeeps
<1>4. \A m : Fit(decoders, m) # {} => Fit(decoders', m) # {}
    BY <1>1, <1>2, RegisteredKeeps
<1>5. UNCHANGED <<transport, stage, op, native, answer, outcome>>
    BY DEF RegisterCodec
<1>6. AcceptInv'
    BY <1>4, <1>5 DEF ExchangeInv, AcceptInv
<1> QED
    BY <1>3, <1>5, <1>6 DEF ExchangeInv, UnopenedInv, RegistriesOK, ContentInv, NegotiatedDecodes

LEMMA ExecuteKeeps == ExchangeInv /\ Execute => ExchangeInv'
<1> SUFFICES ASSUME ExchangeInv, Execute PROVE ExchangeInv'
    OBVIOUS
<1>1. UNCHANGED <<encoders, decoders, transport>> /\ transport # "none"
    BY DEF Execute
<1>2. PICK o \in Operations :
          LET request == IF transport = "closed" THEN NotBuilt ELSE BuiltRequest(o) IN
          \/ request = NotBuilt /\ EndExchange("refused")
          \/ /\ request # NotBuilt
             /\ op' = o /\ native' = request
             /\ stage' = "adapting" /\ adapted' = 0
             /\ answer' = Absent /\ outcome' = "none"
    BY DEF Execute
<1>3. CASE EndExchange("refused")
    BY <1>1, <1>3, ExchangeEnds
<1>4. CASE /\ BuiltRequest(o) # NotBuilt
           /\ op' = o /\ native' = BuiltRequest(o)
           /\ stage' = "adapting"
    <2>1. encoders \in Registry /\ decoders \in Registry
        BY DEF ExchangeInv, RegistriesOK
    <2>2. native'.accept = Accept(o)
        BY <1>4, <2>1, BuiltWell
    <2>3. native'.codec \notin Unencoded => \E m \in Supports(native'.codec) : Matches(m, native'.type)
        BY <1>4, <2>1, BuiltWell
    <2>4. ASSUME ~o.acceptGiven, BinaryTypes(o) = {}, NEW m \in Accept(o)
          PROVE  Fit(decoders, m) # {}
        <3>1. Find(decoders, m) # "none"
            BY <2>4 DEF Accept, Acceptable
        <3> QED
            BY <2>1, <3>1, FindFits
    <2>5. AcceptInv'
        BY <1>1, <1>4, <2>2, <2>4 DEF AcceptInv
    <2>6. ContentInv'
        BY <2>3 DEF ContentInv
    <2> QED
        BY <1>1, <1>4, <2>1, <2>5, <2>6 DEF ExchangeInv, UnopenedInv, RegistriesOK, NegotiatedDecodes
<1> QED
    BY <1>2, <1>3, <1>4

LEMMA ReceiveKeeps == ExchangeInv /\ Receive => ExchangeInv'
<1> SUFFICES ASSUME ExchangeInv, Receive PROVE ExchangeInv'
    OBVIOUS
<1>1. PICK a \in Answers : answer' = a.type /\ outcome' = Outcome(op, a)
    BY DEF Receive
<1>2. stage = "sending" /\ stage' = "releasing" /\ UNCHANGED <<encoders, decoders, transport, op, native>>
    BY DEF Receive
<1>3. ASSUME outcome' = "noDecoder", ~op.acceptGiven, BinaryTypes(op) = {}, NEW m \in native.accept
      PROVE  ~Matches(m, a.type)
    <2>1. Fit(decoders, a.type) = {}
        BY <1>1, <1>3, Undecoded, FindFits DEF ExchangeInv, RegistriesOK
    <2>2. Fit(decoders, m) # {}
        BY <1>2, <1>3 DEF ExchangeInv, AcceptInv
    <2> QED
        BY <2>1, <2>2, FitNarrows
<1>4. NegotiatedDecodes'
    BY <1>1, <1>2, <1>3 DEF NegotiatedDecodes
<1> QED
    BY <1>2, <1>4 DEF ExchangeInv, UnopenedInv, RegistriesOK, AcceptInv, ContentInv

LEMMA ExchangeInvStep == ExchangeInv /\ [ExchangeNext]_exchangeVars => ExchangeInv'
<1> SUFFICES ASSUME ExchangeInv, [ExchangeNext]_exchangeVars PROVE ExchangeInv'
    OBVIOUS
<1>1. CASE \E installed \in SUBSET Optional : Open(installed)
    BY <1>1, OpenKeeps
<1>2. CASE RegisterCodec
    BY <1>2, RegisterKeeps
<1>3. CASE RegisterProblem \/ CloseTransport \/ CloseBody
    BY <1>3, ExchangeGoesOn DEF RegisterProblem, CloseTransport, CloseBody
<1>4. CASE Execute
    BY <1>4, ExecuteKeeps
<1>5. CASE Adapt
    <2>1. CASE adapted' = adapted + 1 /\ UNCHANGED <<op, native, stage, answer, outcome>>
        BY <1>5, <2>1, ExchangeGoesOn DEF Adapt
    <2>2. CASE EndExchange("raised")
        BY <1>5, <2>2, ExchangeEnds DEF Adapt
    <2> QED
        BY <1>5, <2>1, <2>2 DEF Adapt
<1>6. CASE Send
    <2>1. CASE transport = "open" /\ stage' = "sending" /\ UNCHANGED <<op, native, adapted, answer, outcome>>
        BY <1>6, <2>1, ExchangeGoesOn DEF Send
    <2>2. CASE EndExchange("raised")
        BY <1>6, <2>2, ExchangeEnds DEF Send
    <2> QED
        BY <1>6, <2>1, <2>2 DEF Send
<1>7. CASE SendFails
    BY <1>7, ExchangeEnds DEF SendFails
<1>8. CASE Receive
    BY <1>8, ReceiveKeeps
<1>9. CASE Release
    BY <1>9, ExchangeEnds DEF Release
<1>10. CASE UNCHANGED exchangeVars
    BY <1>10, ExchangeGoesOn DEF exchangeVars
<1> QED
    BY <1>1, <1>2, <1>3, <1>4, <1>5, <1>6, <1>7, <1>8, <1>9, <1>10 DEF ExchangeNext

LEMMA ExchangeInvariant == ExchangeSpec => []ExchangeInv
BY ExchangeInvInit, ExchangeInvStep, PTL DEF ExchangeSpec

\* NegotiatedDecodes for all operations, answers and registries: a response of a type the
\* transport asked for never fails for want of a decoder (README.md line 188; _transport.py,
\* codecs.py lines 79-88 and 109-118, media.py).
THEOREM NegotiatedDecodesHolds == ExchangeSpec => []NegotiatedDecodes
<1>1. ExchangeInv => NegotiatedDecodes
    BY DEF ExchangeInv
<1> QED
    BY <1>1, ExchangeInvariant, PTL

\* BodyMatchesContentType for all operations and registries: the content of a request is what
\* its Content-Type header says (_transport.py lines 164-228).
THEOREM BodyMatchesContentTypeHolds == ExchangeSpec => []BodyMatchesContentType
<1>1. ExchangeInv => BodyMatchesContentType
    BY DEF ExchangeInv, ContentInv, Unencoded, BodyMatchesContentType
<1> QED
    BY <1>1, ExchangeInvariant, PTL
-----------------------------------------------------------------------------
(* Client settings. *)

Alternatives ==
    UNION {UNION {{Bound(c.base, c.operations[o][i]) : i \in DOMAIN c.operations[o]}
                  : o \in DOMAIN c.operations} : c \in Contracts}

Client ==
    [base : {c.base : c \in Contracts}, wallet : Wallets,
     bindings : UNION {[DOMAIN c.operations -> Alternatives] : c \in Contracts}]

\* The credential a binding of a client was validated against.
Own(client, b) == client.wallet[b.scheme]

Kinds == {"provider", "oauth", "bearer", "basic", "apiKey"}

\* A client that was constructed: a provider name has one scheme, and each binding a credential.
Configured(client) ==
    /\ OwnersDistinct(client)
    /\ \A b \in BindingsOf(client) : b.scheme \in DOMAIN client.wallet /\ Own(client, b).kind \in Kinds

ClientsInv == clients \in Seq(Client) /\ \A n \in 1..Len(clients) : Configured(clients[n])

\* What is stored under a key was acquired with the inputs of the key.
StoreInv ==
    \A key \in DOMAIN store :
        /\ store[key].identity = key[3] /\ store[key].grant = key[4]
        /\ store[key].endpoint = key[6] /\ store[key].scopes = key[7]

LeaseInv == lease # NoLease => lease.client \in 1..Len(clients)

SettingsInv == ClientsInv /\ StoreInv /\ LeaseInv /\ CredentialsIsolated

LEMMA SettingsInvInit == SettingsInit => SettingsInv
<1> SUFFICES ASSUME SettingsInit PROVE SettingsInv
    OBVIOUS
<1>1. clients = <<>> /\ store = <<>> /\ lease = NoLease
    BY DEF SettingsInit
<1>2. ClientsInv
    BY <1>1 DEF ClientsInv
<1>3. DOMAIN store = {}
    BY <1>1
<1> QED
    BY <1>1, <1>2, <1>3 DEF SettingsInv, StoreInv, LeaseInv, CredentialsIsolated

\* A binding keeps its scheme when its endpoint is joined to the base URL.
LEMMA BoundFields ==
    ASSUME NEW c \in Contracts, NEW o \in DOMAIN c.operations, NEW i \in DOMAIN c.operations[o],
           NEW j \in DOMAIN c.operations[o][i]
    PROVE  /\ DOMAIN Bound(c.base, c.operations[o][i]) = DOMAIN c.operations[o][i]
           /\ Bound(c.base, c.operations[o][i])[j].scheme = c.operations[o][i][j].scheme
<1>1. DOMAIN c.operations[o][i][j] = BindingFields
    BY SettingsAssumption
<1>2. "scheme" \in DOMAIN c.operations[o][i][j] /\ "scheme" # "endpoint"
    BY <1>1 DEF BindingFields
<1> QED
    BY <1>2 DEF Bound

LEMMA FitsKind == ASSUME NEW credential, NEW binding, Fits(credential, binding) PROVE credential.kind \in Kinds
BY DEF Fits, Kinds

LEMMA ConfigureKeeps == SettingsInv /\ Configure => SettingsInv'
<1> SUFFICES ASSUME SettingsInv, Configure PROVE SettingsInv'
    OBVIOUS
<1>1. PICK contract \in Contracts, wallet \in Wallets, selection \in Selections :
         LET usable == [o \in DOMAIN contract.operations |-> UsableOf(contract, wallet, selection, o)]
             bindings == [o \in DOMAIN usable |->
                             Bound(contract.base, contract.operations[o][CHOOSE i \in usable[o] : TRUE])]
             client == [base |-> contract.base, wallet |-> wallet, bindings |-> bindings] IN
         /\ DOMAIN selection \subseteq DOMAIN usable
         /\ \A o \in DOMAIN usable : \E i \in usable[o] : usable[o] = {i}
         /\ OwnersDistinct(client)
         /\ clients' = Append(clients, client)
    BY DEF Configure
<1> DEFINE usable == [o \in DOMAIN contract.operations |-> UsableOf(contract, wallet, selection, o)]
           chosen(o) == CHOOSE i \in usable[o] : TRUE
           bindings == [o \in DOMAIN usable |-> Bound(contract.base, contract.operations[o][chosen(o)])]
           client == [base |-> contract.base, wallet |-> wallet, bindings |-> bindings]
<1>2. OwnersDistinct(client) /\ clients' = Append(clients, client)
    BY <1>1
<1>3. ASSUME NEW o \in DOMAIN contract.operations
      PROVE  /\ chosen(o) \in DOMAIN contract.operations[o]
             /\ Usable(contract.operations[o][chosen(o)], wallet)
    <2>1. chosen(o) \in UsableOf(contract, wallet, selection, o)
        BY <1>1
    <2> QED
        BY <2>1 DEF UsableOf, Selected
<1> HIDE DEF chosen
<1>4. bindings \in [DOMAIN contract.operations -> Alternatives]
    BY <1>3 DEF Alternatives
<1>5. client \in Client
    BY <1>4 DEF Client
<1>6. ASSUME NEW b \in BindingsOf(client)
      PROVE  b.scheme \in DOMAIN wallet /\ wallet[b.scheme].kind \in Kinds
    <2>1. PICK o \in DOMAIN contract.operations : \E j \in DOMAIN bindings[o] : b = bindings[o][j]
        BY DEF BindingsOf
    <2>2. PICK j \in DOMAIN bindings[o] : b = bindings[o][j]
        BY <2>1
    <2>3. bindings[o] = Bound(contract.base, contract.operations[o][chosen(o)])
        OBVIOUS
    <2>4. j \in DOMAIN contract.operations[o][chosen(o)]
        BY <2>3 DEF Bound
    <2>5. b.scheme = contract.operations[o][chosen(o)][j].scheme
        BY <1>3, <2>2, <2>3, <2>4, BoundFields
    <2> QED
        BY <1>3, <2>4, <2>5, FitsKind DEF Usable
<1>7. Configured(client)
    BY <1>2, <1>6 DEF Configured, Own
<1> HIDE DEF client
<1>8. clients \in Seq(Client) /\ Len(clients) \in Nat
    BY DEF SettingsInv, ClientsInv
<1>9. /\ clients' \in Seq(Client) /\ Len(clients') = Len(clients) + 1
      /\ clients'[Len(clients) + 1] = client
      /\ \A n \in 1..Len(clients) : clients'[n] = clients[n]
    BY <1>2, <1>5, <1>8
<1>10. ClientsInv'
    BY <1>7, <1>8, <1>9 DEF SettingsInv, ClientsInv
<1>11. UNCHANGED <<store, lease>>
    BY DEF Configure
<1>12. LeaseInv' /\ StoreInv'
    BY <1>8, <1>9, <1>11 DEF SettingsInv, LeaseInv, StoreInv
<1>13. CredentialsIsolated'
    <2> SUFFICES ASSUME lease # NoLease PROVE CredentialsIsolated'
        BY <1>11 DEF CredentialsIsolated
    <2>1. clients'[lease.client] = clients[lease.client]
        BY <1>9 DEF SettingsInv, LeaseInv
    <2> QED
        BY <1>11, <2>1 DEF SettingsInv, CredentialsIsolated
<1> QED
    BY <1>10, <1>12, <1>13 DEF SettingsInv

\* The provider of a binding has the credential of the scheme of that binding.
LEMMA ProviderOwns ==
    ASSUME NEW client \in Client, Configured(client), NEW b \in BindingsOf(client), NEW n,
           NEW p, p = Provider(client, b.provider, n)
    PROVE  /\ p.grant = Own(client, b).grant
           /\ p.identity = IF Own(client, b).kind \in {"bearer", "basic", "apiKey"}
                           THEN <<"uuid", n, b.provider>> ELSE Own(client, b).identity
           /\ p.endpoint = IF Own(client, b).kind = "oauth" THEN Joined(client.base, Own(client, b).endpoint)
                           ELSE Own(client, b).endpoint
<1> DEFINE owner == CHOOSE a \in BindingsOf(client) : a.provider = b.provider
<1>1. owner \in BindingsOf(client) /\ owner.provider = b.provider
    OBVIOUS
<1> HIDE DEF owner
<1>2. owner.scheme = b.scheme
    BY <1>1 DEF Configured, OwnersDistinct
<1>3. PICK c : c = Own(client, b)
    OBVIOUS
<1>4. DOMAIN c = CredentialFields
    BY <1>3, SettingsAssumption DEF Configured, Own, Client
<1>5. p = [c EXCEPT !.endpoint = IF c.kind = "oauth" THEN Joined(client.base, @) ELSE @,
                    !.identity = IF c.kind \in {"bearer", "basic", "apiKey"} THEN <<"uuid", n, b.provider>> ELSE @]
    BY <1>2, <1>3 DEF Provider, Own, owner
<1>6. {"grant", "identity", "endpoint"} \subseteq DOMAIN c
    BY <1>4 DEF CredentialFields
<1>7. p.grant = c.grant
    BY <1>5, <1>6
<1>8. p.identity = IF c.kind \in {"bearer", "basic", "apiKey"} THEN <<"uuid", n, b.provider>> ELSE c.identity
    BY <1>5, <1>6
<1>9. p.endpoint = IF c.kind = "oauth" THEN Joined(client.base, c.endpoint) ELSE c.endpoint
    BY <1>5, <1>6
<1> QED
    BY <1>3, <1>7, <1>8, <1>9

LEMMA AttachKeeps == SettingsInv /\ Attach => SettingsInv'
<1> SUFFICES ASSUME SettingsInv, Attach PROVE SettingsInv'
    OBVIOUS
<1>0. PICK n \in DOMAIN clients : \E b \in BindingsOf(clients[n]) :
         LET p == Provider(clients[n], b.provider, n)
             key == CacheKey(b, p)
             token == IF key \in DOMAIN store THEN store[key] ELSE Issued(b, p) IN
         /\ store' = [k \in DOMAIN store \cup {key} |-> IF k = key THEN token ELSE store[k]]
         /\ lease' = [client |-> n, binding |-> b, token |-> token]
    BY DEF Attach
<1>1. PICK b \in BindingsOf(clients[n]) :
         LET p == Provider(clients[n], b.provider, n)
             key == CacheKey(b, p)
             token == IF key \in DOMAIN store THEN store[key] ELSE Issued(b, p) IN
         /\ store' = [k \in DOMAIN store \cup {key} |-> IF k = key THEN token ELSE store[k]]
         /\ lease' = [client |-> n, binding |-> b, token |-> token]
    BY <1>0
<1>2. PICK p : p = Provider(clients[n], b.provider, n)
    OBVIOUS
<1>3. PICK key : key = CacheKey(b, p)
    OBVIOUS
<1>4. PICK token : token = IF key \in DOMAIN store THEN store[key] ELSE Issued(b, p)
    OBVIOUS
<1>5. /\ store' = [k \in DOMAIN store \cup {key} |-> IF k = key THEN token ELSE store[k]]
      /\ lease' = [client |-> n, binding |-> b, token |-> token]
      /\ clients' = clients
    BY <1>1, <1>2, <1>3, <1>4 DEF Attach
<1>6. key[3] = p.identity /\ key[4] = p.grant /\ key[6] = Endpoint(b, p) /\ key[7] = b.scopes
    BY <1>3 DEF CacheKey
<1>7. /\ token.identity = key[3] /\ token.grant = key[4]
      /\ token.endpoint = key[6] /\ token.scopes = key[7]
    <2>1. CASE key \in DOMAIN store
        BY <1>4, <2>1 DEF SettingsInv, StoreInv
    <2>2. CASE key \notin DOMAIN store
        BY <1>4, <1>6, <2>2 DEF Issued
    <2> QED
        BY <2>1, <2>2
<1>8. StoreInv'
    BY <1>5, <1>7 DEF SettingsInv, StoreInv
<1>9. n \in 1..Len(clients) /\ clients[n] \in Client /\ Configured(clients[n])
    BY DEF SettingsInv, ClientsInv
<1>10. ClientsInv' /\ LeaseInv'
    BY <1>5, <1>9 DEF SettingsInv, ClientsInv, LeaseInv
<1>11. PICK own : own = Own(clients[n], b)
    OBVIOUS
<1>12. /\ p.grant = own.grant
       /\ p.identity = IF own.kind \in {"bearer", "basic", "apiKey"} THEN <<"uuid", n, b.provider>> ELSE own.identity
       /\ p.endpoint = IF own.kind = "oauth" THEN Joined(clients[n].base, own.endpoint) ELSE own.endpoint
    BY <1>2, <1>9, <1>11, ProviderOwns
<1>13. own.kind \in Kinds /\ clients[n].base # "absent"
    BY <1>9, <1>11, SettingsAssumption DEF Configured, Client
<1>14. /\ own.kind \in {"oauth", "provider"} => token.identity = own.identity
       /\ own.kind \notin {"oauth", "provider"} => token.identity = <<"uuid", n, b.provider>>
       /\ token.grant = own.grant
       /\ token.scopes = b.scopes
    BY <1>6, <1>7, <1>12, <1>13 DEF Kinds
<1>15. /\ own.endpoint = "absent" => token.endpoint = b.endpoint
       /\ (own.kind = "oauth" /\ own.endpoint = "relative") => token.endpoint = clients[n].base
       /\ (own.kind = "provider" /\ own.endpoint # "absent") => token.endpoint = own.endpoint
    BY <1>6, <1>7, <1>12, <1>13 DEF Endpoint, Joined
<1>16. /\ lease'.client = n /\ lease'.binding = b /\ lease'.token = token
       /\ clients'[lease'.client].wallet[lease'.binding.scheme] = own
    BY <1>5, <1>11 DEF Own
<1>17. CredentialsIsolated'
    BY <1>5, <1>14, <1>15, <1>16 DEF CredentialsIsolated
<1> QED
    BY <1>8, <1>10, <1>17 DEF SettingsInv

LEMMA SettingsInvStep == SettingsInv /\ [SettingsNext]_settingsVars => SettingsInv'
<1>1. SettingsInv /\ UNCHANGED settingsVars => SettingsInv'
    BY DEF settingsVars, SettingsInv, ClientsInv, StoreInv, LeaseInv, CredentialsIsolated
<1> QED
    BY <1>1, ConfigureKeeps, AttachKeeps DEF SettingsNext

\* CredentialsIsolated for all contracts, wallets and selections: whatever shares the store, a
\* binding gets a token that the credential of its own scheme pays for, of its own session,
\* server and scopes (README.md line 160; token_manager.py _resolve, client_settings.py).
THEOREM CredentialsIsolatedHolds == SettingsSpec => []CredentialsIsolated
<1>1. SettingsInv => CredentialsIsolated
    BY DEF SettingsInv
<1> QED
    BY <1>1, SettingsInvInit, SettingsInvStep, PTL DEF SettingsSpec
=============================================================================
