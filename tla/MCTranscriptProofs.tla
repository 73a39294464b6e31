------------------------- MODULE MCTranscriptProofs -------------------------
(***************************************************************************)
(* Theorems about the transcript of the page (SetupTranscript), for any    *)
(* number of runs, messages, parts and calls: what was shown of a run      *)
(* stays as it is when the run ends, and what the page offers is accepted. *)
(* With them the types of the whole run of the page are proved.  The lists *)
(* of the transcript are flattened and selected from others; what that     *)
(* does to a list is shown by induction over lists, stated with a set of   *)
(* lists.                                                                  *)
(***************************************************************************)
EXTENDS MCSetupPageProofs

(***************************************************************************)
(* SetupTranscript: lists that are flattened                               *)
(***************************************************************************)

\* A set of numbers up to n that holds 0, and each number with the one before it, holds all of
\* them: the least that is missing would be neither 0 nor a successor.
LEMMA UpToAll ==
  ASSUME NEW n \in Nat, NEW S, 0 \in S, \A k \in 1..n : k - 1 \in S => k \in S
  PROVE  0..n \subseteq S
<1> DEFINE T == {k \in 0..n : k \notin S}
<1>1. CASE T = {}
  BY <1>1
<1>2. ASSUME T # {} PROVE FALSE
  <2>1. T \in SUBSET Nat
    OBVIOUS
  <2>2. PICK k \in T : \A l \in T : k <= l
    BY <1>2, <2>1, LeastNumber
  <2>3. k # 0 /\ k \in 1..n /\ k - 1 \in 0..n
    OBVIOUS
  <2>4. k - 1 \notin T
    BY <2>2, <2>3
  <2>5. k - 1 \in S
    BY <2>3, <2>4
  <2>6. QED
    BY <2>3, <2>5
<1>3. QED
  BY <1>1, <1>2

\* A set of lists that holds the empty one, and each list with one more element, holds all.
LEMMA AllLists ==
  ASSUME NEW X, NEW L, <<>> \in L,
         \A s \in Seq(X), x \in X : s \in L => Append(s, x) \in L
  PROVE  Seq(X) \subseteq L
<1> SUFFICES ASSUME NEW s \in Seq(X) PROVE s \in L
  OBVIOUS
<1> DEFINE n == Len(s)
           S == {k \in 0..n : SubSeq(s, 1, k) \in L}
<1>1. n \in Nat
  OBVIOUS
<1>2. 0 \in S
  <2>1. SubSeq(s, 1, 0) = <<>>
    OBVIOUS
  <2>2. 0 \in 0..n
    BY <1>1
  <2>3. QED
    BY <2>1, <2>2
<1>3. ASSUME NEW k \in 1..n, k - 1 \in S PROVE k \in S
  <2>1. /\ SubSeq(s, 1, k - 1) \in Seq(X) /\ s[k] \in X
        /\ SubSeq(s, 1, k) = Append(SubSeq(s, 1, k - 1), s[k])
    BY <1>1
  <2>2. SubSeq(s, 1, k - 1) \in L /\ k \in 0..n
    BY <1>3
  <2>3. SubSeq(s, 1, k) \in L
    BY <2>1, <2>2
  <2>4. QED
    BY <2>2, <2>3
<1>4. 0..n \subseteq S
  <2> HIDE DEF S, n
  <2>1. QED
    BY <1>1, <1>2, <1>3, UpToAll
<1>5. SubSeq(s, 1, n) \in L
  BY <1>1, <1>4
<1>6. SubSeq(s, 1, n) = s
  OBVIOUS
<1>7. QED
  BY <1>5, <1>6

Flat(f) == Dialogue!FlattenSeq(f)

\* What has been flattened after each of the first n lists.
Flattening(g, f, n) == g = [k \in 1..n |-> IF k = 1 THEN f[k] ELSE g[k - 1] \o f[k]]

LEMMA FlatteningExists == ASSUME NEW f, NEW n \in Nat PROVE \E g : Flattening(g, f, n)
<1> DEFINE S == {k \in 0..n : \E g : Flattening(g, f, k)}
<1>1. 0 \in S
  <2> DEFINE g == [k \in 1..0 |-> <<>>]
  <2>1. g = [k \in 1..0 |-> IF k = 1 THEN f[k] ELSE g[k - 1] \o f[k]]
    OBVIOUS
  <2>2. Flattening(g, f, 0)
    <3> HIDE DEF g
    <3>1. QED
      BY <2>1, Zenon DEF Flattening
  <2>3. QED
    BY <2>2
<1>2. ASSUME NEW k \in 1..n, k - 1 \in S PROVE k \in S
  <2>1. PICK g : Flattening(g, f, k - 1)
    BY <1>2
  <2> DEFINE h == [l \in 1..k |-> IF l = k THEN (IF k = 1 THEN f[k] ELSE g[k - 1] \o f[k]) ELSE g[l]]
  <2>2. ASSUME NEW l \in 1..k
        PROVE  h[l] = IF l = 1 THEN f[l] ELSE h[l - 1] \o f[l]
    <3>1. CASE l = k
      <4>1. h[k] = IF k = 1 THEN f[k] ELSE g[k - 1] \o f[k]
        OBVIOUS
      <4>2. k # 1 => k - 1 \in 1..k /\ k - 1 # k
        OBVIOUS
      <4>3. k # 1 => h[k - 1] = g[k - 1]
        BY <4>2
      <4> HIDE DEF h
      <4>4. QED
        BY <3>1, <4>1, <4>3
    <3>2. CASE l # k
      <4>1. l \in 1..k - 1
        BY <3>2
      <4>2. h[l] = g[l]
        BY <3>2
      <4>3. g[l] = IF l = 1 THEN f[l] ELSE g[l - 1] \o f[l]
        BY <2>1, <4>1, Zenon DEF Flattening
      <4>4. l # 1 => l - 1 \in 1..k /\ l - 1 # k
        BY <4>1
      <4>5. l # 1 => h[l - 1] = g[l - 1]
        BY <4>4
      <4> HIDE DEF h
      <4>6. QED
        BY <4>2, <4>3, <4>5
    <3>3. QED
      BY <3>1, <3>2
  <2>3. h = [l \in 1..k |-> IF l = 1 THEN f[l] ELSE h[l - 1] \o f[l]]
    <3>1. h = [l \in 1..k |-> h[l]]
      OBVIOUS
    <3> HIDE DEF h
    <3>2. QED
      BY <2>2, <3>1, Zenon
  <2>4. Flattening(h, f, k)
    <3> HIDE DEF h
    <3>1. QED
      BY <2>3, Zenon DEF Flattening
  <2>5. QED
    BY <2>4
<1>3. 0..n \subseteq S
  <2> HIDE DEF S
  <2>1. QED
    BY <1>1, <1>2, UpToAll
<1>4. n \in S
  BY <1>3
<1>5. QED
  BY <1>4

LEMMA FlatIs ==
  ASSUME NEW f, Len(f) \in Nat, Len(f) # 0
  PROVE  \E g : Flattening(g, f, Len(f)) /\ Flat(f) = g[Len(f)]
<1> DEFINE g == CHOOSE g : g = [k \in 1..Len(f) |-> IF k = 1 THEN f[k] ELSE g[k - 1] \o f[k]]
<1>1. \E h : h = [k \in 1..Len(f) |-> IF k = 1 THEN f[k] ELSE h[k - 1] \o f[k]]
  BY FlatteningExists DEF Flattening
<1>2. g = [k \in 1..Len(f) |-> IF k = 1 THEN f[k] ELSE g[k - 1] \o f[k]]
  BY <1>1, Zenon
<1>3. Flat(f) = g[Len(f)]
  BY DEF Flat, Dialogue!FlattenSeq
<1>4. Flattening(g, f, Len(f))
  <2> HIDE DEF g
  <2>1. QED
    BY <1>2, Zenon DEF Flattening
<1>5. QED
  BY <1>3, <1>4

LEMMA FlatteningsAgree ==
  ASSUME NEW f, NEW e, NEW n \in Nat, NEW g, NEW h,
         Flattening(g, f, n), Flattening(h, e, n + 1), \A k \in 1..n : f[k] = e[k]
  PROVE  \A k \in 1..n : g[k] = h[k]
<1> DEFINE S == {k \in 0..n : k # 0 => g[k] = h[k]}
<1>1. 0 \in S
  OBVIOUS
<1>2. ASSUME NEW k \in 1..n, k - 1 \in S PROVE k \in S
  <2>1. k \in 1..n + 1 /\ k \in 0..n /\ (k # 1 => k - 1 # 0)
    OBVIOUS
  <2>2. g[k] = IF k = 1 THEN f[k] ELSE g[k - 1] \o f[k]
    BY <2>1, Zenon DEF Flattening
  <2>3. h[k] = IF k = 1 THEN e[k] ELSE h[k - 1] \o e[k]
    BY <2>1, Zenon DEF Flattening
  <2>4. k # 1 => g[k - 1] = h[k - 1]
    BY <1>2, <2>1
  <2>5. g[k] = h[k]
    BY <2>2, <2>3, <2>4
  <2>6. QED
    BY <2>1, <2>5
<1>3. 0..n \subseteq S
  <2> HIDE DEF S
  <2>1. QED
    BY <1>1, <1>2, UpToAll
<1>4. QED
  BY <1>3

LEMMA FlatEmpty == Flat(<<>>) = <<>>
BY DEF Flat, Dialogue!FlattenSeq

LEMMA FlatAppend ==
  ASSUME NEW S, NEW f \in Seq(Seq(S)), NEW s \in Seq(S)
  PROVE  Flat(Append(f, s)) = Flat(f) \o s
<1> DEFINE n == Len(f)
           e == Append(f, s)
<1>1. n \in Nat /\ Len(e) = n + 1 /\ e[n + 1] = s /\ \A k \in 1..n : e[k] = f[k]
  OBVIOUS
<1>2. PICK h : Flattening(h, e, n + 1) /\ Flat(e) = h[n + 1]
  <2>1. Len(e) \in Nat /\ Len(e) # 0
    BY <1>1
  <2> HIDE DEF e, n
  <2>2. QED
    BY <1>1, <2>1, FlatIs
<1>3. h[n + 1] = IF n + 1 = 1 THEN e[n + 1] ELSE h[(n + 1) - 1] \o e[n + 1]
  <2>1. n + 1 \in 1..n + 1
    BY <1>1
  <2> HIDE DEF e, n
  <2>2. QED
    BY <1>2, <2>1, Zenon DEF Flattening
<1>4. CASE n = 0
  <2>1. f = <<>> /\ <<>> \o s = s
    BY <1>4
  <2>2. Flat(e) = s
    BY <1>1, <1>2, <1>3, <1>4
  <2>3. QED
    BY <2>1, <2>2, FlatEmpty
<1>5. CASE n # 0
  <2>1. PICK g : Flattening(g, f, n) /\ Flat(f) = g[n]
    BY <1>1, <1>5, FlatIs
  <2>2. \A k \in 1..n : g[k] = h[k]
    <3> HIDE DEF e, n
    <3>1. QED
      BY <1>1, <1>2, <2>1, FlatteningsAgree
  <2>3. n \in 1..n /\ (n + 1) - 1 = n /\ n + 1 # 1
    BY <1>1, <1>5
  <2>4. Flat(e) = h[n] \o s
    <3> HIDE DEF e, n
    <3>1. QED
      BY <1>1, <1>2, <1>3, <2>3
  <2>5. QED
    BY <2>1, <2>2, <2>3, <2>4
<1>6. QED
  BY <1>4, <1>5

LEMMA FlatType == ASSUME NEW S, NEW f \in Seq(Seq(S)) PROVE Flat(f) \in Seq(S)
<1> DEFINE L == {e \in Seq(Seq(S)) : Flat(e) \in Seq(S)}
<1>1. <<>> \in L
  <2>1. <<>> \in Seq(Seq(S)) /\ <<>> \in Seq(S)
    OBVIOUS
  <2>2. QED
    BY <2>1, FlatEmpty
<1>2. ASSUME NEW e \in Seq(Seq(S)), NEW s \in Seq(S), e \in L PROVE Append(e, s) \in L
  <2>1. Flat(Append(e, s)) = Flat(e) \o s
    BY FlatAppend
  <2>2. Flat(e) \o s \in Seq(S)
    BY <1>2
  <2>3. Append(e, s) \in Seq(Seq(S))
    OBVIOUS
  <2>4. QED
    BY <2>1, <2>2, <2>3
<1>3. Seq(Seq(S)) \subseteq L
  <2> HIDE DEF L
  <2>1. QED
    BY <1>1, <1>2, AllLists
<1>4. QED
  BY <1>3

\* What a list becomes when a function puts a list in the place of each element.
\* The function gives each element of X a list of elements of T.
Maps(m, X, T) == m \in [X -> Seq(T)]

LEMMA MapsTo == ASSUME NEW m, NEW X, NEW T, Maps(m, X, T), NEW x \in X PROVE m[x] \in Seq(T)
BY DEF Maps

Through(m, list) == Flat([i \in DOMAIN list |-> m[list[i]]])

LEMMA ThroughEmpty == ASSUME NEW m PROVE Through(m, <<>>) = <<>>
<1>1. [i \in DOMAIN <<>> |-> m[(<<>>)[i]]] = <<>>
  OBVIOUS
<1>2. QED
  BY <1>1, FlatEmpty DEF Through

LEMMA EachThrough ==
  ASSUME NEW X, NEW Y, NEW m \in [X -> Y], NEW list \in Seq(X)
  PROVE  [i \in DOMAIN list |-> m[list[i]]] \in Seq(Y)
<1>1. DOMAIN list = 1..Len(list) /\ Len(list) \in Nat /\ \A i \in 1..Len(list) : list[i] \in X
  OBVIOUS
<1>2. [i \in 1..Len(list) |-> m[list[i]]] \in [1..Len(list) -> Y]
  BY <1>1
<1>3. QED
  BY <1>1, <1>2

LEMMA EachAppend ==
  ASSUME NEW X, NEW Y, NEW u, u \in [X -> Y], NEW list \in Seq(X), NEW x \in X
  PROVE  [i \in DOMAIN Append(list, x) |-> u[Append(list, x)[i]]]
           = Append([i \in DOMAIN list |-> u[list[i]]], u[x])
<1> DEFINE e == [i \in DOMAIN list |-> u[list[i]]]
           n == Len(list)
<1>1. e \in Seq(Y) /\ u[x] \in Y
  BY EachThrough
<1>2. n \in Nat /\ DOMAIN list = 1..n /\ DOMAIN Append(list, x) = 1..n + 1
  OBVIOUS
<1>3. Len(e) = n
  BY <1>2
<1>4. DOMAIN Append(e, u[x]) = 1..n + 1 /\ Append(e, u[x])[n + 1] = u[x]
      /\ \A i \in 1..n : Append(e, u[x])[i] = e[i]
  BY <1>1, <1>3
<1>5. Append(e, u[x]) = [i \in 1..n + 1 |-> Append(e, u[x])[i]]
  <2>1. Append(e, u[x]) \in Seq(Y)
    BY <1>1
  <2> HIDE DEF e
  <2>2. QED
    BY <1>4, <2>1
<1>6. ASSUME NEW i \in 1..n + 1 PROVE u[Append(list, x)[i]] = Append(e, u[x])[i]
  <2>1. CASE i = n + 1
    <3>1. Append(list, x)[i] = x
      BY <2>1
    <3>2. QED
      BY <1>4, <2>1, <3>1
  <2>2. CASE i # n + 1
    <3>1. i \in 1..n /\ Append(list, x)[i] = list[i]
      BY <1>2, <2>2
    <3>2. e[i] = u[list[i]]
      BY <1>2, <3>1
    <3>3. QED
      BY <1>4, <3>1, <3>2
  <2>3. QED
    BY <2>1, <2>2
<1> HIDE DEF e
<1>7. QED
  BY <1>2, <1>5, <1>6 DEF e

LEMMA ThroughAppend ==
  ASSUME NEW X, NEW T, NEW m, Maps(m, X, T), NEW list \in Seq(X), NEW x \in X
  PROVE  Through(m, Append(list, x)) = Through(m, list) \o m[x]
<1> DEFINE e == [i \in DOMAIN list |-> m[list[i]]]
<1>1. e \in Seq(Seq(T)) /\ m[x] \in Seq(T)
  BY EachThrough, MapsTo DEF Maps
<1>2. [i \in DOMAIN Append(list, x) |-> m[Append(list, x)[i]]] = Append(e, m[x])
  BY EachAppend DEF Maps
<1>3. Flat(Append(e, m[x])) = Flat(e) \o m[x]
  BY <1>1, FlatAppend
<1>4. QED
  BY <1>2, <1>3 DEF Through

LEMMA ThroughType ==
  ASSUME NEW X, NEW T, NEW m, Maps(m, X, T), NEW list \in Seq(X)
  PROVE  Through(m, list) \in Seq(T)
<1>1. [i \in DOMAIN list |-> m[list[i]]] \in Seq(Seq(T))
  BY EachThrough DEF Maps
<1>2. QED
  BY <1>1, FlatType DEF Through

LEMMA ThroughOne ==
  ASSUME NEW X, NEW T, NEW m, Maps(m, X, T), NEW x \in X
  PROVE  Through(m, <<x>>) = m[x]
<1>1. <<>> \in Seq(X) /\ Append(<<>>, x) = <<x>>
  OBVIOUS
<1>2. Through(m, Append(<<>>, x)) = Through(m, <<>>) \o m[x]
  BY <1>1, ThroughAppend
<1>3. m[x] \in Seq(T) /\ <<>> \o m[x] = m[x]
  BY MapsTo
<1>4. QED
  BY <1>1, <1>2, <1>3, ThroughEmpty

LEMMA Concatenated ==
  ASSUME NEW S, NEW a \in Seq(S), NEW b \in Seq(S)
  PROVE  a \o b \in Seq(S) /\ a \o <<>> = a /\ <<>> \o a = a
OBVIOUS

LEMMA Associated ==
  ASSUME NEW S, NEW a \in Seq(S), NEW b \in Seq(S), NEW c \in Seq(S)
  PROVE  (a \o b) \o c = a \o (b \o c)
OBVIOUS

LEMMA AppendedLater ==
  ASSUME NEW S, NEW a \in Seq(S), NEW b \in Seq(S), NEW x \in S
  PROVE  a \o Append(b, x) = Append(a \o b, x) /\ Append(b, x) = b \o <<x>>
OBVIOUS

LEMMA ThroughConcat ==
  ASSUME NEW X, NEW T, NEW m, Maps(m, X, T), NEW a \in Seq(X), NEW b \in Seq(X)
  PROVE  Through(m, a \o b) = Through(m, a) \o Through(m, b)
<1> DEFINE L == {s \in Seq(X) : Through(m, a \o s) = Through(m, a) \o Through(m, s)}
<1>1. <<>> \in L
  <2>1. Through(m, a) \in Seq(T)
    BY ThroughType, MapsTo
  <2>2. <<>> \in Seq(X) /\ a \o <<>> = a /\ Through(m, a) \o <<>> = Through(m, a)
    BY <2>1
  <2>3. QED
    BY <2>2, ThroughEmpty
<1>2. ASSUME NEW s \in Seq(X), NEW x \in X, s \in L PROVE Append(s, x) \in L
  <2>1. a \o s \in Seq(X) /\ a \o Append(s, x) = Append(a \o s, x) /\ Append(s, x) \in Seq(X)
    OBVIOUS
  <2>2. Through(m, Append(a \o s, x)) = Through(m, a \o s) \o m[x]
    <3> DEFINE c == a \o s
    <3>1. c \in Seq(X)
      BY <2>1
    <3> HIDE DEF c
    <3>2. Through(m, Append(c, x)) = Through(m, c) \o m[x]
      BY <3>1, ThroughAppend
    <3>3. QED
      BY <3>2 DEF c
  <2>3. Through(m, Append(s, x)) = Through(m, s) \o m[x]
    BY ThroughAppend
  <2>4. Through(m, a) \in Seq(T) /\ Through(m, s) \in Seq(T) /\ m[x] \in Seq(T)
    BY ThroughType, MapsTo
  <2>5. (Through(m, a) \o Through(m, s)) \o m[x] = Through(m, a) \o (Through(m, s) \o m[x])
    <3> DEFINE c == Through(m, a)
               d == Through(m, s)
               e == m[x]
    <3>1. c \in Seq(T) /\ d \in Seq(T) /\ e \in Seq(T)
      BY <2>4
    <3> HIDE DEF c, d, e
    <3>2. (c \o d) \o e = c \o (d \o e)
      BY <3>1, Associated
    <3>3. QED
      BY <3>2 DEF c, d, e
  <2>6. Through(m, a \o s) = Through(m, a) \o Through(m, s)
    BY <1>2
  <2>7. QED
    BY <2>1, <2>2, <2>3, <2>5, <2>6
<1>3. Seq(X) \subseteq L
  <2> HIDE DEF L
  <2>1. QED
    BY <1>1, <1>2, AllLists
<1>4. QED
  BY <1>3

\* One function after the other.
LEMMA ThroughBoth ==
  ASSUME NEW X, NEW Y, NEW T, NEW m, Maps(m, X, Y), NEW w, Maps(w, Y, T), NEW v, Maps(v, X, T),
         \A x \in X : v[x] = Through(w, m[x]), NEW list \in Seq(X)
  PROVE  Through(w, Through(m, list)) = Through(v, list)
<1> DEFINE L == {s \in Seq(X) : Through(w, Through(m, s)) = Through(v, s)}
<1>1. <<>> \in L
  <2>1. <<>> \in Seq(X)
    OBVIOUS
  <2>2. QED
    BY <2>1, ThroughEmpty
<1>2. ASSUME NEW s \in Seq(X), NEW x \in X, s \in L PROVE Append(s, x) \in L
  <2>1. Through(m, Append(s, x)) = Through(m, s) \o m[x]
    BY ThroughAppend
  <2>2. Through(m, s) \in Seq(Y) /\ m[x] \in Seq(Y)
    BY ThroughType, MapsTo
  <2>3. Through(w, Through(m, s) \o m[x]) = Through(w, Through(m, s)) \o Through(w, m[x])
    BY <2>2, ThroughConcat
  <2>4. Through(v, Append(s, x)) = Through(v, s) \o v[x]
    BY ThroughAppend
  <2>5. Append(s, x) \in Seq(X)
    OBVIOUS
  <2>6. QED
    BY <1>2, <2>1, <2>3, <2>4, <2>5
<1>3. Seq(X) \subseteq L
  <2> HIDE DEF L
  <2>1. QED
    BY <1>1, <1>2, AllLists
<1>4. QED
  BY <1>3

\* Only what is done with the elements of the list matters.
LEMMA ThroughAgree ==
  ASSUME NEW list, NEW m, NEW w, \A i \in DOMAIN list : m[list[i]] = w[list[i]]
  PROVE  Through(m, list) = Through(w, list)
<1>1. [i \in DOMAIN list |-> m[list[i]]] = [i \in DOMAIN list |-> w[list[i]]]
  OBVIOUS
<1>2. QED
  BY <1>1, Zenon DEF Through

Elements(list) == {list[i] : i \in DOMAIN list}

LEMMA ElementsOf ==
  ASSUME NEW X, NEW a \in Seq(X), NEW b \in Seq(X)
  PROVE  Elements(a \o b) = Elements(a) \cup Elements(b)
<1>1. /\ DOMAIN a = 1..Len(a) /\ DOMAIN b = 1..Len(b) /\ DOMAIN (a \o b) = 1..Len(a) + Len(b)
      /\ Len(a) \in Nat /\ Len(b) \in Nat
      /\ \A i \in 1..Len(a) : (a \o b)[i] = a[i]
      /\ \A i \in 1..Len(b) : (a \o b)[Len(a) + i] = b[i]
  OBVIOUS
<1>2. ASSUME NEW i \in DOMAIN (a \o b) PROVE (a \o b)[i] \in Elements(a) \cup Elements(b)
  <2>1. CASE i \in 1..Len(a)
    BY <1>1, <2>1 DEF Elements
  <2>2. CASE i \notin 1..Len(a)
    <3>1. i - Len(a) \in 1..Len(b) /\ i = Len(a) + (i - Len(a))
      BY <1>1, <2>2
    <3>2. (a \o b)[i] = b[i - Len(a)]
      BY <1>1, <3>1
    <3>3. QED
      BY <1>1, <3>1, <3>2 DEF Elements
  <2>3. QED
    BY <2>1, <2>2
<1>3. ASSUME NEW i \in DOMAIN a PROVE a[i] \in Elements(a \o b)
  <2>1. i \in DOMAIN (a \o b) /\ (a \o b)[i] = a[i]
    BY <1>1
  <2>2. QED
    BY <2>1 DEF Elements
<1>4. ASSUME NEW i \in DOMAIN b PROVE b[i] \in Elements(a \o b)
  <2>1. Len(a) + i \in DOMAIN (a \o b) /\ (a \o b)[Len(a) + i] = b[i]
    BY <1>1
  <2>2. QED
    BY <2>1 DEF Elements
<1>5. QED
  BY <1>2, <1>3, <1>4 DEF Elements

LEMMA ElementsOfOne ==
  ASSUME NEW x
  PROVE  Elements(<<x>>) = {x} /\ Elements(<<>>) = {}
BY DEF Elements

LEMMA ElementsAppend ==
  ASSUME NEW X, NEW a \in Seq(X), NEW x \in X
  PROVE  Elements(Append(a, x)) = Elements(a) \cup {x}
<1>1. Append(a, x) = a \o <<x>> /\ <<x>> \in Seq(X)
  OBVIOUS
<1>2. Elements(a \o <<x>>) = Elements(a) \cup Elements(<<x>>)
  BY <1>1, ElementsOf
<1>3. Elements(<<x>>) = {x}
  BY ElementsOfOne
<1>4. QED
  BY <1>1, <1>2, <1>3

LEMMA ElementsThrough ==
  ASSUME NEW X, NEW T, NEW m, Maps(m, X, T), NEW list \in Seq(X)
  PROVE  \A y : y \in Elements(Through(m, list)) <=> \E x \in Elements(list) : y \in Elements(m[x])
<1> DEFINE L == {s \in Seq(X) : Elements(Through(m, s)) = UNION {Elements(m[x]) : x \in Elements(s)}}
<1>1. <<>> \in L
  <2>1. <<>> \in Seq(X) /\ Elements(<<>>) = {}
    BY DEF Elements
  <2>2. UNION {Elements(m[x]) : x \in {}} = {}
    OBVIOUS
  <2>3. Elements(Through(m, <<>>)) = {}
    BY <2>1, ThroughEmpty
  <2>4. QED
    BY <2>1, <2>2, <2>3
<1>2. ASSUME NEW s \in Seq(X), NEW x \in X, s \in L PROVE Append(s, x) \in L
  <2>1. Through(m, Append(s, x)) = Through(m, s) \o m[x]
    BY ThroughAppend
  <2>2. Through(m, s) \in Seq(T) /\ m[x] \in Seq(T)
    BY ThroughType, MapsTo
  <2>3. Elements(Through(m, s) \o m[x]) = Elements(Through(m, s)) \cup Elements(m[x])
    BY <2>2, ElementsOf
  <2>4. Elements(Append(s, x)) = Elements(s) \cup {x}
    BY ElementsAppend
  <2>5. Append(s, x) \in Seq(X)
    OBVIOUS
  <2>6. UNION {Elements(m[y]) : y \in Elements(s) \cup {x}}
          = (UNION {Elements(m[y]) : y \in Elements(s)}) \cup Elements(m[x])
    OBVIOUS
  <2>7. Elements(Through(m, s)) = UNION {Elements(m[y]) : y \in Elements(s)}
    BY <1>2
  <2>8. QED
    BY <2>1, <2>3, <2>4, <2>5, <2>6, <2>7
<1>3. Seq(X) \subseteq L
  <2> HIDE DEF L
  <2>1. QED
    BY <1>1, <1>2, AllLists
<1>4. Elements(Through(m, list)) = UNION {Elements(m[x]) : x \in Elements(list)}
  BY <1>3
<1>5. QED
  BY <1>4

LEMMA ElementsIn == ASSUME NEW X, NEW list \in Seq(X) PROVE Elements(list) \subseteq X
BY DEF Elements

\* A function that puts each element in its own place.
Each(u, list) == [i \in DOMAIN list |-> u[list[i]]]

LEMMA ThroughSingles ==
  ASSUME NEW X, NEW Y, NEW u, u \in [X -> Y], NEW m, Maps(m, X, Y), \A x \in X : m[x] = <<u[x]>>,
         NEW list \in Seq(X)
  PROVE  Through(m, list) = Each(u, list)
<1> DEFINE L == {s \in Seq(X) : Through(m, s) = Each(u, s)}
<1>1. <<>> \in L
  <2>1. <<>> \in Seq(X) /\ [i \in DOMAIN <<>> |-> u[(<<>>)[i]]] = <<>>
    OBVIOUS
  <2>2. QED
    BY <2>1, ThroughEmpty DEF Each
<1>2. ASSUME NEW s \in Seq(X), NEW x \in X, s \in L PROVE Append(s, x) \in L
  <2> DEFINE e == Each(u, s)
  <2>1. Through(m, Append(s, x)) = Through(m, s) \o m[x]
    BY ThroughAppend
  <2>2. Through(m, s) = e /\ m[x] = <<u[x]>>
    BY <1>2
  <2>3. e \in Seq(Y) /\ u[x] \in Y
    BY EachThrough DEF Each
  <2>4. e \o <<u[x]>> = Append(e, u[x])
    <3> HIDE DEF e
    <3>1. QED
      BY <2>3
  <2>5. Each(u, Append(s, x)) = Append(e, u[x])
    BY EachAppend DEF Each
  <2>6. Append(s, x) \in Seq(X)
    OBVIOUS
  <2> HIDE DEF e
  <2>7. QED
    BY <2>1, <2>2, <2>4, <2>5, <2>6
<1>3. Seq(X) \subseteq L
  <2> HIDE DEF L
  <2>1. QED
    BY <1>1, <1>2, AllLists
<1>4. QED
  BY <1>3

LEMMA ThroughSame ==
  ASSUME NEW X, NEW list \in Seq(X), NEW m, \A x \in X : m[x] = <<x>>
  PROVE  Through(m, list) = list
<1> DEFINE v == [x \in X |-> <<x>>]
           L == {s \in Seq(X) : Through(v, s) = s}
<1>1. Maps(v, X, X)
  <2>1. \A x \in X : <<x>> \in Seq(X)
    OBVIOUS
  <2>2. QED
    BY <2>1 DEF Maps
<1>2. \A x \in X : v[x] = <<x>>
  OBVIOUS
<1> HIDE DEF v
<1>3. <<>> \in L
  <2>1. <<>> \in Seq(X)
    OBVIOUS
  <2>2. QED
    BY <2>1, ThroughEmpty
<1>4. ASSUME NEW s \in Seq(X), NEW x \in X, s \in L PROVE Append(s, x) \in L
  <2>1. Through(v, Append(s, x)) = Through(v, s) \o v[x]
    BY <1>1, ThroughAppend
  <2>2. Append(s, x) = s \o <<x>> /\ Append(s, x) \in Seq(X)
    OBVIOUS
  <2>3. QED
    BY <1>2, <1>4, <2>1, <2>2
<1>5. Seq(X) \subseteq L
  <2> HIDE DEF L
  <2>1. QED
    BY <1>3, <1>4, AllLists
<1>6. \A i \in DOMAIN list : m[list[i]] = v[list[i]]
  <2>1. \A i \in DOMAIN list : list[i] \in X
    OBVIOUS
  <2>2. QED
    BY <1>2, <2>1
<1>7. Through(m, list) = Through(v, list)
  BY <1>6, ThroughAgree
<1>8. QED
  BY <1>5, <1>7

LEMMA LastOf ==
  ASSUME NEW X, NEW s \in Seq(X), s # <<>>
  PROVE  \E front \in Seq(X) :
           /\ s[Len(s)] \in X /\ s = Append(front, s[Len(s)])
           /\ \A y \in X : [s EXCEPT ![Len(s)] = y] = Append(front, y)
<1> DEFINE n == Len(s)
           front == SubSeq(s, 1, n - 1)
<1>1. n \in Nat \ {0} /\ DOMAIN s = 1..n /\ s[n] \in X
  OBVIOUS
<1>2. front \in Seq(X) /\ Len(front) = n - 1 /\ \A i \in 1..n - 1 : front[i] = s[i]
  BY <1>1
<1>3. ASSUME NEW y \in X PROVE [s EXCEPT ![n] = y] = Append(front, y)
  <2> HIDE DEF front, n
  <2>1. /\ Append(front, y) \in Seq(X) /\ Len(Append(front, y)) = n
        /\ Append(front, y)[n] = y /\ \A i \in 1..n - 1 : Append(front, y)[i] = front[i]
    BY <1>1, <1>2
  <2>2. Append(front, y) = [i \in 1..n |-> Append(front, y)[i]]
    <3> DEFINE z == Append(front, y)
    <3>1. z \in Seq(X) /\ Len(z) = n
      BY <2>1
    <3> HIDE DEF z
    <3>2. z = [i \in 1..n |-> z[i]]
      BY <3>1
    <3>3. QED
      BY <3>2 DEF z
  <2>3. [s EXCEPT ![n] = y] = [i \in 1..n |-> IF i = n THEN y ELSE s[i]]
    BY <1>1
  <2>4. \A i \in 1..n : Append(front, y)[i] = IF i = n THEN y ELSE s[i]
    BY <1>1, <1>2, <2>1
  <2>5. QED
    BY <2>2, <2>3, <2>4
<1>4. s = [s EXCEPT ![n] = s[n]]
  BY <1>1
<1> HIDE DEF front
<1>5. QED
  BY <1>1, <1>2, <1>3, <1>4

(***************************************************************************)
(* SetupTranscript: the invariant                                          *)
(***************************************************************************)

\* Texts and calls are numbered alike.
Token == Dialogue!Numbers
Part ==
  [kind: {"text"}, text: Seq(Token)] \cup [kind: {"call"}, id: Token, name: Dialogue!Names]
AgentMessage ==
  [role: {"user"}, run: 1..MaxRuns] \cup [role: {"assistant"}, parts: Seq(Part)]
    \cup [role: {"toolResult"}, id: Token, ok: BOOLEAN]
Deed ==
  [type: {"session_start", "question_answer", "feedback", "confirmation"},
   target: 0..MaxParts, run: 1..MaxRuns]
Outcomes == {"pending", "running", "ok", "error"}
Shown ==
  [id: Token, name: Dialogue!Names \cup {"unknown"},
   status: {"pending", "running", "completed"}, error: BOOLEAN]
Item == [kind: {"assistant"}, tokens: Seq(Token)] \cup [kind: {"tool"}, id: Token]

RunState ==
  [pc: {"idle", "streaming", "executing", "ended"}, number: 0..MaxRuns, made: 0..MaxParts,
   input: Deed, said: Seq(AgentMessage), parts: Seq(Part), exec: Seq(Outcomes),
   cut: BOOLEAN, restarted: BOOLEAN]

DialogueTyped ==
  /\ history \in Seq(AgentMessage) /\ actions \in Seq(Deed)
  /\ run \in RunState
  /\ shot \in [text: Seq(Token), tools: Seq(Shown)]
  /\ order \in Seq(Item) /\ whole \in BOOLEAN

\* The calls of the message under way.
Calls == Dialogue!CallsOf(run.parts)

PhaseFits ==
  /\ run.pc = "idle" => run.said = <<>>
  /\ run.pc \in {"idle", "ended"} => run.parts = <<>>
  /\ run.pc = "executing" => Len(run.exec) = Len(Calls)
  /\ run.pc # "executing" => run.exec = <<>>

\* What messages call, and what they say of the result.
Says(messages, c) ==
  \E m \in Elements(messages) : m.role = "assistant" /\ c \in Elements(m.parts)
Knows(messages, id, ok) == Dialogue!ToolResult(id, ok) \in Elements(messages)
IdsOf(messages) ==
  {id \in Token : \/ \E name \in Dialogue!Names : Says(messages, Dialogue!CallPart(id, name))
                  \/ \E ok \in BOOLEAN : Knows(messages, id, ok)}

\* Each call has an id of its own, which only answers to it name.
IdsFit ==
  /\ \A i, j \in DOMAIN Calls : Calls[i].id = Calls[j].id => i = j
  /\ \A i \in DOMAIN Calls : Calls[i].id \notin IdsOf(run.said) \cup IdsOf(history)
  /\ \A i \in DOMAIN Calls : Calls[i].id <= run.made
  /\ \A id \in IdsOf(run.said) \cup IdsOf(history) : id <= run.made
  /\ IdsOf(run.said) \cap IdsOf(history) = {}
  /\ \A d \in Elements(actions) : d.target \in {0} \cup IdsOf(history)
  /\ run.input.target \in {0} \cup IdsOf(history)

\* Messages and actions of the user are those of earlier runs.
LastRun == IF run.pc = "idle" THEN run.number ELSE run.number - 1

InputFits ==
  \/ run.input = Dialogue!Start
  \/ /\ run.input.type # "session_start" /\ run.input.run = run.number
     /\ run.input.type = "question_answer" =>
          Says(history, Dialogue!CallPart(run.input.target, "present_question"))

UsersFit ==
  /\ \A m \in Elements(run.said) : m.role # "user"
  /\ \A d \in Elements(actions) : d.run <= LastRun
  /\ \A m \in Elements(history) : m.role = "user" => m.run <= LastRun
  /\ run.pc # "idle" => InputFits

\* The snapshot shows each call of the run as it stands.
Display(c, outcome) ==
  [id |-> c.id, name |-> c.name, error |-> outcome = "error",
   status |-> CASE outcome = "pending" -> "pending" [] outcome = "running" -> "running"
                [] OTHER -> "completed"]
Outcome(i) == IF run.pc = "executing" THEN run.exec[i] ELSE "pending"

Settles(id, name, ok) ==
  /\ Knows(run.said, id, ok) /\ ~Knows(run.said, id, ~ok)
  /\ Display(Dialogue!CallPart(id, name), IF ok THEN "ok" ELSE "error") \in Elements(shot.tools)

ToolsFit ==
  /\ \A i, j \in DOMAIN shot.tools : shot.tools[i].id = shot.tools[j].id => i = j
  /\ \A t \in Elements(shot.tools) : t.id <= run.made
  /\ \A i \in DOMAIN Calls : Display(Calls[i], Outcome(i)) \in Elements(shot.tools)
  /\ ~run.cut =>
       \A id \in Token, name \in Dialogue!Names :
         Says(run.said, Dialogue!CallPart(id, name)) => \E ok \in BOOLEAN : Settles(id, name, ok)

\* The steps of a run, one text or call each, as the run has made them and as the page
\* has followed them.
Step == [kind: {"assistant"}, token: Token] \cup [kind: {"tool"}, id: Token]

StepsOfPart ==
  [p \in Part |-> IF p.kind = "text" THEN Dialogue!TextEntries(p.text)
                                     ELSE <<Dialogue!ToolItem(p.id)>>]
StepsOfMessage ==
  [m \in AgentMessage |-> IF m.role = "assistant" THEN Through(StepsOfPart, m.parts) ELSE <<>>]
StepsOfItem ==
  [x \in Item |-> IF x.kind = "assistant" THEN Dialogue!TextEntries(x.tokens) ELSE <<x>>]

Made     == Through(StepsOfMessage, run.said) \o Through(StepsOfPart, run.parts)
Followed == Through(StepsOfItem, order)

OfSort(kind) == [s \in Step |-> IF s.kind = kind THEN <<s>> ELSE <<>>]

\* A page that has followed each event knows the order; any other one that of the texts and that
\* of the calls, as the snapshot does.
Follows(followed, made, text, tools, complete) ==
  /\ complete => followed = made
  /\ \A kind \in {"assistant", "tool"} :
       Through(OfSort(kind), followed) = Through(OfSort(kind), made)
  /\ Through(OfSort("assistant"), made) = Dialogue!TextEntries(text)
  /\ Through(OfSort("tool"), made) = [i \in DOMAIN tools |-> Dialogue!ToolItem(tools[i].id)]

StepsFit == Follows(Followed, Made, shot.text, shot.tools, whole)

DialogueInv == DialogueTyped /\ PhaseFits /\ IdsFit /\ UsersFit /\ ToolsFit /\ StepsFit

LEMMA TokenBounds ==
  /\ MaxRuns \in Nat /\ 1 <= MaxRuns /\ MaxParts \in Nat
  /\ Token = 1..MaxParts /\ Token \subseteq Nat
BY ClientAssumption, TranscriptAssumption DEF Token, Dialogue!Numbers

(***************************************************************************)
(* The functions on the elements of the lists                              *)
(***************************************************************************)
TextStep == [kind: {"assistant"}, token: Token]

LEMMA EntriesOf ==
  ASSUME NEW tokens \in Seq(Token)
  PROVE  /\ Dialogue!TextEntries(tokens) \in Seq(Step)
         /\ Dialogue!TextEntries(tokens) \in Seq(TextStep)
         /\ \A n \in Token : Dialogue!TextEntries(Append(tokens, n))
              = Append(Dialogue!TextEntries(tokens), [kind |-> "assistant", token |-> n])
<1> DEFINE u == [n \in Token |-> [kind |-> "assistant", token |-> n]]
<1>1. u \in [Token -> Step] /\ u \in [Token -> TextStep]
  BY DEF Step, TextStep
<1>2. ASSUME NEW list \in Seq(Token)
      PROVE  Dialogue!TextEntries(list) = [i \in DOMAIN list |-> u[list[i]]]
  BY DEF Dialogue!TextEntries
<1>3. \A n \in Token : u[n] = [kind |-> "assistant", token |-> n]
  OBVIOUS
<1> HIDE DEF u
<1>4. Dialogue!TextEntries(tokens) \in Seq(Step) /\ Dialogue!TextEntries(tokens) \in Seq(TextStep)
  BY <1>1, <1>2, EachThrough
<1>5. ASSUME NEW n \in Token
      PROVE  Dialogue!TextEntries(Append(tokens, n))
               = Append(Dialogue!TextEntries(tokens), [kind |-> "assistant", token |-> n])
  <2>1. Append(tokens, n) \in Seq(Token)
    OBVIOUS
  <2>2. [i \in DOMAIN Append(tokens, n) |-> u[Append(tokens, n)[i]]]
          = Append([i \in DOMAIN tokens |-> u[tokens[i]]], u[n])
    BY <1>1, EachAppend
  <2>3. QED
    BY <1>2, <1>3, <2>1, <2>2
<1>6. QED
  BY <1>4, <1>5

LEMMA EntriesOfNone == Dialogue!TextEntries(<<>>) = <<>>
BY DEF Dialogue!TextEntries

Call == [kind: {"call"}, id: Token, name: Dialogue!Names]

CallOfPart == [p \in Part |-> IF p.kind = "call" THEN <<p>> ELSE <<>>]

LEMMA MapCallOfPart == Maps(CallOfPart, Part, Call)
<1>1. ASSUME NEW p \in Part PROVE (IF p.kind = "call" THEN <<p>> ELSE <<>>) \in Seq(Call)
  <2>1. p.kind = "call" => p \in Call
    BY DEF Part, Call
  <2>2. \A c \in Call : <<c>> \in Seq(Call)
    OBVIOUS
  <2>3. <<>> \in Seq(Call)
    OBVIOUS
  <2>4. QED
    BY <2>1, <2>2, <2>3
<1>2. QED
  BY <1>1 DEF Maps, CallOfPart

LEMMA MapStepsOfPart == Maps(StepsOfPart, Part, Step)
<1>1. ASSUME NEW p \in Part
      PROVE  (IF p.kind = "text" THEN Dialogue!TextEntries(p.text)
                                 ELSE <<Dialogue!ToolItem(p.id)>>) \in Seq(Step)
  <2>1. CASE p.kind = "text"
    <3>1. p.text \in Seq(Token)
      BY <2>1 DEF Part
    <3>2. QED
      BY <2>1, <3>1, EntriesOf
  <2>2. CASE p.kind # "text"
    <3>1. p.id \in Token
      BY <2>2 DEF Part
    <3>2. Dialogue!ToolItem(p.id) \in Step
      BY <3>1 DEF Dialogue!ToolItem, Step
    <3>3. QED
      BY <2>2, <3>2
  <2>3. QED
    BY <2>1, <2>2
<1>2. QED
  BY <1>1 DEF Maps, StepsOfPart

LEMMA MapStepsOfMessage == Maps(StepsOfMessage, AgentMessage, Step)
<1>1. ASSUME NEW m \in AgentMessage
      PROVE  (IF m.role = "assistant" THEN Through(StepsOfPart, m.parts) ELSE <<>>) \in Seq(Step)
  <2>1. m.role = "assistant" => m.parts \in Seq(Part)
    BY DEF AgentMessage
  <2>2. <<>> \in Seq(Step)
    OBVIOUS
  <2>3. QED
    BY <2>1, <2>2, MapStepsOfPart, ThroughType
<1>2. QED
  BY <1>1 DEF Maps, StepsOfMessage

LEMMA MapStepsOfItem == Maps(StepsOfItem, Item, Step)
<1>1. ASSUME NEW x \in Item
      PROVE  (IF x.kind = "assistant" THEN Dialogue!TextEntries(x.tokens) ELSE <<x>>) \in Seq(Step)
  <2>1. CASE x.kind = "assistant"
    <3>1. x.tokens \in Seq(Token)
      BY <2>1 DEF Item
    <3>2. QED
      BY <2>1, <3>1, EntriesOf
  <2>2. CASE x.kind # "assistant"
    <3>1. x \in Step
      BY <2>2 DEF Item, Step
    <3>2. QED
      BY <2>2, <3>1
  <2>3. QED
    BY <2>1, <2>2
<1>2. QED
  BY <1>1 DEF Maps, StepsOfItem

LEMMA MapOfSort == ASSUME NEW kind PROVE Maps(OfSort(kind), Step, Step)
<1>1. \A s \in Step : <<s>> \in Seq(Step)
  OBVIOUS
<1>2. <<>> \in Seq(Step)
  OBVIOUS
<1>3. \A s \in Step : (IF s.kind = kind THEN <<s>> ELSE <<>>) \in Seq(Step)
  BY <1>1, <1>2
<1>4. QED
  BY <1>3 DEF Maps, OfSort

LEMMA CallsAre ==
  ASSUME NEW parts \in Seq(Part)
  PROVE  /\ Dialogue!CallsOf(parts) = Through(CallOfPart, parts)
         /\ Dialogue!CallsOf(parts) \in Seq(Call)
         /\ \A c : c \in Elements(Dialogue!CallsOf(parts)) <=> c \in Elements(parts) /\ c.kind = "call"
<1>1. \A i \in DOMAIN parts : parts[i] \in Part
  OBVIOUS
<1>2. [i \in DOMAIN parts |-> IF parts[i].kind = "call" THEN <<parts[i]>> ELSE <<>>]
        = [i \in DOMAIN parts |-> CallOfPart[parts[i]]]
  BY <1>1 DEF CallOfPart
<1>3. Dialogue!CallsOf(parts) = Through(CallOfPart, parts)
  BY <1>2 DEF Dialogue!CallsOf, Dialogue!Only, Through, Flat
<1>4. Dialogue!CallsOf(parts) \in Seq(Call)
  BY <1>3, MapCallOfPart, ThroughType
<1>5. ASSUME NEW p \in Part, NEW c PROVE c \in Elements(CallOfPart[p]) <=> c = p /\ p.kind = "call"
  <2>1. CallOfPart[p] = IF p.kind = "call" THEN <<p>> ELSE <<>>
    BY DEF CallOfPart
  <2>2. Elements(<<p>>) = {p} /\ Elements(<<>>) = {}
    BY ElementsOfOne
  <2>3. QED
    BY <2>1, <2>2
<1>6. \A c : c \in Elements(Through(CallOfPart, parts))
               <=> \E p \in Elements(parts) : c \in Elements(CallOfPart[p])
  BY MapCallOfPart, ElementsThrough
<1>7. Elements(parts) \subseteq Part
  BY ElementsIn
<1>8. \A c : c \in Elements(Dialogue!CallsOf(parts)) <=> c \in Elements(parts) /\ c.kind = "call"
  BY <1>3, <1>5, <1>6, <1>7
<1>9. QED
  BY <1>3, <1>4, <1>8

LEMMA SortOfOne ==
  ASSUME NEW s \in Step, NEW kind
  PROVE  OfSort(kind)[s] = IF s.kind = kind THEN <<s>> ELSE <<>>
BY DEF OfSort

LEMMA SortAppend ==
  ASSUME NEW list \in Seq(Step), NEW s \in Step, NEW kind
  PROVE  Through(OfSort(kind), Append(list, s))
           = IF s.kind = kind THEN Append(Through(OfSort(kind), list), s)
                              ELSE Through(OfSort(kind), list)
<1> DEFINE a == Through(OfSort(kind), list)
<1>1. a \in Seq(Step)
  BY MapOfSort, ThroughType
<1>2. Through(OfSort(kind), Append(list, s)) = a \o OfSort(kind)[s]
  BY MapOfSort, ThroughAppend
<1> HIDE DEF a
<1>3. a \o <<s>> = Append(a, s) /\ a \o <<>> = a
  BY <1>1
<1>4. QED
  BY <1>2, <1>3, SortOfOne DEF a

LEMMA IdsAppend ==
  ASSUME NEW S, NEW tools \in Seq(S), NEW t \in S
  PROVE  [i \in DOMAIN Append(tools, t) |-> Dialogue!ToolItem(Append(tools, t)[i].id)]
           = Append([i \in DOMAIN tools |-> Dialogue!ToolItem(tools[i].id)], Dialogue!ToolItem(t.id))
<1> DEFINE Y == {Dialogue!ToolItem(x.id) : x \in S}
           u == [x \in S |-> Dialogue!ToolItem(x.id)]
<1>1. u \in [S -> Y]
  OBVIOUS
<1>2. \A x \in S : u[x] = Dialogue!ToolItem(x.id)
  OBVIOUS
<1> HIDE DEF u, Y
<1>3. [i \in DOMAIN Append(tools, t) |-> u[Append(tools, t)[i]]]
        = Append([i \in DOMAIN tools |-> u[tools[i]]], u[t])
  BY <1>1, EachAppend
<1>4. [i \in DOMAIN Append(tools, t) |-> u[Append(tools, t)[i]]]
        = [i \in DOMAIN Append(tools, t) |-> Dialogue!ToolItem(Append(tools, t)[i].id)]
  <2>1. Append(tools, t) \in Seq(S)
    OBVIOUS
  <2>2. \A i \in DOMAIN Append(tools, t) : Append(tools, t)[i] \in S
    BY <2>1
  <2>3. QED
    BY <1>2, <2>2
<1>5. [i \in DOMAIN tools |-> u[tools[i]]] = [i \in DOMAIN tools |-> Dialogue!ToolItem(tools[i].id)]
  <2>1. \A i \in DOMAIN tools : tools[i] \in S
    OBVIOUS
  <2>2. QED
    BY <1>2, <2>1
<1>6. QED
  BY <1>2, <1>3, <1>4, <1>5

LEMMA FollowsNothing == Follows(<<>>, <<>>, <<>>, <<>>, TRUE)
<1>1. [i \in DOMAIN <<>> |-> Dialogue!ToolItem((<<>>)[i].id)] = <<>>
  OBVIOUS
<1>2. QED
  BY <1>1, ThroughEmpty, EntriesOfNone DEF Follows

LEMMA FollowsText ==
  ASSUME NEW followed \in Seq(Step), NEW made \in Seq(Step), NEW text \in Seq(Token), NEW tools,
         NEW complete, Follows(followed, made, text, tools, complete), NEW n \in Token
  PROVE  LET e == [kind |-> "assistant", token |-> n] IN
         Follows(Append(followed, e), Append(made, e), Append(text, n), tools, complete)
<1> DEFINE e == [kind |-> "assistant", token |-> n]
<1>1. e \in Step /\ e.kind = "assistant"
  BY DEF Step
<1> HIDE DEF e
<1>2. \A kind : Through(OfSort(kind), Append(followed, e))
        = IF e.kind = kind THEN Append(Through(OfSort(kind), followed), e) ELSE Through(OfSort(kind), followed)
  BY <1>1, SortAppend
<1>3. \A kind : Through(OfSort(kind), Append(made, e))
        = IF e.kind = kind THEN Append(Through(OfSort(kind), made), e) ELSE Through(OfSort(kind), made)
  BY <1>1, SortAppend
<1>4. Dialogue!TextEntries(Append(text, n)) = Append(Dialogue!TextEntries(text), e)
  BY EntriesOf DEF e
<1>5. Follows(Append(followed, e), Append(made, e), Append(text, n), tools, complete)
  BY <1>1, <1>2, <1>3, <1>4 DEF Follows
<1>6. QED
  BY <1>5 DEF e

LEMMA FollowsCall ==
  ASSUME NEW followed \in Seq(Step), NEW made \in Seq(Step), NEW text, NEW tools \in Seq(Shown),
         NEW complete, Follows(followed, made, text, tools, complete), NEW t \in Shown
  PROVE  LET e == Dialogue!ToolItem(t.id) IN
         Follows(Append(followed, e), Append(made, e), text, Append(tools, t), complete)
<1> DEFINE e == Dialogue!ToolItem(t.id)
<1>1. e \in Step /\ e.kind = "tool"
  BY DEF Step, Shown, Dialogue!ToolItem
<1>2. [i \in DOMAIN Append(tools, t) |-> Dialogue!ToolItem(Append(tools, t)[i].id)]
        = Append([i \in DOMAIN tools |-> Dialogue!ToolItem(tools[i].id)], e)
  BY IdsAppend
<1> HIDE DEF e
<1>3. \A kind : Through(OfSort(kind), Append(followed, e))
        = IF e.kind = kind THEN Append(Through(OfSort(kind), followed), e) ELSE Through(OfSort(kind), followed)
  BY <1>1, SortAppend
<1>4. \A kind : Through(OfSort(kind), Append(made, e))
        = IF e.kind = kind THEN Append(Through(OfSort(kind), made), e) ELSE Through(OfSort(kind), made)
  BY <1>1, SortAppend
<1>5. Follows(Append(followed, e), Append(made, e), text, Append(tools, t), complete)
  BY <1>1, <1>2, <1>3, <1>4 DEF Follows
<1>6. QED
  BY <1>5 DEF e

LEMMA SortOfTexts ==
  ASSUME NEW list \in Seq(TextStep)
  PROVE  Through(OfSort("assistant"), list) = list /\ Through(OfSort("tool"), list) = <<>>
<1> DEFINE M == {s \in Seq(TextStep) :
                   Through(OfSort("assistant"), s) = s /\ Through(OfSort("tool"), s) = <<>>}
<1>1. <<>> \in M
  <2>1. <<>> \in Seq(TextStep)
    OBVIOUS
  <2>2. QED
    BY <2>1, ThroughEmpty
<1>2. ASSUME NEW s \in Seq(TextStep), NEW x \in TextStep, s \in M PROVE Append(s, x) \in M
  <2>1. Append(s, x) \in Seq(TextStep) /\ s \in Seq(Step)
    <3>1. TextStep \subseteq Step
      BY DEF TextStep, Step
    <3>2. QED
      BY <3>1
  <2>2. x \in Step /\ x.kind = "assistant"
    BY DEF Step, TextStep
  <2>3. QED
    BY <1>2, <2>1, <2>2, SortAppend
<1>3. Seq(TextStep) \subseteq M
  <2> HIDE DEF M
  <2>1. QED
    BY <1>1, <1>2, AllLists
<1>4. QED
  BY <1>3

ToolStep == [kind: {"tool"}, id: Token]

LEMMA SortOfTools ==
  ASSUME NEW list \in Seq(ToolStep)
  PROVE  Through(OfSort("tool"), list) = list /\ Through(OfSort("assistant"), list) = <<>>
<1> DEFINE M == {s \in Seq(ToolStep) :
                   Through(OfSort("tool"), s) = s /\ Through(OfSort("assistant"), s) = <<>>}
<1>1. <<>> \in M
  <2>1. <<>> \in Seq(ToolStep)
    OBVIOUS
  <2>2. QED
    BY <2>1, ThroughEmpty
<1>2. ASSUME NEW s \in Seq(ToolStep), NEW x \in ToolStep, s \in M PROVE Append(s, x) \in M
  <2>1. Append(s, x) \in Seq(ToolStep) /\ s \in Seq(Step)
    <3>1. ToolStep \subseteq Step
      BY DEF ToolStep, Step
    <3>2. QED
      BY <3>1
  <2>2. x \in Step /\ x.kind = "tool"
    BY DEF Step, ToolStep
  <2>3. QED
    BY <1>2, <2>1, <2>2, SortAppend
<1>3. Seq(ToolStep) \subseteq M
  <2> HIDE DEF M
  <2>1. QED
    BY <1>1, <1>2, AllLists
<1>4. QED
  BY <1>3

LEMMA ItemsAppend ==
  ASSUME NEW items \in Seq(Item), NEW x \in Item
  PROVE  /\ Through(StepsOfItem, items) \in Seq(Step) /\ StepsOfItem[x] \in Seq(Step)
         /\ Through(StepsOfItem, Append(items, x)) = Through(StepsOfItem, items) \o StepsOfItem[x]
BY MapStepsOfItem, MapsTo, ThroughType, ThroughAppend

\* A page that goes on with a snapshot shows the texts first, then the calls.
LEMMA FollowsAgain ==
  ASSUME NEW followed \in Seq(Step), NEW made \in Seq(Step), NEW s,
         s.text \in Seq(Token), s.tools \in Seq(Shown),
         NEW complete, Follows(followed, made, s.text, s.tools, complete)
  PROVE  /\ Dialogue!createLiveRunOrder(s) \in Seq(Item)
         /\ Follows(Through(StepsOfItem, Dialogue!createLiveRunOrder(s)), made, s.text, s.tools, FALSE)
<1> DEFINE texts == IF s.text = <<>> THEN <<>> ELSE <<Dialogue!TextItem(s.text)>>
           calls == [i \in DOMAIN s.tools |-> Dialogue!ToolItem(s.tools[i].id)]
           u == [t \in Shown |-> Dialogue!ToolItem(t.id)]
<1>1. Dialogue!createLiveRunOrder(s) = texts \o calls
  BY DEF Dialogue!createLiveRunOrder
<1>2. texts \in Seq(Item)
  <2>1. Dialogue!TextItem(s.text) \in Item
    BY DEF Dialogue!TextItem, Item
  <2>2. <<Dialogue!TextItem(s.text)>> \in Seq(Item) /\ <<>> \in Seq(Item)
    BY <2>1
  <2>3. QED
    BY <2>2
<1>3. calls \in Seq(ToolStep)
  <2>1. u \in [Shown -> ToolStep]
    BY DEF Shown, ToolStep, Dialogue!ToolItem
  <2>2. [i \in DOMAIN s.tools |-> u[s.tools[i]]] \in Seq(ToolStep)
    <3> HIDE DEF u
    <3>1. QED
      BY <2>1, EachThrough
  <2>3. \A i \in DOMAIN s.tools : s.tools[i] \in Shown
    OBVIOUS
  <2>4. calls = [i \in DOMAIN s.tools |-> u[s.tools[i]]]
    BY <2>3
  <2>5. QED
    BY <2>2, <2>4
<1>4. calls \in Seq(Item) /\ calls \in Seq(Step)
  <2>1. ToolStep \subseteq Item /\ ToolStep \subseteq Step
    BY DEF ToolStep, Item, Step
  <2> HIDE DEF calls
  <2>2. QED
    BY <1>3, <2>1
<1>5. Through(StepsOfItem, calls) = calls
  <2>1. \A x \in ToolStep : StepsOfItem[x] = <<x>>
    BY DEF ToolStep, StepsOfItem, Item
  <2> HIDE DEF calls
  <2>2. QED
    BY <1>3, <2>1, ThroughSame
<1> DEFINE said == Dialogue!TextEntries(s.text)
<1>6. Through(StepsOfItem, texts) = said
  <2>1. CASE s.text = <<>>
    BY <2>1, ThroughEmpty, EntriesOfNone
  <2>2. CASE s.text # <<>>
    <3>1. Dialogue!TextItem(s.text) \in Item
      BY DEF Dialogue!TextItem, Item
    <3>2. StepsOfItem[Dialogue!TextItem(s.text)] = said
      BY <3>1 DEF StepsOfItem, Dialogue!TextItem
    <3>3. Through(StepsOfItem, <<Dialogue!TextItem(s.text)>>) = StepsOfItem[Dialogue!TextItem(s.text)]
      BY <3>1, MapStepsOfItem, ThroughOne
    <3>4. QED
      BY <2>2, <3>2, <3>3
  <2>3. QED
    BY <2>1, <2>2
<1>7. said \in Seq(Step) /\ said \in Seq(TextStep)
  BY EntriesOf
<1> HIDE DEF texts, calls, said, u
<1>8. Through(StepsOfItem, texts \o calls) = said \o calls
  <2>1. Through(StepsOfItem, texts \o calls) = Through(StepsOfItem, texts) \o Through(StepsOfItem, calls)
    BY <1>2, <1>4, MapStepsOfItem, ThroughConcat
  <2>2. QED
    BY <1>5, <1>6, <2>1
<1>9. Through(OfSort("assistant"), said \o calls) = said /\ Through(OfSort("tool"), said \o calls) = calls
  <2>1. \A kind : Through(OfSort(kind), said \o calls)
                    = Through(OfSort(kind), said) \o Through(OfSort(kind), calls)
    BY <1>4, <1>7, MapOfSort, ThroughConcat
  <2>2. /\ Through(OfSort("assistant"), said) = said /\ Through(OfSort("tool"), said) = <<>>
        /\ Through(OfSort("tool"), calls) = calls /\ Through(OfSort("assistant"), calls) = <<>>
    BY <1>3, <1>7, SortOfTexts, SortOfTools
  <2>3. said \o <<>> = said /\ <<>> \o calls = calls
    BY <1>4, <1>7
  <2>4. QED
    BY <2>1, <2>2, <2>3
<1>10. texts \o calls \in Seq(Item)
  BY <1>2, <1>4
<1>11. Through(OfSort("assistant"), made) = said /\ Through(OfSort("tool"), made) = calls
  BY DEF Follows, said, calls
<1>12. Follows(said \o calls, made, s.text, s.tools, FALSE)
  BY <1>9, <1>11 DEF Follows, said, calls
<1>13. QED
  BY <1>1, <1>8, <1>10, <1>12

\* A text that is shown joins the text before it, if nothing is in between.
LEMMA OrderText ==
  ASSUME NEW items \in Seq(Item), NEW n \in Token
  PROVE  /\ Dialogue!reduceLiveRunOrder(items, Dialogue!Delta(n)) \in Seq(Item)
         /\ Through(StepsOfItem, Dialogue!reduceLiveRunOrder(items, Dialogue!Delta(n)))
              = Append(Through(StepsOfItem, items), [kind |-> "assistant", token |-> n])
<1> DEFINE e == [kind |-> "assistant", token |-> n]
           new == Dialogue!reduceLiveRunOrder(items, Dialogue!Delta(n))
<1>1. e \in Step
  BY DEF Step
<1>2. CASE items # <<>> /\ items[Len(items)].kind = "assistant"
  <2> DEFINE last == items[Len(items)]
             more == [last EXCEPT !.tokens = Append(@, n)]
  <2>1. PICK front \in Seq(Item) :
          /\ last \in Item /\ items = Append(front, last)
          /\ \A y \in Item : [items EXCEPT ![Len(items)] = y] = Append(front, y)
    BY <1>2, LastOf
  <2>2. last.tokens \in Seq(Token) /\ last = [kind |-> "assistant", tokens |-> last.tokens]
    BY <1>2, <2>1 DEF Item
  <2>3. Append(last.tokens, n) \in Seq(Token)
    BY <2>2
  <2>5. more \in Item /\ more.kind = "assistant" /\ more.tokens = Append(last.tokens, n)
    <3>1. ASSUME NEW y \in [kind: {"assistant"}, tokens: Seq(Token)], NEW z \in Seq(Token)
          PROVE  /\ [y EXCEPT !.tokens = z] \in [kind: {"assistant"}, tokens: Seq(Token)]
                 /\ [y EXCEPT !.tokens = z].kind = "assistant" /\ [y EXCEPT !.tokens = z].tokens = z
      OBVIOUS
    <3>2. last \in [kind: {"assistant"}, tokens: Seq(Token)]
      <4> HIDE DEF last
      <4>1. QED
        BY <2>1, <2>2 DEF Item
    <3>3. more = [last EXCEPT !.tokens = Append(last.tokens, n)]
      OBVIOUS
    <3> HIDE DEF last, more
    <3>4. QED
      BY <2>3, <3>1, <3>2, <3>3 DEF Item
  <2>6. new = [items EXCEPT ![Len(items)] = more]
    BY <1>2 DEF Dialogue!reduceLiveRunOrder, Dialogue!Delta, Dialogue!Last
  <2>7. StepsOfItem[last] = Dialogue!TextEntries(last.tokens)
        /\ StepsOfItem[more] = Append(Dialogue!TextEntries(last.tokens), e)
    <3>1. Dialogue!TextEntries(Append(last.tokens, n)) = Append(Dialogue!TextEntries(last.tokens), e)
      BY <2>2, EntriesOf
    <3> HIDE DEF e, more, last
    <3>2. QED
      BY <1>2, <2>1, <2>5, <3>1 DEF StepsOfItem, last
  <2> DEFINE a == Through(StepsOfItem, front)
             b == Dialogue!TextEntries(last.tokens)
  <2>8. a \in Seq(Step) /\ b \in Seq(Step)
    BY <2>1, <2>2, ItemsAppend, EntriesOf
  <2> HIDE DEF last, more, new, e, a, b
  <2>9. Through(StepsOfItem, items) = a \o b
    BY <2>1, <2>7, ItemsAppend DEF a, b
  <2>10. Through(StepsOfItem, Append(front, more)) = a \o Append(b, e)
    <3>1. Through(StepsOfItem, Append(front, more)) = Through(StepsOfItem, front) \o StepsOfItem[more]
      BY <2>5, ItemsAppend
    <3>2. QED
      BY <2>7, <3>1 DEF a, b
  <2>11. a \o Append(b, e) = Append(a \o b, e)
    BY <1>1, <2>8
  <2>12. new = Append(front, more) /\ Append(front, more) \in Seq(Item)
    BY <2>1, <2>5, <2>6
  <2>13. QED
    BY <2>9, <2>10, <2>11, <2>12 DEF new, e
<1>3. CASE ~(items # <<>> /\ items[Len(items)].kind = "assistant")
  <2> DEFINE x == Dialogue!TextItem(<<n>>)
  <2>1. new = Append(items, x)
    BY <1>3 DEF Dialogue!reduceLiveRunOrder, Dialogue!Delta, Dialogue!Last
  <2>2. x \in Item /\ x.kind = "assistant" /\ x.tokens = <<n>>
    BY DEF Dialogue!TextItem, Item
  <2>3. StepsOfItem[x] = <<e>>
    <3>1. Dialogue!TextEntries(<<n>>) = <<e>>
      BY DEF Dialogue!TextEntries
    <3> HIDE DEF x, e
    <3>2. QED
      BY <2>2, <3>1 DEF StepsOfItem
  <2>4. Through(StepsOfItem, items) \in Seq(Step)
    BY <2>2, ItemsAppend
  <2> HIDE DEF x, e, new
  <2>5. Through(StepsOfItem, Append(items, x)) = Through(StepsOfItem, items) \o <<e>>
    BY <2>2, <2>3, ItemsAppend
  <2>6. Through(StepsOfItem, items) \o <<e>> = Append(Through(StepsOfItem, items), e)
    BY <1>1, <2>4
  <2>7. Append(items, x) \in Seq(Item)
    BY <2>2
  <2>8. QED
    BY <2>1, <2>5, <2>6, <2>7 DEF new, e
<1>4. QED
  BY <1>2, <1>3

\* A call is shown where an event first names it.
LEMMA OrderCall ==
  ASSUME NEW items \in Seq(Item), NEW e, e.type # "assistant_text_delta", e.id \in Token
  PROVE  LET new == Dialogue!reduceLiveRunOrder(items, e)
             x   == Dialogue!ToolItem(e.id) IN
         /\ new \in Seq(Item)
         /\ x \in Elements(Through(StepsOfItem, items)) => new = items
         /\ x \notin Elements(Through(StepsOfItem, items)) =>
              Through(StepsOfItem, new) = Append(Through(StepsOfItem, items), x)
<1> DEFINE new == Dialogue!reduceLiveRunOrder(items, e)
           x == Dialogue!ToolItem(e.id)
<1>1. x \in Item /\ x \in Step /\ x.kind = "tool" /\ x.id = e.id
  BY DEF Dialogue!ToolItem, Item, Step
<1>2. ASSUME NEW y \in Item PROVE x \in Elements(StepsOfItem[y]) <=> y = x
  <2>1. CASE y.kind = "assistant"
    <3>1. StepsOfItem[y] = Dialogue!TextEntries(y.tokens) /\ y.tokens \in Seq(Token)
      BY <2>1 DEF StepsOfItem, Item
    <3>2. StepsOfItem[y] \in Seq(TextStep)
      BY <3>1, EntriesOf
    <3>3. Elements(StepsOfItem[y]) \subseteq TextStep
      BY <3>2, ElementsIn
    <3>4. x \notin TextStep
      BY <1>1 DEF TextStep
    <3>5. QED
      BY <1>1, <2>1, <3>3, <3>4
  <2>2. CASE y.kind # "assistant"
    <3>1. StepsOfItem[y] = <<y>>
      BY <2>2 DEF StepsOfItem
    <3>2. QED
      BY <3>1, ElementsOfOne
  <2>3. QED
    BY <2>1, <2>2
<1>3. x \in Elements(Through(StepsOfItem, items)) <=> x \in Elements(items)
  <2>1. \A z : z \in Elements(Through(StepsOfItem, items))
                 <=> \E y \in Elements(items) : z \in Elements(StepsOfItem[y])
    BY MapStepsOfItem, ElementsThrough
  <2>2. Elements(items) \subseteq Item
    BY ElementsIn
  <2> HIDE DEF x
  <2>3. QED
    BY <1>2, <2>1, <2>2
<1>4. (\E i \in DOMAIN items : items[i].kind = "tool" /\ items[i].id = e.id) <=> x \in Elements(items)
  <2>1. \A i \in DOMAIN items : items[i] \in Item
    OBVIOUS
  <2>2. \A y \in Item : y.kind = "tool" /\ y.id = e.id <=> y = x
    <3>1. \A y \in Item : y.kind = "tool" => y = [kind |-> "tool", id |-> y.id]
      BY DEF Item
    <3>2. QED
      BY <1>1, <3>1 DEF Dialogue!ToolItem
  <2> HIDE DEF x
  <2>3. QED
    BY <2>1, <2>2 DEF Elements
<1>5. new = IF x \in Elements(items) THEN items ELSE Append(items, x)
  BY <1>4 DEF Dialogue!reduceLiveRunOrder
<1>6. Through(StepsOfItem, Append(items, x)) = Append(Through(StepsOfItem, items), x)
  <2>1. StepsOfItem[x] = <<x>>
    BY <1>1 DEF StepsOfItem
  <2>2. Through(StepsOfItem, items) \in Seq(Step)
    BY <1>1, ItemsAppend
  <2>3. Through(StepsOfItem, Append(items, x)) = Through(StepsOfItem, items) \o <<x>>
    BY <1>1, <2>1, ItemsAppend
  <2>4. Through(StepsOfItem, items) \o <<x>> = Append(Through(StepsOfItem, items), x)
    BY <1>1, <2>2
  <2>5. QED
    BY <2>3, <2>4
<1>7. Append(items, x) \in Seq(Item)
  BY <1>1
<1> HIDE DEF x, new
<1>8. /\ new \in Seq(Item)
      /\ x \in Elements(Through(StepsOfItem, items)) => new = items
      /\ x \notin Elements(Through(StepsOfItem, items)) =>
           Through(StepsOfItem, new) = Append(Through(StepsOfItem, items), x)
  BY <1>3, <1>5, <1>6, <1>7
<1>9. QED
  BY <1>8 DEF x, new

(***************************************************************************)
(* What messages call and answer                                           *)
(***************************************************************************)
LEMMA SaysOf ==
  ASSUME NEW a \in Seq(AgentMessage), NEW b \in Seq(AgentMessage)
  PROVE  /\ \A c : Says(a \o b, c) <=> Says(a, c) \/ Says(b, c)
         /\ \A id, ok : Knows(a \o b, id, ok) <=> Knows(a, id, ok) \/ Knows(b, id, ok)
         /\ IdsOf(a \o b) = IdsOf(a) \cup IdsOf(b)
<1>1. Elements(a \o b) = Elements(a) \cup Elements(b)
  BY ElementsOf
<1>2. \A c : Says(a \o b, c) <=> Says(a, c) \/ Says(b, c)
  BY <1>1 DEF Says
<1>3. \A id, ok : Knows(a \o b, id, ok) <=> Knows(a, id, ok) \/ Knows(b, id, ok)
  BY <1>1 DEF Knows
<1>4. IdsOf(a \o b) = IdsOf(a) \cup IdsOf(b)
  BY <1>2, <1>3 DEF IdsOf
<1>5. QED
  BY <1>2, <1>3, <1>4

LEMMA SaysNothing ==
  /\ \A c : ~Says(<<>>, c)
  /\ \A id, ok : ~Knows(<<>>, id, ok)
  /\ IdsOf(<<>>) = {}
BY DEF Says, Knows, IdsOf, Elements

LEMMA UserSaysNothing ==
  ASSUME NEW r
  PROVE  /\ \A c : ~Says(<<Dialogue!UserMessage(r)>>, c)
         /\ \A id, ok : ~Knows(<<Dialogue!UserMessage(r)>>, id, ok)
         /\ IdsOf(<<Dialogue!UserMessage(r)>>) = {}
<1>1. Elements(<<Dialogue!UserMessage(r)>>) = {Dialogue!UserMessage(r)}
  BY ElementsOfOne
<1>2. Dialogue!UserMessage(r).role = "user"
  BY DEF Dialogue!UserMessage
<1>3. \A id, ok : Dialogue!ToolResult(id, ok).role = "toolResult"
  BY DEF Dialogue!ToolResult
<1>4. \A c : ~Says(<<Dialogue!UserMessage(r)>>, c)
  BY <1>1, <1>2 DEF Says
<1>5. \A id, ok : ~Knows(<<Dialogue!UserMessage(r)>>, id, ok)
  BY <1>1, <1>2, <1>3 DEF Knows
<1>6. QED
  BY <1>4, <1>5 DEF IdsOf

LEMMA AssistantSays ==
  ASSUME NEW parts
  PROVE  /\ \A c : Says(<<Dialogue!AssistantMessage(parts)>>, c) <=> c \in Elements(parts)
         /\ \A id, ok : ~Knows(<<Dialogue!AssistantMessage(parts)>>, id, ok)
<1>1. Elements(<<Dialogue!AssistantMessage(parts)>>) = {Dialogue!AssistantMessage(parts)}
  BY ElementsOfOne
<1>2. Dialogue!AssistantMessage(parts).role = "assistant"
      /\ Dialogue!AssistantMessage(parts).parts = parts
  BY DEF Dialogue!AssistantMessage
<1>3. \A id, ok : Dialogue!ToolResult(id, ok).role = "toolResult"
  BY DEF Dialogue!ToolResult
<1>4. QED
  BY <1>1, <1>2, <1>3 DEF Says, Knows

CallsOfMessage ==
  [m \in AgentMessage |-> IF m.role = "assistant" THEN Dialogue!CallsOf(m.parts) ELSE <<>>]

LEMMA MapCallsOfMessage == Maps(CallsOfMessage, AgentMessage, Call)
<1>1. ASSUME NEW m \in AgentMessage
      PROVE  (IF m.role = "assistant" THEN Dialogue!CallsOf(m.parts) ELSE <<>>) \in Seq(Call)
  <2>1. m.role = "assistant" => m.parts \in Seq(Part)
    BY DEF AgentMessage
  <2>2. <<>> \in Seq(Call)
    OBVIOUS
  <2>3. QED
    BY <2>1, <2>2, CallsAre
<1>2. QED
  BY <1>1 DEF Maps, CallsOfMessage

LEMMA AllCallsAre ==
  ASSUME NEW messages \in Seq(AgentMessage)
  PROVE  /\ Dialogue!AllCalls(messages) = Through(CallsOfMessage, messages)
         /\ Dialogue!AllCalls(messages) \in Seq(Call)
         /\ \A c : c \in Elements(Dialogue!AllCalls(messages)) <=> Says(messages, c) /\ c.kind = "call"
<1>1. \A i \in DOMAIN messages : messages[i] \in AgentMessage
  OBVIOUS
<1>2. [i \in DOMAIN messages |-> IF messages[i].role = "assistant"
                                THEN Dialogue!CallsOf(messages[i].parts) ELSE <<>>]
        = [i \in DOMAIN messages |-> CallsOfMessage[messages[i]]]
  BY <1>1 DEF CallsOfMessage
<1>3. Dialogue!AllCalls(messages) = Through(CallsOfMessage, messages)
  BY <1>2 DEF Dialogue!AllCalls, Through, Flat
<1>4. Dialogue!AllCalls(messages) \in Seq(Call)
  BY <1>3, MapCallsOfMessage, ThroughType
<1>5. ASSUME NEW m \in AgentMessage, NEW c
      PROVE  c \in Elements(CallsOfMessage[m])
               <=> m.role = "assistant" /\ c \in Elements(m.parts) /\ c.kind = "call"
  <2>1. CASE m.role = "assistant"
    <3>1. CallsOfMessage[m] = Dialogue!CallsOf(m.parts) /\ m.parts \in Seq(Part)
      BY <2>1 DEF CallsOfMessage, AgentMessage
    <3>2. QED
      BY <2>1, <3>1, CallsAre
  <2>2. CASE m.role # "assistant"
    <3>1. CallsOfMessage[m] = <<>>
      BY <2>2 DEF CallsOfMessage
    <3>2. QED
      BY <2>2, <3>1, ElementsOfOne
  <2>3. QED
    BY <2>1, <2>2
<1>6. \A c : c \in Elements(Through(CallsOfMessage, messages))
               <=> \E m \in Elements(messages) : c \in Elements(CallsOfMessage[m])
  BY MapCallsOfMessage, ElementsThrough
<1>7. Elements(messages) \subseteq AgentMessage
  BY ElementsIn
<1>8. \A c : c \in Elements(Dialogue!AllCalls(messages)) <=> Says(messages, c) /\ c.kind = "call"
  BY <1>3, <1>5, <1>6, <1>7 DEF Says
<1>9. QED
  BY <1>3, <1>4, <1>8

LEMMA CallIs == ASSUME NEW c \in Call PROVE c = Dialogue!CallPart(c.id, c.name)
BY DEF Call, Dialogue!CallPart

\* What is called is known by its id.
LEMMA SaidIsKnown ==
  ASSUME NEW messages \in Seq(AgentMessage), NEW c, Says(messages, c), c.kind = "call"
  PROVE  c \in Call /\ c.id \in IdsOf(messages)
<1>1. c \in Elements(Dialogue!AllCalls(messages)) /\ Dialogue!AllCalls(messages) \in Seq(Call)
  BY AllCallsAre
<1>2. c \in Call
  BY <1>1, ElementsIn
<1>3. c = Dialogue!CallPart(c.id, c.name) /\ c.id \in Token /\ c.name \in Dialogue!Names
  BY <1>2, CallIs DEF Call
<1>4. QED
  BY <1>2, <1>3 DEF IdsOf

(***************************************************************************)
(* A run that begins, or begins again                                      *)
(***************************************************************************)
LEMMA NoCalls == Dialogue!CallsOf(<<>>) = <<>>
<1>1. <<>> \in Seq(Part)
  OBVIOUS
<1>2. QED
  BY <1>1, CallsAre, ThroughEmpty

LEMMA NothingMade ==
  /\ Through(StepsOfMessage, <<>>) \o Through(StepsOfPart, <<>>) = <<>>
  /\ Through(StepsOfItem, <<>>) = <<>>
BY ThroughEmpty

FreshStart ==
  /\ run.said = <<>> /\ run.parts = <<>> /\ run.exec = <<>> /\ run.pc \in {"idle", "streaming"}
  /\ shot = Dialogue!NoShot /\ order = <<>> /\ whole = TRUE

LEMMA Fresh ==
  ASSUME FreshStart
  PROVE  Calls = <<>> /\ IdsOf(run.said) = {} /\ PhaseFits /\ ToolsFit /\ StepsFit
<1>1. Calls = <<>> /\ IdsOf(run.said) = {} /\ Elements(<<>>) = {}
  BY NoCalls, SaysNothing, ElementsOfOne DEF Calls, FreshStart
<1>2. shot.text = <<>> /\ shot.tools = <<>>
  BY DEF FreshStart, Dialogue!NoShot
<1>3. PhaseFits
  BY <1>1 DEF PhaseFits, FreshStart
<1>4. ToolsFit
  BY <1>1, <1>2, SaysNothing DEF ToolsFit, FreshStart
<1>5. Made = <<>> /\ Followed = <<>>
  BY NothingMade DEF Made, Followed, FreshStart
<1>6. StepsFit
  BY <1>2, <1>5, FollowsNothing DEF StepsFit, FreshStart
<1>7. QED
  BY <1>1, <1>3, <1>4, <1>6

LEMMA FreshNext ==
  ASSUME FreshStart'
  PROVE  Calls' = <<>> /\ IdsOf(run'.said) = {} /\ PhaseFits' /\ ToolsFit' /\ StepsFit'
<1>1. Calls' = <<>> /\ IdsOf(run'.said) = {} /\ Elements(<<>>) = {}
  BY NoCalls, SaysNothing, ElementsOfOne DEF Calls, FreshStart
<1>2. shot'.text = <<>> /\ shot'.tools = <<>>
  BY DEF FreshStart, Dialogue!NoShot
<1>3. PhaseFits'
  BY <1>1 DEF PhaseFits, FreshStart
<1>4. ToolsFit'
  BY <1>1, <1>2, SaysNothing DEF ToolsFit, FreshStart
<1>5. Made' = <<>> /\ Followed' = <<>>
  BY NothingMade DEF Made, Followed, FreshStart
<1>6. StepsFit'
  BY <1>2, <1>5, FollowsNothing DEF StepsFit, FreshStart
<1>7. QED
  BY <1>1, <1>3, <1>4, <1>6

LEMMA IdleTyped ==
  /\ Dialogue!Start \in Deed
  /\ Dialogue!Idle \in RunState
  /\ Dialogue!NoShot \in [text: Seq(Token), tools: Seq(Shown)]
<1>1. Dialogue!Start \in Deed
  BY TokenBounds DEF Dialogue!Start, Deed
<1>2. Dialogue!Idle \in RunState
  BY <1>1, TokenBounds DEF Dialogue!Idle, RunState
<1>3. Dialogue!NoShot \in [text: Seq(Token), tools: Seq(Shown)]
  BY DEF Dialogue!NoShot
<1>4. QED
  BY <1>1, <1>2, <1>3

LEMMA DialogueStarts == Dialogue!Init => DialogueInv
<1> SUFFICES ASSUME Dialogue!Init PROVE DialogueInv
  OBVIOUS
<1>1. /\ run.pc = "streaming" /\ run.number = 1 /\ run.made = 0 /\ run.input = Dialogue!Start
      /\ run.said = <<>> /\ run.parts = <<>> /\ run.exec = <<>>
  BY DEF Dialogue!Init, Dialogue!Idle
<1>2. DialogueTyped
  <2>1. run \in RunState
    <3>1. run = [Dialogue!Idle EXCEPT !.pc = "streaming", !.number = 1]
      BY DEF Dialogue!Init
    <3>2. 1 \in 0..MaxRuns /\ Dialogue!Idle \in RunState
      BY TokenBounds, IdleTyped
    <3>3. QED
      BY <3>1, <3>2 DEF RunState
  <2>2. QED
    BY <2>1, IdleTyped DEF Dialogue!Init, DialogueTyped
<1>3. FreshStart
  BY <1>1 DEF FreshStart, Dialogue!Init
<1>4. Calls = <<>> /\ IdsOf(run.said) = {} /\ PhaseFits /\ ToolsFit /\ StepsFit
  BY <1>3, Fresh
<1>5. history = <<>> /\ actions = <<>> /\ Elements(<<>>) = {} /\ IdsOf(<<>>) = {}
  BY SaysNothing, ElementsOfOne DEF Dialogue!Init
<1>6. IdsFit
  BY <1>1, <1>4, <1>5 DEF IdsFit, Dialogue!Start
<1>7. UsersFit
  BY <1>1, <1>5 DEF UsersFit, InputFits
<1>8. QED
  BY <1>2, <1>4, <1>6, <1>7 DEF DialogueInv

DialogueVars == <<run, shot, order, whole, history, actions>>

\* The job is retried, fails for good, or its result is read: what is left is what messages say.
LEMMA FreshIds ==
  ASSUME DialogueInv, FreshStart', DialogueTyped', run'.made = run.made,
         IdsOf(history') \subseteq IdsOf(history) \cup IdsOf(run.said),
         IdsOf(history) \subseteq IdsOf(history'),
         \A d \in Elements(actions') : d \in Elements(actions) \/ d = run.input,
         run'.input.target \in {0} \cup IdsOf(history')
  PROVE  IdsFit'
<1>1. Calls' = <<>> /\ IdsOf(run'.said) = {}
  BY FreshNext
<1>2. IdsFit
  BY DEF DialogueInv
<1>3. \A id \in IdsOf(history') : id <= run'.made
  BY <1>2 DEF IdsFit
<1>4. \A d \in Elements(actions') : d.target \in {0} \cup IdsOf(history')
  BY <1>2 DEF IdsFit
<1>5. QED
  BY <1>1, <1>3, <1>4 DEF IdsFit

LEMMA RestartStep == ASSUME DialogueInv, Dialogue!AttemptRestarts PROVE DialogueInv'
<1>1. DialogueTyped /\ IdsFit /\ UsersFit
  BY DEF DialogueInv
<1>2. /\ run'.pc = "streaming" /\ run'.said = <<>> /\ run'.parts = <<>> /\ run'.exec = <<>>
      /\ run'.made = run.made /\ run'.number = run.number /\ run'.input = run.input
      /\ run' \in RunState /\ run.pc # "idle"
  <2>1. run \in RunState /\ <<>> \in Seq(AgentMessage) /\ <<>> \in Seq(Part) /\ <<>> \in Seq(Outcomes)
    BY <1>1 DEF DialogueTyped
  <2>2. run' = [run EXCEPT !.pc = "streaming", !.said = <<>>, !.parts = <<>>, !.exec = <<>>,
                           !.restarted = TRUE] /\ run.pc \in {"streaming", "executing"}
    BY DEF Dialogue!AttemptRestarts
  <2>3. QED
    BY <2>1, <2>2 DEF RunState
<1>3. history' = history /\ actions' = actions /\ shot' = Dialogue!NoShot /\ whole' = TRUE
  BY DEF Dialogue!AttemptRestarts
<1>4. order' = <<>>
  BY DEF Dialogue!AttemptRestarts, Dialogue!createLiveRunOrder, Dialogue!NoShot
<1>5. FreshStart'
  BY <1>2, <1>3, <1>4 DEF FreshStart
<1>6. DialogueTyped'
  BY <1>1, <1>2, <1>3, <1>4, IdleTyped DEF DialogueTyped
<1>7. IdsFit'
  <2>1. run'.input.target \in {0} \cup IdsOf(history')
    BY <1>1, <1>2, <1>3 DEF IdsFit
  <2>2. QED
    BY <1>2, <1>3, <1>5, <1>6, <2>1, FreshIds
<1>8. UsersFit'
  <2>1. Elements(run'.said) = {}
    BY <1>2, ElementsOfOne
  <2>2. LastRun' = LastRun
    BY <1>2 DEF LastRun
  <2>3. InputFits'
    BY <1>1, <1>2, <1>3 DEF UsersFit, InputFits
  <2>4. QED
    BY <1>1, <1>3, <2>1, <2>2, <2>3 DEF UsersFit
<1>9. QED
  BY <1>5, <1>6, <1>7, <1>8, FreshNext DEF DialogueInv

\* What becomes of the run when the page is back at the session.
LEMMA IdleAgain ==
  ASSUME DialogueTyped, run' = [Dialogue!Idle EXCEPT !.number = run.number, !.made = run.made]
  PROVE  /\ run'.pc = "idle" /\ run'.said = <<>> /\ run'.parts = <<>> /\ run'.exec = <<>>
         /\ run'.made = run.made /\ run'.number = run.number /\ run'.input = Dialogue!Start
         /\ run' \in RunState /\ run'.input.target = 0
<1>1. run.number \in 0..MaxRuns /\ run.made \in 0..MaxParts /\ Dialogue!Idle \in RunState
  BY IdleTyped DEF DialogueTyped, RunState
<1>2. run' \in RunState
  BY <1>1 DEF RunState
<1>3. QED
  BY <1>2 DEF Dialogue!Idle, Dialogue!Start

\* Runs are numbered.
LEMMA RunsAre ==
  /\ \A list : list \in Seq(Deed) => \A d \in Elements(list) : d \in Deed /\ d.run \in Nat
  /\ \A list : list \in Seq(AgentMessage) =>
       \A m \in Elements(list) : m \in AgentMessage /\ (m.role = "user" => m.run \in Nat)
<1>1. \A d \in Deed : d.run \in Nat
  BY TokenBounds DEF Deed
<1>2. \A m \in AgentMessage : m.role = "user" => m.run \in Nat
  BY TokenBounds DEF AgentMessage
<1>3. ASSUME NEW list, list \in Seq(Deed) PROVE Elements(list) \subseteq Deed
  BY <1>3, ElementsIn
<1>4. ASSUME NEW list, list \in Seq(AgentMessage) PROVE Elements(list) \subseteq AgentMessage
  BY <1>4, ElementsIn
<1>5. QED
  BY <1>1, <1>2, <1>3, <1>4

LEMMA FailsStep == ASSUME DialogueInv, Dialogue!RunFails PROVE DialogueInv'
<1>1. DialogueTyped /\ IdsFit /\ UsersFit
  BY DEF DialogueInv
<1>2. /\ run' = [Dialogue!Idle EXCEPT !.number = run.number, !.made = run.made]
      /\ run.pc # "idle" /\ history' = history /\ actions' = actions /\ order' = <<>>
      /\ shot' = Dialogue!NoShot /\ whole' = TRUE
  BY DEF Dialogue!RunFails
<1>3. /\ run'.pc = "idle" /\ run'.said = <<>> /\ run'.parts = <<>> /\ run'.exec = <<>>
      /\ run'.made = run.made /\ run'.number = run.number /\ run'.input = Dialogue!Start
      /\ run' \in RunState /\ run'.input.target = 0
  BY <1>1, <1>2, IdleAgain
<1>4. FreshStart'
  BY <1>2, <1>3 DEF FreshStart
<1>5. DialogueTyped'
  BY <1>1, <1>2, <1>3, IdleTyped DEF DialogueTyped
<1>6. IdsFit'
  BY <1>2, <1>3, <1>4, <1>5, FreshIds
<1>7. UsersFit'
  <2>1. Elements(run'.said) = {}
    BY <1>3, ElementsOfOne
  <2>2. LastRun <= LastRun' /\ run.number \in Nat
    BY <1>1, <1>2, <1>3 DEF LastRun, DialogueTyped, RunState
  <2>3. \A d \in Elements(actions') : d.run <= LastRun'
    <3>1. \A d \in Elements(actions) : d.run \in Nat
      BY <1>1, RunsAre DEF DialogueTyped
    <3>2. QED
      BY <1>1, <1>2, <1>3, <2>2, <3>1 DEF UsersFit, LastRun
  <2>4. \A m \in Elements(history') : m.role = "user" => m.run <= LastRun'
    <3>1. \A m \in Elements(history) : m.role = "user" => m.run \in Nat
      BY <1>1, RunsAre DEF DialogueTyped
    <3>2. QED
      BY <1>1, <1>2, <1>3, <2>2, <3>1 DEF UsersFit, LastRun
  <2>5. QED
    BY <1>3, <2>1, <2>3, <2>4 DEF UsersFit
<1>8. QED
  BY <1>4, <1>5, <1>6, <1>7, FreshNext DEF DialogueInv

OwnMessage == IF run.input = Dialogue!Start THEN <<>> ELSE <<Dialogue!UserMessage(run.number)>>
OwnAction  == IF run.input = Dialogue!Start THEN <<>> ELSE <<run.input>>

LEMMA CommittedIs ==
  ASSUME DialogueTyped, run.pc # "idle", UsersFit
  PROVE  /\ OwnMessage \in Seq(AgentMessage) /\ OwnAction \in Seq(Deed)
         /\ Dialogue!Committed.messages = (history \o OwnMessage) \o run.said
         /\ Dialogue!Committed.messages \in Seq(AgentMessage)
         /\ Dialogue!Committed.actions = actions \o OwnAction
         /\ Dialogue!Committed.actions \in Seq(Deed)
<1>1. history \in Seq(AgentMessage) /\ actions \in Seq(Deed) /\ run.said \in Seq(AgentMessage)
      /\ run.input \in Deed
  BY DEF DialogueTyped, RunState
<1>2. OwnAction \in Seq(Deed)
  BY <1>1 DEF OwnAction
<1>3. OwnMessage \in Seq(AgentMessage)
  <2>1. CASE run.input = Dialogue!Start
    BY <2>1 DEF OwnMessage
  <2>2. CASE run.input # Dialogue!Start
    <3>1. run.number \in 1..MaxRuns
      BY <1>1, <2>2 DEF UsersFit, InputFits, Deed
    <3>2. Dialogue!UserMessage(run.number) \in AgentMessage
      BY <3>1 DEF Dialogue!UserMessage, AgentMessage
    <3>3. QED
      BY <2>2, <3>2 DEF OwnMessage
  <2>3. QED
    BY <2>1, <2>2
<1>4. Dialogue!Committed.messages = (history \o OwnMessage) \o run.said
  BY DEF Dialogue!Committed, OwnMessage
<1>5. Dialogue!Committed.actions = actions \o OwnAction
  <2>1. actions \o <<>> = actions /\ actions \o <<run.input>> = Append(actions, run.input)
    BY <1>1
  <2>2. QED
    BY <2>1 DEF Dialogue!Committed, OwnAction
<1>6. (history \o OwnMessage) \o run.said \in Seq(AgentMessage) /\ actions \o OwnAction \in Seq(Deed)
  BY <1>1, <1>2, <1>3
<1>7. QED
  BY <1>2, <1>3, <1>4, <1>5, <1>6

LEMMA RefreshStep == ASSUME DialogueInv, Dialogue!Refreshes PROVE DialogueInv'
<1>1. DialogueTyped /\ IdsFit /\ UsersFit
  BY DEF DialogueInv
<1>2. /\ run' = [Dialogue!Idle EXCEPT !.number = run.number, !.made = run.made]
      /\ run.pc = "ended" /\ order' = <<>> /\ shot' = Dialogue!NoShot /\ whole' = TRUE
      /\ history' = Dialogue!Committed.messages /\ actions' = Dialogue!Committed.actions
  BY DEF Dialogue!Refreshes
<1>3. /\ run'.pc = "idle" /\ run'.said = <<>> /\ run'.parts = <<>> /\ run'.exec = <<>>
      /\ run'.made = run.made /\ run'.number = run.number /\ run'.input = Dialogue!Start
      /\ run' \in RunState /\ run'.input.target = 0
  BY <1>1, <1>2, IdleAgain
<1>4. FreshStart'
  BY <1>2, <1>3 DEF FreshStart
<1>5. /\ OwnMessage \in Seq(AgentMessage) /\ OwnAction \in Seq(Deed)
      /\ history' = (history \o OwnMessage) \o run.said /\ history' \in Seq(AgentMessage)
      /\ actions' = actions \o OwnAction /\ actions' \in Seq(Deed)
      /\ history \in Seq(AgentMessage) /\ actions \in Seq(Deed) /\ run.said \in Seq(AgentMessage)
  BY <1>1, <1>2, CommittedIs DEF DialogueTyped, RunState
<1>6. DialogueTyped'
  BY <1>2, <1>3, <1>5, IdleTyped DEF DialogueTyped
<1>7. IdsOf(history') = IdsOf(history) \cup IdsOf(run.said)
  <2>1. IdsOf(OwnMessage) = {}
    BY SaysNothing, UserSaysNothing DEF OwnMessage
  <2>2. history \o OwnMessage \in Seq(AgentMessage)
    BY <1>5
  <2>3. IdsOf(history \o OwnMessage) = IdsOf(history) \cup IdsOf(OwnMessage)
    BY <1>5, SaysOf
  <2>4. IdsOf((history \o OwnMessage) \o run.said) = IdsOf(history \o OwnMessage) \cup IdsOf(run.said)
    BY <1>5, <2>2, SaysOf
  <2>5. QED
    BY <1>5, <2>1, <2>3, <2>4
<1>8. Elements(actions') = Elements(actions) \cup Elements(OwnAction)
  BY <1>5, ElementsOf
<1>9. \A d \in Elements(OwnAction) : d = run.input /\ run.input # Dialogue!Start
  BY ElementsOfOne DEF OwnAction
<1>10. IdsFit'
  BY <1>1, <1>3, <1>4, <1>6, <1>7, <1>8, <1>9, FreshIds
<1>11. UsersFit'
  <2>1. Elements(run'.said) = {}
    BY <1>3, ElementsOfOne
  <2>2. LastRun = run.number - 1 /\ LastRun' = run.number /\ run.number \in Nat
    BY <1>1, <1>2, <1>3 DEF LastRun, DialogueTyped, RunState
  <2>3. ASSUME NEW d \in Elements(actions') PROVE d.run <= LastRun'
    <3>1. CASE d \in Elements(actions)
      <4>1. d.run \in Nat
        BY <1>5, <3>1, RunsAre
      <4>2. d.run <= run.number - 1
        BY <1>1, <2>2, <3>1 DEF UsersFit
      <4>3. QED
        BY <2>2, <4>1, <4>2
    <3>2. CASE d = run.input /\ run.input # Dialogue!Start
      <4>1. d.run = run.number
        BY <1>1, <1>2, <3>2 DEF UsersFit, InputFits
      <4>2. QED
        BY <2>2, <4>1
    <3>3. QED
      BY <1>8, <1>9, <3>1, <3>2
  <2>4. ASSUME NEW m \in Elements(history'), m.role = "user" PROVE m.run <= LastRun'
    <3>1. m \in Elements(history) \/ m \in Elements(OwnMessage) \/ m \in Elements(run.said)
      <4> DEFINE before == history \o OwnMessage
      <4>1. before \in Seq(AgentMessage) /\ history' = before \o run.said
        BY <1>5
      <4> HIDE DEF before
      <4>2. Elements(history') = Elements(before) \cup Elements(run.said)
        BY <1>5, <4>1, ElementsOf
      <4>3. Elements(before) = Elements(history) \cup Elements(OwnMessage)
        BY <1>5, ElementsOf DEF before
      <4>4. QED
        BY <4>2, <4>3
    <3>2. CASE m \in Elements(history)
      <4>1. m.run \in Nat
        BY <1>5, <2>4, <3>2, RunsAre
      <4>2. m.run <= run.number - 1
        BY <1>1, <2>2, <2>4, <3>2 DEF UsersFit
      <4>3. QED
        BY <2>2, <4>1, <4>2
    <3>3. CASE m \in Elements(OwnMessage)
      <4>1. m = Dialogue!UserMessage(run.number)
        BY <3>3, ElementsOfOne DEF OwnMessage
      <4>2. QED
        BY <2>2, <4>1 DEF Dialogue!UserMessage
    <3>4. CASE m \in Elements(run.said)
      BY <1>1, <2>4, <3>4 DEF UsersFit
    <3>5. QED
      BY <3>1, <3>2, <3>3, <3>4
  <2>5. QED
    BY <1>3, <2>1, <2>3, <2>4 DEF UsersFit
<1>12. QED
  BY <1>4, <1>6, <1>10, <1>11, FreshNext DEF DialogueInv

LEMMA ActsStep == ASSUME DialogueInv, Dialogue!UserActs PROVE DialogueInv'
<1>1. DialogueTyped /\ IdsFit /\ UsersFit
  BY DEF DialogueInv
<1>2. run.pc = "idle" /\ run.number < MaxRuns /\ history' = history /\ actions' = actions
      /\ shot' = Dialogue!NoShot /\ order' = <<>> /\ whole' = TRUE
  BY DEF Dialogue!UserActs
<1>3. PICK action \in Dialogue!Offers(run.number + 1) :
        /\ Dialogue!Accepts(history, actions, action)
        /\ run' = [Dialogue!Idle EXCEPT !.pc = "streaming", !.number = run.number + 1,
                                        !.made = run.made, !.input = action]
  BY DEF Dialogue!UserActs
<1>4. /\ action.type \in {"question_answer", "feedback", "confirmation"}
      /\ action.run = run.number + 1
      /\ action = [type |-> action.type, target |-> action.target, run |-> run.number + 1]
  <2>1. PICK id : \/ action = Dialogue!Answer(id, run.number + 1)
                  \/ action = Dialogue!Confirm(id, run.number + 1)
                  \/ action = Dialogue!Feedback(id, run.number + 1)
    BY DEF Dialogue!Offers
  <2>2. QED
    BY <2>1 DEF Dialogue!Answer, Dialogue!Confirm, Dialogue!Feedback
<1>5. PICK c \in Elements(Dialogue!AllCalls(history)) :
        /\ c.id = action.target
        /\ c.name = IF action.type = "question_answer" THEN "present_question" ELSE "publish_strategy"
  BY <1>3 DEF Dialogue!Accepts, Dialogue!ToSet, Elements
<1>6. history \in Seq(AgentMessage)
  BY <1>1 DEF DialogueTyped
<1>7. Says(history, c) /\ c.kind = "call"
  BY <1>5, <1>6, AllCallsAre
<1>8. c \in Call /\ c.id \in IdsOf(history) /\ c = Dialogue!CallPart(c.id, c.name)
  BY <1>6, <1>7, SaidIsKnown, CallIs
<1>9. action.target \in Token /\ action.target \in IdsOf(history)
  BY <1>5, <1>8 DEF Call
<1>10. run.number \in Nat /\ run.number + 1 \in 1..MaxRuns /\ run.made \in 0..MaxParts
  BY <1>1, <1>2, TokenBounds DEF DialogueTyped, RunState
<1>11. action \in Deed
  BY <1>4, <1>9, <1>10, TokenBounds DEF Deed
<1>12. /\ run'.pc = "streaming" /\ run'.said = <<>> /\ run'.parts = <<>> /\ run'.exec = <<>>
       /\ run'.made = run.made /\ run'.number = run.number + 1 /\ run'.input = action
  BY <1>3 DEF Dialogue!Idle
<1>13. run' \in RunState
  <2>1. Dialogue!Idle \in RunState
    BY IdleTyped
  <2>2. run.number + 1 \in 0..MaxRuns
    BY <1>10
  <2>3. ASSUME NEW r \in RunState, NEW a \in 0..MaxRuns, NEW b \in 0..MaxParts, NEW d \in Deed
        PROVE  [r EXCEPT !.pc = "streaming", !.number = a, !.made = b, !.input = d] \in RunState
    BY DEF RunState
  <2>4. QED
    BY <1>3, <1>10, <1>11, <2>1, <2>2, <2>3
<1>14. FreshStart'
  BY <1>2, <1>12 DEF FreshStart
<1>15. DialogueTyped'
  BY <1>1, <1>2, <1>13, IdleTyped DEF DialogueTyped
<1>16. IdsFit'
  BY <1>2, <1>9, <1>12, <1>14, <1>15, FreshIds
<1>17. UsersFit'
  <2>1. Elements(run'.said) = {}
    BY <1>12, ElementsOfOne
  <2>2. LastRun' = LastRun
    BY <1>2, <1>10, <1>12 DEF LastRun
  <2>3. InputFits'
    BY <1>2, <1>4, <1>5, <1>7, <1>8, <1>12 DEF InputFits
  <2>4. QED
    BY <1>1, <1>2, <2>1, <2>2, <2>3 DEF UsersFit
<1>18. QED
  BY <1>14, <1>15, <1>16, <1>17, FreshNext DEF DialogueInv

(***************************************************************************)
(* A text or a call is streamed                                            *)
(***************************************************************************)
LEMMA CallsTyped ==
  ASSUME DialogueTyped
  PROVE  /\ Calls \in Seq(Call)
         /\ \A i \in DOMAIN Calls : Calls[i] \in Call /\ Calls[i].id \in Nat /\ Calls[i].id \in Token
         /\ run.made \in Nat /\ run.number \in Nat
<1>1. run.parts \in Seq(Part) /\ run.made \in 0..MaxParts /\ run.number \in 0..MaxRuns
  BY DEF DialogueTyped, RunState
<1>2. Calls \in Seq(Call)
  BY <1>1, CallsAre DEF Calls
<1>3. \A c \in Call : c.id \in Token /\ c.id \in Nat
  BY TokenBounds DEF Call
<1>4. QED
  BY <1>1, <1>2, <1>3, TokenBounds

LEMMA IdsAreNumbers == \A messages : IdsOf(messages) \subseteq Nat
BY TokenBounds DEF IdsOf

LEMMA SameIds ==
  ASSUME DialogueTyped, IdsFit, Calls' = Calls, run'.said = run.said, history' = history,
         actions' = actions, run'.input = run.input,
         run'.made \in Nat, run.made <= run'.made
  PROVE  IdsFit'
<1>1. \A i \in DOMAIN Calls : Calls[i].id \in Nat
  BY CallsTyped
<1>2. run.made \in Nat
  BY CallsTyped
<1>3. \A id \in IdsOf(run.said) \cup IdsOf(history) : id \in Nat
  BY IdsAreNumbers
<1>4. \A i \in DOMAIN Calls : Calls[i].id <= run'.made
  BY <1>1, <1>2 DEF IdsFit
<1>5. \A id \in IdsOf(run.said) \cup IdsOf(history) : id <= run'.made
  BY <1>2, <1>3 DEF IdsFit
<1>6. QED
  BY <1>4, <1>5 DEF IdsFit

LEMMA SameUsers ==
  ASSUME UsersFit, history' = history, actions' = actions, run'.input = run.input,
         run'.number = run.number, run'.pc = "idle" <=> run.pc = "idle",
         \A m \in Elements(run'.said) : m.role # "user"
  PROVE  UsersFit'
<1>1. LastRun' = LastRun
  BY DEF LastRun
<1>2. run'.pc # "idle" => InputFits'
  BY DEF UsersFit, InputFits
<1>3. QED
  BY <1>1, <1>2 DEF UsersFit

LEMMA PartsAppend ==
  ASSUME NEW front \in Seq(Part), NEW p \in Part
  PROVE  /\ Through(CallOfPart, Append(front, p)) = Through(CallOfPart, front) \o CallOfPart[p]
         /\ Through(StepsOfPart, Append(front, p)) = Through(StepsOfPart, front) \o StepsOfPart[p]
         /\ Through(CallOfPart, front) \in Seq(Call) /\ Through(StepsOfPart, front) \in Seq(Step)
BY MapCallOfPart, MapStepsOfPart, ThroughAppend, ThroughType

LEMMA PartsText ==
  ASSUME NEW parts \in Seq(Part), NEW n \in Token
  PROVE  LET new == Dialogue!Grown(parts, n) IN
         /\ new \in Seq(Part)
         /\ Dialogue!CallsOf(new) = Dialogue!CallsOf(parts)
         /\ Through(StepsOfPart, new)
              = Append(Through(StepsOfPart, parts), [kind |-> "assistant", token |-> n])
<1> DEFINE e == [kind |-> "assistant", token |-> n]
           new == Dialogue!Grown(parts, n)
<1>1. e \in Step
  BY DEF Step
<1>2. \A p \in Part : p.kind = "text" => CallOfPart[p] = <<>>
  BY DEF CallOfPart
<1>3. ASSUME NEW front \in Seq(Part), NEW p \in Part
      PROVE  /\ Through(CallOfPart, Append(front, p)) = Through(CallOfPart, front) \o CallOfPart[p]
             /\ Through(StepsOfPart, Append(front, p)) = Through(StepsOfPart, front) \o StepsOfPart[p]
             /\ Through(CallOfPart, front) \in Seq(Call) /\ Through(StepsOfPart, front) \in Seq(Step)
  BY PartsAppend
<1>4. CASE parts # <<>> /\ parts[Len(parts)].kind = "text"
  <2> DEFINE last == parts[Len(parts)]
             more == [last EXCEPT !.text = Append(@, n)]
  <2>1. PICK front \in Seq(Part) :
          /\ last \in Part /\ parts = Append(front, last)
          /\ \A y \in Part : [parts EXCEPT ![Len(parts)] = y] = Append(front, y)
    BY <1>4, LastOf
  <2>2. last.text \in Seq(Token) /\ last \in [kind: {"text"}, text: Seq(Token)]
    <3> HIDE DEF last
    <3>1. QED
      BY <1>4, <2>1 DEF Part, last
  <2>3. Append(last.text, n) \in Seq(Token)
    BY <2>2
  <2>4. more \in Part /\ more.kind = "text" /\ more.text = Append(last.text, n)
    <3>1. ASSUME NEW y \in [kind: {"text"}, text: Seq(Token)], NEW z \in Seq(Token)
          PROVE  /\ [y EXCEPT !.text = z] \in [kind: {"text"}, text: Seq(Token)]
                 /\ [y EXCEPT !.text = z].kind = "text" /\ [y EXCEPT !.text = z].text = z
      OBVIOUS
    <3>2. more = [last EXCEPT !.text = Append(last.text, n)]
      OBVIOUS
    <3> HIDE DEF last, more
    <3>3. QED
      BY <2>2, <2>3, <3>1, <3>2 DEF Part
  <2>5. new = [parts EXCEPT ![Len(parts)] = more]
    BY <1>4 DEF Dialogue!Last, Dialogue!Grown
  <2>6. StepsOfPart[last] = Dialogue!TextEntries(last.text)
        /\ StepsOfPart[more] = Append(Dialogue!TextEntries(last.text), e)
    <3>1. Dialogue!TextEntries(Append(last.text, n)) = Append(Dialogue!TextEntries(last.text), e)
      BY <2>2, EntriesOf
    <3>2. last.kind = "text"
      BY <1>4
    <3> HIDE DEF e, more, last
    <3>3. QED
      BY <2>1, <2>4, <3>1, <3>2 DEF StepsOfPart
  <2> DEFINE a == Through(StepsOfPart, front)
             b == Dialogue!TextEntries(last.text)
  <2>7. a \in Seq(Step) /\ b \in Seq(Step)
    BY <1>3, <2>1, <2>2, EntriesOf
  <2>8. last.kind = "text"
    BY <1>4
  <2> HIDE DEF last, more, new, e, a, b
  <2>9. Through(StepsOfPart, parts) = a \o b
    BY <1>3, <2>1, <2>6 DEF a, b
  <2>10. Through(StepsOfPart, Append(front, more)) = a \o Append(b, e)
    BY <1>3, <2>4, <2>6 DEF a, b
  <2>11. a \o Append(b, e) = Append(a \o b, e)
    BY <1>1, <2>7
  <2>12. new = Append(front, more) /\ Append(front, more) \in Seq(Part)
    BY <2>1, <2>4, <2>5
  <2>13. Through(CallOfPart, Append(front, more)) = Through(CallOfPart, parts)
    <3>1. CallOfPart[more] = <<>> /\ CallOfPart[last] = <<>>
      BY <1>2, <2>1, <2>4, <2>8
    <3>2. /\ Through(CallOfPart, Append(front, more)) = Through(CallOfPart, front) \o <<>>
          /\ Through(CallOfPart, Append(front, last)) = Through(CallOfPart, front) \o <<>>
      BY <1>3, <2>1, <2>4, <3>1
    <3>3. QED
      BY <2>1, <3>2
  <2>14. Dialogue!CallsOf(new) = Dialogue!CallsOf(parts)
    BY <2>12, <2>13, CallsAre
  <2>15. QED
    BY <2>9, <2>10, <2>11, <2>12, <2>14 DEF new, e
<1>5. CASE ~(parts # <<>> /\ parts[Len(parts)].kind = "text")
  <2> DEFINE x == Dialogue!TextPart(<<n>>)
  <2>1. new = Append(parts, x)
    BY <1>5 DEF Dialogue!Last, Dialogue!Grown
  <2>2. x \in Part /\ x.kind = "text" /\ x.text = <<n>>
    BY DEF Dialogue!TextPart, Part
  <2>3. StepsOfPart[x] = <<e>>
    <3>1. Dialogue!TextEntries(<<n>>) = <<e>>
      BY DEF Dialogue!TextEntries
    <3> HIDE DEF x, e
    <3>2. QED
      BY <2>2, <3>1 DEF StepsOfPart
  <2> HIDE DEF x, e, new
  <2>4. /\ Through(StepsOfPart, Append(parts, x)) = Through(StepsOfPart, parts) \o <<e>>
        /\ Through(StepsOfPart, parts) \in Seq(Step)
    BY <1>3, <2>2, <2>3
  <2>5. Through(StepsOfPart, parts) \o <<e>> = Append(Through(StepsOfPart, parts), e)
    BY <1>1, <2>4
  <2>6. Append(parts, x) \in Seq(Part)
    BY <2>2
  <2>7. Through(CallOfPart, Append(parts, x)) = Through(CallOfPart, parts)
    BY <1>2, <1>3, <2>2, Concatenated
  <2>8. Dialogue!CallsOf(new) = Dialogue!CallsOf(parts)
    BY <2>1, <2>6, <2>7, CallsAre
  <2>9. QED
    BY <2>1, <2>4, <2>5, <2>6, <2>8 DEF new, e
<1>6. QED
  BY <1>4, <1>5

LEMMA StepsTyped ==
  ASSUME DialogueTyped
  PROVE  /\ Through(StepsOfMessage, run.said) \in Seq(Step)
         /\ Through(StepsOfPart, run.parts) \in Seq(Step)
         /\ Made \in Seq(Step) /\ Followed \in Seq(Step)
<1>1. run.said \in Seq(AgentMessage) /\ run.parts \in Seq(Part) /\ order \in Seq(Item)
  BY DEF DialogueTyped, RunState
<1>2. /\ Through(StepsOfMessage, run.said) \in Seq(Step) /\ Through(StepsOfPart, run.parts) \in Seq(Step)
      /\ Through(StepsOfItem, order) \in Seq(Step)
  BY <1>1, MapStepsOfMessage, MapStepsOfPart, MapStepsOfItem, ThroughType
<1>3. QED
  BY <1>2, Concatenated DEF Made, Followed

LEMMA TextStreamedStep == ASSUME DialogueInv, Dialogue!TextStreamed PROVE DialogueInv'
<1> DEFINE n == run.made + 1
           parts == Dialogue!Grown(run.parts, n)
           e == [kind |-> "assistant", token |-> n]
<1>1. DialogueTyped /\ PhaseFits /\ IdsFit /\ UsersFit /\ ToolsFit /\ StepsFit
  BY DEF DialogueInv
<1>2. /\ run.pc = "streaming" /\ run.made < MaxParts
      /\ history' = history /\ actions' = actions /\ whole' = whole
      /\ order' = Dialogue!reduceLiveRunOrder(order, Dialogue!Delta(n))
  BY DEF Dialogue!TextStreamed, Dialogue!Shown
<1>3. run' = [run EXCEPT !.made = n, !.parts = parts]
  BY DEF Dialogue!TextStreamed
<1>4. shot' = [shot EXCEPT !.text = Append(@, n)]
  BY DEF Dialogue!TextStreamed, Dialogue!Shown, Dialogue!reduceAgentRunEvent, Dialogue!Delta
<1>5. /\ run \in RunState /\ shot \in [text: Seq(Token), tools: Seq(Shown)] /\ order \in Seq(Item)
      /\ run.parts \in Seq(Part) /\ run.made \in Nat
  BY <1>1, CallsTyped DEF DialogueTyped, RunState
<1>6. n \in Token /\ n \in 0..MaxParts /\ n \in Nat /\ run.made <= n
  BY <1>2, <1>5, TokenBounds
<1>7. /\ parts \in Seq(Part) /\ Dialogue!CallsOf(parts) = Dialogue!CallsOf(run.parts)
      /\ Through(StepsOfPart, parts) = Append(Through(StepsOfPart, run.parts), e)
  BY <1>5, <1>6, PartsText
<1> HIDE DEF n, parts
<1>8. /\ run' \in RunState /\ run'.made = n /\ run'.parts = parts /\ run'.pc = run.pc
      /\ run'.said = run.said /\ run'.exec = run.exec /\ run'.number = run.number
      /\ run'.input = run.input /\ run'.cut = run.cut
  BY <1>3, <1>5, <1>6, <1>7 DEF RunState
<1>9. shot' \in [text: Seq(Token), tools: Seq(Shown)] /\ shot'.tools = shot.tools
      /\ shot'.text = Append(shot.text, n)
  <2>1. Append(shot.text, n) \in Seq(Token)
    BY <1>5, <1>6
  <2>2. ASSUME NEW s \in [text: Seq(Token), tools: Seq(Shown)], NEW x \in Seq(Token)
        PROVE  /\ [s EXCEPT !.text = x] \in [text: Seq(Token), tools: Seq(Shown)]
               /\ [s EXCEPT !.text = x].tools = s.tools /\ [s EXCEPT !.text = x].text = x
    OBVIOUS
  <2>3. QED
    BY <1>4, <1>5, <2>1, <2>2
<1>10. order' \in Seq(Item) /\ Through(StepsOfItem, order') = Append(Through(StepsOfItem, order), e)
  BY <1>2, <1>5, <1>6, OrderText
<1>11. DialogueTyped'
  BY <1>1, <1>2, <1>8, <1>9, <1>10 DEF DialogueTyped
<1>12. Calls' = Calls
  BY <1>7, <1>8 DEF Calls
<1>13. PhaseFits'
  BY <1>1, <1>2, <1>8, <1>12 DEF PhaseFits
<1>14. IdsFit'
  BY <1>1, <1>2, <1>6, <1>8, <1>12, SameIds
<1>15. UsersFit'
  <2>1. \A m \in Elements(run'.said) : m.role # "user"
    BY <1>1, <1>8 DEF UsersFit
  <2>2. QED
    BY <1>1, <1>2, <1>8, <2>1, SameUsers
<1>16. ToolsFit'
  <2>1. \A t \in Elements(shot.tools) : t.id <= run'.made
    <3>1. Elements(shot.tools) \subseteq Shown
      BY <1>5, ElementsIn
    <3>2. \A t \in Shown : t.id \in Nat
      BY TokenBounds DEF Shown
    <3>3. QED
      BY <1>1, <1>5, <1>6, <1>8, <3>1, <3>2 DEF ToolsFit
  <2>2. \A i : Outcome(i)' = Outcome(i)
    BY <1>8 DEF Outcome
  <2>3. \A id, name, ok : Settles(id, name, ok)' <=> Settles(id, name, ok)
    BY <1>8, <1>9 DEF Settles
  <2>4. QED
    BY <1>1, <1>8, <1>9, <1>12, <2>1, <2>2, <2>3 DEF ToolsFit
<1>17. StepsFit'
  <2>1. Made \in Seq(Step) /\ Followed \in Seq(Step) /\ Through(StepsOfMessage, run.said) \in Seq(Step)
        /\ Through(StepsOfPart, run.parts) \in Seq(Step)
    BY <1>1, StepsTyped
  <2>2. Made' = Append(Made, e)
    <3>1. e \in Step
      BY <1>6 DEF Step
    <3> HIDE DEF e
    <3>2. Through(StepsOfMessage, run.said) \o Append(Through(StepsOfPart, run.parts), e)
            = Append(Through(StepsOfMessage, run.said) \o Through(StepsOfPart, run.parts), e)
      BY <2>1, <3>1, AppendedLater
    <3>3. QED
      BY <1>7, <1>8, <3>2 DEF Made
  <2>3. Followed' = Append(Followed, e)
    BY <1>10 DEF Followed
  <2>4. Follows(Followed, Made, shot.text, shot.tools, whole)
    BY <1>1 DEF StepsFit
  <2>5. Follows(Append(Followed, e), Append(Made, e), Append(shot.text, n), shot.tools, whole)
    BY <1>5, <1>6, <2>1, <2>4, FollowsText
  <2>6. QED
    BY <1>2, <1>9, <2>2, <2>3, <2>5 DEF StepsFit
<1>18. QED
  BY <1>11, <1>13, <1>14, <1>15, <1>16, <1>17 DEF DialogueInv

\* The page has followed the calls that the snapshot holds, and no others.
LEMMA FollowedCalls ==
  ASSUME NEW followed \in Seq(Step), NEW made \in Seq(Step), NEW text, NEW tools, NEW complete,
         Follows(followed, made, text, tools, complete), NEW id \in Token
  PROVE  Dialogue!ToolItem(id) \in Elements(followed) <=> \E t \in Elements(tools) : t.id = id
<1> DEFINE x == Dialogue!ToolItem(id)
           ids == [i \in DOMAIN tools |-> Dialogue!ToolItem(tools[i].id)]
<1>1. Through(OfSort("tool"), followed) = ids
  BY DEF Follows
<1>2. x \in Step /\ x.kind = "tool"
  BY DEF Dialogue!ToolItem, Step
<1>3. \A y : y \in Elements(Through(OfSort("tool"), followed))
               <=> \E s \in Elements(followed) : y \in Elements(OfSort("tool")[s])
  BY MapOfSort, ElementsThrough
<1>4. ASSUME NEW s \in Step PROVE x \in Elements(OfSort("tool")[s]) <=> s = x
  <2>1. OfSort("tool")[s] = IF s.kind = "tool" THEN <<s>> ELSE <<>>
    BY SortOfOne
  <2> HIDE DEF x
  <2>2. QED
    BY <1>2, <2>1, ElementsOfOne
<1>5. Elements(followed) \subseteq Step
  BY ElementsIn
<1>6. x \in Elements(followed) <=> x \in Elements(ids)
  <2> HIDE DEF x, ids
  <2>1. QED
    BY <1>1, <1>3, <1>4, <1>5
<1>7. x \in Elements(ids) <=> \E t \in Elements(tools) : t.id = id
  <2>1. \A other : Dialogue!ToolItem(other) = x <=> other = id
    BY DEF Dialogue!ToolItem
  <2>2. DOMAIN ids = DOMAIN tools /\ \A i \in DOMAIN tools : ids[i] = Dialogue!ToolItem(tools[i].id)
    OBVIOUS
  <2> HIDE DEF x, ids
  <2>3. QED
    BY <2>1, <2>2 DEF Elements
<1>8. QED
  BY <1>6, <1>7

LEMMA CallStreamedStep == ASSUME DialogueInv, Dialogue!CallStreamed PROVE DialogueInv'
<1> DEFINE n == run.made + 1
<1>1. DialogueTyped /\ PhaseFits /\ IdsFit /\ UsersFit /\ ToolsFit /\ StepsFit
  BY DEF DialogueInv
<1>2. /\ run.pc = "streaming" /\ run.made < MaxParts
      /\ history' = history /\ actions' = actions /\ whole' = whole
  BY DEF Dialogue!CallStreamed
<1>3. PICK name \in Dialogue!Names :
        /\ run' = [run EXCEPT !.made = @ + 1, !.parts = Append(@, Dialogue!CallPart(n, name))]
        /\ Dialogue!Shown(Dialogue!Called(n, name))
  BY DEF Dialogue!CallStreamed
<1> DEFINE c == Dialogue!CallPart(n, name)
           t == Display(c, "pending")
           e == Dialogue!ToolItem(n)
<1>4. /\ run \in RunState /\ shot \in [text: Seq(Token), tools: Seq(Shown)] /\ order \in Seq(Item)
      /\ run.parts \in Seq(Part) /\ run.made \in Nat /\ Calls \in Seq(Call)
      /\ shot.tools \in Seq(Shown)
  BY <1>1, CallsTyped DEF DialogueTyped, RunState
<1>5. n \in Token /\ n \in 0..MaxParts /\ n \in Nat /\ run.made <= n /\ run.made < n
  BY <1>2, <1>4, TokenBounds
<1>6. c \in Part /\ c \in Call /\ c.kind = "call" /\ c.id = n /\ c.name = name
  BY <1>5 DEF Dialogue!CallPart, Part, Call
<1>7. t \in Shown /\ t.id = n /\ t = [id |-> n, name |-> name, status |-> "pending", error |-> FALSE]
  BY <1>5 DEF Display, Shown, Dialogue!CallPart
<1>8. e \in Step
  BY <1>5 DEF Dialogue!ToolItem, Step
<1>9. \A x \in Elements(shot.tools) : x.id # n /\ x.id \in Nat
  <2>1. Elements(shot.tools) \subseteq Shown
    BY <1>4, ElementsIn
  <2>2. \A x \in Shown : x.id \in Nat
    BY TokenBounds DEF Shown
  <2>3. \A x \in Elements(shot.tools) : x.id <= run.made
    BY <1>1 DEF ToolsFit
  <2>4. QED
    BY <1>4, <1>5, <2>1, <2>2, <2>3
<1> HIDE DEF n, c
<1>10. /\ run' \in RunState /\ run'.made = n /\ run'.parts = Append(run.parts, c)
       /\ run'.pc = run.pc /\ run'.said = run.said /\ run'.exec = run.exec
       /\ run'.number = run.number /\ run'.input = run.input /\ run'.cut = run.cut
  <2>1. Append(run.parts, c) \in Seq(Part)
    BY <1>4, <1>6
  <2>2. run' = [run EXCEPT !.made = n, !.parts = Append(run.parts, c)]
    BY <1>3 DEF n, c
  <2>3. QED
    BY <1>4, <1>5, <2>1, <2>2 DEF RunState
<1>11. /\ shot' \in [text: Seq(Token), tools: Seq(Shown)] /\ shot'.text = shot.text
       /\ shot'.tools = Append(shot.tools, t)
  <2>1. ~ \E i \in DOMAIN shot.tools : shot.tools[i].id = n
    BY <1>9 DEF Elements
  <2>2. shot' = [shot EXCEPT !.tools = Dialogue!Displayed(@, Dialogue!Called(n, name))]
    BY <1>3 DEF Dialogue!Shown, Dialogue!reduceAgentRunEvent, Dialogue!Called
  <2>3. Dialogue!Displayed(shot.tools, Dialogue!Called(n, name)) = Append(shot.tools, t)
    BY <1>7, <2>1 DEF Dialogue!Displayed, Dialogue!Called
  <2> HIDE DEF t
  <2>4. Append(shot.tools, t) \in Seq(Shown)
    BY <1>4, <1>7
  <2>5. ASSUME NEW s \in [text: Seq(Token), tools: Seq(Shown)], NEW x \in Seq(Shown)
        PROVE  /\ [s EXCEPT !.tools = x] \in [text: Seq(Token), tools: Seq(Shown)]
               /\ [s EXCEPT !.tools = x].text = s.text /\ [s EXCEPT !.tools = x].tools = x
    OBVIOUS
  <2>6. QED
    BY <1>4, <2>2, <2>3, <2>4, <2>5
<1>12. Made \in Seq(Step) /\ Followed \in Seq(Step) /\ Through(StepsOfMessage, run.said) \in Seq(Step)
       /\ Through(StepsOfPart, run.parts) \in Seq(Step)
  BY <1>1, StepsTyped
<1>13. Follows(Followed, Made, shot.text, shot.tools, whole)
  BY <1>1 DEF StepsFit
<1>14. order' \in Seq(Item) /\ Through(StepsOfItem, order') = Append(Through(StepsOfItem, order), e)
  <2>1. e \notin Elements(Through(StepsOfItem, order))
    <3>1. e \in Elements(Followed) <=> \E x \in Elements(shot.tools) : x.id = n
      BY <1>5, <1>12, <1>13, FollowedCalls
    <3>2. QED
      BY <1>9, <3>1 DEF Followed
  <2> DEFINE event == Dialogue!Called(n, name)
  <2>2. event.type # "assistant_text_delta" /\ event.id = n
    BY DEF Dialogue!Called
  <2>3. order' = Dialogue!reduceLiveRunOrder(order, event)
    BY <1>3 DEF Dialogue!Shown
  <2> HIDE DEF event
  <2>4. QED
    BY <1>4, <1>5, <2>1, <2>2, <2>3, OrderCall
<1>15. DialogueTyped'
  BY <1>1, <1>2, <1>10, <1>11, <1>14 DEF DialogueTyped
<1>16. Calls' = Append(Calls, c)
  <2>1. CallOfPart[c] = <<c>>
    BY <1>6 DEF CallOfPart
  <2>2. Through(CallOfPart, Append(run.parts, c)) = Through(CallOfPart, run.parts) \o CallOfPart[c]
    BY <1>4, <1>6, PartsAppend
  <2>3. Append(run.parts, c) \in Seq(Part)
    BY <1>4, <1>6
  <2>4. Calls' = Calls \o <<c>>
    BY <1>4, <1>10, <2>1, <2>2, <2>3, CallsAre DEF Calls
  <2>5. QED
    BY <1>4, <1>6, <2>4
<1>17. /\ DOMAIN Calls = 1..Len(Calls) /\ DOMAIN Calls' = 1..Len(Calls) + 1 /\ Len(Calls) \in Nat
       /\ Calls'[Len(Calls) + 1] = c
       /\ \A i \in 1..Len(Calls) : Calls'[i] = Calls[i]
  BY <1>4, <1>6, <1>16
<1>18. \A i \in 1..Len(Calls) : Calls[i].id \in Nat /\ Calls[i].id <= run.made
  BY <1>1, <1>17, CallsTyped DEF IdsFit
<1>19. ASSUME NEW i \in DOMAIN Calls'
       PROVE  i \in 1..Len(Calls) \/ (i = Len(Calls) + 1 /\ Calls'[i] = c)
  BY <1>17
<1>20. PhaseFits'
  BY <1>1, <1>2, <1>10 DEF PhaseFits
<1>21. IdsFit'
  <2>1. \A i, j \in DOMAIN Calls' : Calls'[i].id = Calls'[j].id => i = j
    <3> SUFFICES ASSUME NEW i \in DOMAIN Calls', NEW j \in DOMAIN Calls', Calls'[i].id = Calls'[j].id
                 PROVE  i = j
      OBVIOUS
    <3>1. ASSUME NEW k \in 1..Len(Calls) PROVE Calls'[k].id # n
      <4>1. Calls'[k] = Calls[k] /\ Calls[k].id \in Nat /\ Calls[k].id <= run.made
        BY <1>17, <1>18
      <4>2. Calls[k].id # n
        BY <1>4, <1>5, <4>1
      <4>3. QED
        BY <4>1, <4>2
    <3>2. CASE i \in 1..Len(Calls) /\ j \in 1..Len(Calls)
      <4>1. Calls[i].id = Calls[j].id
        BY <1>17, <3>2
      <4>2. QED
        BY <1>1, <1>17, <3>2, <4>1 DEF IdsFit
    <3>3. CASE ~(i \in 1..Len(Calls) /\ j \in 1..Len(Calls))
      BY <1>6, <1>19, <3>1, <3>3
    <3>4. QED
      BY <3>2, <3>3
  <2>2. \A id \in IdsOf(run.said) \cup IdsOf(history) : id \in Nat /\ id <= run.made
    BY <1>1, IdsAreNumbers DEF IdsFit
  <2>3. n \notin IdsOf(run.said) \cup IdsOf(history)
    BY <1>4, <1>5, <2>2
  <2>4. ASSUME NEW i \in DOMAIN Calls'
        PROVE  Calls'[i].id \notin IdsOf(run.said) \cup IdsOf(history) /\ Calls'[i].id <= n
    <3>1. CASE i \in 1..Len(Calls)
      BY <1>1, <1>4, <1>5, <1>17, <1>18, <3>1 DEF IdsFit
    <3>2. CASE Calls'[i] = c
      BY <1>5, <1>6, <2>3, <3>2
    <3>3. QED
      BY <1>19, <3>1, <3>2
  <2>5. \A id \in IdsOf(run.said) \cup IdsOf(history) : id <= n
    BY <1>4, <1>5, <2>2
  <2>6. QED
    BY <1>1, <1>2, <1>10, <2>1, <2>4, <2>5 DEF IdsFit
<1>22. UsersFit'
  <2>1. \A m \in Elements(run'.said) : m.role # "user"
    BY <1>1, <1>10 DEF UsersFit
  <2>2. QED
    BY <1>1, <1>2, <1>10, <2>1, SameUsers
<1>23. Elements(shot'.tools) = Elements(shot.tools) \cup {t}
  BY <1>4, <1>7, <1>11, ElementsAppend
<1>24. ToolsFit'
  <2> HIDE DEF t
  <2>1. \A i, j \in DOMAIN shot'.tools : shot'.tools[i].id = shot'.tools[j].id => i = j
    <3>1. /\ DOMAIN shot.tools = 1..Len(shot.tools) /\ Len(shot.tools) \in Nat
          /\ DOMAIN shot'.tools = 1..Len(shot.tools) + 1
          /\ shot'.tools[Len(shot.tools) + 1] = t
          /\ \A i \in 1..Len(shot.tools) : shot'.tools[i] = shot.tools[i]
      BY <1>4, <1>7, <1>11
    <3>2. \A i \in 1..Len(shot.tools) : shot.tools[i].id # n
      BY <1>9, <3>1 DEF Elements
    <3>3. \A i, j \in 1..Len(shot.tools) : shot.tools[i].id = shot.tools[j].id => i = j
      BY <1>1, <3>1 DEF ToolsFit
    <3>4. \A i \in DOMAIN shot'.tools : i \in 1..Len(shot.tools) \/ i = Len(shot.tools) + 1
      BY <3>1
    <3>5. QED
      BY <1>7, <3>1, <3>2, <3>3, <3>4
  <2>2. \A x \in Elements(shot'.tools) : x.id <= run'.made
    <3>1. \A x \in Elements(shot.tools) : x.id <= run.made
      BY <1>1 DEF ToolsFit
    <3>2. \A x \in Elements(shot.tools) : x.id <= n
      BY <1>4, <1>5, <1>9, <3>1
    <3>3. QED
      BY <1>5, <1>7, <1>10, <1>23, <3>2
  <2>3. \A i : Outcome(i)' = "pending" /\ Outcome(i) = "pending"
    BY <1>2, <1>10 DEF Outcome
  <2>4. ASSUME NEW i \in DOMAIN Calls' PROVE Display(Calls'[i], Outcome(i)') \in Elements(shot'.tools)
    <3>1. CASE i \in 1..Len(Calls)
      <4>1. Display(Calls[i], Outcome(i)) \in Elements(shot.tools)
        BY <1>1, <1>17, <3>1 DEF ToolsFit
      <4>2. QED
        BY <1>17, <1>23, <2>3, <3>1, <4>1
    <3>2. CASE Calls'[i] = c
      BY <1>23, <2>3, <3>2 DEF t
    <3>3. QED
      BY <1>19, <3>1, <3>2
  <2>5. \A id, name2, ok : Settles(id, name2, ok) => Settles(id, name2, ok)'
    BY <1>10, <1>23 DEF Settles
  <2>6. QED
    BY <1>1, <1>10, <2>1, <2>2, <2>4, <2>5 DEF ToolsFit
<1>25. StepsFit'
  <2>1. Made' = Append(Made, e)
    <3>1. StepsOfPart[c] = <<e>>
      BY <1>6 DEF StepsOfPart
    <3> HIDE DEF e
    <3>2. Through(StepsOfPart, Append(run.parts, c)) = Through(StepsOfPart, run.parts) \o StepsOfPart[c]
      BY <1>4, <1>6, PartsAppend
    <3>3. /\ Append(Through(StepsOfPart, run.parts), e) = Through(StepsOfPart, run.parts) \o <<e>>
          /\ Through(StepsOfMessage, run.said) \o Append(Through(StepsOfPart, run.parts), e)
               = Append(Through(StepsOfMessage, run.said) \o Through(StepsOfPart, run.parts), e)
      BY <1>8, <1>12, AppendedLater
    <3>4. QED
      BY <1>10, <3>1, <3>2, <3>3 DEF Made
  <2>2. Followed' = Append(Followed, e)
    BY <1>14 DEF Followed
  <2>3. Follows(Append(Followed, e), Append(Made, e), shot.text, Append(shot.tools, t), whole)
    <3> HIDE DEF t
    <3>1. QED
      BY <1>4, <1>7, <1>12, <1>13, FollowsCall
  <2>4. QED
    BY <1>2, <1>11, <2>1, <2>2, <2>3 DEF StepsFit
<1>26. QED
  BY <1>15, <1>20, <1>21, <1>22, <1>24, <1>25 DEF DialogueInv

(***************************************************************************)
(* A message ends, and the page goes on with a snapshot                    *)
(***************************************************************************)
LEMMA SaidAppend ==
  ASSUME NEW said \in Seq(AgentMessage), NEW parts \in Seq(Part)
  PROVE  LET more == Append(said, Dialogue!AssistantMessage(parts)) IN
         /\ more \in Seq(AgentMessage)
         /\ Elements(more) = Elements(said) \cup {Dialogue!AssistantMessage(parts)}
         /\ \A c : Says(more, c) <=> Says(said, c) \/ c \in Elements(parts)
         /\ \A id, ok : Knows(more, id, ok) <=> Knows(said, id, ok)
         /\ IdsOf(more) = IdsOf(said) \cup {c.id : c \in Elements(Dialogue!CallsOf(parts))}
         /\ Through(StepsOfMessage, more)
              = Through(StepsOfMessage, said) \o Through(StepsOfPart, parts)
<1> DEFINE m == Dialogue!AssistantMessage(parts)
           more == Append(said, m)
<1>1. m \in AgentMessage /\ m.role = "assistant" /\ m.parts = parts
  BY DEF Dialogue!AssistantMessage, AgentMessage
<1>2. /\ \A c : Says(<<m>>, c) <=> c \in Elements(parts)
      /\ \A id, ok : ~Knows(<<m>>, id, ok)
  BY AssistantSays
<1>3. StepsOfMessage[m] = Through(StepsOfPart, parts)
  <2> HIDE DEF m
  <2>1. QED
    BY <1>1 DEF StepsOfMessage
<1> HIDE DEF m
<1>4. more \in Seq(AgentMessage) /\ <<m>> \in Seq(AgentMessage) /\ more = said \o <<m>>
  BY <1>1
<1>5. Elements(more) = Elements(said) \cup {m}
  BY <1>1, ElementsAppend
<1>6. /\ \A c : Says(said \o <<m>>, c) <=> Says(said, c) \/ Says(<<m>>, c)
      /\ \A id, ok : Knows(said \o <<m>>, id, ok) <=> Knows(said, id, ok) \/ Knows(<<m>>, id, ok)
      /\ IdsOf(said \o <<m>>) = IdsOf(said) \cup IdsOf(<<m>>)
  BY <1>4, SaysOf
<1>7. IdsOf(<<m>>) = {c.id : c \in Elements(Dialogue!CallsOf(parts))}
  <2>1. \A c : c \in Elements(Dialogue!CallsOf(parts)) <=> c \in Elements(parts) /\ c.kind = "call"
    BY CallsAre
  <2>2. Elements(Dialogue!CallsOf(parts)) \subseteq Call
    BY CallsAre, ElementsIn
  <2>3. \A c \in Call : /\ c = Dialogue!CallPart(c.id, c.name)
                        /\ c.id \in Token /\ c.name \in Dialogue!Names
    BY CallIs DEF Call
  <2>4. \A id, name : Dialogue!CallPart(id, name).kind = "call" /\ Dialogue!CallPart(id, name).id = id
    BY DEF Dialogue!CallPart
  <2>5. ASSUME NEW id \in IdsOf(<<m>>) PROVE id \in {c.id : c \in Elements(Dialogue!CallsOf(parts))}
    <3>1. PICK name \in Dialogue!Names : Says(<<m>>, Dialogue!CallPart(id, name))
      BY <1>2 DEF IdsOf
    <3>2. Dialogue!CallPart(id, name) \in Elements(Dialogue!CallsOf(parts))
      BY <1>2, <2>1, <2>4, <3>1
    <3>3. QED
      BY <2>4, <3>2
  <2>6. ASSUME NEW c \in Elements(Dialogue!CallsOf(parts)) PROVE c.id \in IdsOf(<<m>>)
    <3>1. Says(<<m>>, Dialogue!CallPart(c.id, c.name)) /\ c.id \in Token /\ c.name \in Dialogue!Names
      BY <1>2, <2>1, <2>2, <2>3
    <3>2. QED
      BY <3>1 DEF IdsOf
  <2>7. QED
    BY <2>5, <2>6
<1>8. Through(StepsOfMessage, more) = Through(StepsOfMessage, said) \o StepsOfMessage[m]
  BY <1>1, MapStepsOfMessage, ThroughAppend
<1> HIDE DEF more
<1>9. /\ more \in Seq(AgentMessage) /\ Elements(more) = Elements(said) \cup {m}
      /\ \A c : Says(more, c) <=> Says(said, c) \/ c \in Elements(parts)
      /\ \A id, ok : Knows(more, id, ok) <=> Knows(said, id, ok)
      /\ IdsOf(more) = IdsOf(said) \cup {c.id : c \in Elements(Dialogue!CallsOf(parts))}
      /\ Through(StepsOfMessage, more) = Through(StepsOfMessage, said) \o Through(StepsOfPart, parts)
  BY <1>2, <1>3, <1>4, <1>5, <1>6, <1>7, <1>8
<1>10. QED
  BY <1>9 DEF more, m

\* The ids of what a run has said become those of the calls of its last message.
LEMMA TakenIds ==
  ASSUME DialogueTyped, IdsFit, Calls' = <<>>, history' = history, actions' = actions,
         run'.input = run.input, run'.made = run.made,
         IdsOf(run'.said) = IdsOf(run.said) \cup {c.id : c \in Elements(Calls)}
  PROVE  IdsFit'
<1>1. \A id \in {c.id : c \in Elements(Calls)} : id <= run.made /\ id \notin IdsOf(history)
  BY DEF IdsFit, Elements
<1>2. \A id \in IdsOf(run'.said) \cup IdsOf(history) : id <= run.made
  BY <1>1 DEF IdsFit
<1>3. IdsOf(run'.said) \cap IdsOf(history) = {}
  BY <1>1 DEF IdsFit
<1>4. QED
  BY <1>2, <1>3 DEF IdsFit

LEMMA SaidMade ==
  ASSUME DialogueTyped, run'.parts = <<>>,
         Through(StepsOfMessage, run'.said)
           = Through(StepsOfMessage, run.said) \o Through(StepsOfPart, run.parts)
  PROVE  Made' = Made
<1>1. Made \in Seq(Step)
  BY StepsTyped
<1>2. Through(StepsOfMessage, run'.said) \o <<>> = Made
  BY <1>1 DEF Made
<1>3. QED
  BY <1>2, ThroughEmpty DEF Made

\* The message is the last of the run: it calls nothing, or it has been cut off.
LEMMA LastMessage ==
  ASSUME DialogueInv, run.pc = "streaming", NEW b \in BOOLEAN,
         b \/ (b = run.cut /\ Calls = <<>>),
         run' = [run EXCEPT !.pc = "ended", !.parts = <<>>, !.cut = b,
                            !.said = Append(@, Dialogue!AssistantMessage(run.parts))],
         history' = history, actions' = actions, shot' = shot, order' = order, whole' = whole
  PROVE  DialogueInv'
<1> DEFINE said == Append(run.said, Dialogue!AssistantMessage(run.parts))
<1>1. DialogueTyped /\ PhaseFits /\ IdsFit /\ UsersFit /\ ToolsFit /\ StepsFit
  BY DEF DialogueInv
<1>2. run \in RunState /\ run.said \in Seq(AgentMessage) /\ run.parts \in Seq(Part)
  BY <1>1 DEF DialogueTyped, RunState
<1>3. /\ said \in Seq(AgentMessage)
      /\ Elements(said) = Elements(run.said) \cup {Dialogue!AssistantMessage(run.parts)}
      /\ \A c : Says(said, c) <=> Says(run.said, c) \/ c \in Elements(run.parts)
      /\ \A id, ok : Knows(said, id, ok) <=> Knows(run.said, id, ok)
      /\ IdsOf(said) = IdsOf(run.said) \cup {c.id : c \in Elements(Calls)}
      /\ Through(StepsOfMessage, said) = Through(StepsOfMessage, run.said) \o Through(StepsOfPart, run.parts)
  BY <1>2, SaidAppend DEF Calls
<1> HIDE DEF said
<1>4. /\ run' \in RunState /\ run'.pc = "ended" /\ run'.parts = <<>> /\ run'.said = said
      /\ run'.exec = run.exec /\ run'.made = run.made /\ run'.number = run.number
      /\ run'.input = run.input /\ run'.cut = b
  <2>1. <<>> \in Seq(Part)
    OBVIOUS
  <2>2. run' = [run EXCEPT !.pc = "ended", !.parts = <<>>, !.cut = b, !.said = said]
    BY DEF said
  <2>3. QED
    BY <1>2, <1>3, <2>1, <2>2 DEF RunState
<1>5. DialogueTyped'
  BY <1>1, <1>4 DEF DialogueTyped
<1>6. Calls' = <<>>
  BY <1>4, NoCalls DEF Calls
<1>7. PhaseFits'
  BY <1>1, <1>4 DEF PhaseFits
<1>8. IdsFit'
  BY <1>1, <1>3, <1>4, <1>6, TakenIds
<1>9. UsersFit'
  <2>1. Dialogue!AssistantMessage(run.parts).role # "user"
    BY DEF Dialogue!AssistantMessage
  <2>2. \A m \in Elements(run'.said) : m.role # "user"
    BY <1>1, <1>3, <1>4, <2>1 DEF UsersFit
  <2>3. QED
    BY <1>1, <1>4, <2>2, SameUsers
<1>10. ToolsFit'
  <2>1. ASSUME ~run'.cut, NEW id \in Token, NEW name \in Dialogue!Names,
               Says(run'.said, Dialogue!CallPart(id, name))
        PROVE  \E ok \in BOOLEAN : Settles(id, name, ok)'
    <3>1. Dialogue!CallPart(id, name) \notin Elements(run.parts)
      <4>1. Calls = <<>> /\ Elements(<<>>) = {}
        BY <1>4, <2>1, ElementsOfOne
      <4>2. Dialogue!CallPart(id, name).kind = "call"
        BY DEF Dialogue!CallPart
      <4>3. \A c : c \in Elements(Calls) <=> c \in Elements(run.parts) /\ c.kind = "call"
        BY <1>2, CallsAre DEF Calls
      <4>4. QED
        BY <4>1, <4>2, <4>3
    <3>2. Says(run.said, Dialogue!CallPart(id, name)) /\ ~run.cut
      BY <1>3, <1>4, <2>1, <3>1
    <3>3. PICK ok \in BOOLEAN : Settles(id, name, ok)
      BY <1>1, <3>2 DEF ToolsFit
    <3>4. Settles(id, name, ok)'
      BY <1>3, <1>4, <3>3 DEF Settles
    <3>5. QED
      BY <3>4
  <2>2. QED
    BY <1>1, <1>4, <1>6, <2>1 DEF ToolsFit
<1>11. StepsFit'
  <2>1. Made' = Made
    BY <1>1, <1>3, <1>4, SaidMade
  <2>2. Followed' = Followed
    BY DEF Followed
  <2>3. QED
    BY <1>1, <2>1, <2>2 DEF StepsFit
<1>12. QED
  BY <1>5, <1>7, <1>8, <1>9, <1>10, <1>11 DEF DialogueInv

LEMMA CutOffStep == ASSUME DialogueInv, Dialogue!MessageCutOff PROVE DialogueInv'
<1>1. run \in RunState /\ run.cut \in BOOLEAN
  BY DEF DialogueInv, DialogueTyped, RunState
<1>2. run' = [run EXCEPT !.pc = "ended", !.parts = <<>>, !.cut = TRUE,
                         !.said = Append(@, Dialogue!AssistantMessage(run.parts))]
  BY DEF Dialogue!MessageCutOff
<1>3. QED
  BY <1>1, <1>2, LastMessage DEF Dialogue!MessageCutOff

LEMMA EndsStep == ASSUME DialogueInv, Dialogue!MessageEnds PROVE DialogueInv'
<1>1. DialogueTyped /\ PhaseFits /\ IdsFit /\ UsersFit /\ ToolsFit /\ StepsFit
  BY DEF DialogueInv
<1>2. run \in RunState /\ run.cut \in BOOLEAN /\ Calls \in Seq(Call)
  BY <1>1, CallsTyped DEF DialogueTyped, RunState
<1>3. /\ run.pc = "streaming" /\ history' = history /\ actions' = actions /\ shot' = shot
      /\ order' = order /\ whole' = whole
  BY DEF Dialogue!MessageEnds
<1>4. CASE Calls = <<>>
  <2>1. run' = [run EXCEPT !.pc = "ended", !.parts = <<>>,
                           !.said = Append(@, Dialogue!AssistantMessage(run.parts))]
    BY <1>4 DEF Dialogue!MessageEnds, Calls
  <2>2. run' = [run EXCEPT !.pc = "ended", !.parts = <<>>, !.cut = run.cut,
                           !.said = Append(@, Dialogue!AssistantMessage(run.parts))]
    BY <1>2, <2>1 DEF RunState
  <2>3. QED
    BY <1>2, <1>3, <1>4, <2>2, LastMessage
<1>5. CASE Calls # <<>>
  <2> DEFINE exec0 == [i \in DOMAIN Calls |-> "pending"]
  <2>1. run' = [run EXCEPT !.pc = "executing", !.exec = exec0]
    BY <1>5 DEF Dialogue!MessageEnds, Calls
  <2>2. exec0 \in Seq(Outcomes) /\ Len(exec0) = Len(Calls)
        /\ \A i \in DOMAIN Calls : exec0[i] = "pending"
    BY <1>2 DEF Outcomes
  <2> HIDE DEF exec0
  <2>3. /\ run' \in RunState /\ run'.pc = "executing" /\ run'.parts = run.parts
        /\ run'.said = run.said /\ run'.exec = exec0 /\ run'.made = run.made
        /\ run'.number = run.number /\ run'.input = run.input /\ run'.cut = run.cut
    BY <1>2, <2>1, <2>2 DEF RunState
  <2>4. DialogueTyped'
    BY <1>1, <1>3, <2>3 DEF DialogueTyped
  <2>5. Calls' = Calls
    BY <2>3 DEF Calls
  <2>6. PhaseFits'
    BY <2>2, <2>3, <2>5 DEF PhaseFits
  <2>7. IdsFit'
    <3>1. run.made \in Nat
      BY <1>1, CallsTyped
    <3>2. QED
      BY <1>1, <1>3, <2>3, <2>5, <3>1, SameIds
  <2>8. UsersFit'
    <3>1. \A m \in Elements(run'.said) : m.role # "user"
      BY <1>1, <2>3 DEF UsersFit
    <3>2. QED
      BY <1>1, <1>3, <2>3, <3>1, SameUsers
  <2>9. ToolsFit'
    <3>1. \A i \in DOMAIN Calls : Outcome(i)' = "pending" /\ Outcome(i) = "pending"
      BY <1>3, <2>2, <2>3 DEF Outcome
    <3>2. \A id, name, ok : Settles(id, name, ok)' <=> Settles(id, name, ok)
      BY <1>3, <2>3 DEF Settles
    <3>3. QED
      BY <1>1, <1>3, <2>3, <2>5, <3>1, <3>2 DEF ToolsFit
  <2>10. StepsFit'
    BY <1>1, <1>3, <2>3 DEF StepsFit, Made, Followed
  <2>11. QED
    BY <2>4, <2>6, <2>7, <2>8, <2>9, <2>10 DEF DialogueInv
<1>6. QED
  BY <1>4, <1>5

LEMMA ReconnectsStep == ASSUME DialogueInv, Dialogue!Reconnects PROVE DialogueInv'
<1>1. DialogueTyped /\ PhaseFits /\ IdsFit /\ UsersFit /\ ToolsFit /\ StepsFit
  BY DEF DialogueInv
<1>2. /\ history' = history /\ actions' = actions /\ run' = run /\ shot' = shot
      /\ order' = Dialogue!createLiveRunOrder(shot) /\ whole' = FALSE
  BY DEF Dialogue!Reconnects
<1>3. shot.text \in Seq(Token) /\ shot.tools \in Seq(Shown)
  BY <1>1 DEF DialogueTyped
<1>4. Made \in Seq(Step) /\ Followed \in Seq(Step)
  BY <1>1, StepsTyped
<1>5. Follows(Followed, Made, shot.text, shot.tools, whole)
  BY <1>1 DEF StepsFit
<1>6. /\ Dialogue!createLiveRunOrder(shot) \in Seq(Item)
      /\ Follows(Through(StepsOfItem, Dialogue!createLiveRunOrder(shot)), Made, shot.text,
                 shot.tools, FALSE)
  BY <1>3, <1>4, <1>5, FollowsAgain
<1>7. DialogueTyped'
  BY <1>1, <1>2, <1>6 DEF DialogueTyped
<1>8. Calls' = Calls /\ Made' = Made
  BY <1>2 DEF Calls, Made
<1>9. PhaseFits' /\ UsersFit'
  BY <1>1, <1>2, <1>8 DEF PhaseFits, UsersFit, LastRun, InputFits
<1>10. IdsFit'
  BY <1>1, <1>2, <1>8 DEF IdsFit
<1>11. ToolsFit'
  <2>1. \A i : Outcome(i)' = Outcome(i)
    BY <1>2 DEF Outcome
  <2>2. \A id, name, ok : Settles(id, name, ok)' <=> Settles(id, name, ok)
    BY <1>2 DEF Settles
  <2>3. QED
    BY <1>1, <1>2, <1>8, <2>1, <2>2 DEF ToolsFit
<1>12. StepsFit'
  BY <1>2, <1>6, <1>8 DEF StepsFit, Followed
<1>13. QED
  BY <1>7, <1>9, <1>10, <1>11, <1>12 DEF DialogueInv

LEMMA DialogueStands == ASSUME DialogueInv, UNCHANGED dialogue PROVE DialogueInv'
<1>1. DialogueTyped /\ PhaseFits /\ IdsFit /\ UsersFit /\ ToolsFit /\ StepsFit
  BY DEF DialogueInv
<1>2. /\ history' = history /\ actions' = actions /\ run' = run /\ shot' = shot
      /\ order' = order /\ whole' = whole
  BY DEF dialogue
<1>3. Calls' = Calls /\ Made' = Made /\ Followed' = Followed
  BY <1>2 DEF Calls, Made, Followed
<1>4. DialogueTyped' /\ PhaseFits' /\ UsersFit' /\ IdsFit' /\ StepsFit'
  BY <1>1, <1>2, <1>3 DEF DialogueTyped, PhaseFits, UsersFit, LastRun, InputFits, IdsFit, StepsFit
<1>5. \A i : Outcome(i)' = Outcome(i)
  BY <1>2 DEF Outcome
<1>6. \A id, name, ok : Settles(id, name, ok)' <=> Settles(id, name, ok)
  BY <1>2 DEF Settles
<1>7. ToolsFit'
  BY <1>1, <1>2, <1>3, <1>5, <1>6 DEF ToolsFit
<1>8. QED
  BY <1>4, <1>7 DEF DialogueInv

(***************************************************************************)
(* The calls of a message are executed                                     *)
(***************************************************************************)
LEMMA DisplayIs ==
  ASSUME NEW c \in Call, NEW o \in Outcomes
  PROVE  /\ Display(c, o) \in Shown /\ Display(c, o).id = c.id /\ Display(c, o).name = c.name
         /\ Display(c, o).name # "unknown"
BY DEF Display, Shown, Call, Outcomes, Dialogue!Names

\* What the snapshot shows of a call changes where it stands.
LEMMA ToolShows ==
  ASSUME DialogueInv, run.pc = "executing", NEW i \in DOMAIN run.exec,
         NEW o \in {"running", "ok", "error"}, run' = [run EXCEPT !.exec[i] = o],
         NEW e, e.id = Calls[i].id, e.type # "assistant_text_delta",
         NEW status, NEW error,
         Display(Calls[i], o).status = status, Display(Calls[i], o).error = error,
         shot' = [shot EXCEPT !.tools = Dialogue!WithTool(Dialogue!Displayed(@, e), e, status, error)],
         order' = Dialogue!reduceLiveRunOrder(order, e),
         history' = history, actions' = actions, whole' = whole
  PROVE  DialogueInv'
<1> DEFINE c == Calls[i]
           tools == shot.tools
<1>1. DialogueTyped /\ PhaseFits /\ IdsFit /\ UsersFit /\ ToolsFit /\ StepsFit
  BY DEF DialogueInv
<1>2. /\ run \in RunState /\ shot \in [text: Seq(Token), tools: Seq(Shown)] /\ order \in Seq(Item)
      /\ run.exec \in Seq(Outcomes) /\ tools \in Seq(Shown) /\ Calls \in Seq(Call) /\ run.made \in Nat
  BY <1>1, CallsTyped DEF DialogueTyped, RunState
<1>3. DOMAIN run.exec = DOMAIN Calls
  BY <1>1, <1>2 DEF PhaseFits
<1>4. c \in Call /\ c.id \in Token /\ i \in DOMAIN Calls
  BY <1>1, <1>3, CallsTyped
<1>5. o \in Outcomes /\ run.exec[i] \in Outcomes
  BY <1>2 DEF Outcomes
<1>6. /\ run'.exec = [run.exec EXCEPT ![i] = o] /\ run'.exec \in Seq(Outcomes)
      /\ DOMAIN run'.exec = DOMAIN run.exec /\ Len(run'.exec) = Len(run.exec)
      /\ run'.exec[i] = o /\ \A j \in DOMAIN run.exec : j # i => run'.exec[j] = run.exec[j]
  <2>1. run'.exec = [run.exec EXCEPT ![i] = o]
    BY <1>2 DEF RunState
  <2>2. QED
    BY <1>2, <1>5, <2>1
<1>7. /\ run' \in RunState /\ run'.pc = "executing" /\ run'.parts = run.parts
      /\ run'.said = run.said /\ run'.made = run.made
      /\ run'.number = run.number /\ run'.input = run.input /\ run'.cut = run.cut
  <2>1. run' = [run EXCEPT !.exec = run'.exec]
    BY <1>2, <1>6 DEF RunState
  <2> DEFINE x == run'.exec
  <2>2. x \in Seq(Outcomes) /\ run' = [run EXCEPT !.exec = x]
    BY <1>6, <2>1
  <2> HIDE DEF x
  <2>3. QED
    BY <1>2, <2>2 DEF RunState
<1>8. \A j \in DOMAIN Calls : Outcome(j) = run.exec[j] /\ Outcome(j)' = run'.exec[j]
  BY <1>7 DEF Outcome
<1>9. PICK k \in DOMAIN tools : tools[k] = Display(c, run.exec[i])
  BY <1>1, <1>4, <1>8 DEF ToolsFit, Elements
<1>10. \A j \in DOMAIN tools : tools[j].id = c.id <=> j = k
  BY <1>1, <1>4, <1>5, <1>9, DisplayIs DEF ToolsFit
<1> DEFINE t == Display(c, o)
           new == [j \in DOMAIN tools |-> IF j = k THEN t ELSE tools[j]]
<1>11. t \in Shown /\ t.id = c.id
  BY <1>4, <1>5, DisplayIs
<1>12. Dialogue!WithTool(Dialogue!Displayed(tools, e), e, status, error) = new
  <2>1. Dialogue!Displayed(tools, e) = tools
    <3>1. \E j \in DOMAIN tools : tools[j].id = e.id
      BY <1>9, <1>10
    <3>2. \A j \in DOMAIN tools : ~(tools[j].id = e.id /\ tools[j].name = "unknown")
      BY <1>4, <1>5, <1>9, <1>10, DisplayIs
    <3>3. [j \in DOMAIN tools |-> IF tools[j].id = e.id /\ tools[j].name = "unknown"
             THEN [tools[j] EXCEPT !.name = e.name] ELSE tools[j]] = [j \in DOMAIN tools |-> tools[j]]
      BY <3>2, Zenon
    <3>4. [j \in DOMAIN tools |-> tools[j]] = tools
      BY <1>2
    <3> HIDE DEF tools
    <3>5. QED
      BY <3>1, <3>3, <3>4 DEF Dialogue!Displayed
  <2>2. Dialogue!WithTool(tools, e, status, error) = new
    <3>1. [tools[k] EXCEPT !.status = status, !.error = error] = t
      <4>1. tools[k] \in Shown /\ tools[k].id = t.id /\ tools[k].name = t.name
        BY <1>2, <1>4, <1>5, <1>9, DisplayIs
      <4>2. t.status = status /\ t.error = error
        OBVIOUS
      <4>3. ASSUME NEW a \in Shown, NEW b \in Shown, a.id = b.id, a.name = b.name
            PROVE  [a EXCEPT !.status = b.status, !.error = b.error] = b
        BY <4>3 DEF Shown
      <4> HIDE DEF t, tools
      <4>4. QED
        BY <1>11, <4>1, <4>2, <4>3
    <3>2. ASSUME NEW j \in DOMAIN tools
          PROVE  (IF tools[j].id = e.id THEN [tools[j] EXCEPT !.status = status, !.error = error]
                                        ELSE tools[j]) = new[j]
      <4>1. new[j] = IF j = k THEN t ELSE tools[j]
        OBVIOUS
      <4> HIDE DEF t, tools, new
      <4>2. QED
        BY <1>10, <3>1, <4>1 DEF c
    <3>3. new = [j \in DOMAIN tools |-> new[j]]
      OBVIOUS
    <3> HIDE DEF new, tools, t
    <3>4. QED
      BY <3>2, <3>3, Zenon DEF Dialogue!WithTool
  <2>3. QED
    BY <2>1, <2>2
<1>13. /\ new \in Seq(Shown) /\ DOMAIN new = DOMAIN tools /\ new[k] = t
       /\ \A j \in DOMAIN tools : new[j].id = tools[j].id /\ (j # k => new[j] = tools[j])
  <2>1. DOMAIN new = DOMAIN tools /\ \A j \in DOMAIN tools : new[j] = IF j = k THEN t ELSE tools[j]
    OBVIOUS
  <2>2. \A j \in DOMAIN tools : tools[j] \in Shown
    BY <1>2
  <2>3. new \in Seq(Shown)
    <3>1. \E n \in Nat : DOMAIN tools = 1..n
      BY <1>2
    <3>2. new \in [DOMAIN tools -> Shown]
      <4> HIDE DEF t, tools
      <4>1. QED
        BY <1>11, <2>2
    <3> HIDE DEF new, tools
    <3>3. QED
      BY <3>1, <3>2
  <2>4. QED
    BY <1>9, <1>10, <1>11, <2>1, <2>3
<1>14. /\ shot' \in [text: Seq(Token), tools: Seq(Shown)] /\ shot'.text = shot.text
       /\ shot'.tools = new
  <2>1. shot' = [shot EXCEPT !.tools = new]
    BY <1>12
  <2> HIDE DEF new, tools
  <2>2. QED
    BY <1>2, <1>13, <2>1
<1> HIDE DEF c, t, new
<1>15. Made \in Seq(Step) /\ Followed \in Seq(Step) /\ Follows(Followed, Made, shot.text, tools, whole)
  BY <1>1, StepsTyped DEF StepsFit
<1>16. order' = order
  <2>1. Dialogue!ToolItem(e.id) \in Elements(Followed)
    <3>1. tools[k] \in Elements(tools) /\ tools[k].id = c.id
      BY <1>9, <1>10 DEF Elements
    <3>2. Dialogue!ToolItem(c.id) \in Elements(Followed)
      BY <1>4, <1>15, <3>1, FollowedCalls
    <3>3. QED
      BY <3>2 DEF c
  <2>2. e.id \in Token
    BY <1>4 DEF c
  <2>3. QED
    BY <1>2, <2>1, <2>2, OrderCall DEF Followed
<1>17. DialogueTyped'
  BY <1>1, <1>7, <1>14, <1>16 DEF DialogueTyped
<1>18. Calls' = Calls /\ Made' = Made /\ Followed' = Followed
  BY <1>7, <1>16 DEF Calls, Made, Followed
<1>19. PhaseFits'
  BY <1>1, <1>6, <1>7, <1>18 DEF PhaseFits
<1>20. IdsFit'
  BY <1>1, <1>2, <1>7, <1>18, SameIds
<1>21. UsersFit'
  <2>1. \A m \in Elements(run'.said) : m.role # "user"
    BY <1>1, <1>7 DEF UsersFit
  <2>2. QED
    BY <1>1, <1>7, <2>1, SameUsers
<1>22. \A x \in Elements(tools) : x.id # c.id => x \in Elements(new)
  BY <1>10, <1>13 DEF Elements
<1>23. ToolsFit'
  <2>1. \A j, l \in DOMAIN new : new[j].id = new[l].id => j = l
    BY <1>1, <1>13 DEF ToolsFit
  <2>2. \A x \in Elements(new) : x.id <= run.made
    BY <1>1, <1>13 DEF ToolsFit, Elements
  <2>3. ASSUME NEW j \in DOMAIN Calls PROVE Display(Calls[j], Outcome(j)') \in Elements(new)
    <3>1. CASE j = i
      <4>1. Display(Calls[j], Outcome(j)') = t
        BY <1>4, <1>6, <1>8, <3>1 DEF t, c
      <4>2. QED
        BY <1>13, <4>1 DEF Elements
    <3>2. CASE j # i
      <4>1. Display(Calls[j], run.exec[j]) \in Elements(tools)
        BY <1>1, <1>8 DEF ToolsFit
      <4>2. Calls[j] \in Call /\ run.exec[j] \in Outcomes
        BY <1>2, <1>3
      <4>3. Calls[j].id # c.id
        BY <1>1, <1>4, <3>2 DEF IdsFit, c
      <4>4. run'.exec[j] = run.exec[j]
        BY <1>3, <1>6, <3>2
      <4>5. QED
        BY <1>8, <1>22, <4>1, <4>2, <4>3, <4>4, DisplayIs
    <3>3. QED
      BY <3>1, <3>2
  <2>4. ASSUME ~run'.cut, NEW id \in Token, NEW name \in Dialogue!Names,
               Says(run'.said, Dialogue!CallPart(id, name))
        PROVE  \E ok \in BOOLEAN : Settles(id, name, ok)'
    <3>1. Says(run.said, Dialogue!CallPart(id, name)) /\ ~run.cut
      BY <1>7, <2>4
    <3>2. PICK ok \in BOOLEAN : Settles(id, name, ok)
      BY <1>1, <3>1 DEF ToolsFit
    <3>3. id \in IdsOf(run.said)
      BY <3>1 DEF IdsOf
    <3>4. id # c.id
      BY <1>1, <1>4, <3>3 DEF IdsFit, c
    <3>5. Display(Dialogue!CallPart(id, name), IF ok THEN "ok" ELSE "error").id = id
      BY DEF Display, Dialogue!CallPart
    <3>6. Settles(id, name, ok)'
      BY <1>7, <1>14, <1>22, <3>2, <3>4, <3>5 DEF Settles
    <3>7. QED
      BY <3>6
  <2>5. QED
    BY <1>7, <1>14, <1>18, <2>1, <2>2, <2>3, <2>4 DEF ToolsFit
<1>24. StepsFit'
  <2>1. [j \in DOMAIN new |-> Dialogue!ToolItem(new[j].id)]
          = [j \in DOMAIN tools |-> Dialogue!ToolItem(tools[j].id)]
    <3> HIDE DEF tools
    <3>1. QED
      BY <1>13
  <2>2. Follows(Followed, Made, shot.text, new, whole)
    BY <1>15, <2>1 DEF Follows
  <2>3. QED
    BY <1>14, <1>18, <2>2 DEF StepsFit
<1>25. QED
  BY <1>17, <1>19, <1>20, <1>21, <1>23, <1>24 DEF DialogueInv

LEMMA StartsStep == ASSUME DialogueInv, NEW i, Dialogue!ToolStarts(i) PROVE DialogueInv'
<1> DEFINE e == Dialogue!Executing(Calls[i].id, Calls[i].name)
<1>1. /\ run.pc = "executing" /\ i \in DOMAIN run.exec
      /\ run' = [run EXCEPT !.exec[i] = "running"]
      /\ order' = Dialogue!reduceLiveRunOrder(order, e)
      /\ history' = history /\ actions' = actions /\ whole' = whole
  BY DEF Dialogue!ToolStarts, Dialogue!Shown, Calls
<1>2. shot' = [shot EXCEPT !.tools =
                 Dialogue!WithTool(Dialogue!Displayed(@, e), e, "running", FALSE)]
  BY DEF Dialogue!ToolStarts, Dialogue!Shown, Dialogue!reduceAgentRunEvent, Dialogue!Executing, Calls
<1>3. e.id = Calls[i].id /\ e.type # "assistant_text_delta"
  BY DEF Dialogue!Executing
<1>4. Display(Calls[i], "running").status = "running" /\ Display(Calls[i], "running").error = FALSE
  BY DEF Display
<1> HIDE DEF e
<1>5. QED
  BY <1>1, <1>2, <1>3, <1>4, ToolShows

LEMMA EndsToolStep == ASSUME DialogueInv, NEW i, Dialogue!ToolEnds(i) PROVE DialogueInv'
<1>1. PICK o \in {"ok", "error"} :
        /\ run' = [run EXCEPT !.exec[i] = o]
        /\ Dialogue!Shown(Dialogue!Executed(Dialogue!CallsOf(run.parts)[i].id, o = "error"))
  BY DEF Dialogue!ToolEnds
<1> DEFINE e == Dialogue!Executed(Calls[i].id, o = "error")
<1>2. /\ run.pc = "executing" /\ i \in DOMAIN run.exec
      /\ history' = history /\ actions' = actions /\ whole' = whole
  BY DEF Dialogue!ToolEnds
<1>3. order' = Dialogue!reduceLiveRunOrder(order, e)
  BY <1>1 DEF Dialogue!Shown, Calls
<1>4. e.id = Calls[i].id /\ e.type = "tool_execution_finished" /\ e.error = (o = "error")
  BY DEF Dialogue!Executed
<1>5. shot' = [shot EXCEPT !.tools =
                 Dialogue!WithTool(Dialogue!Displayed(@, e), e, "completed", e.error)]
  <2>1. shot' = Dialogue!reduceAgentRunEvent(shot, e)
    BY <1>1 DEF Dialogue!Shown, Calls
  <2> HIDE DEF e
  <2>2. QED
    BY <1>4, <2>1 DEF Dialogue!reduceAgentRunEvent
<1>6. Display(Calls[i], o).status = "completed" /\ Display(Calls[i], o).error = (o = "error")
  BY DEF Display
<1> HIDE DEF e
<1>7. o \in {"running", "ok", "error"} /\ e.type # "assistant_text_delta"
  BY <1>4
<1>8. Display(Calls[i], o).error = e.error
  BY <1>4, <1>6
<1>9. QED
  BY <1>1, <1>2, <1>3, <1>4, <1>5, <1>6, <1>7, <1>8, ToolShows

LEMMA ThroughNothing ==
  ASSUME NEW X, NEW list \in Seq(X), NEW m, \A x \in X : m[x] = <<>>
  PROVE  Through(m, list) = <<>>
<1> DEFINE v == [x \in X |-> <<>>]
           L == {s \in Seq(X) : Through(v, s) = <<>>}
<1>1. Maps(v, X, X) /\ \A x \in X : v[x] = <<>>
  BY DEF Maps
<1> HIDE DEF v
<1>2. <<>> \in L
  <2>1. <<>> \in Seq(X)
    OBVIOUS
  <2>2. QED
    BY <2>1, ThroughEmpty
<1>3. ASSUME NEW s \in Seq(X), NEW x \in X, s \in L PROVE Append(s, x) \in L
  <2>1. Through(v, Append(s, x)) = Through(v, s) \o v[x]
    BY <1>1, ThroughAppend
  <2>2. Append(s, x) \in Seq(X) /\ <<>> \o <<>> = <<>>
    OBVIOUS
  <2>3. QED
    BY <1>1, <1>3, <2>1, <2>2
<1>4. Seq(X) \subseteq L
  <2> HIDE DEF L
  <2>1. QED
    BY <1>2, <1>3, AllLists
<1>5. \A i \in DOMAIN list : m[list[i]] = v[list[i]]
  <2>1. \A i \in DOMAIN list : list[i] \in X
    OBVIOUS
  <2>2. QED
    BY <1>1, <2>1
<1>6. Through(m, list) = Through(v, list)
  BY <1>5, ThroughAgree
<1>7. QED
  BY <1>4, <1>6

ResultMessage == [role: {"toolResult"}, id: Token, ok: BOOLEAN]

Results(calls, outcomes) ==
  [i \in DOMAIN calls |-> Dialogue!ToolResult(calls[i].id, outcomes[i] = "ok")]

ResultsFit(calls, outcomes, results) ==
  /\ results \in Seq(ResultMessage) /\ results \in Seq(AgentMessage)
  /\ \A m \in Elements(results) : m.role = "toolResult"
  /\ \A c : ~Says(results, c)
  /\ \A id, ok : Knows(results, id, ok) <=>
       \E i \in DOMAIN calls : calls[i].id = id /\ ok = (outcomes[i] = "ok")
  /\ IdsOf(results) = {c.id : c \in Elements(calls)}
  /\ Through(StepsOfMessage, results) = <<>>

LEMMA ResultsSay ==
  ASSUME NEW calls \in Seq(Call), NEW outcomes, NEW results, results = Results(calls, outcomes)
  PROVE  ResultsFit(calls, outcomes, results)
<1>1. \A i \in DOMAIN calls : calls[i] \in Call /\ calls[i].id \in Token
  <2>1. \A i \in DOMAIN calls : calls[i] \in Call
    OBVIOUS
  <2>2. \A c \in Call : c.id \in Token
    BY DEF Call
  <2>3. QED
    BY <2>1, <2>2
<1>2. \A i \in DOMAIN calls : results[i] = Dialogue!ToolResult(calls[i].id, outcomes[i] = "ok")
                               /\ results[i] \in ResultMessage
  BY <1>1 DEF Dialogue!ToolResult, ResultMessage, Results
<1>3. results \in Seq(ResultMessage) /\ DOMAIN results = DOMAIN calls
  <2>1. DOMAIN calls = 1..Len(calls) /\ Len(calls) \in Nat
    OBVIOUS
  <2>2. results \in [1..Len(calls) -> ResultMessage] /\ DOMAIN results = DOMAIN calls
    BY <1>2, <2>1 DEF Results
  <2>3. QED
    BY <2>1, <2>2
<1>4. ResultMessage \subseteq AgentMessage /\ \A m \in ResultMessage : m.role = "toolResult"
  BY DEF ResultMessage, AgentMessage
<1>5. results \in Seq(AgentMessage)
  BY <1>3, <1>4
<1>6. \A m \in Elements(results) : m.role = "toolResult"
  BY <1>3, <1>4, ElementsIn
<1>7. \A c : ~Says(results, c)
  BY <1>6 DEF Says
<1>8. \A id, ok, a, b : Dialogue!ToolResult(id, ok) = Dialogue!ToolResult(a, b) <=> id = a /\ ok = b
  BY DEF Dialogue!ToolResult
<1>9. \A id, ok : Knows(results, id, ok) <=>
        \E i \in DOMAIN calls : calls[i].id = id /\ ok = (outcomes[i] = "ok")
  BY <1>2, <1>3, <1>8 DEF Knows, Elements
<1>10. IdsOf(results) = {c.id : c \in Elements(calls)}
  <2>1. ASSUME NEW id \in IdsOf(results) PROVE id \in {c.id : c \in Elements(calls)}
    BY <1>7, <1>9 DEF IdsOf, Elements
  <2>2. ASSUME NEW i \in DOMAIN calls PROVE calls[i].id \in IdsOf(results)
    <3>1. Knows(results, calls[i].id, outcomes[i] = "ok") /\ (outcomes[i] = "ok") \in BOOLEAN
      BY <1>9
    <3>2. QED
      BY <1>1, <3>1 DEF IdsOf
  <2>3. QED
    BY <2>1, <2>2 DEF Elements
<1>11. Through(StepsOfMessage, results) = <<>>
  <2>1. \A m \in ResultMessage : StepsOfMessage[m] = <<>>
    BY <1>4 DEF StepsOfMessage
  <2>2. QED
    BY <1>3, <2>1, ThroughNothing
<1>12. QED
  BY <1>3, <1>5, <1>6, <1>7, <1>9, <1>10, <1>11 DEF ResultsFit

LEMMA MessagesConcat ==
  ASSUME NEW a \in Seq(AgentMessage), NEW b \in Seq(AgentMessage)
  PROVE  /\ Through(StepsOfMessage, a \o b) = Through(StepsOfMessage, a) \o Through(StepsOfMessage, b)
         /\ Through(StepsOfMessage, a) \in Seq(Step)
BY MapStepsOfMessage, ThroughConcat, ThroughType

LEMMA TurnStep == ASSUME DialogueInv, Dialogue!TurnEnds PROVE DialogueInv'
<1> DEFINE message == Append(run.said, Dialogue!AssistantMessage(run.parts))
           results == Results(Calls, run.exec)
           said == message \o results
<1>1. DialogueTyped /\ PhaseFits /\ IdsFit /\ UsersFit /\ ToolsFit /\ StepsFit
  BY DEF DialogueInv
<1>2. run \in RunState /\ run.said \in Seq(AgentMessage) /\ run.parts \in Seq(Part)
      /\ Calls \in Seq(Call) /\ run.exec \in Seq(Outcomes)
  BY <1>1, CallsTyped DEF DialogueTyped, RunState
<1>3. /\ run.pc = "executing" /\ \A i \in DOMAIN run.exec : run.exec[i] \in {"ok", "error"}
      /\ history' = history /\ actions' = actions /\ shot' = shot /\ order' = order /\ whole' = whole
  BY DEF Dialogue!TurnEnds
<1>4. DOMAIN run.exec = DOMAIN Calls
  BY <1>1, <1>2, <1>3 DEF PhaseFits
<1>5. PICK pc \in {"streaming", "ended"} :
        run' = [run EXCEPT !.pc = pc, !.parts = <<>>, !.exec = <<>>, !.said = said]
  BY DEF Dialogue!TurnEnds, Calls, Results
<1>6. /\ message \in Seq(AgentMessage)
      /\ Elements(message) = Elements(run.said) \cup {Dialogue!AssistantMessage(run.parts)}
      /\ \A c : Says(message, c) <=> Says(run.said, c) \/ c \in Elements(run.parts)
      /\ \A id, ok : Knows(message, id, ok) <=> Knows(run.said, id, ok)
      /\ IdsOf(message) = IdsOf(run.said) \cup {c.id : c \in Elements(Calls)}
      /\ Through(StepsOfMessage, message)
           = Through(StepsOfMessage, run.said) \o Through(StepsOfPart, run.parts)
  BY <1>2, SaidAppend DEF Calls
<1>7. /\ results \in Seq(AgentMessage)
      /\ \A m \in Elements(results) : m.role = "toolResult"
      /\ \A c : ~Says(results, c)
      /\ \A id, ok : Knows(results, id, ok) <=>
           \E i \in DOMAIN Calls : Calls[i].id = id /\ ok = (run.exec[i] = "ok")
      /\ IdsOf(results) = {c.id : c \in Elements(Calls)}
      /\ Through(StepsOfMessage, results) = <<>>
  <2>1. results = Results(Calls, run.exec)
    OBVIOUS
  <2> HIDE DEF results
  <2>2. ResultsFit(Calls, run.exec, results)
    BY <1>2, <2>1, ResultsSay
  <2>3. QED
    BY <2>2 DEF ResultsFit
<1> HIDE DEF message, results
<1>8. /\ said \in Seq(AgentMessage)
      /\ Elements(said) = Elements(message) \cup Elements(results)
      /\ \A c : Says(said, c) <=> Says(run.said, c) \/ c \in Elements(run.parts)
      /\ \A id, ok : Knows(said, id, ok) <=> Knows(run.said, id, ok) \/ Knows(results, id, ok)
      /\ IdsOf(said) = IdsOf(run.said) \cup {c.id : c \in Elements(Calls)}
  <2>1. /\ Elements(said) = Elements(message) \cup Elements(results)
        /\ \A c : Says(said, c) <=> Says(message, c) \/ Says(results, c)
        /\ \A id, ok : Knows(said, id, ok) <=> Knows(message, id, ok) \/ Knows(results, id, ok)
        /\ IdsOf(said) = IdsOf(message) \cup IdsOf(results)
    BY <1>6, <1>7, ElementsOf, SaysOf
  <2>2. said \in Seq(AgentMessage)
    BY <1>6, <1>7
  <2> HIDE DEF said
  <2>3. QED
    BY <1>6, <1>7, <2>1, <2>2
<1>9. Through(StepsOfMessage, said) = Through(StepsOfMessage, run.said) \o Through(StepsOfPart, run.parts)
  <2>1. Through(StepsOfMessage, said) = Through(StepsOfMessage, message) \o Through(StepsOfMessage, results)
    BY <1>6, <1>7, MessagesConcat
  <2>2. Through(StepsOfMessage, message) \in Seq(Step)
    BY <1>6, <1>7, MessagesConcat
  <2>3. Through(StepsOfMessage, message) \o <<>> = Through(StepsOfMessage, message)
    BY <2>2
  <2>4. QED
    BY <1>6, <1>7, <2>1, <2>3
<1> HIDE DEF said
<1>10. /\ run' \in RunState /\ run'.pc = pc /\ run'.parts = <<>> /\ run'.said = said
       /\ run'.exec = <<>> /\ run'.made = run.made /\ run'.number = run.number
       /\ run'.input = run.input /\ run'.cut = run.cut
  <2>1. <<>> \in Seq(Part) /\ <<>> \in Seq(Outcomes)
    OBVIOUS
  <2>2. QED
    BY <1>2, <1>5, <1>8, <2>1 DEF RunState
<1>11. DialogueTyped'
  BY <1>1, <1>3, <1>10 DEF DialogueTyped
<1>12. Calls' = <<>>
  BY <1>10, NoCalls DEF Calls
<1>13. PhaseFits'
  BY <1>10 DEF PhaseFits
<1>14. IdsFit'
  BY <1>1, <1>3, <1>8, <1>10, <1>12, TakenIds
<1>15. UsersFit'
  <2>1. Dialogue!AssistantMessage(run.parts).role # "user"
    BY DEF Dialogue!AssistantMessage
  <2>2. \A m \in Elements(run'.said) : m.role # "user"
    BY <1>1, <1>6, <1>7, <1>8, <1>10, <2>1 DEF UsersFit
  <2>3. QED
    BY <1>1, <1>3, <1>10, <2>2, SameUsers
<1>16. ToolsFit'
  <2>1. ASSUME ~run'.cut, NEW id \in Token, NEW name \in Dialogue!Names,
               Says(run'.said, Dialogue!CallPart(id, name))
        PROVE  \E ok \in BOOLEAN : Settles(id, name, ok)'
    <3> DEFINE c == Dialogue!CallPart(id, name)
    <3>1. c.kind = "call" /\ c.id = id /\ c.name = name
      BY DEF Dialogue!CallPart
    <3>2. CASE Says(run.said, c)
      <4>1. PICK ok \in BOOLEAN : Settles(id, name, ok)
        BY <1>1, <1>10, <2>1, <3>2 DEF ToolsFit
      <4>2. id \in IdsOf(run.said)
        BY <3>2 DEF IdsOf
      <4>3. \A j \in DOMAIN Calls : Calls[j].id # id
        BY <1>1, <4>2 DEF IdsFit
      <4>4. \A b : ~Knows(results, id, b)
        BY <1>7, <4>3
      <4>5. Settles(id, name, ok)'
        BY <1>3, <1>8, <1>10, <4>1, <4>4 DEF Settles
      <4>6. QED
        BY <4>5
    <3>3. CASE c \in Elements(run.parts) /\ ~Says(run.said, c)
      <4>1. c \in Elements(Calls)
        BY <1>2, <3>1, <3>3, CallsAre DEF Calls
      <4>2. PICK j \in DOMAIN Calls : Calls[j] = c
        BY <4>1 DEF Elements
      <4>3. \A l \in DOMAIN Calls : Calls[l].id = id => l = j
        BY <1>1, <3>1, <4>2 DEF IdsFit
      <4>4. \A b \in BOOLEAN : ~Knows(run.said, id, b)
        <5>1. id \notin IdsOf(run.said)
          BY <1>1, <3>1, <4>2 DEF IdsFit
        <5>2. QED
          BY <5>1 DEF IdsOf
      <4>5. \A b \in BOOLEAN : Knows(run'.said, id, b) <=> b = (run.exec[j] = "ok")
        BY <1>7, <1>8, <1>10, <3>1, <4>2, <4>3, <4>4
      <4>6. Display(c, run.exec[j]) \in Elements(shot'.tools)
        BY <1>1, <1>3, <4>2 DEF ToolsFit, Outcome
      <4>7. CASE run.exec[j] = "ok"
        <5>1. Settles(id, name, TRUE)'
          BY <4>5, <4>6, <4>7 DEF Settles
        <5>2. QED
          BY <5>1
      <4>8. CASE run.exec[j] = "error"
        <5>1. Settles(id, name, FALSE)'
          BY <4>5, <4>6, <4>8 DEF Settles
        <5>2. QED
          BY <5>1
      <4>9. QED
        BY <1>3, <1>4, <4>7, <4>8
    <3>4. QED
      BY <1>8, <1>10, <2>1, <3>2, <3>3
  <2>2. QED
    BY <1>1, <1>3, <1>10, <1>12, <2>1 DEF ToolsFit
<1>17. StepsFit'
  <2>1. Made' = Made
    BY <1>1, <1>9, <1>10, SaidMade
  <2>2. Followed' = Followed
    BY <1>3 DEF Followed
  <2>3. QED
    BY <1>1, <1>3, <2>1, <2>2 DEF StepsFit
<1>18. QED
  BY <1>11, <1>13, <1>14, <1>15, <1>16, <1>17 DEF DialogueInv

LEMMA DialogueStep == ASSUME DialogueInv, Dialogue!Next PROVE DialogueInv'
<1>1. CASE Dialogue!UserActs
  BY <1>1, ActsStep
<1>2. CASE Dialogue!TextStreamed
  BY <1>2, TextStreamedStep
<1>3. CASE Dialogue!CallStreamed
  BY <1>3, CallStreamedStep
<1>4. CASE Dialogue!MessageEnds
  BY <1>4, EndsStep
<1>5. CASE Dialogue!MessageCutOff
  BY <1>5, CutOffStep
<1>6. CASE \E i \in Dialogue!Numbers : Dialogue!ToolStarts(i) \/ Dialogue!ToolEnds(i)
  BY <1>6, StartsStep, EndsToolStep
<1>7. CASE Dialogue!TurnEnds
  BY <1>7, TurnStep
<1>8. CASE Dialogue!AttemptRestarts
  BY <1>8, RestartStep
<1>9. CASE Dialogue!Reconnects
  BY <1>9, ReconnectsStep
<1>10. CASE Dialogue!Refreshes
  BY <1>10, RefreshStep
<1>11. CASE Dialogue!RunFails
  BY <1>11, FailsStep
<1>12. QED
  BY <1>1, <1>2, <1>3, <1>4, <1>5, <1>6, <1>7, <1>8, <1>9, <1>10, <1>11 DEF Dialogue!Next

\* In every state of MCSpec, whatever the component, the dialogue keeps its invariant.
LEMMA DialogueAlways == MCSpec => []DialogueInv
<1>1. MCInit => DialogueInv
  BY DialogueStarts DEF MCInit
<1>2. ASSUME DialogueInv, [MCNext]_MCvars PROVE DialogueInv'
  <2>1. CASE focus = "dialogue" /\ Dialogue!Next
    BY <1>2, <2>1, DialogueStep
  <2>2. CASE UNCHANGED dialogue
    BY <1>2, <2>2, DialogueStands
  <2>3. QED
    BY <1>2, <2>1, <2>2 DEF MCNext, MCvars
<1>3. QED
  BY <1>1, <1>2, PTL DEF MCSpec

(***************************************************************************)
(* SetupTranscript: its types                                              *)
(***************************************************************************)
LEMMA DialogueTypes == DialogueInv => Dialogue!TypeOK
<1> SUFFICES ASSUME DialogueInv PROVE Dialogue!TypeOK
  OBVIOUS
<1>1. DialogueTyped /\ PhaseFits
  BY DEF DialogueInv
<1>2. /\ run \in RunState /\ run.exec \in Seq(Outcomes) /\ history \in Seq(AgentMessage)
      /\ shot.text \in Seq(Token) /\ shot.tools \in Seq(Shown) /\ whole \in BOOLEAN
  BY <1>1 DEF DialogueTyped, RunState
<1>3. /\ run.pc \in {"idle", "streaming", "executing", "ended"}
      /\ run.number \in 0..MaxRuns /\ run.made \in 0..MaxParts
      /\ {run.cut, run.restarted, whole} \subseteq BOOLEAN
      /\ run.input.type \in {"session_start", "question_answer", "feedback", "confirmation"}
  BY <1>2 DEF RunState, Deed
<1>4. \A i \in DOMAIN history : history[i].role \in {"user", "assistant", "toolResult"}
  <2>1. \A i \in DOMAIN history : history[i] \in AgentMessage
    BY <1>2
  <2>2. \A m \in AgentMessage : m.role \in {"user", "assistant", "toolResult"}
    BY DEF AgentMessage
  <2>3. QED
    BY <2>1, <2>2
<1>5. \A i \in DOMAIN run.exec : run.exec[i] \in {"pending", "running", "ok", "error"}
  BY <1>2 DEF Outcomes
<1>6. Len(run.exec) \in {0, Len(Dialogue!CallsOf(run.parts))}
  BY <1>1 DEF PhaseFits, Calls
<1>7. Dialogue!ToSet(shot.text) \subseteq Dialogue!Numbers
  BY <1>2 DEF Token, Dialogue!ToSet
<1>8. \A i \in DOMAIN shot.tools :
        shot.tools[i].id \in Dialogue!Numbers /\ shot.tools[i].name \in Dialogue!Names \cup {"unknown"}
  <2>1. \A i \in DOMAIN shot.tools : shot.tools[i] \in Shown
    BY <1>2
  <2>2. \A t \in Shown : t.id \in Dialogue!Numbers /\ t.name \in Dialogue!Names \cup {"unknown"}
    BY DEF Shown, Token
  <2>3. QED
    BY <2>1, <2>2
<1>9. QED
  BY <1>3, <1>4, <1>5, <1>6, <1>7, <1>8 DEF Dialogue!TypeOK

(***************************************************************************)
(* The entries of the transcript                                           *)
(***************************************************************************)
EntryStates == {"ready", "failed", "working", "streaming"}
Confirmations == {"available", "completed", "superseded", "submitting", "any"}
UserLine == [kind: {"user"}, run: 1..MaxRuns]
ToolLine ==
  [kind: {"query", "tool"}, id: Token, state: EntryStates]
    \cup [kind: {"question"}, id: Token, state: EntryStates, answered: BOOLEAN]
    \cup [kind: {"strategy"}, id: Token, state: EntryStates, confirmation: Confirmations]
Line == TextStep \cup UserLine \cup ToolLine

LEMMA ToolEntryTyped ==
  ASSUME NEW id \in Token, NEW name, NEW state \in EntryStates,
         NEW confirmation \in Confirmations, NEW answered \in BOOLEAN
  PROVE  /\ Dialogue!projectToolEntry(id, name, state, confirmation, answered) \in Seq(ToolLine)
         /\ Dialogue!projectToolEntry(id, name, state, confirmation, answered) \in Seq(Line)
<1> DEFINE list == Dialogue!projectToolEntry(id, name, state, confirmation, answered)
<1>1. \/ list = <<>>
      \/ list = <<[kind |-> "query", id |-> id, state |-> state]>>
      \/ list = <<[kind |-> "question", id |-> id, state |-> state, answered |-> answered]>>
      \/ list = <<[kind |-> "strategy", id |-> id, state |-> state, confirmation |-> confirmation]>>
      \/ list = <<[kind |-> "tool", id |-> id, state |-> state]>>
  BY DEF Dialogue!projectToolEntry
<1>2. /\ [kind |-> "query", id |-> id, state |-> state] \in ToolLine
      /\ [kind |-> "question", id |-> id, state |-> state, answered |-> answered] \in ToolLine
      /\ [kind |-> "strategy", id |-> id, state |-> state, confirmation |-> confirmation] \in ToolLine
      /\ [kind |-> "tool", id |-> id, state |-> state] \in ToolLine
  BY DEF ToolLine
<1>3. list \in Seq(ToolLine)
  <2>1. \A e \in ToolLine : <<e>> \in Seq(ToolLine)
    OBVIOUS
  <2>2. <<>> \in Seq(ToolLine)
    OBVIOUS
  <2> HIDE DEF list
  <2>3. QED
    BY <1>1, <1>2, <2>1, <2>2
<1>4. ToolLine \subseteq Line
  BY DEF Line
<1> HIDE DEF list
<1>5. list \in Seq(Line)
  BY <1>3, <1>4
<1>6. QED
  BY <1>3, <1>5 DEF list

LinesOfPart(messages, done) ==
  [p \in Part |-> IF p.kind = "text" THEN Dialogue!TextEntries(p.text)
                                     ELSE Dialogue!PersistedTool(messages, done, p)]
LinesOfMessage(messages, done) ==
  [m \in AgentMessage |-> Dialogue!PersistedMessage(messages, done, m)]

LEMMA CallLines ==
  ASSUME NEW messages, NEW done, NEW c \in Call
  PROVE  /\ Dialogue!PersistedTool(messages, done, c) \in Seq(ToolLine)
         /\ Dialogue!PersistedTool(messages, done, c) \in Seq(Line)
<1> DEFINE latest == Dialogue!Succeeded(messages, c.name)
           status == Dialogue!Status(messages, c.id)
           state  == IF status = "failed" THEN "failed" ELSE "ready"
           confirmation ==
             IF c.id \in Dialogue!Targets(done, "confirmation") THEN "completed"
             ELSE IF status = "succeeded" /\ Dialogue!Last(latest).id # c.id THEN "superseded"
                  ELSE "available"
           answered == c.id \in Dialogue!Targets(done, "question_answer")
<1>1. Dialogue!PersistedTool(messages, done, c)
        = Dialogue!projectToolEntry(c.id, c.name, state, confirmation, answered)
  BY DEF Dialogue!PersistedTool
<1>2. state \in EntryStates /\ confirmation \in Confirmations /\ answered \in BOOLEAN
  BY DEF EntryStates, Confirmations
<1>3. c.id \in Token
  BY DEF Call
<1> HIDE DEF state, confirmation, answered
<1>4. QED
  BY <1>1, <1>2, <1>3, ToolEntryTyped

LEMMA TextLines ==
  ASSUME NEW tokens \in Seq(Token)
  PROVE  Dialogue!TextEntries(tokens) \in Seq(Line)
<1>1. TextStep \subseteq Line /\ Dialogue!TextEntries(tokens) \in Seq(TextStep)
  BY EntriesOf DEF Line
<1>2. QED
  BY <1>1

LEMMA PartIs ==
  ASSUME NEW p \in Part
  PROVE  /\ p.kind \in {"text", "call"}
         /\ p.kind = "text" => p.text \in Seq(Token)
         /\ p.kind = "call" => p \in Call
BY DEF Part, Call

LEMMA MapLinesOfPart == ASSUME NEW messages, NEW done PROVE Maps(LinesOfPart(messages, done), Part, Line)
<1>1. ASSUME NEW p \in Part
      PROVE  (IF p.kind = "text" THEN Dialogue!TextEntries(p.text)
                                 ELSE Dialogue!PersistedTool(messages, done, p)) \in Seq(Line)
  BY PartIs, TextLines, CallLines
<1>2. QED
  BY <1>1 DEF Maps, LinesOfPart

LEMMA MessageIs ==
  ASSUME NEW m \in AgentMessage
  PROVE  /\ m.role \in {"user", "assistant", "toolResult"}
         /\ m.role = "user" => m.run \in 1..MaxRuns
         /\ m.role = "assistant" => m.parts \in Seq(Part)
         /\ m.role = "toolResult" => m.id \in Token /\ m.ok \in BOOLEAN
                                     /\ m = Dialogue!ToolResult(m.id, m.ok)
<1>1. m.role = "toolResult" => m = Dialogue!ToolResult(m.id, m.ok)
  BY DEF AgentMessage, Dialogue!ToolResult
<1>2. QED
  BY <1>1 DEF AgentMessage

\* What each kind of message adds.
LEMMA MessageLines ==
  ASSUME NEW messages, NEW done, NEW m \in AgentMessage
  PROVE  /\ m.role = "toolResult" => LinesOfMessage(messages, done)[m] = <<>>
         /\ m.role = "user" => LinesOfMessage(messages, done)[m] =
              IF \E d \in Elements(done) : d.run = m.run /\ d.type = "confirmation"
              THEN <<>> ELSE <<Dialogue!UserEntry(m.run)>>
         /\ m.role = "assistant" =>
              LinesOfMessage(messages, done)[m] = Through(LinesOfPart(messages, done), m.parts)
         /\ LinesOfMessage(messages, done)[m] \in Seq(Line)
<1> DEFINE list == LinesOfMessage(messages, done)[m]
<1>1. list = Dialogue!PersistedMessage(messages, done, m)
  BY DEF LinesOfMessage
<1>2. m.role = "toolResult" => list = <<>>
  BY <1>1 DEF Dialogue!PersistedMessage
<1>3. m.role = "user" => list =
        IF \E d \in Elements(done) : d.run = m.run /\ d.type = "confirmation"
        THEN <<>> ELSE <<Dialogue!UserEntry(m.run)>>
  BY <1>1 DEF Dialogue!PersistedMessage, Elements
<1>4. ASSUME m.role = "assistant" PROVE list = Through(LinesOfPart(messages, done), m.parts)
  <2>1. m.parts \in Seq(Part)
    BY <1>4, MessageIs
  <2>2. \A i \in DOMAIN m.parts : m.parts[i] \in Part
    BY <2>1
  <2>3. [i \in DOMAIN m.parts |-> IF m.parts[i].kind = "text" THEN Dialogue!TextEntries(m.parts[i].text)
                                  ELSE Dialogue!PersistedTool(messages, done, m.parts[i])]
          = [i \in DOMAIN m.parts |-> LinesOfPart(messages, done)[m.parts[i]]]
    BY <2>2 DEF LinesOfPart
  <2>4. QED
    BY <1>1, <1>4, <2>3 DEF Dialogue!PersistedMessage, Through, Flat
<1>5. list \in Seq(Line)
  <2>1. CASE m.role = "assistant"
    BY <1>4, <2>1, MessageIs, MapLinesOfPart, ThroughType
  <2>2. CASE m.role = "user"
    <3>1. Dialogue!UserEntry(m.run) \in Line
      BY <2>2, MessageIs DEF Line, UserLine, Dialogue!UserEntry
    <3>2. <<Dialogue!UserEntry(m.run)>> \in Seq(Line) /\ <<>> \in Seq(Line)
      BY <3>1
    <3> HIDE DEF list
    <3>3. QED
      BY <1>3, <2>2, <3>2
  <2>3. CASE m.role = "toolResult"
    <3>1. <<>> \in Seq(Line)
      OBVIOUS
    <3> HIDE DEF list
    <3>2. QED
      BY <1>2, <2>3, <3>1
  <2>4. QED
    BY <2>1, <2>2, <2>3, MessageIs
<1>6. QED
  BY <1>2, <1>3, <1>4, <1>5

LEMMA MapLinesOfMessage ==
  ASSUME NEW messages, NEW done PROVE Maps(LinesOfMessage(messages, done), AgentMessage, Line)
<1>1. \A m \in AgentMessage : LinesOfMessage(messages, done)[m] \in Seq(Line)
  BY MessageLines
<1>2. QED
  BY <1>1 DEF Maps, LinesOfMessage

LEMMA PersistedIs ==
  ASSUME NEW messages \in Seq(AgentMessage), NEW done
  PROVE  /\ Dialogue!projectPersisted(messages, done) = Through(LinesOfMessage(messages, done), messages)
         /\ Dialogue!projectPersisted(messages, done) \in Seq(Line)
<1>1. \A i \in DOMAIN messages : messages[i] \in AgentMessage
  OBVIOUS
<1>2. [i \in DOMAIN messages |-> Dialogue!PersistedMessage(messages, done, messages[i])]
        = [i \in DOMAIN messages |-> LinesOfMessage(messages, done)[messages[i]]]
  BY <1>1 DEF LinesOfMessage
<1>3. Dialogue!projectPersisted(messages, done) = Through(LinesOfMessage(messages, done), messages)
  BY <1>2 DEF Dialogue!projectPersisted, Through, Flat
<1>4. QED
  BY <1>3, MapLinesOfMessage, ThroughType

\* An entry comes from a user's message, a text or a call.
LEMMA LineComesFrom ==
  ASSUME NEW messages, NEW done, NEW list \in Seq(AgentMessage),
         NEW e, e \in Elements(Through(LinesOfMessage(messages, done), list))
  PROVE  \/ \E m \in Elements(list) :
              /\ m.role = "user" /\ e = Dialogue!UserEntry(m.run)
              /\ ~\E d \in Elements(done) : d.run = m.run /\ d.type = "confirmation"
         \/ e \in TextStep
         \/ \E c \in Call : /\ Says(list, c) /\ c.kind = "call"
                            /\ e \in Elements(Dialogue!PersistedTool(messages, done, c))
<1>1. PICK m \in Elements(list) : e \in Elements(LinesOfMessage(messages, done)[m])
  BY MapLinesOfMessage, ElementsThrough
<1>2. m \in AgentMessage
  BY <1>1, ElementsIn
<1>3. CASE m.role = "toolResult"
  <2>1. LinesOfMessage(messages, done)[m] = <<>>
    BY <1>2, <1>3, MessageLines
  <2>2. Elements(<<>>) = {}
    BY ElementsOfOne
  <2>3. QED
    BY <1>1, <2>1, <2>2
<1>4. CASE m.role = "user"
  <2>1. LinesOfMessage(messages, done)[m] =
          IF \E d \in Elements(done) : d.run = m.run /\ d.type = "confirmation"
          THEN <<>> ELSE <<Dialogue!UserEntry(m.run)>>
    BY <1>2, <1>4, MessageLines
  <2>2. Elements(<<Dialogue!UserEntry(m.run)>>) = {Dialogue!UserEntry(m.run)} /\ Elements(<<>>) = {}
    BY ElementsOfOne
  <2>3. QED
    BY <1>1, <1>4, <2>1, <2>2
<1>5. CASE m.role = "assistant"
  <2>1. m.parts \in Seq(Part) /\ e \in Elements(Through(LinesOfPart(messages, done), m.parts))
    BY <1>1, <1>2, <1>5, MessageLines, MessageIs
  <2>2. PICK p \in Elements(m.parts) : e \in Elements(LinesOfPart(messages, done)[p])
    BY <2>1, MapLinesOfPart, ElementsThrough
  <2>3. p \in Part
    BY <2>1, <2>2, ElementsIn
  <2>4. CASE p.kind = "text"
    <3>1. LinesOfPart(messages, done)[p] = Dialogue!TextEntries(p.text) /\ p.text \in Seq(Token)
      BY <2>3, <2>4, PartIs DEF LinesOfPart
    <3>2. LinesOfPart(messages, done)[p] \in Seq(TextStep)
      BY <3>1, EntriesOf
    <3>3. QED
      BY <2>2, <3>2, ElementsIn
  <2>5. CASE p.kind = "call"
    <3>1. p \in Call /\ LinesOfPart(messages, done)[p] = Dialogue!PersistedTool(messages, done, p)
      BY <2>3, <2>5, PartIs DEF LinesOfPart
    <3>2. Says(list, p)
      BY <1>1, <1>5, <2>2 DEF Says
    <3>3. QED
      BY <2>2, <2>5, <3>1, <3>2
  <2>6. QED
    BY <2>3, <2>4, <2>5, PartIs
<1>6. QED
  BY <1>2, <1>3, <1>4, <1>5, MessageIs

\* ... and whatever they give is an entry.
LEMMA LineOfCall ==
  ASSUME NEW messages, NEW done, NEW list \in Seq(AgentMessage), NEW c \in Call, Says(list, c),
         NEW e, e \in Elements(Dialogue!PersistedTool(messages, done, c))
  PROVE  e \in Elements(Through(LinesOfMessage(messages, done), list))
<1>1. PICK m \in Elements(list) : m.role = "assistant" /\ c \in Elements(m.parts)
  BY DEF Says
<1>2. m \in AgentMessage
  BY ElementsIn
<1>3. m.parts \in Seq(Part) /\ c \in Part /\ c.kind = "call"
  <2>1. m.parts \in Seq(Part)
    BY <1>1, <1>2, MessageIs
  <2>2. c \in Part
    BY <1>1, <2>1, ElementsIn
  <2>3. QED
    BY <2>1, <2>2 DEF Call
<1>4. LinesOfPart(messages, done)[c] = Dialogue!PersistedTool(messages, done, c)
  BY <1>3 DEF LinesOfPart
<1>5. e \in Elements(Through(LinesOfPart(messages, done), m.parts))
  BY <1>1, <1>3, <1>4, MapLinesOfPart, ElementsThrough
<1>6. LinesOfMessage(messages, done)[m] = Through(LinesOfPart(messages, done), m.parts)
  BY <1>1, <1>2, MessageLines
<1>7. QED
  BY <1>5, <1>6, MapLinesOfMessage, ElementsThrough

(***************************************************************************)
(* SetupTranscript: what the page offers                                   *)
(***************************************************************************)
ResultsFor(id) ==
  [m \in AgentMessage |-> IF m.role = "toolResult" /\ m.id = id THEN <<m>> ELSE <<>>]

LEMMA MapResultsFor == ASSUME NEW id PROVE Maps(ResultsFor(id), AgentMessage, AgentMessage)
<1>1. \A m \in AgentMessage : <<m>> \in Seq(AgentMessage)
  OBVIOUS
<1>2. <<>> \in Seq(AgentMessage)
  OBVIOUS
<1>3. \A m \in AgentMessage : (IF m.role = "toolResult" /\ m.id = id THEN <<m>> ELSE <<>>) \in Seq(AgentMessage)
  BY <1>1, <1>2
<1>4. QED
  BY <1>3 DEF Maps, ResultsFor

LEMMA LastElement == ASSUME NEW X, NEW list \in Seq(X), list # <<>> PROVE Dialogue!Last(list) \in Elements(list)
<1>1. Len(list) \in DOMAIN list
  OBVIOUS
<1>2. QED
  BY <1>1 DEF Elements, Dialogue!Last

LEMMA NoElements == ASSUME NEW X, NEW list \in Seq(X), Elements(list) = {} PROVE list = <<>>
BY LastElement

LEMMA ResultsAre ==
  ASSUME NEW messages \in Seq(AgentMessage), NEW id
  PROVE  /\ Through(ResultsFor(id), messages) \in Seq(AgentMessage)
         /\ \A m : m \in Elements(Through(ResultsFor(id), messages)) <=>
              m \in Elements(messages) /\ m.role = "toolResult" /\ m.id = id
         /\ Dialogue!Status(messages, id) =
              IF Through(ResultsFor(id), messages) = <<>> THEN "pending"
              ELSE IF Dialogue!Last(Through(ResultsFor(id), messages)).ok THEN "succeeded" ELSE "failed"
<1> DEFINE results == Through(ResultsFor(id), messages)
<1>1. results \in Seq(AgentMessage)
  BY MapResultsFor, ThroughType
<1>2. ASSUME NEW m \in AgentMessage, NEW x
      PROVE  x \in Elements(ResultsFor(id)[m]) <=> x = m /\ m.role = "toolResult" /\ m.id = id
  <2>1. ResultsFor(id)[m] = IF m.role = "toolResult" /\ m.id = id THEN <<m>> ELSE <<>>
    BY DEF ResultsFor
  <2>2. Elements(<<m>>) = {m} /\ Elements(<<>>) = {}
    BY ElementsOfOne
  <2>3. QED
    BY <2>1, <2>2
<1>3. \A x : x \in Elements(results) <=> \E m \in Elements(messages) : x \in Elements(ResultsFor(id)[m])
  BY MapResultsFor, ElementsThrough
<1>4. Elements(messages) \subseteq AgentMessage
  BY ElementsIn
<1>5. \A m : m \in Elements(results) <=> m \in Elements(messages) /\ m.role = "toolResult" /\ m.id = id
  <2> HIDE DEF results
  <2>1. QED
    BY <1>2, <1>3, <1>4
<1>6. Dialogue!Only(messages, LAMBDA m : m.role = "toolResult" /\ m.id = id) = results
  <2>1. \A i \in DOMAIN messages : messages[i] \in AgentMessage
    OBVIOUS
  <2>2. [i \in DOMAIN messages |-> IF messages[i].role = "toolResult" /\ messages[i].id = id
                                  THEN <<messages[i]>> ELSE <<>>]
          = [i \in DOMAIN messages |-> ResultsFor(id)[messages[i]]]
    BY <2>1 DEF ResultsFor
  <2>3. QED
    BY <2>2 DEF Dialogue!Only, Through, Flat
<1>7. Dialogue!Status(messages, id) =
        IF results = <<>> THEN "pending"
        ELSE IF Dialogue!Last(results).ok THEN "succeeded" ELSE "failed"
  BY <1>6 DEF Dialogue!Status
<1>8. QED
  BY <1>1, <1>5, <1>7

\* The status of a call is its result, where there is one result.
LEMMA StatusIs ==
  ASSUME NEW messages \in Seq(AgentMessage), NEW id \in Token
  PROVE  /\ Dialogue!Status(messages, id) \in {"pending", "succeeded", "failed"}
         /\ \A ok \in BOOLEAN : Knows(messages, id, ok) /\ ~Knows(messages, id, ~ok) =>
              Dialogue!Status(messages, id) = IF ok THEN "succeeded" ELSE "failed"
<1> DEFINE results == Through(ResultsFor(id), messages)
<1>1. /\ results \in Seq(AgentMessage)
      /\ \A m : m \in Elements(results) <=>
           m \in Elements(messages) /\ m.role = "toolResult" /\ m.id = id
      /\ Dialogue!Status(messages, id) =
           IF results = <<>> THEN "pending"
           ELSE IF Dialogue!Last(results).ok THEN "succeeded" ELSE "failed"
  BY ResultsAre
<1> HIDE DEF results
<1>2. Dialogue!Status(messages, id) \in {"pending", "succeeded", "failed"}
  BY <1>1
<1>3. ASSUME NEW ok \in BOOLEAN, Knows(messages, id, ok), ~Knows(messages, id, ~ok)
      PROVE  Dialogue!Status(messages, id) = IF ok THEN "succeeded" ELSE "failed"
  <2>1. Dialogue!ToolResult(id, ok).role = "toolResult" /\ Dialogue!ToolResult(id, ok).id = id
    BY DEF Dialogue!ToolResult
  <2>2. Dialogue!ToolResult(id, ok) \in Elements(results)
    BY <1>1, <1>3, <2>1 DEF Knows
  <2>3. results # <<>>
    BY <2>2, ElementsOfOne
  <2>4. Dialogue!Last(results) \in Elements(results)
    BY <1>1, <2>3, LastElement
  <2>5. ASSUME NEW m \in Elements(results) PROVE m.ok = ok
    <3>1. m \in Elements(messages) /\ m.role = "toolResult" /\ m.id = id
      BY <1>1
    <3>2. m \in AgentMessage
      BY <3>1, ElementsIn
    <3>3. m = Dialogue!ToolResult(id, m.ok) /\ m.ok \in BOOLEAN
      BY <3>1, <3>2, MessageIs
    <3>4. Knows(messages, id, m.ok)
      BY <3>1, <3>3 DEF Knows
    <3>5. QED
      BY <1>3, <3>3, <3>4
  <2>6. QED
    BY <1>1, <2>3, <2>4, <2>5
<1>4. QED
  BY <1>2, <1>3

\* Messages that do not answer a call do not change its status.
LEMMA StatusStays ==
  ASSUME NEW a \in Seq(AgentMessage), NEW b \in Seq(AgentMessage), NEW id \in Token
  PROVE  /\ (\A ok \in BOOLEAN : ~Knows(b, id, ok)) => Dialogue!Status(a \o b, id) = Dialogue!Status(a, id)
         /\ (\A ok \in BOOLEAN : ~Knows(a, id, ok)) => Dialogue!Status(a \o b, id) = Dialogue!Status(b, id)
<1> DEFINE R(list) == Through(ResultsFor(id), list)
<1>1. a \o b \in Seq(AgentMessage) /\ R(a \o b) = R(a) \o R(b)
  <2>1. Through(ResultsFor(id), a \o b) = Through(ResultsFor(id), a) \o Through(ResultsFor(id), b)
    BY MapResultsFor, ThroughConcat
  <2>2. a \o b \in Seq(AgentMessage)
    OBVIOUS
  <2>3. QED
    BY <2>1, <2>2
<1>2. ASSUME NEW list \in Seq(AgentMessage), \A ok \in BOOLEAN : ~Knows(list, id, ok)
      PROVE  R(list) = <<>>
  <2>1. /\ R(list) \in Seq(AgentMessage)
        /\ \A m : m \in Elements(R(list)) <=> m \in Elements(list) /\ m.role = "toolResult" /\ m.id = id
    BY ResultsAre
  <2>2. ASSUME NEW m \in Elements(R(list)) PROVE FALSE
    <3>1. m \in Elements(list) /\ m.role = "toolResult" /\ m.id = id
      BY <2>1
    <3>2. m \in AgentMessage
      BY <3>1, ElementsIn
    <3>3. m = Dialogue!ToolResult(id, m.ok) /\ m.ok \in BOOLEAN
      BY <3>1, <3>2, MessageIs
    <3>4. QED
      BY <1>2, <3>1, <3>3 DEF Knows
  <2> HIDE DEF R
  <2>3. QED
    BY <2>1, <2>2, NoElements
<1>3. R(a) \in Seq(AgentMessage) /\ R(b) \in Seq(AgentMessage)
  BY ResultsAre
<1>4. \A list \in Seq(AgentMessage) : Dialogue!Status(list, id) =
        IF R(list) = <<>> THEN "pending"
        ELSE IF Dialogue!Last(R(list)).ok THEN "succeeded" ELSE "failed"
  BY ResultsAre
<1> HIDE DEF R
<1>5. R(a) \o <<>> = R(a) /\ <<>> \o R(b) = R(b)
  BY <1>3
<1>6. ASSUME \A ok \in BOOLEAN : ~Knows(b, id, ok)
      PROVE  Dialogue!Status(a \o b, id) = Dialogue!Status(a, id)
  <2>1. R(a \o b) = R(a)
    BY <1>1, <1>2, <1>5, <1>6
  <2>2. QED
    BY <1>1, <1>4, <2>1
<1>7. ASSUME \A ok \in BOOLEAN : ~Knows(a, id, ok)
      PROVE  Dialogue!Status(a \o b, id) = Dialogue!Status(b, id)
  <2>1. R(a \o b) = R(b)
    BY <1>1, <1>2, <1>5, <1>7
  <2>2. QED
    BY <1>1, <1>4, <2>1
<1>8. QED
  BY <1>6, <1>7

\* The entry of a call that the page offers something for.
LEMMA OfferedCall ==
  ASSUME NEW messages, NEW done, NEW c \in Call,
         NEW e, e \in Elements(Dialogue!PersistedTool(messages, done, c)), e.state = "ready"
  PROVE  /\ e.kind = "question" =>
              c.name = "present_question" /\ e.id = c.id /\ Dialogue!Status(messages, c.id) # "failed"
         /\ e.kind = "strategy" => 
              /\ c.name = "publish_strategy" /\ e.id = c.id
              /\ Dialogue!Status(messages, c.id) # "failed"
              /\ e.confirmation = "available" =>
                   /\ c.id \notin Dialogue!Targets(done, "confirmation")
                   /\ Dialogue!Status(messages, c.id) = "succeeded" =>
                        Dialogue!Last(Dialogue!Succeeded(messages, c.name)).id = c.id
<1> DEFINE latest == Dialogue!Succeeded(messages, c.name)
           status == Dialogue!Status(messages, c.id)
           state  == IF status = "failed" THEN "failed" ELSE "ready"
           confirmation ==
             IF c.id \in Dialogue!Targets(done, "confirmation") THEN "completed"
             ELSE IF status = "succeeded" /\ Dialogue!Last(latest).id # c.id THEN "superseded"
                  ELSE "available"
           answered == c.id \in Dialogue!Targets(done, "question_answer")
<1>1. e \in Elements(Dialogue!projectToolEntry(c.id, c.name, state, confirmation, answered))
  BY DEF Dialogue!PersistedTool
<1>2. state = "ready" => status # "failed"
  OBVIOUS
<1>3. confirmation = "available" =>
        /\ c.id \notin Dialogue!Targets(done, "confirmation")
        /\ status = "succeeded" => Dialogue!Last(latest).id = c.id
  OBVIOUS
<1> HIDE DEF latest, status, state, confirmation, answered
<1>4. Elements(<<>>) = {} /\ \A x : Elements(<<x>>) = {x}
  BY ElementsOfOne
<1>5. c.name \in Dialogue!Names
  BY DEF Call
<1>6. CASE c.name = "search_book"
  <2>1. e = [kind |-> "query", id |-> c.id, state |-> state]
    BY <1>1, <1>4, <1>6 DEF Dialogue!projectToolEntry
  <2>2. QED
    BY <2>1
<1>7. CASE c.name = "present_question"
  <2>1. e = [kind |-> "question", id |-> c.id, state |-> state, answered |-> answered]
    BY <1>1, <1>4, <1>7 DEF Dialogue!projectToolEntry
  <2>2. QED
    BY <1>2, <1>7, <2>1 DEF status
<1>8. CASE c.name = "publish_strategy"
  <2>1. e = [kind |-> "strategy", id |-> c.id, state |-> state, confirmation |-> confirmation]
    BY <1>1, <1>4, <1>8 DEF Dialogue!projectToolEntry
  <2>2. QED
    BY <1>2, <1>3, <1>8, <2>1 DEF status, latest
<1>9. QED
  BY <1>5, <1>6, <1>7, <1>8 DEF Dialogue!Names

LEMMA OffersTaken == DialogueInv => Dialogue!OffersAreTaken
<1> SUFFICES ASSUME DialogueInv, run.pc = "idle",
                    \A c \in Dialogue!ToSet(Dialogue!AllCalls(history)) :
                      Dialogue!Status(history, c.id) # "pending"
             PROVE  LET offers == Dialogue!Offers(run.number + 1) IN
                    /\ \A action \in offers : Dialogue!Accepts(history, actions, action)
                    /\ \A a, b \in offers : a.type = "confirmation" /\ b.type = "confirmation" => a = b
  BY Zenon DEF Dialogue!OffersAreTaken
<1> DEFINE r == run.number + 1
           entries == Dialogue!projectPersisted(history, actions)
<1>1. history \in Seq(AgentMessage) /\ entries \in Seq(Line)
  BY PersistedIs DEF DialogueInv, DialogueTyped
<1>2. \A list : Dialogue!ToSet(list) = Elements(list)
  BY DEF Dialogue!ToSet, Elements
<1>3. ASSUME NEW e \in Elements(entries), e.kind \in {"question", "strategy"}, e.state = "ready"
      PROVE  \E c \in Call :
               /\ Says(history, c) /\ c.kind = "call" /\ e.id = c.id
               /\ Dialogue!Status(history, c.id) = "succeeded"
               /\ e.kind = "question" => c.name = "present_question"
               /\ e.kind = "strategy" => c.name = "publish_strategy"
               /\ e.kind = "strategy" /\ e.confirmation = "available" =>
                    /\ c.id \notin Dialogue!Targets(actions, "confirmation")
                    /\ Dialogue!Last(Dialogue!Succeeded(history, "publish_strategy")).id = c.id
  <2>1. e \in Elements(Through(LinesOfMessage(history, actions), history))
    BY <1>1, PersistedIs
  <2>2. e \notin TextStep /\ \A x : e # Dialogue!UserEntry(x)
    BY <1>3 DEF TextStep, Dialogue!UserEntry
  <2>3. PICK c \in Call : /\ Says(history, c) /\ c.kind = "call"
                          /\ e \in Elements(Dialogue!PersistedTool(history, actions, c))
    BY <1>1, <2>1, <2>2, LineComesFrom
  <2>4. c \in Elements(Dialogue!AllCalls(history))
    BY <1>1, <2>3, AllCallsAre
  <2>5. Dialogue!Status(history, c.id) # "pending" /\ c.id \in Token
    BY <1>2, <2>4 DEF Call
  <2>6. Dialogue!Status(history, c.id) \in {"pending", "succeeded", "failed"}
    BY <1>1, <2>5, StatusIs
  <2>7. QED
    BY <1>3, <2>3, <2>5, <2>6, OfferedCall
<1>4. ASSUME NEW c \in Call, Says(history, c), c.kind = "call"
      PROVE  c \in Dialogue!ToSet(Dialogue!AllCalls(history))
  BY <1>1, <1>2, <1>4, AllCallsAre
<1> DEFINE offers == Dialogue!Offers(r)
<1>5. ASSUME NEW action \in offers
      PROVE  \E e \in Elements(entries) :
               /\ e.state = "ready"
               /\ \/ e.kind = "question" /\ action = Dialogue!Answer(e.id, r)
                  \/ e.kind = "strategy" /\ e.confirmation = "available"
                     /\ action \in {Dialogue!Confirm(e.id, r), Dialogue!Feedback(e.id, r)}
  BY <1>2 DEF Dialogue!Offers, Dialogue!AsksFor, Dialogue!MayConfirm, Dialogue!Ready
<1> HIDE DEF r, entries, offers
<1>6. /\ \A id : Dialogue!Answer(id, r).type = "question_answer" /\ Dialogue!Answer(id, r).target = id
      /\ \A id : Dialogue!Confirm(id, r).type = "confirmation" /\ Dialogue!Confirm(id, r).target = id
      /\ \A id : Dialogue!Feedback(id, r).type = "feedback" /\ Dialogue!Feedback(id, r).target = id
  BY DEF Dialogue!Answer, Dialogue!Confirm, Dialogue!Feedback
<1>7. ASSUME NEW action \in offers PROVE Dialogue!Accepts(history, actions, action)
  <2>1. PICK e \in Elements(entries) :
          /\ e.state = "ready"
          /\ \/ e.kind = "question" /\ action = Dialogue!Answer(e.id, r)
             \/ e.kind = "strategy" /\ e.confirmation = "available"
                /\ action \in {Dialogue!Confirm(e.id, r), Dialogue!Feedback(e.id, r)}
    BY <1>5
  <2>2. PICK c \in Call :
          /\ Says(history, c) /\ c.kind = "call" /\ e.id = c.id
          /\ Dialogue!Status(history, c.id) = "succeeded"
          /\ e.kind = "question" => c.name = "present_question"
          /\ e.kind = "strategy" => c.name = "publish_strategy"
          /\ e.kind = "strategy" /\ e.confirmation = "available" =>
               /\ c.id \notin Dialogue!Targets(actions, "confirmation")
               /\ Dialogue!Last(Dialogue!Succeeded(history, "publish_strategy")).id = c.id
    BY <1>3, <2>1
  <2>3. c \in Dialogue!ToSet(Dialogue!AllCalls(history)) /\ c.id = action.target
    BY <1>4, <1>6, <2>1, <2>2
  <2>4. c.name = IF action.type = "question_answer" THEN "present_question" ELSE "publish_strategy"
    BY <1>6, <2>1, <2>2
  <2>5. action.type = "confirmation" => action.target \notin Dialogue!Targets(actions, "confirmation")
    BY <1>6, <2>1, <2>2
  <2>6. QED
    BY <2>2, <2>3, <2>4, <2>5 DEF Dialogue!Accepts
<1>8. ASSUME NEW a \in offers, a.type = "confirmation"
      PROVE  a = Dialogue!Confirm(Dialogue!Last(Dialogue!Succeeded(history, "publish_strategy")).id, r)
  BY <1>3, <1>5, <1>6, <1>8
<1>9. \A a, b \in offers : a.type = "confirmation" /\ b.type = "confirmation" => a = b
  BY <1>8
<1>10. QED
  BY <1>7, <1>9 DEF offers, r

(***************************************************************************)
(* SetupTranscript: what is compared of two transcripts                    *)
(***************************************************************************)
\* An entry without what a click changes, and the entries of some kinds so.
Plain(e) == IF e.kind = "strategy" THEN [e EXCEPT !.confirmation = "any"] ELSE e
Seen(kinds) == [e \in Line |-> IF e.kind \in kinds /\ e.kind # "user" THEN <<Plain(e)>> ELSE <<>>]
Uttered == {"assistant"} \cup Dialogue!ToolKinds

LEMMA LineIs ==
  ASSUME NEW e \in Line
  PROVE  /\ e.kind \in Uttered \cup {"user"}
         /\ e.kind = "strategy" =>
              e = [kind |-> "strategy", id |-> e.id, state |-> e.state, confirmation |-> e.confirmation]
         /\ e.kind = "strategy" => e.id \in Token /\ e.state \in EntryStates
         /\ e.kind = "question" =>
              e = [kind |-> "question", id |-> e.id, state |-> e.state, answered |-> e.answered]
         /\ e.kind = "question" => e.id \in Token /\ e.state \in EntryStates /\ e.answered \in BOOLEAN
<1>1. e \in TextStep => e.kind = "assistant"
  BY DEF TextStep
<1>2. e \in UserLine => e.kind = "user"
  BY DEF UserLine
<1>3. e \in ToolLine => e.kind \in Dialogue!ToolKinds
  BY DEF ToolLine, Dialogue!ToolKinds
<1>4. e.kind \in Uttered \cup {"user"}
  BY <1>1, <1>2, <1>3 DEF Line, Uttered
<1>5. ASSUME e.kind = "strategy"
      PROVE  e \in [kind: {"strategy"}, id: Token, state: EntryStates, confirmation: Confirmations]
  <2>1. e \in ToolLine
    BY <1>1, <1>2, <1>5 DEF Line
  <2>2. QED
    BY <1>5, <2>1 DEF ToolLine
<1>6. ASSUME e.kind = "question"
      PROVE  e \in [kind: {"question"}, id: Token, state: EntryStates, answered: BOOLEAN]
  <2>1. e \in ToolLine
    BY <1>1, <1>2, <1>6 DEF Line
  <2>2. QED
    BY <1>6, <2>1 DEF ToolLine
<1>7. QED
  BY <1>4, <1>5, <1>6

LEMMA PlainTyped == ASSUME NEW e \in Line PROVE Plain(e) \in Line
<1>1. CASE e.kind = "strategy"
  <2>1. Plain(e) = [kind |-> "strategy", id |-> e.id, state |-> e.state, confirmation |-> "any"]
    <3> DEFINE x == [kind |-> "strategy", id |-> e.id, state |-> e.state, confirmation |-> e.confirmation]
    <3>1. e = x
      BY <1>1, LineIs
    <3>2. [x EXCEPT !.confirmation = "any"]
            = [kind |-> "strategy", id |-> e.id, state |-> e.state, confirmation |-> "any"]
      OBVIOUS
    <3> HIDE DEF x
    <3>3. QED
      BY <1>1, <3>1, <3>2 DEF Plain
  <2>2. e.id \in Token /\ e.state \in EntryStates
    BY <1>1, LineIs
  <2>3. QED
    BY <2>1, <2>2 DEF Line, ToolLine, Confirmations
<1>2. CASE e.kind # "strategy"
  BY <1>2 DEF Plain
<1>3. QED
  BY <1>1, <1>2

LEMMA MapSeen == ASSUME NEW kinds PROVE Maps(Seen(kinds), Line, Line)
<1>1. \A e \in Line : <<Plain(e)>> \in Seq(Line)
  BY PlainTyped
<1>2. <<>> \in Seq(Line)
  OBVIOUS
<1>3. \A e \in Line : (IF e.kind \in kinds /\ e.kind # "user" THEN <<Plain(e)>> ELSE <<>>) \in Seq(Line)
  BY <1>1, <1>2
<1>4. QED
  BY <1>3 DEF Maps, Seen

Filtered(kinds) == [e \in Line |-> IF e.kind \in kinds THEN <<e>> ELSE <<>>]

LEMMA MapFiltered == ASSUME NEW kinds PROVE Maps(Filtered(kinds), Line, Line)
<1>1. \A e \in Line : <<e>> \in Seq(Line)
  OBVIOUS
<1>2. <<>> \in Seq(Line)
  OBVIOUS
<1>3. \A e \in Line : (IF e.kind \in kinds THEN <<e>> ELSE <<>>) \in Seq(Line)
  BY <1>1, <1>2
<1>4. QED
  BY <1>3 DEF Maps, Filtered

LEMMA FilteredIs ==
  ASSUME NEW entries \in Seq(Line), NEW kinds
  PROVE  /\ Dialogue!OfKind(entries, kinds) = Through(Filtered(kinds), entries)
         /\ Dialogue!OfKind(entries, kinds) \in Seq(Line)
         /\ \A e : e \in Elements(Dialogue!OfKind(entries, kinds))
                     <=> e \in Elements(entries) /\ e.kind \in kinds
<1>1. \A i \in DOMAIN entries : entries[i] \in Line
  OBVIOUS
<1>2. [i \in DOMAIN entries |-> IF entries[i].kind \in kinds THEN <<entries[i]>> ELSE <<>>]
        = [i \in DOMAIN entries |-> Filtered(kinds)[entries[i]]]
  BY <1>1 DEF Filtered
<1>3. Dialogue!OfKind(entries, kinds) = Through(Filtered(kinds), entries)
  BY <1>2 DEF Dialogue!OfKind, Dialogue!Only, Through, Flat
<1>4. Dialogue!OfKind(entries, kinds) \in Seq(Line)
  BY <1>3, MapFiltered, ThroughType
<1>5. ASSUME NEW x \in Line, NEW e PROVE e \in Elements(Filtered(kinds)[x]) <=> e = x /\ e.kind \in kinds
  <2>1. Filtered(kinds)[x] = IF x.kind \in kinds THEN <<x>> ELSE <<>>
    BY DEF Filtered
  <2>2. Elements(<<x>>) = {x} /\ Elements(<<>>) = {}
    BY ElementsOfOne
  <2>3. QED
    BY <2>1, <2>2
<1>6. \A e : e \in Elements(Through(Filtered(kinds), entries))
               <=> \E x \in Elements(entries) : e \in Elements(Filtered(kinds)[x])
  BY MapFiltered, ElementsThrough
<1>7. Elements(entries) \subseteq Line
  BY ElementsIn
<1>8. \A e : e \in Elements(Dialogue!OfKind(entries, kinds))
                <=> e \in Elements(entries) /\ e.kind \in kinds
  BY <1>3, <1>5, <1>6, <1>7
<1>9. QED
  BY <1>3, <1>4, <1>8

LEMMA UtteredIs ==
  ASSUME NEW entries \in Seq(Line)
  PROVE  Dialogue!Only(entries, LAMBDA e : e.kind # "user") = Through(Filtered(Uttered), entries)
<1>1. \A i \in DOMAIN entries : entries[i] \in Line
  OBVIOUS
<1>2. \A i \in DOMAIN entries : entries[i].kind # "user" <=> entries[i].kind \in Uttered
  <2>1. "user" \notin Uttered
    BY DEF Uttered, Dialogue!ToolKinds
  <2>2. QED
    BY <1>1, <2>1, LineIs
<1>3. [i \in DOMAIN entries |-> IF entries[i].kind # "user" THEN <<entries[i]>> ELSE <<>>]
        = [i \in DOMAIN entries |-> Filtered(Uttered)[entries[i]]]
  BY <1>1, <1>2 DEF Filtered
<1>4. QED
  BY <1>3 DEF Dialogue!Only, Through, Flat

\* The content of a list is what is seen of it.
LEMMA ContentIs ==
  ASSUME NEW entries \in Seq(Line)
  PROVE  /\ Dialogue!Content(entries) = Through(Seen(Uttered), entries)
         /\ \A kinds : Dialogue!Content(Dialogue!OfKind(entries, kinds)) = Through(Seen(kinds), entries)
<1> DEFINE u == [e \in Line |-> Plain(e)]
           w == [e \in Line |-> <<Plain(e)>>]
<1>1. u \in [Line -> Line] /\ (\A e \in Line : w[e] = <<u[e]>>) /\ Maps(w, Line, Line)
  <2>1. u \in [Line -> Line]
    BY PlainTyped
  <2>2. \A e \in Line : <<Plain(e)>> \in Seq(Line)
    BY PlainTyped
  <2>3. Maps(w, Line, Line)
    BY <2>2 DEF Maps
  <2>4. QED
    BY <2>1, <2>3
<1>2. ASSUME NEW list \in Seq(Line)
      PROVE  Dialogue!Content(list) = Through(w, Through(Filtered(Uttered), list))
  <2> DEFINE uttered == Through(Filtered(Uttered), list)
  <2>1. uttered \in Seq(Line)
    BY MapFiltered, ThroughType
  <2>2. Dialogue!Content(list) = [i \in DOMAIN uttered |-> IF uttered[i].kind = "strategy"
                                    THEN [uttered[i] EXCEPT !.confirmation = "any"] ELSE uttered[i]]
    BY UtteredIs DEF Dialogue!Content
  <2>3. \A i \in DOMAIN uttered : uttered[i] \in Line
    BY <2>1
  <2> HIDE DEF uttered
  <2>4. Dialogue!Content(list) = [i \in DOMAIN uttered |-> u[uttered[i]]]
    BY <2>2, <2>3 DEF Plain
  <2> HIDE DEF u, w
  <2>5. Through(w, uttered) = [i \in DOMAIN uttered |-> u[uttered[i]]]
    <3>1. Through(w, uttered) = Each(u, uttered)
      BY <1>1, <2>1, ThroughSingles
    <3>2. QED
      BY <3>1 DEF Each
  <2>6. QED
    BY <2>4, <2>5 DEF uttered
<1>3. ASSUME NEW kinds, NEW list \in Seq(Line)
      PROVE  Through(Seen(Uttered), Through(Filtered(kinds), list)) = Through(Seen(kinds), list)
  <2>1. ASSUME NEW e \in Line PROVE Seen(kinds)[e] = Through(Seen(Uttered), Filtered(kinds)[e])
    <3>1. Through(Seen(Uttered), <<e>>) = Seen(Uttered)[e] /\ Through(Seen(Uttered), <<>>) = <<>>
      BY MapSeen, ThroughOne, ThroughEmpty
    <3>2. Seen(kinds)[e] = IF e.kind \in kinds /\ e.kind # "user" THEN <<Plain(e)>> ELSE <<>>
      BY DEF Seen
    <3>3. Seen(Uttered)[e] = IF e.kind # "user" THEN <<Plain(e)>> ELSE <<>>
      BY LineIs DEF Seen
    <3>4. Filtered(kinds)[e] = IF e.kind \in kinds THEN <<e>> ELSE <<>>
      BY DEF Filtered
    <3>5. QED
      BY <3>1, <3>2, <3>3, <3>4
  <2>2. QED
    BY <2>1, MapFiltered, MapSeen, ThroughBoth
<1>4. ASSUME NEW list \in Seq(Line) PROVE Dialogue!Content(list) = Through(Seen(Uttered), list)
  <2>1. ASSUME NEW e \in Line PROVE Seen(Uttered)[e] = Through(w, Filtered(Uttered)[e])
    <3> DEFINE x == w
    <3>1. w[e] = <<Plain(e)>>
      OBVIOUS
    <3> HIDE DEF w
    <3>2. Through(w, <<e>>) = w[e] /\ Through(w, <<>>) = <<>>
      BY <1>1, ThroughOne, ThroughEmpty
    <3>3. Seen(Uttered)[e] = IF e.kind \in Uttered THEN <<Plain(e)>> ELSE <<>>
      BY DEF Seen, Uttered, Dialogue!ToolKinds
    <3>4. Filtered(Uttered)[e] = IF e.kind \in Uttered THEN <<e>> ELSE <<>>
      BY DEF Filtered
    <3>5. QED
      BY <3>1, <3>2, <3>3, <3>4
  <2> HIDE DEF w, u
  <2>2. Through(w, Through(Filtered(Uttered), list)) = Through(Seen(Uttered), list)
    BY <1>1, <2>1, MapFiltered, MapSeen, ThroughBoth
  <2>3. QED
    BY <1>2, <2>2
<1>5. ASSUME NEW kinds
      PROVE  Dialogue!Content(Dialogue!OfKind(entries, kinds)) = Through(Seen(kinds), entries)
  <2>1. /\ Dialogue!OfKind(entries, kinds) = Through(Filtered(kinds), entries)
        /\ Dialogue!OfKind(entries, kinds) \in Seq(Line)
    BY FilteredIs
  <2>2. Dialogue!Content(Dialogue!OfKind(entries, kinds))
          = Through(Seen(Uttered), Dialogue!OfKind(entries, kinds))
    BY <1>4, <2>1
  <2>3. QED
    BY <1>3, <2>1, <2>2
<1>6. QED
  BY <1>4, <1>5

\* Two ways to the same end, element by element.
LEMMA ThroughTwice ==
  ASSUME NEW X, NEW Y, NEW Z, NEW T, NEW m, Maps(m, X, Y), NEW k, Maps(k, X, Z),
         NEW w, Maps(w, Y, T), NEW v, Maps(v, Z, T), NEW list \in Seq(X),
         \A x \in Elements(list) : Through(w, m[x]) = Through(v, k[x])
  PROVE  Through(w, Through(m, list)) = Through(v, Through(k, list))
<1> DEFINE p == [x \in X |-> Through(w, m[x])]
           q == [x \in X |-> Through(v, k[x])]
<1>1. Maps(p, X, T) /\ Maps(q, X, T)
  <2>1. ASSUME NEW x \in X PROVE Through(w, m[x]) \in Seq(T) /\ Through(v, k[x]) \in Seq(T)
    BY MapsTo, ThroughType
  <2>2. QED
    BY <2>1 DEF Maps
<1>2. \A x \in X : p[x] = Through(w, m[x]) /\ q[x] = Through(v, k[x])
  OBVIOUS
<1>3. \A i \in DOMAIN list : list[i] \in X /\ list[i] \in Elements(list)
  BY DEF Elements
<1> HIDE DEF p, q
<1>4. Through(w, Through(m, list)) = Through(p, list)
  BY <1>1, <1>2, ThroughBoth
<1>5. Through(v, Through(k, list)) = Through(q, list)
  BY <1>1, <1>2, ThroughBoth
<1>6. \A i \in DOMAIN list : p[list[i]] = q[list[i]]
  BY <1>2, <1>3
<1>7. Through(p, list) = Through(q, list)
  BY <1>6, ThroughAgree
<1>8. QED
  BY <1>4, <1>5, <1>7

(***************************************************************************)
(* SetupTranscript: the action under way                                   *)
(***************************************************************************)
Concerns(a, e, type, kind) == a.type = type /\ e.kind = kind /\ e.id = a.target
Answered(a, e) ==
  IF Concerns(a, e, "question_answer", "question") THEN [e EXCEPT !.answered = TRUE] ELSE e
SeenAfter(kinds, a) == [e \in Line |-> Seen(kinds)[Answered(a, e)]]

\* What an entry becomes, and what is added at the end.
OptOf(a) ==
  [e \in Line |->
     IF Concerns(a, e, "confirmation", "strategy") THEN <<[e EXCEPT !.confirmation = "submitting"]>>
     ELSE IF Concerns(a, e, "question_answer", "question")
          THEN <<[e EXCEPT !.answered = TRUE], Dialogue!UserEntry(a.run)>>
     ELSE <<e>>]
OptEnd(a) == IF a.type = "feedback" THEN <<Dialogue!UserEntry(a.run)>> ELSE <<>>

LEMMA UserEntryIs ==
  ASSUME NEW r \in 1..MaxRuns
  PROVE  /\ Dialogue!UserEntry(r) \in Line /\ Dialogue!UserEntry(r).kind = "user"
         /\ \A kinds : Seen(kinds)[Dialogue!UserEntry(r)] = <<>>
<1>1. Dialogue!UserEntry(r) \in Line /\ Dialogue!UserEntry(r).kind = "user"
  BY DEF Line, UserLine, Dialogue!UserEntry
<1>2. QED
  BY <1>1 DEF Seen

LEMMA SubmittingIs ==
  ASSUME NEW e \in Line, e.kind = "strategy"
  PROVE  LET x == [e EXCEPT !.confirmation = "submitting"] IN
         x \in Line /\ x.kind = "strategy" /\ \A kinds : Seen(kinds)[x] = Seen(kinds)[e]
<1> DEFINE S(c) == [kind |-> "strategy", id |-> e.id, state |-> e.state, confirmation |-> c]
           x == [e EXCEPT !.confirmation = "submitting"]
<1>1. e = S(e.confirmation) /\ e.id \in Token /\ e.state \in EntryStates
  BY LineIs
<1>2. \A c, d : [S(c) EXCEPT !.confirmation = d] = S(d)
  OBVIOUS
<1>3. x = S("submitting")
  <2> HIDE DEF S
  <2>1. QED
    BY <1>1, <1>2
<1>4. x \in Line /\ x.kind = "strategy"
  BY <1>1, <1>3 DEF Line, ToolLine, Confirmations
<1>5. Plain(x) = S("any") /\ Plain(e) = S("any")
  <2>1. Plain(x) = [x EXCEPT !.confirmation = "any"] /\ Plain(e) = [e EXCEPT !.confirmation = "any"]
    BY <1>4 DEF Plain
  <2> HIDE DEF S, x
  <2>2. QED
    BY <1>1, <1>2, <1>3, <2>1
<1> HIDE DEF x, S
<1>6. \A kinds : Seen(kinds)[x] = Seen(kinds)[e]
  BY <1>4, <1>5 DEF Seen
<1>7. QED
  BY <1>4, <1>6 DEF x

LEMMA AnsweredIs ==
  ASSUME NEW e \in Line, e.kind = "question"
  PROVE  [e EXCEPT !.answered = TRUE] \in Line /\ [e EXCEPT !.answered = TRUE].kind = "question"
<1> DEFINE Q(b) == [kind |-> "question", id |-> e.id, state |-> e.state, answered |-> b]
<1>1. e = Q(e.answered) /\ e.id \in Token /\ e.state \in EntryStates
  BY LineIs
<1>2. \A b, d : [Q(b) EXCEPT !.answered = d] = Q(d)
  OBVIOUS
<1>3. [e EXCEPT !.answered = TRUE] = Q(TRUE)
  <2> HIDE DEF Q
  <2>1. QED
    BY <1>1, <1>2
<1>4. QED
  BY <1>1, <1>3 DEF Line, ToolLine

LEMMA PairThrough ==
  ASSUME NEW X, NEW T, NEW m, Maps(m, X, T), NEW x \in X, NEW y \in X
  PROVE  /\ Through(m, <<x, y>>) = m[x] \o m[y] /\ <<x, y>> \in Seq(X)
         /\ Elements(<<x, y>>) = {x, y}
<1>1. <<x>> \in Seq(X) /\ <<x, y>> = Append(<<x>>, y) /\ <<x, y>> \in Seq(X)
  OBVIOUS
<1>2. Through(m, Append(<<x>>, y)) = Through(m, <<x>>) \o m[y]
  BY <1>1, ThroughAppend
<1>3. Through(m, <<x>>) = m[x]
  BY ThroughOne
<1>4. Elements(Append(<<x>>, y)) = Elements(<<x>>) \cup {y}
  <2> DEFINE s == <<x>>
  <2>1. s \in Seq(X)
    BY <1>1
  <2> HIDE DEF s
  <2>2. Elements(Append(s, y)) = Elements(s) \cup {y}
    BY <2>1, ElementsAppend
  <2>3. QED
    BY <2>2 DEF s
<1>5. Elements(<<x>>) = {x}
  BY ElementsOfOne
<1>6. QED
  BY <1>1, <1>2, <1>3, <1>4, <1>5

LEMMA PairSeen ==
  ASSUME NEW x \in Line, NEW y \in Line
  PROVE  /\ \A kinds : Through(Seen(kinds), <<x, y>>) = Seen(kinds)[x] \o Seen(kinds)[y]
         /\ <<x, y>> \in Seq(Line) /\ Elements(<<x, y>>) = {x, y}
<1> SUFFICES ASSUME NEW kinds
             PROVE  /\ Through(Seen(kinds), <<x, y>>) = Seen(kinds)[x] \o Seen(kinds)[y]
                    /\ <<x, y>> \in Seq(Line) /\ Elements(<<x, y>>) = {x, y}
  OBVIOUS
<1> DEFINE m == Seen(kinds)
<1>1. Maps(m, Line, Line)
  BY MapSeen
<1> HIDE DEF m
<1>2. Through(m, <<x, y>>) = m[x] \o m[y] /\ <<x, y>> \in Seq(Line) /\ Elements(<<x, y>>) = {x, y}
  BY <1>1, PairThrough
<1>3. QED
  BY <1>2 DEF m

LEMMA OptOfIs ==
  ASSUME NEW a \in Deed, NEW e \in Line
  PROVE  /\ OptOf(a)[e] \in Seq(Line)
         /\ \A kinds : Through(Seen(kinds), OptOf(a)[e]) = SeenAfter(kinds, a)[e]
         /\ \A x : x \in Elements(OptOf(a)[e]) /\ x.kind = "user" <=>
              \/ x = e /\ e.kind = "user"
              \/ x = Dialogue!UserEntry(a.run) /\ Concerns(a, e, "question_answer", "question")
<1> DEFINE list == OptOf(a)[e]
           s == [e EXCEPT !.confirmation = "submitting"]
           q == [e EXCEPT !.answered = TRUE]
           y == Dialogue!UserEntry(a.run)
<1>1. y \in Line /\ y.kind = "user" /\ \A kinds : Seen(kinds)[y] = <<>>
  <2>1. a.run \in 1..MaxRuns
    BY DEF Deed
  <2>2. QED
    BY <2>1, UserEntryIs
<1>2. \A kinds : SeenAfter(kinds, a)[e] =
        IF Concerns(a, e, "question_answer", "question") THEN Seen(kinds)[q] ELSE Seen(kinds)[e]
  BY DEF SeenAfter, Answered
<1>3. list = IF Concerns(a, e, "confirmation", "strategy") THEN <<s>>
             ELSE IF Concerns(a, e, "question_answer", "question") THEN <<q, y>> ELSE <<e>>
  BY DEF OptOf
<1>4. ASSUME NEW kinds, NEW z \in Line PROVE Through(Seen(kinds), <<z>>) = Seen(kinds)[z]
  BY MapSeen, ThroughOne
<1>5. CASE Concerns(a, e, "confirmation", "strategy")
  <2>1. ~Concerns(a, e, "question_answer", "question") /\ e.kind = "strategy"
    BY <1>5 DEF Concerns
  <2>2. s \in Line /\ s.kind = "strategy" /\ \A kinds : Seen(kinds)[s] = Seen(kinds)[e]
    BY <2>1, SubmittingIs
  <2> HIDE DEF s, q, y, list
  <2>3. list = <<s>> /\ <<s>> \in Seq(Line) /\ Elements(<<s>>) = {s}
    BY <1>3, <1>5, <2>2, ElementsOfOne
  <2>4. \A kinds : Through(Seen(kinds), list) = SeenAfter(kinds, a)[e]
    BY <1>2, <1>4, <2>1, <2>2, <2>3
  <2>5. \A x : x \in Elements(list) /\ x.kind = "user" <=>
          \/ x = e /\ e.kind = "user"
          \/ x = y /\ Concerns(a, e, "question_answer", "question")
    BY <2>1, <2>2, <2>3
  <2>6. QED
    BY <2>3, <2>4, <2>5 DEF list, y
<1>6. CASE Concerns(a, e, "question_answer", "question")
  <2>1. ~Concerns(a, e, "confirmation", "strategy") /\ e.kind = "question"
    BY <1>6 DEF Concerns
  <2>2. q \in Line /\ q.kind = "question"
    BY <2>1, AnsweredIs
  <2> HIDE DEF s, q, y, list
  <2>3. /\ list = <<q, y>> /\ <<q, y>> \in Seq(Line) /\ Elements(<<q, y>>) = {q, y}
        /\ \A kinds : Through(Seen(kinds), <<q, y>>) = Seen(kinds)[q] \o Seen(kinds)[y]
    <3>1. list = <<q, y>>
      BY <1>3, <1>6, <2>1
    <3>2. QED
      BY <1>1, <2>2, <3>1, PairSeen
  <2>4. ASSUME NEW kinds PROVE Through(Seen(kinds), list) = SeenAfter(kinds, a)[e]
    <3>1. Seen(kinds)[q] \in Seq(Line)
      BY <2>2, MapSeen, MapsTo
    <3>2. Seen(kinds)[q] \o <<>> = Seen(kinds)[q]
      BY <3>1
    <3>3. QED
      BY <1>1, <1>2, <1>6, <2>3, <3>2
  <2>5. \A x : x \in Elements(list) /\ x.kind = "user" <=>
          \/ x = e /\ e.kind = "user"
          \/ x = y /\ Concerns(a, e, "question_answer", "question")
    BY <1>1, <1>6, <2>1, <2>2, <2>3
  <2>6. QED
    BY <2>3, <2>4, <2>5 DEF list, y
<1>7. CASE /\ ~Concerns(a, e, "confirmation", "strategy")
           /\ ~Concerns(a, e, "question_answer", "question")
  <2> HIDE DEF s, q, y, list
  <2>1. list = <<e>> /\ <<e>> \in Seq(Line) /\ Elements(<<e>>) = {e}
    BY <1>3, <1>7, ElementsOfOne
  <2>2. \A kinds : Through(Seen(kinds), list) = SeenAfter(kinds, a)[e]
    BY <1>2, <1>4, <1>7, <2>1
  <2>3. QED
    BY <1>7, <2>1, <2>2 DEF list, y
<1>8. QED
  BY <1>5, <1>6, <1>7

LEMMA MapOptOf == ASSUME NEW a \in Deed PROVE Maps(OptOf(a), Line, Line)
<1>1. \A e \in Line : OptOf(a)[e] \in Seq(Line)
  BY OptOfIs
<1>2. QED
  BY <1>1 DEF Maps, OptOf

LEMMA MapSeenAfter == ASSUME NEW kinds, NEW a \in Deed PROVE Maps(SeenAfter(kinds, a), Line, Line)
<1>1. ASSUME NEW e \in Line PROVE SeenAfter(kinds, a)[e] \in Seq(Line)
  <2>1. Through(Seen(kinds), OptOf(a)[e]) = SeenAfter(kinds, a)[e] /\ OptOf(a)[e] \in Seq(Line)
    BY OptOfIs
  <2>2. Through(Seen(kinds), OptOf(a)[e]) \in Seq(Line)
    BY <2>1, MapSeen, ThroughType
  <2>3. QED
    BY <2>1, <2>2
<1>2. QED
  BY <1>1 DEF Maps, SeenAfter

LEMMA OptimisticIs ==
  ASSUME NEW entries \in Seq(Line), NEW a \in Deed
  PROVE  /\ Dialogue!applyOptimistic(entries, a) = Through(OptOf(a), entries) \o OptEnd(a)
         /\ Through(OptOf(a), entries) \in Seq(Line) /\ OptEnd(a) \in Seq(Line)
<1>1. Through(OptOf(a), entries) \in Seq(Line)
  BY MapOptOf, ThroughType
<1>2. OptEnd(a) \in Seq(Line)
  <2>1. a.run \in 1..MaxRuns
    BY DEF Deed
  <2>2. Dialogue!UserEntry(a.run) \in Line
    BY <2>1, UserEntryIs
  <2>3. QED
    BY <2>2 DEF OptEnd
<1>3. Through(OptOf(a), entries) \o <<>> = Through(OptOf(a), entries)
  BY <1>1
<1>4. \A i \in DOMAIN entries : entries[i] \in Line
  OBVIOUS
<1>5. a.type \in {"session_start", "question_answer", "feedback", "confirmation"}
  BY DEF Deed
<1>6. CASE a.type = "confirmation"
  <2> DEFINE u == [e \in Line |-> IF Concerns(a, e, "confirmation", "strategy")
                     THEN [e EXCEPT !.confirmation = "submitting"] ELSE e]
  <2>1. ASSUME NEW e \in Line PROVE u[e] \in Line /\ OptOf(a)[e] = <<u[e]>>
    <3>1. ~Concerns(a, e, "question_answer", "question")
      BY <1>6 DEF Concerns
    <3>2. Concerns(a, e, "confirmation", "strategy") => e.kind = "strategy"
      BY DEF Concerns
    <3>3. u[e] = IF Concerns(a, e, "confirmation", "strategy")
                 THEN [e EXCEPT !.confirmation = "submitting"] ELSE e
      OBVIOUS
    <3>4. OptOf(a)[e] = IF Concerns(a, e, "confirmation", "strategy")
                        THEN <<[e EXCEPT !.confirmation = "submitting"]>> ELSE <<e>>
      BY <3>1 DEF OptOf
    <3> HIDE DEF u
    <3>5. QED
      BY <3>2, <3>3, <3>4, SubmittingIs
  <2>2. u \in [Line -> Line]
    BY <2>1
  <2>3. Dialogue!applyOptimistic(entries, a) = [i \in DOMAIN entries |-> u[entries[i]]]
    BY <1>4, <1>6 DEF Dialogue!applyOptimistic, Concerns
  <2> HIDE DEF u
  <2>4. Through(OptOf(a), entries) = Each(u, entries)
    BY <2>1, <2>2, MapOptOf, ThroughSingles
  <2>5. OptEnd(a) = <<>>
    BY <1>6 DEF OptEnd
  <2>6. QED
    BY <1>1, <1>3, <2>3, <2>4, <2>5 DEF Each
<1>7. CASE a.type = "question_answer"
  <2>1. [i \in DOMAIN entries |->
           IF entries[i].kind = "question" /\ entries[i].id = a.target
           THEN <<[entries[i] EXCEPT !.answered = TRUE], Dialogue!UserEntry(a.run)>>
           ELSE <<entries[i]>>]
          = [i \in DOMAIN entries |-> OptOf(a)[entries[i]]]
    BY <1>4, <1>7 DEF OptOf, Concerns
  <2>2. Dialogue!applyOptimistic(entries, a) = Through(OptOf(a), entries)
    BY <1>7, <2>1 DEF Dialogue!applyOptimistic, Through, Flat
  <2>3. OptEnd(a) = <<>>
    BY <1>7 DEF OptEnd
  <2>4. QED
    BY <1>1, <1>3, <2>2, <2>3
<1>8. CASE a.type \in {"feedback", "session_start"}
  <2>1. \A e \in Line : OptOf(a)[e] = <<e>>
    BY <1>8 DEF OptOf, Concerns
  <2>2. Through(OptOf(a), entries) = entries
    BY <2>1, ThroughSame
  <2>3. Dialogue!applyOptimistic(entries, a) = IF a.type = "feedback"
          THEN Append(entries, Dialogue!UserEntry(a.run)) ELSE entries
    BY <1>8 DEF Dialogue!applyOptimistic
  <2>4. CASE a.type = "feedback"
    <3>1. Dialogue!UserEntry(a.run) \in Line
      BY UserEntryIs DEF Deed
    <3> DEFINE y == Dialogue!UserEntry(a.run)
    <3> HIDE DEF y
    <3>2. Append(entries, y) = entries \o <<y>>
      BY <3>1 DEF y
    <3>3. QED
      BY <1>1, <1>2, <2>2, <2>3, <2>4, <3>2 DEF OptEnd, y
  <2>5. CASE a.type = "session_start"
    <3>1. OptEnd(a) = <<>>
      BY <2>5 DEF OptEnd
    <3>2. QED
      BY <1>1, <1>3, <2>2, <2>3, <2>5, <3>1
  <2>6. QED
    BY <1>8, <2>4, <2>5
<1>9. QED
  BY <1>1, <1>2, <1>5, <1>6, <1>7, <1>8

LEMMA OptimisticSeen ==
  ASSUME NEW entries \in Seq(Line), NEW a \in Deed
  PROVE  LET after == Dialogue!applyOptimistic(entries, a) IN
         /\ after \in Seq(Line)
         /\ \A kinds : Through(Seen(kinds), after) = Through(SeenAfter(kinds, a), entries)
         /\ \A x : x \in Elements(after) /\ x.kind = "user" <=>
              \/ x \in Elements(entries) /\ x.kind = "user"
              \/ /\ x = Dialogue!UserEntry(a.run)
                 /\ \/ a.type = "feedback"
                    \/ \E e \in Elements(entries) : Concerns(a, e, "question_answer", "question")
<1> DEFINE after == Dialogue!applyOptimistic(entries, a)
           p == Through(OptOf(a), entries)
           y == Dialogue!UserEntry(a.run)
<1>1. after = p \o OptEnd(a) /\ p \in Seq(Line) /\ OptEnd(a) \in Seq(Line)
  BY OptimisticIs
<1>2. y \in Line /\ y.kind = "user" /\ \A kinds : Seen(kinds)[y] = <<>>
  BY UserEntryIs DEF Deed
<1>3. ASSUME NEW kinds PROVE Through(Seen(kinds), p) = Through(SeenAfter(kinds, a), entries)
  <2>1. \A e \in Line : SeenAfter(kinds, a)[e] = Through(Seen(kinds), OptOf(a)[e])
    BY OptOfIs
  <2>2. QED
    BY <2>1, MapOptOf, MapSeen, MapSeenAfter, ThroughBoth
<1>4. \A x : x \in Elements(p) /\ x.kind = "user" <=>
        \/ x \in Elements(entries) /\ x.kind = "user"
        \/ x = y /\ \E e \in Elements(entries) : Concerns(a, e, "question_answer", "question")
  <2>1. \A x : x \in Elements(p) <=> \E e \in Elements(entries) : x \in Elements(OptOf(a)[e])
    BY MapOptOf, ElementsThrough
  <2>2. Elements(entries) \subseteq Line
    BY ElementsIn
  <2> HIDE DEF p
  <2>3. ASSUME NEW e \in Line, NEW x
        PROVE  x \in Elements(OptOf(a)[e]) /\ x.kind = "user" <=>
                 \/ x = e /\ e.kind = "user"
                 \/ x = y /\ Concerns(a, e, "question_answer", "question")
    BY OptOfIs
  <2> HIDE DEF y
  <2>4. QED
    BY <1>2, <2>1, <2>2, <2>3
<1>5. /\ OptEnd(a) = IF a.type = "feedback" THEN <<y>> ELSE <<>>
      /\ Elements(<<y>>) = {y} /\ Elements(<<>>) = {}
  BY ElementsOfOne DEF OptEnd
<1> HIDE DEF after, p, y
<1>6. after \in Seq(Line) /\ Elements(after) = Elements(p) \cup Elements(OptEnd(a))
  BY <1>1, ElementsOf
<1>7. ASSUME NEW kinds PROVE Through(Seen(kinds), after) = Through(SeenAfter(kinds, a), entries)
  <2>1. Through(Seen(kinds), p \o OptEnd(a)) = Through(Seen(kinds), p) \o Through(Seen(kinds), OptEnd(a))
    BY <1>1, MapSeen, ThroughConcat
  <2>2. Through(Seen(kinds), OptEnd(a)) = <<>>
    <3>1. Through(Seen(kinds), <<y>>) = Seen(kinds)[y] /\ Through(Seen(kinds), <<>>) = <<>>
      BY <1>2, MapSeen, ThroughOne, ThroughEmpty
    <3>2. QED
      BY <1>2, <1>5, <3>1
  <2>3. Through(Seen(kinds), p) \in Seq(Line)
    BY <1>1, MapSeen, ThroughType
  <2>4. Through(Seen(kinds), p) \o <<>> = Through(Seen(kinds), p)
    BY <2>3
  <2>5. QED
    BY <1>1, <1>3, <2>1, <2>2, <2>4
<1>8. \A x : x \in Elements(after) /\ x.kind = "user" <=>
        \/ x \in Elements(entries) /\ x.kind = "user"
        \/ /\ x = y
           /\ \/ a.type = "feedback"
              \/ \E e \in Elements(entries) : Concerns(a, e, "question_answer", "question")
  BY <1>2, <1>4, <1>5, <1>6
<1>9. QED
  BY <1>6, <1>7, <1>8 DEF after, y

(***************************************************************************)
(* SetupTranscript: the messages the page has read                         *)
(***************************************************************************)
\* The product that an entry confirms is not compared, and an answer is the action's.
LEMMA EntrySeen ==
  ASSUME NEW id \in Token, NEW name, NEW state \in EntryStates,
         NEW before \in Confirmations, NEW after \in Confirmations, NEW answered \in BOOLEAN,
         NEW a \in Deed, NEW kinds
  PROVE  LET isAnswered == answered \/ (a.type = "question_answer" /\ id = a.target) IN
         /\ Through(Seen(kinds), Dialogue!projectToolEntry(id, name, state, before, answered))
              = Through(Seen(kinds), Dialogue!projectToolEntry(id, name, state, after, answered))
         /\ Through(SeenAfter(kinds, a), Dialogue!projectToolEntry(id, name, state, before, answered))
              = Through(Seen(kinds), Dialogue!projectToolEntry(id, name, state, after, isAnswered))
<1> DEFINE S(c) == [kind |-> "strategy", id |-> id, state |-> state, confirmation |-> c]
           Q(b) == [kind |-> "question", id |-> id, state |-> state, answered |-> b]
           isAnswered == answered \/ (a.type = "question_answer" /\ id = a.target)
           entry(c, b) == Dialogue!projectToolEntry(id, name, state, c, b)
<1>1. ASSUME NEW e \in Line
      PROVE  /\ Through(Seen(kinds), <<e>>) = Seen(kinds)[e]
             /\ Through(SeenAfter(kinds, a), <<e>>) = Seen(kinds)[Answered(a, e)]
  <2>1. Through(SeenAfter(kinds, a), <<e>>) = SeenAfter(kinds, a)[e]
    BY MapSeenAfter, ThroughOne
  <2>2. Through(Seen(kinds), <<e>>) = Seen(kinds)[e]
    BY MapSeen, ThroughOne
  <2>3. QED
    BY <2>1, <2>2 DEF SeenAfter
<1>2. isAnswered \in BOOLEAN
  OBVIOUS
<1>3. CASE name = "publish_strategy"
  <2>1. \A c, b : entry(c, b) = <<S(c)>>
    BY <1>3 DEF Dialogue!projectToolEntry
  <2>2. \A c \in Confirmations : S(c) \in Line
    BY DEF Line, ToolLine
  <2>3. \A c : S(c).kind = "strategy" /\ [S(c) EXCEPT !.confirmation = "any"] = S("any")
    OBVIOUS
  <2>4. \A c : Plain(S(c)) = S("any") /\ Answered(a, S(c)) = S(c)
    BY <2>3 DEF Plain, Answered, Concerns
  <2> HIDE DEF S, entry, isAnswered
  <2>5. \A c \in Confirmations : Seen(kinds)[S(c)] = IF "strategy" \in kinds THEN <<S("any")>> ELSE <<>>
    BY <2>2, <2>3, <2>4 DEF Seen
  <2>6. QED
    BY <1>1, <2>1, <2>2, <2>4, <2>5 DEF entry, isAnswered
<1>4. CASE name = "present_question"
  <2>1. \A c, b : entry(c, b) = <<Q(b)>>
    BY <1>4 DEF Dialogue!projectToolEntry
  <2>2. \A b \in BOOLEAN : Q(b) \in Line
    BY DEF Line, ToolLine
  <2>3. \A b : Q(b).kind = "question" /\ Q(b).id = id /\ [Q(b) EXCEPT !.answered = TRUE] = Q(TRUE)
    <3>1. \A b, d : [Q(b) EXCEPT !.answered = d] = Q(d)
      OBVIOUS
    <3>2. \A b : Q(b).kind = "question" /\ Q(b).id = id
      OBVIOUS
    <3> HIDE DEF Q
    <3>3. QED
      BY <3>1, <3>2
  <2>4. Answered(a, Q(answered)) = Q(isAnswered)
    <3>1. Concerns(a, Q(answered), "question_answer", "question")
            <=> a.type = "question_answer" /\ id = a.target
      BY <2>3 DEF Concerns
    <3>2. CASE a.type = "question_answer" /\ id = a.target
      <4>1. isAnswered = TRUE
        BY <3>2
      <4> HIDE DEF Q, isAnswered
      <4>2. QED
        BY <2>3, <3>1, <3>2, <4>1 DEF Answered
    <3>3. CASE ~(a.type = "question_answer" /\ id = a.target)
      <4>1. isAnswered = answered
        BY <3>3
      <4> HIDE DEF Q, isAnswered
      <4>2. QED
        BY <3>1, <3>3, <4>1 DEF Answered
    <3>4. QED
      BY <3>2, <3>3
  <2> HIDE DEF Q, entry, isAnswered
  <2>5. Through(SeenAfter(kinds, a), <<Q(answered)>>) = Through(Seen(kinds), <<Q(isAnswered)>>)
    BY <1>1, <1>2, <2>2, <2>4
  <2>6. /\ Through(Seen(kinds), entry(before, answered)) = Through(Seen(kinds), entry(after, answered))
        /\ Through(SeenAfter(kinds, a), entry(before, answered)) = Through(Seen(kinds), entry(after, isAnswered))
    BY <2>1, <2>5
  <2>7. QED
    BY <2>6 DEF entry, isAnswered
<1>5. CASE name \notin {"publish_strategy", "present_question"}
  <2> DEFINE x == [kind |-> IF name = "search_book" THEN "query" ELSE "tool", id |-> id, state |-> state]
  <2>1. \/ \A c, b : entry(c, b) = <<>>
        \/ \A c, b : entry(c, b) = <<x>>
    <3>1. CASE name = "search_book"
      <4>1. \A c, b : entry(c, b) =
              IF state = "ready" THEN <<>> ELSE <<[kind |-> "query", id |-> id, state |-> state]>>
        BY <3>1 DEF Dialogue!projectToolEntry
      <4>2. x = [kind |-> "query", id |-> id, state |-> state]
        BY <3>1
      <4> HIDE DEF entry, x
      <4>3. QED
        BY <4>1, <4>2
    <3>2. CASE name # "search_book"
      <4>1. \A c, b : entry(c, b) = <<[kind |-> "tool", id |-> id, state |-> state]>>
        BY <1>5, <3>2 DEF Dialogue!projectToolEntry
      <4>2. x = [kind |-> "tool", id |-> id, state |-> state]
        BY <3>2
      <4> HIDE DEF entry, x
      <4>3. QED
        BY <4>1, <4>2
    <3>3. QED
      BY <3>1, <3>2
  <2>2. x \in Line
    BY DEF Line, ToolLine
  <2>3. Answered(a, x) = x
    BY DEF Answered, Concerns
  <2>4. Through(Seen(kinds), <<>>) = <<>> /\ Through(SeenAfter(kinds, a), <<>>) = <<>>
    BY ThroughEmpty
  <2> HIDE DEF x, entry, isAnswered
  <2>5. QED
    BY <1>1, <2>1, <2>2, <2>3, <2>4 DEF entry, isAnswered
<1>6. QED
  BY <1>3, <1>4, <1>5

\* How a call is shown.
StateOf(status) == IF status = "failed" THEN "failed" ELSE "ready"

LEMMA PersistedToolIs ==
  ASSUME NEW messages, NEW done, NEW c \in Call
  PROVE  \E confirmation \in Confirmations :
           Dialogue!PersistedTool(messages, done, c)
             = Dialogue!projectToolEntry(c.id, c.name, StateOf(Dialogue!Status(messages, c.id)),
                 confirmation, c.id \in Dialogue!Targets(done, "question_answer"))
<1> DEFINE latest == Dialogue!Succeeded(messages, c.name)
           status == Dialogue!Status(messages, c.id)
           confirmation ==
             IF c.id \in Dialogue!Targets(done, "confirmation") THEN "completed"
             ELSE IF status = "succeeded" /\ Dialogue!Last(latest).id # c.id THEN "superseded"
                  ELSE "available"
<1>1. confirmation \in Confirmations
  BY DEF Confirmations
<1>2. Dialogue!PersistedTool(messages, done, c)
        = Dialogue!projectToolEntry(c.id, c.name, StateOf(status), confirmation,
            c.id \in Dialogue!Targets(done, "question_answer"))
  BY DEF Dialogue!PersistedTool, StateOf
<1> HIDE DEF confirmation
<1>3. QED
  BY <1>1, <1>2

LEMMA UserLines ==
  ASSUME NEW messages, NEW done, NEW m \in AgentMessage, m.role = "user"
  PROVE  \/ LinesOfMessage(messages, done)[m] = <<>>
         \/ LinesOfMessage(messages, done)[m] = <<Dialogue!UserEntry(m.run)>>
<1> DEFINE lines == LinesOfMessage(messages, done)
<1>1. lines[m] = IF \E d \in Elements(done) : d.run = m.run /\ d.type = "confirmation"
                 THEN <<>> ELSE <<Dialogue!UserEntry(m.run)>>
  BY MessageLines
<1> HIDE DEF lines
<1>2. QED
  BY <1>1 DEF lines

\* Messages seen in two ways that agree on each part.
LEMMA MessagesSeen ==
  ASSUME NEW messages, NEW done, NEW list \in Seq(AgentMessage), NEW kinds,
         NEW Y, NEW v, Maps(v, Y, Line), NEW ofPart, Maps(ofPart, Part, Y),
         NEW ofMessage, Maps(ofMessage, AgentMessage, Y),
         \A m \in AgentMessage :
           IF m.role = "assistant" THEN ofMessage[m] = Through(ofPart, m.parts)
                                   ELSE Through(v, ofMessage[m]) = <<>>,
         \A p \in Part : Says(list, p) =>
           Through(v, ofPart[p]) = Through(Seen(kinds), LinesOfPart(messages, done)[p])
  PROVE  Through(v, Through(ofMessage, list))
           = Through(Seen(kinds), Through(LinesOfMessage(messages, done), list))
<1> DEFINE lines == LinesOfMessage(messages, done)
           part  == LinesOfPart(messages, done)
           w     == Seen(kinds)
<1>1. Maps(lines, AgentMessage, Line) /\ Maps(part, Part, Line) /\ Maps(w, Line, Line)
  BY MapLinesOfMessage, MapLinesOfPart, MapSeen
<1>2. Elements(list) \subseteq AgentMessage
  BY ElementsIn
<1>3. ASSUME NEW m \in Elements(list) PROVE Through(v, ofMessage[m]) = Through(w, lines[m])
  <2>1. m \in AgentMessage
    BY <1>2
  <2>2. CASE m.role = "assistant"
    <3>1. m.parts \in Seq(Part)
      BY <2>1, <2>2, MessageIs
    <3>2. lines[m] = Through(part, m.parts) /\ ofMessage[m] = Through(ofPart, m.parts)
      BY <2>1, <2>2, MessageLines
    <3>3. ASSUME NEW p \in Elements(m.parts) PROVE Through(v, ofPart[p]) = Through(w, part[p])
      <4>1. p \in Part /\ Says(list, p)
        BY <2>2, <3>1, ElementsIn DEF Says
      <4>2. QED
        BY <4>1
    <3> HIDE DEF lines, part, w
    <3>4. Through(v, Through(ofPart, m.parts)) = Through(w, Through(part, m.parts))
      BY <1>1, <3>1, <3>3, ThroughTwice
    <3>5. QED
      BY <3>2, <3>4
  <2>3. CASE m.role = "toolResult"
    <3>1. lines[m] = <<>>
      BY <2>1, <2>3, MessageLines
    <3>2. Through(w, <<>>) = <<>>
      BY ThroughEmpty
    <3>3. QED
      BY <2>1, <2>3, <3>1, <3>2
  <2>4. CASE m.role = "user"
    <3> DEFINE y == Dialogue!UserEntry(m.run)
    <3>1. lines[m] = <<>> \/ lines[m] = <<y>>
      BY <2>1, <2>4, UserLines
    <3>2. y \in Line /\ w[y] = <<>>
      BY <2>1, <2>4, MessageIs, UserEntryIs
    <3> HIDE DEF lines, w, y
    <3>3. Through(w, <<>>) = <<>> /\ Through(w, <<y>>) = <<>>
      BY <1>1, <3>2, ThroughEmpty, ThroughOne
    <3>4. Through(v, ofMessage[m]) = <<>>
      BY <2>1, <2>4
    <3>5. QED
      BY <3>1, <3>3, <3>4
  <2>5. QED
    BY <2>1, <2>2, <2>3, <2>4, MessageIs
<1> HIDE DEF lines, part, w
<1>4. Through(v, Through(ofMessage, list)) = Through(w, Through(lines, list))
  BY <1>1, <1>3, ThroughTwice
<1>5. QED
  BY <1>4 DEF lines, w

LEMMA TextsSeen ==
  ASSUME NEW tokens \in Seq(Token), NEW kinds, NEW a
  PROVE  Through(SeenAfter(kinds, a), Dialogue!TextEntries(tokens))
           = Through(Seen(kinds), Dialogue!TextEntries(tokens))
<1> DEFINE list == Dialogue!TextEntries(tokens)
<1>1. list \in Seq(TextStep)
  BY EntriesOf
<1>2. \A e \in TextStep : e \in Line /\ e.kind = "assistant"
  BY DEF Line, TextStep
<1>3. \A e \in TextStep : SeenAfter(kinds, a)[e] = Seen(kinds)[e]
  BY <1>2 DEF SeenAfter, Answered, Concerns
<1> HIDE DEF list
<1>4. \A i \in DOMAIN list : SeenAfter(kinds, a)[list[i]] = Seen(kinds)[list[i]]
  BY <1>1, <1>3
<1>5. Through(SeenAfter(kinds, a), list) = Through(Seen(kinds), list)
  BY <1>4, ThroughAgree
<1>6. QED
  BY <1>5 DEF list

\* What has been read is seen as before, once the action is recorded.
LEMMA PastSeen ==
  ASSUME NEW old, NEW done, NEW new, NEW later, NEW list \in Seq(AgentMessage), NEW a \in Deed,
         \A c \in Call : Says(list, c) /\ c.kind = "call" =>
           /\ Dialogue!Status(new, c.id) = Dialogue!Status(old, c.id)
           /\ c.id \in Dialogue!Targets(later, "question_answer") <=>
                \/ c.id \in Dialogue!Targets(done, "question_answer")
                \/ a.type = "question_answer" /\ c.id = a.target,
         NEW kinds
  PROVE  Through(SeenAfter(kinds, a), Through(LinesOfMessage(old, done), list))
           = Through(Seen(kinds), Through(LinesOfMessage(new, later), list))
<1> DEFINE v == SeenAfter(kinds, a)
           part == LinesOfPart(old, done)
           lines == LinesOfMessage(old, done)
<1>1. Maps(v, Line, Line) /\ Maps(part, Part, Line) /\ Maps(lines, AgentMessage, Line)
  BY MapSeenAfter, MapLinesOfPart, MapLinesOfMessage
<1>2. ASSUME NEW m \in AgentMessage
      PROVE  IF m.role = "assistant" THEN lines[m] = Through(part, m.parts)
                                     ELSE Through(v, lines[m]) = <<>>
  <2>1. CASE m.role = "assistant"
    BY <2>1, MessageLines
  <2>2. CASE m.role = "toolResult"
    <3>1. lines[m] = <<>>
      BY <2>2, MessageLines
    <3>2. QED
      BY <2>2, <3>1, ThroughEmpty
  <2>3. CASE m.role = "user"
    <3> DEFINE y == Dialogue!UserEntry(m.run)
    <3>1. lines[m] = <<>> \/ lines[m] = <<y>>
      BY <2>3, UserLines
    <3>2. y \in Line /\ y.kind = "user" /\ Seen(kinds)[y] = <<>>
      BY <2>3, MessageIs, UserEntryIs
    <3>3. v[y] = <<>>
      BY <3>2 DEF SeenAfter, Answered, Concerns
    <3> HIDE DEF lines, v, y
    <3>4. Through(v, <<>>) = <<>> /\ Through(v, <<y>>) = <<>>
      BY <1>1, <3>2, <3>3, ThroughEmpty, ThroughOne
    <3>5. QED
      BY <2>3, <3>1, <3>4
  <2>4. QED
    BY <2>1, <2>2, <2>3, MessageIs
<1>3. ASSUME NEW p \in Part, Says(list, p)
      PROVE  Through(v, part[p]) = Through(Seen(kinds), LinesOfPart(new, later)[p])
  <2>1. CASE p.kind = "text"
    <3>1. p.text \in Seq(Token)
      BY <2>1, PartIs
    <3>2. part[p] = Dialogue!TextEntries(p.text) /\ LinesOfPart(new, later)[p] = Dialogue!TextEntries(p.text)
      BY <2>1 DEF LinesOfPart
    <3>3. QED
      BY <3>1, <3>2, TextsSeen
  <2>2. CASE p.kind = "call"
    <3>1. p \in Call /\ p.id \in Token
      BY <2>2, PartIs DEF Call
    <3>2. part[p] = Dialogue!PersistedTool(old, done, p)
          /\ LinesOfPart(new, later)[p] = Dialogue!PersistedTool(new, later, p)
      BY <2>2 DEF LinesOfPart
    <3> DEFINE answered == p.id \in Dialogue!Targets(done, "question_answer")
               isAnswered == answered \/ (a.type = "question_answer" /\ p.id = a.target)
               state == StateOf(Dialogue!Status(old, p.id))
    <3>3. /\ Dialogue!Status(new, p.id) = Dialogue!Status(old, p.id)
          /\ (p.id \in Dialogue!Targets(later, "question_answer")) = isAnswered
      BY <1>3, <2>2, <3>1
    <3>4. PICK c1 \in Confirmations : Dialogue!PersistedTool(old, done, p)
            = Dialogue!projectToolEntry(p.id, p.name, state, c1, answered)
      BY <3>1, PersistedToolIs
    <3>5. PICK c2 \in Confirmations : Dialogue!PersistedTool(new, later, p)
            = Dialogue!projectToolEntry(p.id, p.name, state, c2, isAnswered)
      <4>1. PICK c \in Confirmations : Dialogue!PersistedTool(new, later, p)
              = Dialogue!projectToolEntry(p.id, p.name, StateOf(Dialogue!Status(new, p.id)), c,
                  p.id \in Dialogue!Targets(later, "question_answer"))
        BY <3>1, PersistedToolIs
      <4> HIDE DEF isAnswered
      <4>2. QED
        BY <3>3, <4>1
    <3>6. state \in EntryStates /\ answered \in BOOLEAN
      BY DEF EntryStates, StateOf
    <3> HIDE DEF state, answered
    <3>7. Through(v, Dialogue!projectToolEntry(p.id, p.name, state, c1, answered))
            = Through(Seen(kinds), Dialogue!projectToolEntry(p.id, p.name, state, c2, isAnswered))
      BY <3>1, <3>6, EntrySeen
    <3>8. QED
      BY <3>2, <3>4, <3>5, <3>7
  <2>3. QED
    BY <2>1, <2>2, PartIs
<1> HIDE DEF v, part, lines
<1>4. Through(v, Through(lines, list)) = Through(Seen(kinds), Through(LinesOfMessage(new, later), list))
  BY <1>1, <1>2, <1>3, MessagesSeen
<1>5. QED
  BY <1>4 DEF v, lines

(***************************************************************************)
(* SetupTranscript: the run the page follows                               *)
(***************************************************************************)
ToolsOf(id) == [t \in Shown |-> IF t.id = id THEN <<t>> ELSE <<>>]

LEMMA MapToolsOf == ASSUME NEW id PROVE Maps(ToolsOf(id), Shown, Shown)
<1>1. \A t \in Shown : <<t>> \in Seq(Shown)
  OBVIOUS
<1>2. <<>> \in Seq(Shown)
  OBVIOUS
<1>3. \A t \in Shown : (IF t.id = id THEN <<t>> ELSE <<>>) \in Seq(Shown)
  BY <1>1, <1>2
<1>4. QED
  BY <1>3 DEF Maps, ToolsOf

\* The lines of a call and of a step of the run.
CallLive(found) ==
  IF found = <<>> THEN <<>>
  ELSE Dialogue!projectToolEntry(found[1].id, found[1].name, Dialogue!renderState(found[1]),
         "available", FALSE)
LinesOfStep(tools) ==
  [s \in Step |-> IF s.kind = "assistant" THEN <<s>> ELSE CallLive(Through(ToolsOf(s.id), tools))]
SeenStep(kinds, tools) == [s \in Step |-> Through(Seen(kinds), LinesOfStep(tools)[s])]

LEMMA StepIs ==
  ASSUME NEW s \in Step
  PROVE  /\ s.kind \in {"assistant", "tool"}
         /\ s.kind = "assistant" => s \in TextStep /\ s \in Line
         /\ s.kind = "tool" => s.id \in Token /\ s = Dialogue!ToolItem(s.id)
<1>1. s.kind \in {"assistant", "tool"} /\ (s.kind = "assistant" => s \in TextStep)
  BY DEF Step, TextStep
<1>2. s.kind = "tool" => s.id \in Token /\ s = Dialogue!ToolItem(s.id)
  BY DEF Step, Dialogue!ToolItem
<1>3. TextStep \subseteq Line
  BY DEF Line
<1>4. QED
  BY <1>1, <1>2, <1>3

LEMMA ToolLines ==
  ASSUME NEW tools \in Seq(Shown), NEW id
  PROVE  /\ CallLive(Through(ToolsOf(id), tools)) \in Seq(ToolLine)
         /\ CallLive(Through(ToolsOf(id), tools)) \in Seq(Line)
<1> DEFINE found == Through(ToolsOf(id), tools)
           t == found[1]
<1>1. found \in Seq(Shown)
  BY MapToolsOf, ThroughType
<1>2. CASE found = <<>>
  <2>1. CallLive(found) = <<>>
    BY <1>2 DEF CallLive
  <2>2. <<>> \in Seq(ToolLine) /\ <<>> \in Seq(Line)
    OBVIOUS
  <2> HIDE DEF found
  <2>3. QED
    BY <2>1, <2>2 DEF found
<1>3. CASE found # <<>>
  <2> HIDE DEF found
  <2>1. t \in Shown
    BY <1>1, <1>3
  <2> DEFINE state == Dialogue!renderState(t)
  <2>2. state \in EntryStates /\ "available" \in Confirmations /\ t.id \in Token
    BY <2>1 DEF EntryStates, Confirmations, Dialogue!renderState, Shown
  <2>3. CallLive(found) = Dialogue!projectToolEntry(t.id, t.name, state, "available", FALSE)
    BY <1>3 DEF CallLive
  <2> HIDE DEF state, t
  <2>4. QED
    BY <2>2, <2>3, ToolEntryTyped DEF found
<1>4. QED
  BY <1>2, <1>3

LEMMA MapLinesOfStep == ASSUME NEW tools \in Seq(Shown) PROVE Maps(LinesOfStep(tools), Step, Line)
<1>1. ASSUME NEW s \in Step
      PROVE  (IF s.kind = "assistant" THEN <<s>> ELSE CallLive(Through(ToolsOf(s.id), tools))) \in Seq(Line)
  <2>1. s.kind = "assistant" => <<s>> \in Seq(Line)
    BY StepIs
  <2>2. CallLive(Through(ToolsOf(s.id), tools)) \in Seq(Line)
    BY ToolLines
  <2>3. QED
    BY <2>1, <2>2
<1>2. QED
  BY <1>1 DEF Maps, LinesOfStep

LEMMA MapSeenStep ==
  ASSUME NEW tools \in Seq(Shown), NEW kinds PROVE Maps(SeenStep(kinds, tools), Step, Line)
<1>1. ASSUME NEW s \in Step PROVE Through(Seen(kinds), LinesOfStep(tools)[s]) \in Seq(Line)
  <2>1. LinesOfStep(tools)[s] \in Seq(Line)
    BY MapLinesOfStep, MapsTo
  <2>2. QED
    BY <2>1, MapSeen, ThroughType
<1>2. QED
  BY <1>1 DEF Maps, SeenStep

\* The texts of a run are shown as they are.
LEMMA TextsThrough ==
  ASSUME NEW tokens \in Seq(Token), NEW tools
  PROVE  Through(LinesOfStep(tools), Dialogue!TextEntries(tokens)) = Dialogue!TextEntries(tokens)
<1> DEFINE list == Dialogue!TextEntries(tokens)
<1>1. list \in Seq(TextStep)
  BY EntriesOf
<1>2. \A s \in TextStep : s \in Step /\ s.kind = "assistant"
  BY DEF Step, TextStep
<1>3. \A s \in TextStep : LinesOfStep(tools)[s] = <<s>>
  BY <1>2 DEF LinesOfStep
<1> HIDE DEF list
<1>4. Through(LinesOfStep(tools), list) = list
  BY <1>1, <1>3, ThroughSame
<1>5. QED
  BY <1>4 DEF list

LEMMA LiveIs ==
  ASSUME NEW s, s.tools \in Seq(Shown), NEW items \in Seq(Item)
  PROVE  /\ Dialogue!projectLive(s, items) = Through(LinesOfStep(s.tools), Through(StepsOfItem, items))
         /\ Dialogue!projectLive(s, items) \in Seq(Line)
<1> DEFINE tools == s.tools
           entry == [x \in Item |-> IF x.kind = "assistant" THEN Dialogue!TextEntries(x.tokens)
                                    ELSE CallLive(Through(ToolsOf(x.id), tools))]
<1>1. ASSUME NEW x \in Item PROVE entry[x] = Through(LinesOfStep(tools), StepsOfItem[x])
  <2>1. CASE x.kind = "assistant"
    <3>1. x.tokens \in Seq(Token) /\ StepsOfItem[x] = Dialogue!TextEntries(x.tokens)
      BY <2>1 DEF Item, StepsOfItem
    <3>2. entry[x] = Dialogue!TextEntries(x.tokens)
      BY <2>1
    <3> HIDE DEF entry, tools
    <3>3. QED
      BY <3>1, <3>2, TextsThrough
  <2>2. CASE x.kind # "assistant"
    <3>1. x \in Step /\ StepsOfItem[x] = <<x>>
      BY <2>2 DEF Item, Step, StepsOfItem
    <3>2. entry[x] = CallLive(Through(ToolsOf(x.id), tools))
      BY <2>2
    <3>3. LinesOfStep(tools)[x] = CallLive(Through(ToolsOf(x.id), tools))
      BY <2>2, <3>1 DEF LinesOfStep
    <3> HIDE DEF entry
    <3>4. Through(LinesOfStep(tools), <<x>>) = LinesOfStep(tools)[x]
      BY <3>1, MapLinesOfStep, ThroughOne
    <3>5. QED
      BY <3>1, <3>2, <3>3, <3>4
  <2>3. QED
    BY <2>1, <2>2
<1>2. Maps(entry, Item, Line)
  <2>1. ASSUME NEW x \in Item PROVE entry[x] \in Seq(Line)
    <3>1. StepsOfItem[x] \in Seq(Step)
      BY MapStepsOfItem, MapsTo
    <3> HIDE DEF entry
    <3>2. Through(LinesOfStep(tools), StepsOfItem[x]) \in Seq(Line)
      BY <3>1, MapLinesOfStep, ThroughType
    <3>3. QED
      BY <1>1, <3>2
  <2>2. entry \in [Item -> Seq(Line)]
    BY <2>1
  <2> HIDE DEF entry
  <2>3. QED
    BY <2>2 DEF Maps
<1>3. Dialogue!projectLive(s, items) = Through(entry, items)
  <2>1. \A i \in DOMAIN items : items[i] \in Item
    OBVIOUS
  <2>2. ASSUME NEW id
        PROVE  Dialogue!Only(tools, LAMBDA t : t.id = id) = Through(ToolsOf(id), tools)
    <3>1. \A i \in DOMAIN tools : tools[i] \in Shown
      OBVIOUS
    <3>2. [i \in DOMAIN tools |-> IF tools[i].id = id THEN <<tools[i]>> ELSE <<>>]
            = [i \in DOMAIN tools |-> ToolsOf(id)[tools[i]]]
      BY <3>1 DEF ToolsOf
    <3>3. QED
      BY <3>2 DEF Dialogue!Only, Through, Flat
  <2> DEFINE Tool(id) == Dialogue!Only(s.tools, LAMBDA t : t.id = id)
             Entry(item) ==
               IF item.kind = "assistant" THEN Dialogue!TextEntries(item.tokens)
               ELSE IF Tool(item.id) = <<>> THEN <<>>
               ELSE LET t == Tool(item.id)[1] IN
                    Dialogue!projectToolEntry(t.id, t.name, Dialogue!renderState(t), "available", FALSE)
  <2>3. Dialogue!projectLive(s, items) = Flat([i \in DOMAIN items |-> Entry(items[i])])
    BY DEF Dialogue!projectLive, Flat
  <2>4. ASSUME NEW x \in Item PROVE Entry(x) = entry[x]
    <3>1. Tool(x.id) = Through(ToolsOf(x.id), tools)
      BY <2>2
    <3>2. entry[x] = IF x.kind = "assistant" THEN Dialogue!TextEntries(x.tokens)
                     ELSE CallLive(Through(ToolsOf(x.id), tools))
      OBVIOUS
    <3> HIDE DEF Tool, entry
    <3>3. QED
      BY <3>1, <3>2 DEF CallLive
  <2> HIDE DEF Entry, entry
  <2>5. [i \in DOMAIN items |-> Entry(items[i])] = [i \in DOMAIN items |-> entry[items[i]]]
    BY <2>1, <2>4
  <2>6. QED
    BY <2>3, <2>5 DEF Through
<1> HIDE DEF entry
<1>4. Through(LinesOfStep(tools), Through(StepsOfItem, items)) = Through(entry, items)
  BY <1>1, <1>2, MapStepsOfItem, MapLinesOfStep, ThroughBoth
<1>5. Through(entry, items) \in Seq(Line)
  BY <1>2, ThroughType
<1>6. QED
  BY <1>3, <1>4, <1>5

\* What is seen of the run depends on its steps.
LEMMA LiveSeen ==
  ASSUME NEW s, s.tools \in Seq(Shown), NEW items \in Seq(Item), NEW kinds
  PROVE  Through(Seen(kinds), Dialogue!projectLive(s, items))
           = Through(SeenStep(kinds, s.tools), Through(StepsOfItem, items))
<1> DEFINE tools == s.tools
           steps == Through(StepsOfItem, items)
<1>1. steps \in Seq(Step)
  BY MapStepsOfItem, ThroughType
<1>2. \A x \in Step : SeenStep(kinds, tools)[x] = Through(Seen(kinds), LinesOfStep(tools)[x])
  BY DEF SeenStep
<1>3. Maps(SeenStep(kinds, tools), Step, Line) /\ Maps(LinesOfStep(tools), Step, Line)
      /\ Maps(Seen(kinds), Line, Line)
  BY MapSeenStep, MapLinesOfStep, MapSeen
<1>4. Dialogue!projectLive(s, items) = Through(LinesOfStep(tools), steps)
  BY LiveIs
<1> HIDE DEF tools, steps
<1>5. Through(Seen(kinds), Through(LinesOfStep(tools), steps)) = Through(SeenStep(kinds, tools), steps)
  BY <1>1, <1>2, <1>3, ThroughBoth
<1>6. QED
  BY <1>4, <1>5 DEF tools, steps

\* No entry of the run is the user's.
LEMMA LiveIsAgents ==
  ASSUME NEW s, s.tools \in Seq(Shown), NEW items \in Seq(Item),
         NEW e, e \in Elements(Dialogue!projectLive(s, items))
  PROVE  e.kind # "user"
<1> DEFINE steps == Through(StepsOfItem, items)
<1>1. steps \in Seq(Step) /\ Dialogue!projectLive(s, items) = Through(LinesOfStep(s.tools), steps)
  BY LiveIs, MapStepsOfItem, ThroughType
<1> HIDE DEF steps
<1>2. PICK x \in Elements(steps) : e \in Elements(LinesOfStep(s.tools)[x])
  BY <1>1, MapLinesOfStep, ElementsThrough
<1>3. x \in Step
  BY <1>1, ElementsIn
<1>4. CASE x.kind = "assistant"
  <2>1. LinesOfStep(s.tools)[x] = <<x>> /\ Elements(<<x>>) = {x}
    BY <1>3, <1>4, ElementsOfOne DEF LinesOfStep
  <2>2. QED
    BY <1>2, <1>4, <2>1
<1>5. CASE x.kind # "assistant"
  <2>1. LinesOfStep(s.tools)[x] \in Seq(ToolLine)
    BY <1>3, <1>5, ToolLines DEF LinesOfStep
  <2>2. e \in ToolLine
    BY <1>2, <2>1, ElementsIn
  <2>3. QED
    BY <2>2 DEF ToolLine
<1>6. QED
  BY <1>4, <1>5

\* A page that knows the order shows the same; any other one the same texts and the same calls.
LEMMA FollowedSeen ==
  ASSUME NEW followed \in Seq(Step), NEW made \in Seq(Step), NEW text, NEW tools \in Seq(Shown),
         NEW complete, Follows(followed, made, text, tools, complete)
  PROVE  /\ complete => \A kinds :
              Through(SeenStep(kinds, tools), followed) = Through(SeenStep(kinds, tools), made)
         /\ \A kinds \in {{"assistant"}, Dialogue!ToolKinds} :
              Through(SeenStep(kinds, tools), followed) = Through(SeenStep(kinds, tools), made)
<1>1. complete => followed = made
  BY DEF Follows
<1>2. \A kind \in {"assistant", "tool"} :
        Through(OfSort(kind), followed) = Through(OfSort(kind), made)
  BY DEF Follows
<1> DEFINE texts == SeenStep({"assistant"}, tools)
           calls == SeenStep(Dialogue!ToolKinds, tools)
<1>3. Maps(texts, Step, Line) /\ Maps(calls, Step, Line)
  BY MapSeenStep
<1>4. ASSUME NEW x \in Step
      PROVE  /\ texts[x] = Through(texts, OfSort("assistant")[x])
             /\ calls[x] = Through(calls, OfSort("tool")[x])
  <2>1. /\ OfSort("assistant")[x] = IF x.kind = "assistant" THEN <<x>> ELSE <<>>
        /\ OfSort("tool")[x] = IF x.kind = "tool" THEN <<x>> ELSE <<>>
    BY SortOfOne
  <2>2. /\ texts[x] = Through(Seen({"assistant"}), LinesOfStep(tools)[x])
        /\ calls[x] = Through(Seen(Dialogue!ToolKinds), LinesOfStep(tools)[x])
    BY DEF SeenStep
  <2>3. CASE x.kind = "assistant"
    <3>1. x \in Line /\ LinesOfStep(tools)[x] = <<x>>
      BY <2>3, StepIs DEF LinesOfStep
    <3>2. Through(Seen(Dialogue!ToolKinds), <<x>>) = Seen(Dialogue!ToolKinds)[x]
      BY <3>1, MapSeen, ThroughOne
    <3>3. Seen(Dialogue!ToolKinds)[x] = <<>>
      BY <2>3, <3>1 DEF Seen, Dialogue!ToolKinds
    <3>4. calls[x] = <<>>
      BY <2>2, <3>1, <3>2, <3>3
    <3> HIDE DEF texts, calls
    <3>5. Through(texts, <<x>>) = texts[x] /\ Through(calls, <<>>) = <<>>
      BY <1>3, ThroughOne, ThroughEmpty
    <3>6. QED
      BY <2>1, <2>3, <3>4, <3>5
  <2>4. CASE x.kind = "tool"
    <3>1. LinesOfStep(tools)[x] \in Seq(ToolLine)
      BY <2>4, ToolLines DEF LinesOfStep
    <3>2. \A e \in ToolLine : Seen({"assistant"})[e] = <<>>
      <4>1. \A e \in ToolLine : e \in Line /\ e.kind # "assistant"
        BY DEF Line, ToolLine
      <4>2. QED
        BY <4>1 DEF Seen
    <3> DEFINE list == LinesOfStep(tools)[x]
               m == Seen({"assistant"})
    <3> HIDE DEF list, m
    <3>3. Through(m, list) = <<>>
      BY <3>1, <3>2, ThroughNothing DEF list, m
    <3>4. texts[x] = <<>>
      BY <2>2, <3>3 DEF list, m
    <3> HIDE DEF texts, calls
    <3>5. Through(calls, <<x>>) = calls[x] /\ Through(texts, <<>>) = <<>>
      BY <1>3, ThroughOne, ThroughEmpty
    <3>6. QED
      BY <2>1, <2>4, <3>4, <3>5
  <2>5. QED
    BY <2>3, <2>4, StepIs
<1> HIDE DEF texts, calls
<1>5. ASSUME NEW list \in Seq(Step)
      PROVE  /\ Through(texts, Through(OfSort("assistant"), list)) = Through(texts, list)
             /\ Through(calls, Through(OfSort("tool"), list)) = Through(calls, list)
  <2>1. Through(texts, Through(OfSort("assistant"), list)) = Through(texts, list)
    BY <1>3, <1>4, MapOfSort, ThroughBoth
  <2>2. Through(calls, Through(OfSort("tool"), list)) = Through(calls, list)
    BY <1>3, <1>4, MapOfSort, ThroughBoth
  <2>3. QED
    BY <2>1, <2>2
<1>6. Through(texts, followed) = Through(texts, made) /\ Through(calls, followed) = Through(calls, made)
  <2>1. /\ Through(OfSort("assistant"), followed) = Through(OfSort("assistant"), made)
        /\ Through(OfSort("tool"), followed) = Through(OfSort("tool"), made)
    BY <1>2
  <2>2. /\ Through(texts, Through(OfSort("assistant"), followed)) = Through(texts, followed)
        /\ Through(texts, Through(OfSort("assistant"), made)) = Through(texts, made)
        /\ Through(calls, Through(OfSort("tool"), followed)) = Through(calls, followed)
        /\ Through(calls, Through(OfSort("tool"), made)) = Through(calls, made)
    BY <1>5
  <2>3. QED
    BY <2>1, <2>2
<1>7. QED
  BY <1>1, <1>6 DEF texts, calls

(***************************************************************************)
(* SetupTranscript: what was shown is what is read                         *)
(***************************************************************************)
LEMMA EntrySame ==
  ASSUME NEW id \in Token, NEW name, NEW state \in EntryStates, NEW kinds
  PROVE  \A c1, c2 \in Confirmations, answered \in BOOLEAN :
           Through(Seen(kinds), Dialogue!projectToolEntry(id, name, state, c1, answered))
             = Through(Seen(kinds), Dialogue!projectToolEntry(id, name, state, c2, answered))
<1>1. Dialogue!Start \in Deed
  BY IdleTyped
<1>2. QED
  BY <1>1, EntrySeen

LEMMA TargetsAre ==
  ASSUME NEW done, NEW type
  PROVE  \A x : x \in Dialogue!Targets(done, type) <=>
           \E d \in Elements(done) : d.type = type /\ d.target = x
BY DEF Dialogue!Targets, Elements

LEMMA LiveOfCall ==
  ASSUME DialogueInv, NEW c \in Call, NEW ok \in BOOLEAN, Settles(c.id, c.name, ok)
  PROVE  CallLive(Through(ToolsOf(c.id), shot.tools))
           = Dialogue!projectToolEntry(c.id, c.name, IF ok THEN "ready" ELSE "failed", "available", FALSE)
<1> DEFINE found == Through(ToolsOf(c.id), shot.tools)
           d == Display(c, IF ok THEN "ok" ELSE "error")
<1>1. d \in Elements(shot.tools) /\ d.id = c.id /\ d.name = c.name
  <2>1. Dialogue!CallPart(c.id, c.name) = c
    BY CallIs
  <2>2. d \in Elements(shot.tools)
    BY <2>1 DEF Settles
  <2>3. QED
    BY <2>2 DEF Display
<1>2. d.status = "completed" /\ d.error = ~ok
  BY DEF Display
<1>3. Dialogue!renderState(d) = IF ok THEN "ready" ELSE "failed"
  <2> HIDE DEF d
  <2>1. QED
    BY <1>2 DEF Dialogue!renderState
<1>4. shot.tools \in Seq(Shown) /\ \A i, j \in DOMAIN shot.tools : shot.tools[i].id = shot.tools[j].id => i = j
  BY DEF DialogueInv, DialogueTyped, ToolsFit
<1>5. found \in Seq(Shown)
  BY <1>4, MapToolsOf, ThroughType
<1>6. \A t : t \in Elements(found) <=> t \in Elements(shot.tools) /\ t.id = c.id
  <2>1. \A t : t \in Elements(found) <=> \E x \in Elements(shot.tools) : t \in Elements(ToolsOf(c.id)[x])
    BY <1>4, MapToolsOf, ElementsThrough
  <2>2. ASSUME NEW x \in Shown, NEW t PROVE t \in Elements(ToolsOf(c.id)[x]) <=> t = x /\ x.id = c.id
    <3>1. ToolsOf(c.id)[x] = IF x.id = c.id THEN <<x>> ELSE <<>>
      BY DEF ToolsOf
    <3>2. Elements(<<x>>) = {x} /\ Elements(<<>>) = {}
      BY ElementsOfOne
    <3>3. QED
      BY <3>1, <3>2
  <2>3. Elements(shot.tools) \subseteq Shown
    BY <1>4, ElementsIn
  <2> HIDE DEF found
  <2>4. QED
    BY <2>1, <2>2, <2>3
<1> HIDE DEF found, d
<1>7. \A t \in Elements(found) : t = d
  <2>1. \A t, x \in Elements(shot.tools) : t.id = x.id => t = x
    BY <1>4 DEF Elements
  <2>2. QED
    BY <1>1, <1>6, <2>1
<1>8. found # <<>> /\ found[1] = d
  <2>1. found # <<>>
    BY <1>1, <1>6, ElementsOfOne
  <2>2. 1 \in DOMAIN found
    BY <1>5, <2>1
  <2>3. QED
    BY <1>7, <2>1, <2>2 DEF Elements
<1>9. CallLive(found) = Dialogue!projectToolEntry(d.id, d.name, Dialogue!renderState(d), "available", FALSE)
  BY <1>8 DEF CallLive
<1>10. QED
  BY <1>1, <1>3, <1>9 DEF found

\* The state after the refresh.
LEMMA AfterRefresh ==
  ASSUME DialogueInv, run.pc = "ended"
  PROVE  LET new == Dialogue!Committed.messages
             later == Dialogue!Committed.actions IN
         /\ new \in Seq(AgentMessage) /\ new = (history \o OwnMessage) \o run.said
         /\ \A id \in IdsOf(history) :
              /\ Dialogue!Status(new, id) = Dialogue!Status(history, id)
              /\ id \in Dialogue!Targets(later, "question_answer") <=>
                   \/ id \in Dialogue!Targets(actions, "question_answer")
                   \/ run.input.type = "question_answer" /\ id = run.input.target
         /\ \A id \in IdsOf(run.said) :
              /\ Dialogue!Status(new, id) = Dialogue!Status(run.said, id)
              /\ id \notin Dialogue!Targets(later, "question_answer")
         /\ Elements(later) = Elements(actions) \cup Elements(OwnAction)
<1> DEFINE new == Dialogue!Committed.messages
           later == Dialogue!Committed.actions
<1>1. /\ DialogueTyped /\ UsersFit /\ IdsFit
      /\ history \in Seq(AgentMessage) /\ run.said \in Seq(AgentMessage) /\ actions \in Seq(Deed)
  BY DEF DialogueInv, DialogueTyped, RunState
<1>2. /\ OwnMessage \in Seq(AgentMessage) /\ OwnAction \in Seq(Deed)
      /\ new = (history \o OwnMessage) \o run.said /\ new \in Seq(AgentMessage)
      /\ later = actions \o OwnAction /\ later \in Seq(Deed)
  BY <1>1, CommittedIs
<1>3. \A id, ok : ~Knows(OwnMessage, id, ok)
  BY SaysNothing, UserSaysNothing DEF OwnMessage
<1>4. IdsOf(run.said) \cap IdsOf(history) = {}
  BY <1>1 DEF IdsFit
<1>5. \A messages, id, ok : id \in Token /\ ok \in BOOLEAN /\ Knows(messages, id, ok) => id \in IdsOf(messages)
  BY DEF IdsOf
<1>6. \A messages : IdsOf(messages) \subseteq Token
  BY DEF IdsOf
<1> HIDE DEF new, later
<1>7. ASSUME NEW id \in IdsOf(history) PROVE Dialogue!Status(new, id) = Dialogue!Status(history, id)
  <2>1. id \in Token /\ \A ok \in BOOLEAN : ~Knows(run.said, id, ok)
    BY <1>4, <1>5, <1>6
  <2>2. Dialogue!Status(history \o OwnMessage, id) = Dialogue!Status(history, id)
    BY <1>1, <1>2, <1>3, <2>1, StatusStays
  <2> DEFINE h == history \o OwnMessage
  <2>3. h \in Seq(AgentMessage)
    BY <1>1, <1>2
  <2> HIDE DEF h
  <2>4. Dialogue!Status(h \o run.said, id) = Dialogue!Status(h, id)
    BY <1>1, <2>1, <2>3, StatusStays
  <2>5. QED
    BY <1>2, <2>2, <2>4 DEF h
<1>8. ASSUME NEW id \in IdsOf(run.said) PROVE Dialogue!Status(new, id) = Dialogue!Status(run.said, id)
  <2>1. id \in Token /\ \A ok \in BOOLEAN : ~Knows(history, id, ok)
    BY <1>4, <1>5, <1>6
  <2> DEFINE h == history \o OwnMessage
  <2>2. h \in Seq(AgentMessage) /\ \A ok \in BOOLEAN : ~Knows(h, id, ok)
    <3>1. \A ok : Knows(h, id, ok) <=> Knows(history, id, ok) \/ Knows(OwnMessage, id, ok)
      BY <1>1, <1>2, SaysOf
    <3>2. h \in Seq(AgentMessage)
      BY <1>1, <1>2
    <3> HIDE DEF h
    <3>3. QED
      BY <1>3, <2>1, <3>1, <3>2
  <2> HIDE DEF h
  <2>3. Dialogue!Status(h \o run.said, id) = Dialogue!Status(run.said, id)
    BY <1>1, <2>1, <2>2, StatusStays
  <2>4. QED
    BY <1>2, <2>3 DEF h
<1>9. Elements(later) = Elements(actions) \cup Elements(OwnAction)
  BY <1>1, <1>2, ElementsOf
<1>10. Elements(OwnAction) = IF run.input = Dialogue!Start THEN {} ELSE {run.input}
  <2>1. Elements(<<run.input>>) = {run.input} /\ Elements(<<>>) = {}
    BY ElementsOfOne
  <2>2. QED
    BY <2>1 DEF OwnAction
<1>11. Dialogue!Start.type = "session_start"
  BY DEF Dialogue!Start
<1>12. \A id : id \in Dialogue!Targets(later, "question_answer") <=>
         \/ id \in Dialogue!Targets(actions, "question_answer")
         \/ run.input.type = "question_answer" /\ id = run.input.target
  <2>1. \A id : id \in Dialogue!Targets(later, "question_answer") <=>
          \E d \in Elements(later) : d.type = "question_answer" /\ d.target = id
    BY TargetsAre
  <2>2. \A id : id \in Dialogue!Targets(actions, "question_answer") <=>
          \E d \in Elements(actions) : d.type = "question_answer" /\ d.target = id
    BY TargetsAre
  <2>3. QED
    BY <1>9, <1>10, <1>11, <2>1, <2>2
<1>13. ASSUME NEW id \in IdsOf(run.said) PROVE id \notin Dialogue!Targets(later, "question_answer")
  <2>1. \A d \in Elements(actions) : d.target \in {0} \cup IdsOf(history)
    BY <1>1 DEF IdsFit
  <2>2. run.input.target \in {0} \cup IdsOf(history)
    BY <1>1 DEF IdsFit
  <2>3. id \notin {0} \cup IdsOf(history)
    BY <1>4, <1>6, TokenBounds
  <2>4. id \notin Dialogue!Targets(actions, "question_answer")
    BY <2>1, <2>3, TargetsAre
  <2>5. QED
    BY <1>12, <2>2, <2>3, <2>4
<1>14. QED
  BY <1>2, <1>7, <1>8, <1>9, <1>12, <1>13 DEF new, later

\* What the run says is seen as its steps were.
LEMMA SaidSeen ==
  ASSUME DialogueInv, run.pc = "ended", ~run.cut, NEW kinds
  PROVE  Through(SeenStep(kinds, shot.tools), Through(StepsOfMessage, run.said))
           = Through(Seen(kinds), Through(LinesOfMessage(Dialogue!Committed.messages,
                                                         Dialogue!Committed.actions), run.said))
<1> DEFINE new == Dialogue!Committed.messages
           later == Dialogue!Committed.actions
           tools == shot.tools
           v == SeenStep(kinds, tools)
<1>1. run.said \in Seq(AgentMessage) /\ tools \in Seq(Shown) /\ ToolsFit
  BY DEF DialogueInv, DialogueTyped, RunState
<1>2. Maps(v, Step, Line) /\ Maps(StepsOfPart, Part, Step) /\ Maps(StepsOfMessage, AgentMessage, Step)
  BY <1>1, MapSeenStep, MapStepsOfPart, MapStepsOfMessage
<1>3. \A x \in Step : v[x] = Through(Seen(kinds), LinesOfStep(tools)[x])
  BY DEF SeenStep
<1>4. \A id \in IdsOf(run.said) : /\ Dialogue!Status(new, id) = Dialogue!Status(run.said, id)
                                  /\ id \notin Dialogue!Targets(later, "question_answer")
  BY AfterRefresh
<1> HIDE DEF new, later
<1>5. ASSUME NEW m \in AgentMessage
      PROVE  IF m.role = "assistant" THEN StepsOfMessage[m] = Through(StepsOfPart, m.parts)
                                     ELSE Through(v, StepsOfMessage[m]) = <<>>
  BY ThroughEmpty DEF StepsOfMessage
<1>6. ASSUME NEW p \in Part, Says(run.said, p)
      PROVE  Through(v, StepsOfPart[p]) = Through(Seen(kinds), LinesOfPart(new, later)[p])
  <2>1. CASE p.kind = "text"
    <3> DEFINE list == Dialogue!TextEntries(p.text)
    <3>1. p.text \in Seq(Token) /\ list \in Seq(Step)
      BY <2>1, PartIs, EntriesOf
    <3>2. StepsOfPart[p] = list /\ LinesOfPart(new, later)[p] = list
      BY <2>1 DEF StepsOfPart, LinesOfPart
    <3>3. Through(LinesOfStep(tools), list) = list
      BY <3>1, TextsThrough
    <3> HIDE DEF list, v
    <3>4. Through(Seen(kinds), Through(LinesOfStep(tools), list)) = Through(v, list)
      BY <1>1, <1>2, <1>3, <3>1, MapLinesOfStep, MapSeen, ThroughBoth
    <3>5. QED
      BY <3>2, <3>3, <3>4
  <2>2. CASE p.kind = "call"
    <3>1. p \in Call /\ p.id \in Token /\ p.name \in Dialogue!Names /\ p.id \in IdsOf(run.said)
      BY <1>1, <1>6, <2>2, PartIs, SaidIsKnown DEF Call
    <3>2. PICK ok \in BOOLEAN : Settles(p.id, p.name, ok)
      <4>1. Dialogue!CallPart(p.id, p.name) = p
        BY <3>1, CallIs
      <4>2. QED
        BY <1>1, <1>6, <3>1, <4>1 DEF ToolsFit
    <3> DEFINE x == Dialogue!ToolItem(p.id)
               state == IF ok THEN "ready" ELSE "failed"
               live == Dialogue!projectToolEntry(p.id, p.name, state, "available", FALSE)
    <3>3. x \in Step /\ x.kind = "tool" /\ x.id = p.id
      BY <3>1 DEF Step, Dialogue!ToolItem
    <3>4. StepsOfPart[p] = <<x>> /\ LinesOfPart(new, later)[p] = Dialogue!PersistedTool(new, later, p)
      BY <2>2 DEF StepsOfPart, LinesOfPart
    <3>5. LinesOfStep(tools)[x] = live
      <4>1. LinesOfStep(tools)[x] = CallLive(Through(ToolsOf(p.id), tools))
        BY <3>3 DEF LinesOfStep
      <4>2. QED
        BY <3>1, <3>2, <4>1, LiveOfCall
    <3>6. StateOf(Dialogue!Status(new, p.id)) = state
      <4>1. Dialogue!Status(run.said, p.id) = IF ok THEN "succeeded" ELSE "failed"
        BY <1>1, <3>1, <3>2, StatusIs DEF Settles
      <4>2. Dialogue!Status(new, p.id) = IF ok THEN "succeeded" ELSE "failed"
        BY <1>4, <3>1, <4>1
      <4>3. QED
        BY <4>2 DEF StateOf
    <3>7. PICK confirmation \in Confirmations : Dialogue!PersistedTool(new, later, p)
            = Dialogue!projectToolEntry(p.id, p.name, state, confirmation, FALSE)
      <4>1. PICK c \in Confirmations : Dialogue!PersistedTool(new, later, p)
              = Dialogue!projectToolEntry(p.id, p.name, StateOf(Dialogue!Status(new, p.id)), c,
                  p.id \in Dialogue!Targets(later, "question_answer"))
        BY <3>1, PersistedToolIs
      <4>2. (p.id \in Dialogue!Targets(later, "question_answer")) = FALSE
        BY <1>4, <3>1
      <4>3. QED
        BY <3>6, <4>1, <4>2
    <3>8. Through(Seen(kinds), live)
            = Through(Seen(kinds), Dialogue!projectToolEntry(p.id, p.name, state, confirmation, FALSE))
      <4>1. state \in EntryStates /\ "available" \in Confirmations
        BY DEF EntryStates, Confirmations
      <4> HIDE DEF state, v, x
      <4>2. \A c1, c2 \in Confirmations, answered \in BOOLEAN :
              Through(Seen(kinds), Dialogue!projectToolEntry(p.id, p.name, state, c1, answered))
                = Through(Seen(kinds), Dialogue!projectToolEntry(p.id, p.name, state, c2, answered))
        BY <3>1, <4>1, EntrySame
      <4>3. FALSE \in BOOLEAN
        OBVIOUS
      <4>4. QED
        BY <4>1, <4>2, <4>3, Zenon
    <3> HIDE DEF v, x, live
    <3>9. Through(v, <<x>>) = Through(Seen(kinds), live)
      <4>1. Through(v, <<x>>) = v[x]
        BY <1>2, <3>3, ThroughOne
      <4>2. QED
        BY <1>3, <3>3, <3>5, <4>1
    <3>10. QED
      BY <3>4, <3>7, <3>8, <3>9
  <2>3. QED
    BY <2>1, <2>2, PartIs
<1> HIDE DEF v, tools
<1>7. Through(v, Through(StepsOfMessage, run.said))
        = Through(Seen(kinds), Through(LinesOfMessage(new, later), run.said))
  BY <1>1, <1>2, <1>5, <1>6, MessagesSeen
<1>8. QED
  BY <1>7 DEF v, tools, new, later

\* The messages of the user, before and after.
LEMMA UsersSeen ==
  ASSUME DialogueInv, run.pc = "ended"
  PROVE  LET past == Dialogue!projectPersisted(history, actions) IN
         \A e : e \in Elements(Dialogue!projectPersisted(Dialogue!Committed.messages,
                                                         Dialogue!Committed.actions))
                 /\ e.kind = "user" <=>
           \/ e \in Elements(past) /\ e.kind = "user"
           \/ /\ e = Dialogue!UserEntry(run.input.run)
              /\ \/ run.input.type = "feedback"
                 \/ \E x \in Elements(past) : Concerns(run.input, x, "question_answer", "question")
<1> DEFINE new == Dialogue!Committed.messages
           later == Dialogue!Committed.actions
           past == Dialogue!projectPersisted(history, actions)
           after == Dialogue!projectPersisted(new, later)
           NotShown(m, done) == \E d \in Elements(done) : d.run = m.run /\ d.type = "confirmation"
<1>1. /\ DialogueTyped /\ UsersFit /\ InputFits
      /\ history \in Seq(AgentMessage) /\ run.said \in Seq(AgentMessage) /\ actions \in Seq(Deed)
      /\ run.input \in Deed /\ run.number \in Nat
  BY TokenBounds DEF DialogueInv, DialogueTyped, RunState, UsersFit
<1>2. /\ new \in Seq(AgentMessage) /\ new = (history \o OwnMessage) \o run.said
      /\ Elements(later) = Elements(actions) \cup Elements(OwnAction)
      /\ OwnMessage \in Seq(AgentMessage)
  BY <1>1, AfterRefresh, CommittedIs
<1>3. /\ Elements(OwnAction) = IF run.input = Dialogue!Start THEN {} ELSE {run.input}
      /\ Elements(OwnMessage) = IF run.input = Dialogue!Start THEN {} ELSE {Dialogue!UserMessage(run.number)}
  <2>1. \A x : Elements(<<x>>) = {x} /\ Elements(<<>>) = {}
    BY ElementsOfOne
  <2>2. QED
    BY <2>1 DEF OwnAction, OwnMessage
<1>4. Elements(new) = (Elements(history) \cup Elements(OwnMessage)) \cup Elements(run.said)
  <2> DEFINE h == history \o OwnMessage
  <2>1. h \in Seq(AgentMessage) /\ Elements(h) = Elements(history) \cup Elements(OwnMessage)
    BY <1>1, <1>2, ElementsOf
  <2> HIDE DEF h
  <2>2. Elements(h \o run.said) = Elements(h) \cup Elements(run.said)
    BY <1>1, <2>1, ElementsOf
  <2>3. QED
    BY <1>2, <2>1, <2>2 DEF h
<1>5. ASSUME NEW list \in Seq(AgentMessage), NEW done, NEW e
      PROVE  e \in Elements(Dialogue!projectPersisted(list, done)) /\ e.kind = "user" <=>
               \E m \in Elements(list) : /\ m.role = "user" /\ ~NotShown(m, done)
                                         /\ e = Dialogue!UserEntry(m.run)
  <2>1. Dialogue!projectPersisted(list, done) = Through(LinesOfMessage(list, done), list)
    BY PersistedIs
  <2>2. ASSUME e \in Elements(Through(LinesOfMessage(list, done), list)), e.kind = "user"
        PROVE  \E m \in Elements(list) : /\ m.role = "user" /\ ~NotShown(m, done)
                                         /\ e = Dialogue!UserEntry(m.run)
    <3>1. e \notin TextStep
      BY <2>2 DEF TextStep
    <3>2. ASSUME NEW c \in Call PROVE e \notin Elements(Dialogue!PersistedTool(list, done, c))
      <4>1. Dialogue!PersistedTool(list, done, c) \in Seq(ToolLine)
        BY CallLines
      <4>2. e \notin ToolLine
        BY <2>2 DEF ToolLine
      <4>3. QED
        BY <4>1, <4>2, ElementsIn
    <3>3. QED
      BY <2>2, <3>1, <3>2, LineComesFrom
  <2>3. ASSUME NEW m \in Elements(list), m.role = "user", ~NotShown(m, done), e = Dialogue!UserEntry(m.run)
        PROVE  e \in Elements(Through(LinesOfMessage(list, done), list)) /\ e.kind = "user"
    <3>1. m \in AgentMessage
      BY ElementsIn
    <3>2. LinesOfMessage(list, done)[m] = <<e>>
      BY <2>3, <3>1, MessageLines
    <3>3. e \in Elements(LinesOfMessage(list, done)[m])
      BY <3>2, ElementsOfOne
    <3>4. e \in Elements(Through(LinesOfMessage(list, done), list))
      BY <3>3, MapLinesOfMessage, ElementsThrough
    <3>5. QED
      BY <2>3, <3>4 DEF Dialogue!UserEntry
  <2>4. QED
    BY <2>1, <2>2, <2>3
<1>6. /\ \A m \in Elements(history) : m.role = "user" => m.run < run.number
      /\ \A d \in Elements(actions) : d.run < run.number
      /\ \A m \in Elements(run.said) : m.role # "user"
  <2>1. /\ \A m \in Elements(history) : m.role = "user" => m.run \in Nat /\ m.run <= run.number - 1
        /\ \A d \in Elements(actions) : d.run \in Nat /\ d.run <= run.number - 1
        /\ \A m \in Elements(run.said) : m.role # "user"
    BY <1>1, RunsAre DEF UsersFit, LastRun
  <2>2. QED
    BY <1>1, <2>1
<1>7. \/ run.input = Dialogue!Start /\ run.input.type = "session_start"
      \/ /\ run.input # Dialogue!Start /\ run.input.run = run.number
         /\ run.input.type \in {"question_answer", "feedback", "confirmation"}
         /\ run.input.type = "question_answer" =>
              \E x \in Elements(past) : Concerns(run.input, x, "question_answer", "question")
  <2>1. Dialogue!Start.type = "session_start"
    BY DEF Dialogue!Start
  <2>2. CASE run.input # Dialogue!Start
    <3>1. /\ run.input.type # "session_start" /\ run.input.run = run.number
          /\ run.input.type = "question_answer" =>
               Says(history, Dialogue!CallPart(run.input.target, "present_question"))
      BY <1>1, <2>2 DEF InputFits
    <3>2. run.input.type \in {"question_answer", "feedback", "confirmation"}
      BY <1>1, <3>1 DEF Deed
    <3>3. ASSUME run.input.type = "question_answer"
          PROVE  \E x \in Elements(past) : Concerns(run.input, x, "question_answer", "question")
      <4> DEFINE c == Dialogue!CallPart(run.input.target, "present_question")
      <4>1. Says(history, c) /\ c.kind = "call" /\ c.name = "present_question" /\ c.id = run.input.target
        BY <3>1, <3>3 DEF Dialogue!CallPart
      <4> HIDE DEF c
      <4>2. c \in Call
        BY <1>1, <4>1, SaidIsKnown
      <4>3. PICK confirmation \in Confirmations : Dialogue!PersistedTool(history, actions, c)
              = Dialogue!projectToolEntry(c.id, c.name, StateOf(Dialogue!Status(history, c.id)),
                  confirmation, c.id \in Dialogue!Targets(actions, "question_answer"))
        BY <4>2, PersistedToolIs
      <4> DEFINE x == [kind |-> "question", id |-> c.id, state |-> StateOf(Dialogue!Status(history, c.id)),
                       answered |-> c.id \in Dialogue!Targets(actions, "question_answer")]
      <4>4. Dialogue!PersistedTool(history, actions, c) = <<x>>
        BY <4>1, <4>3 DEF Dialogue!projectToolEntry
      <4>5. x.kind = "question" /\ x.id = c.id
        OBVIOUS
      <4> HIDE DEF x
      <4>6. x \in Elements(Dialogue!PersistedTool(history, actions, c))
        BY <4>4, ElementsOfOne
      <4>7. x \in Elements(past)
        BY <1>1, <4>1, <4>2, <4>6, LineOfCall, PersistedIs
      <4>8. QED
        BY <3>3, <4>1, <4>5, <4>7 DEF Concerns
    <3>4. QED
      BY <2>2, <3>1, <3>2, <3>3
  <2>3. QED
    BY <2>1, <2>2
<1>8. \A m \in Elements(history) : m.role = "user" => (NotShown(m, later) <=> NotShown(m, actions))
  BY <1>1, <1>2, <1>3, <1>6, <1>7
<1> DEFINE own == Dialogue!UserMessage(run.number)
<1>9. run.input # Dialogue!Start => (NotShown(own, later) <=> run.input.type = "confirmation")
  <2>1. own.run = run.number
    BY DEF Dialogue!UserMessage
  <2> HIDE DEF own
  <2>2. QED
    BY <1>1, <1>2, <1>3, <1>6, <1>7, <2>1
<1>10. own.role = "user" /\ own.run = run.number
  BY DEF Dialogue!UserMessage
<1>11. ~(\E x \in Elements(past) : Concerns(run.input, x, "question_answer", "question"))
         \/ run.input.type = "question_answer"
  BY DEF Concerns
<1> HIDE DEF new, later, past, own, NotShown
<1>12. \A e : e \in Elements(past) /\ e.kind = "user" <=>
         \E m \in Elements(history) : /\ m.role = "user" /\ ~NotShown(m, actions)
                                      /\ e = Dialogue!UserEntry(m.run)
  BY <1>1, <1>5 DEF past
<1>13. \A e : e \in Elements(after) /\ e.kind = "user" <=>
         \E m \in Elements(new) : /\ m.role = "user" /\ ~NotShown(m, later)
                                  /\ e = Dialogue!UserEntry(m.run)
  BY <1>2, <1>5
<1> HIDE DEF after
<1>14. \A e : e \in Elements(after) /\ e.kind = "user" <=>
         \/ e \in Elements(past) /\ e.kind = "user"
         \/ /\ run.input # Dialogue!Start /\ run.input.type # "confirmation"
            /\ e = Dialogue!UserEntry(run.number)
  <2>1. \A m : m \in Elements(new) /\ m.role = "user" /\ ~NotShown(m, later) <=>
          \/ m \in Elements(history) /\ m.role = "user" /\ ~NotShown(m, actions)
          \/ m = own /\ run.input # Dialogue!Start /\ run.input.type # "confirmation"
    BY <1>3, <1>4, <1>6, <1>8, <1>9, <1>10 DEF own
  <2>2. QED
    BY <1>10, <1>12, <1>13, <2>1
<1>15. (run.input # Dialogue!Start /\ run.input.type # "confirmation") <=>
         \/ run.input.type = "feedback"
         \/ \E x \in Elements(past) : Concerns(run.input, x, "question_answer", "question")
  BY <1>7, <1>11
<1>16. run.input # Dialogue!Start => run.input.run = run.number
  BY <1>7
<1>17. run.input = Dialogue!Start => run.input.type = "session_start"
  BY <1>7
<1>18. \A e : e \in Elements(after) /\ e.kind = "user" <=>
         \/ e \in Elements(past) /\ e.kind = "user"
         \/ /\ e = Dialogue!UserEntry(run.input.run)
            /\ \/ run.input.type = "feedback"
               \/ \E x \in Elements(past) : Concerns(run.input, x, "question_answer", "question")
  BY <1>14, <1>15, <1>16
<1>19. QED
  BY <1>18 DEF after, past, new, later

LEMMA BecomesCommitted == DialogueInv => Dialogue!LiveBecomesCommitted
<1> SUFFICES ASSUME DialogueInv, run.pc = "ended", ~run.cut
             PROVE  LET before == Dialogue!ShownEntries
                        after  == Dialogue!projectPersisted(Dialogue!Committed.messages,
                                                            Dialogue!Committed.actions)
                        Same(kinds) == Dialogue!Content(Dialogue!OfKind(before, kinds))
                                         = Dialogue!Content(Dialogue!OfKind(after, kinds)) IN
                    /\ whole => Dialogue!Content(before) = Dialogue!Content(after)
                    /\ Same({"assistant"}) /\ Same(Dialogue!ToolKinds)
                    /\ Dialogue!ToSet(Dialogue!OfKind(before, {"user"}))
                         = Dialogue!ToSet(Dialogue!OfKind(after, {"user"}))
  BY Zenon DEF Dialogue!LiveBecomesCommitted
<1> DEFINE new == Dialogue!Committed.messages
           later == Dialogue!Committed.actions
           past == Dialogue!projectPersisted(history, actions)
           opt == Dialogue!applyOptimistic(past, run.input)
           live == Dialogue!projectLive(shot, order)
           before == Dialogue!ShownEntries
           after == Dialogue!projectPersisted(new, later)
           lines == LinesOfMessage(new, later)
           said == run.said
           a == run.input
<1>1. /\ DialogueTyped /\ UsersFit /\ IdsFit /\ PhaseFits /\ StepsFit
      /\ history \in Seq(AgentMessage) /\ said \in Seq(AgentMessage)
      /\ a \in Deed /\ shot.tools \in Seq(Shown) /\ order \in Seq(Item)
  BY DEF DialogueInv, DialogueTyped, RunState
<1>2. /\ past = Through(LinesOfMessage(history, actions), history) /\ past \in Seq(Line)
  BY <1>1, PersistedIs
<1>3. live \in Seq(Line)
  BY <1>1, LiveIs
<1>4. before = opt \o live
  BY DEF Dialogue!ShownEntries
<1>5. /\ opt \in Seq(Line)
      /\ \A kinds : Through(Seen(kinds), opt) = Through(SeenAfter(kinds, a), past)
      /\ \A x : x \in Elements(opt) /\ x.kind = "user" <=>
           \/ x \in Elements(past) /\ x.kind = "user"
           \/ /\ x = Dialogue!UserEntry(a.run)
              /\ \/ a.type = "feedback"
                 \/ \E e \in Elements(past) : Concerns(a, e, "question_answer", "question")
  BY <1>1, <1>2, OptimisticSeen
<1>6. /\ new \in Seq(AgentMessage) /\ new = (history \o OwnMessage) \o said
      /\ OwnMessage \in Seq(AgentMessage)
  BY <1>1, AfterRefresh, CommittedIs
<1>7. after = Through(lines, new) /\ after \in Seq(Line)
  BY <1>6, PersistedIs
<1>8. \A kinds : Maps(Seen(kinds), Line, Line) /\ Maps(lines, AgentMessage, Line)
  BY MapSeen, MapLinesOfMessage
<1>9. /\ Made = Through(StepsOfMessage, said) /\ Made \in Seq(Step)
      /\ Followed = Through(StepsOfItem, order) /\ Followed \in Seq(Step)
  <2>1. run.parts = <<>>
    BY <1>1 DEF PhaseFits
  <2>2. Through(StepsOfPart, <<>>) = <<>>
    BY ThroughEmpty
  <2> DEFINE m == Through(StepsOfMessage, said)
  <2>3. m \in Seq(Step) /\ Made = m \o <<>> /\ Made \in Seq(Step) /\ Followed \in Seq(Step)
    BY <1>1, <2>1, <2>2, StepsTyped DEF Made
  <2> HIDE DEF m
  <2>4. m \o <<>> = m
    BY <2>3
  <2>5. QED
    BY <2>3, <2>4 DEF Followed, m
<1>10. ASSUME NEW kinds
       PROVE  Through(Seen(kinds), opt) = Through(Seen(kinds), Through(lines, history))
  <2>1. \A c \in Call : Says(history, c) /\ c.kind = "call" =>
          /\ Dialogue!Status(new, c.id) = Dialogue!Status(history, c.id)
          /\ c.id \in Dialogue!Targets(later, "question_answer") <=>
               \/ c.id \in Dialogue!Targets(actions, "question_answer")
               \/ a.type = "question_answer" /\ c.id = a.target
    <3>1. \A id \in IdsOf(history) :
            /\ Dialogue!Status(new, id) = Dialogue!Status(history, id)
            /\ id \in Dialogue!Targets(later, "question_answer") <=>
                 \/ id \in Dialogue!Targets(actions, "question_answer")
                 \/ a.type = "question_answer" /\ id = a.target
      BY AfterRefresh
    <3>2. \A c : Says(history, c) /\ c.kind = "call" => c.id \in IdsOf(history)
      BY <1>1, SaidIsKnown
    <3> HIDE DEF new, later, a
    <3>3. QED
      BY <3>1, <3>2
  <2> HIDE DEF new, later, a
  <2>2. Through(SeenAfter(kinds, a), Through(LinesOfMessage(history, actions), history))
          = Through(Seen(kinds), Through(LinesOfMessage(new, later), history))
    BY <1>1, <2>1, PastSeen
  <2>3. QED
    BY <1>2, <1>5, <2>2
<1>11. \A kinds : Through(Seen(kinds), Through(lines, OwnMessage)) = <<>>
  <2>1. Through(lines, <<>>) = <<>> /\ \A kinds : Through(Seen(kinds), <<>>) = <<>>
    BY ThroughEmpty
  <2>2. CASE OwnMessage = <<>>
    BY <2>1, <2>2
  <2>3. CASE OwnMessage # <<>>
    <3> DEFINE u == Dialogue!UserMessage(run.number)
               y == Dialogue!UserEntry(u.run)
    <3>1. OwnMessage = <<u>> /\ u.role = "user"
      BY <2>3 DEF OwnMessage, Dialogue!UserMessage
    <3> HIDE DEF u
    <3>2. u \in AgentMessage
      BY <1>6, <3>1
    <3>3. Through(lines, <<u>>) = lines[u]
      BY <1>8, <3>2, ThroughOne
    <3>4. lines[u] = <<>> \/ lines[u] = <<y>>
      BY <3>1, <3>2, UserLines
    <3>5. y \in Line /\ \A kinds : Seen(kinds)[y] = <<>>
      BY <3>1, <3>2, MessageIs, UserEntryIs
    <3> HIDE DEF y, lines
    <3>6. \A kinds : Through(Seen(kinds), <<y>>) = <<>>
      BY <1>8, <3>5, ThroughOne
    <3>7. QED
      BY <2>1, <3>1, <3>3, <3>4, <3>6
  <2>4. QED
    BY <2>2, <2>3
<1>12. ASSUME NEW kinds
       PROVE  Through(SeenStep(kinds, shot.tools), Made) = Through(Seen(kinds), Through(lines, said))
  BY <1>9, SaidSeen
<1>13. ASSUME NEW kinds
       PROVE  Through(Seen(kinds), live) = Through(SeenStep(kinds, shot.tools), Followed)
  BY <1>1, <1>9, LiveSeen
<1>14. /\ whole => \A kinds : Through(SeenStep(kinds, shot.tools), Followed)
                                = Through(SeenStep(kinds, shot.tools), Made)
       /\ \A kinds \in {{"assistant"}, Dialogue!ToolKinds} :
            Through(SeenStep(kinds, shot.tools), Followed) = Through(SeenStep(kinds, shot.tools), Made)
  BY <1>1, <1>9, FollowedSeen DEF StepsFit
<1>15. \A e : e \in Elements(after) /\ e.kind = "user" <=> e \in Elements(opt) /\ e.kind = "user"
  BY <1>5, UsersSeen
<1>16. \A e \in Elements(live) : e.kind # "user"
  BY <1>1, LiveIsAgents
<1> HIDE DEF new, later, past, opt, live, before, after, lines, said, a
<1>17. before \in Seq(Line) /\ Elements(before) = Elements(opt) \cup Elements(live)
  <2>1. opt \o live \in Seq(Line)
    BY <1>3, <1>5
  <2>2. Elements(opt \o live) = Elements(opt) \cup Elements(live)
    BY <1>3, <1>5, ElementsOf
  <2>3. QED
    BY <1>4, <2>1, <2>2
<1>18. ASSUME NEW kinds
       PROVE  Through(Seen(kinds), before) = Through(Seen(kinds), opt) \o Through(Seen(kinds), live)
  <2>1. Through(Seen(kinds), opt \o live) = Through(Seen(kinds), opt) \o Through(Seen(kinds), live)
    BY <1>3, <1>5, <1>8, ThroughConcat
  <2>2. QED
    BY <1>4, <2>1
<1>19. ASSUME NEW kinds
       PROVE  Through(Seen(kinds), after)
                = Through(Seen(kinds), Through(lines, history)) \o Through(Seen(kinds), Through(lines, said))
  <2> DEFINE h == history \o OwnMessage
             w == Seen(kinds)
             x == Through(lines, history)
             y == Through(lines, OwnMessage)
             z == Through(lines, said)
  <2>1. Maps(w, Line, Line) /\ Maps(lines, AgentMessage, Line)
    BY <1>8
  <2>2. h \in Seq(AgentMessage)
    BY <1>1, <1>6
  <2>3. x \in Seq(Line) /\ y \in Seq(Line) /\ z \in Seq(Line)
    BY <1>1, <1>6, <2>1, ThroughType
  <2>4. Through(lines, h) = x \o y
    BY <1>1, <1>6, <2>1, ThroughConcat
  <2> HIDE DEF h
  <2>5. Through(lines, new) = Through(lines, h) \o z
    <3>1. Through(lines, h \o said) = Through(lines, h) \o Through(lines, said)
      BY <1>1, <2>1, <2>2, ThroughConcat
    <3>2. QED
      BY <1>6, <3>1 DEF h
  <2>6. Through(w, y) = <<>>
    BY <1>11
  <2> HIDE DEF w, x, y, z
  <2>7. Through(w, x \o y) = Through(w, x) \o Through(w, y)
    BY <2>1, <2>3, ThroughConcat
  <2>8. x \o y \in Seq(Line)
    BY <2>3
  <2> DEFINE xy == x \o y
  <2>9. Through(w, xy \o z) = Through(w, xy) \o Through(w, z)
    <3>1. xy \in Seq(Line)
      BY <2>8
    <3> HIDE DEF xy
    <3>2. QED
      BY <2>1, <2>3, <3>1, ThroughConcat
  <2>10. Through(w, x) \in Seq(Line)
    BY <2>1, <2>3, ThroughType
  <2>11. Through(w, x) \o <<>> = Through(w, x)
    BY <2>10
  <2>12. Through(w, after) = Through(w, x) \o Through(w, z)
    BY <1>7, <2>4, <2>5, <2>6, <2>7, <2>9, <2>11 DEF xy
  <2>13. QED
    BY <2>12 DEF w, x, z
<1>20. /\ whole => Through(Seen(Uttered), before) = Through(Seen(Uttered), after)
       /\ \A kinds \in {{"assistant"}, Dialogue!ToolKinds} :
            Through(Seen(kinds), before) = Through(Seen(kinds), after)
  <2>1. ASSUME NEW kinds, Through(SeenStep(kinds, shot.tools), Followed) = Through(SeenStep(kinds, shot.tools), Made)
        PROVE  Through(Seen(kinds), before) = Through(Seen(kinds), after)
    BY <1>10, <1>12, <1>13, <1>18, <1>19, <2>1
  <2>2. QED
    BY <1>14, <2>1
<1>21. whole => Dialogue!Content(before) = Dialogue!Content(after)
  BY <1>7, <1>17, <1>20, ContentIs
<1>22. ASSUME NEW kinds \in {{"assistant"}, Dialogue!ToolKinds}
       PROVE  Dialogue!Content(Dialogue!OfKind(before, kinds)) = Dialogue!Content(Dialogue!OfKind(after, kinds))
  <2>1. /\ Dialogue!Content(Dialogue!OfKind(before, kinds)) = Through(Seen(kinds), before)
        /\ Dialogue!Content(Dialogue!OfKind(after, kinds)) = Through(Seen(kinds), after)
    BY <1>7, <1>17, ContentIs
  <2>2. QED
    BY <1>20, <2>1
<1>23. Dialogue!ToSet(Dialogue!OfKind(before, {"user"})) = Dialogue!ToSet(Dialogue!OfKind(after, {"user"}))
  <2>1. \A list : Dialogue!ToSet(list) = Elements(list)
    BY DEF Dialogue!ToSet, Elements
  <2>2. \A e : e \in Elements(Dialogue!OfKind(before, {"user"})) <=> e \in Elements(before) /\ e.kind = "user"
    BY <1>17, FilteredIs
  <2>3. \A e : e \in Elements(Dialogue!OfKind(after, {"user"})) <=> e \in Elements(after) /\ e.kind = "user"
    BY <1>7, FilteredIs
  <2>4. \A e : e \in Elements(Dialogue!OfKind(before, {"user"})) <=> e \in Elements(Dialogue!OfKind(after, {"user"}))
    BY <1>15, <1>16, <1>17, <2>2, <2>3
  <2>5. QED
    BY <2>1, <2>4
<1>24. QED
  BY <1>21, <1>22, <1>23 DEF before, after, new, later

(***************************************************************************)
(* Theorems                                                                *)
(***************************************************************************)
\* What the run of the page keeps, of the stream, the sink, the session and the transcript, keeps
\* to its types, however long lists of messages, parts, calls and steps get.
THEOREM SetupPageTypeCorrect == MCSpec => []MCTypeOK
<1>1. DialogueInv => (On("dialogue") => Dialogue!TypeOK)
  BY DialogueTypes
<1>2. TypeOK /\ Sink!TypeOK /\ (On("client") => Client!TypeOK) /\ (On("dialogue") => Dialogue!TypeOK)
      => MCTypeOK
  BY DEF MCTypeOK
<1>3. QED
  BY <1>1, <1>2, StreamTypeCorrect, SinkTypeCorrect, ClientTypeCorrect, DialogueAlways, PTL

\* When a turn ends, what the page showed while it ran stays as it was, in its order and with the
\* outcome of every call; of a page that went on with a snapshot, the texts and the calls, each in
\* their order.  And a decision the page offers is one the API accepts.  Both unless the model
\* failed within a message (projectLiveTranscript.ts, projectPersistedTranscript.ts).
THEOREM TranscriptStaysTrue == MCSpec => []TranscriptIsTrue
<1>1. DialogueInv => TranscriptIsTrue
  BY BecomesCommitted, OffersTaken DEF TranscriptIsTrue
<1>2. QED
  BY <1>1, DialogueAlways, PTL
=============================================================================
