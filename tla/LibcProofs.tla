----------------------------- MODULE LibcProofs -----------------------------
(***************************************************************************)
(* Proofs about Libc, for any calls, texts and sizes.                      *)
(***************************************************************************)
EXTENDS Libc, SequenceTheorems, WellFoundedInduction, TLAPS

(* A set of naturals has a least element, and one that is bounded a greatest. *)
LEMMA LeastOf ==
    ASSUME NEW A \in SUBSET Nat, A # {}
    PROVE  \E n \in A : \A k \in A : n <= k
<1>1. \E n \in A : \A k \in A : <<k, n>> \notin OpToRel(<, Nat)
  BY NatLessThanWellFounded, WFMin
<1>2. \E n \in A : \A k \in A : ~ (k < n)
  BY <1>1 DEF OpToRel
<1>3. QED
  BY <1>2

LEMMA GreatestOf ==
    ASSUME NEW N \in Nat, NEW A \in SUBSET (0..N), A # {}
    PROVE  \E n \in A : \A k \in A : k <= n
<1> DEFINE C == {b \in Nat : \E k \in A : b = N - k}
<1>1. C \in SUBSET Nat /\ C # {}
  <2>1. PICK k \in A : TRUE
    OBVIOUS
  <2>2. N - k \in Nat
    OBVIOUS
  <2>3. QED
    BY <2>2
<1>2. PICK m \in C : \A b \in C : m <= b
  <2> HIDE DEF C
  <2>1. QED
    BY <1>1, LeastOf
<1>3. PICK n \in A : m = N - n
  BY <1>2
<1>4. ASSUME NEW k \in A PROVE k <= n
  <2>1. N - k \in C
    OBVIOUS
  <2>2. N - n <= N - k
    BY <1>2, <1>3, <2>1
  <2>3. QED
    BY <2>2
<1>5. QED
  BY <1>4

(* What holds at 0, and at every number if at those below it, holds up to N; and
   the same from N down. *)
LEMMA UpInduction ==
    ASSUME NEW N \in Nat, NEW Good \in SUBSET (0..N),
           \A k \in 0..N : (\A h \in 0..(k - 1) : h \in Good) => k \in Good
    PROVE  \A k \in 0..N : k \in Good
<1> DEFINE Bad == (0..N) \ Good
<1>1. ASSUME Bad # {} PROVE FALSE
  <2>1. Bad \in SUBSET Nat
    OBVIOUS
  <2>2. PICK k \in Bad : \A h \in Bad : k <= h
    <3> HIDE DEF Bad
    <3>1. QED
      BY <1>1, <2>1, LeastOf
  <2>3. \A h \in 0..(k - 1) : h \in Good
    BY <2>2
  <2>4. QED
    BY <2>2, <2>3
<1>2. QED
  BY <1>1

LEMMA DownInduction ==
    ASSUME NEW N \in Nat, NEW Good \in SUBSET (0..N),
           \A k \in 0..N : (\A h \in (k + 1)..N : h \in Good) => k \in Good
    PROVE  \A k \in 0..N : k \in Good
<1> DEFINE Bad == (0..N) \ Good
<1>1. ASSUME Bad # {} PROVE FALSE
  <2>1. Bad \in SUBSET (0..N)
    OBVIOUS
  <2>2. PICK k \in Bad : \A h \in Bad : h <= k
    <3> HIDE DEF Bad
    <3>1. QED
      BY <1>1, <2>1, GreatestOf
  <2>3. \A h \in (k + 1)..N : h \in Good
    BY <2>2
  <2>4. QED
    BY <2>2, <2>3
<1>2. QED
  BY <1>1

-----------------------------------------------------------------------------
(* Searching: the places of a text, and the first from a place on. *)
LeastIn(places) ==
    IF places = {} THEN NULL ELSE CHOOSE p \in places : \A q \in places : p <= q
From(text, sub, a) == LeastIn({p \in PlacesIn(text, sub) : a <= p})

LEMMA PlacesAre ==
    ASSUME NEW S, NEW text \in Seq(S), NEW sub \in Seq(S)
    PROVE  /\ Len(text) \in Nat /\ Len(sub) \in Nat
           /\ \A p : p \in PlacesIn(text, sub) <=>
                 /\ p \in Nat /\ p + Len(sub) <= Len(text)
                 /\ \A m \in 1..Len(sub) : text[p + m] = sub[m]
<1>1. Len(text) \in Nat /\ Len(sub) \in Nat
  OBVIOUS
<1>2. ASSUME NEW p \in Nat, p + Len(sub) <= Len(text)
      PROVE  SubSeq(text, p + 1, p + Len(sub)) = sub <=>
                 \A m \in 1..Len(sub) : text[p + m] = sub[m]
  <2> DEFINE piece == SubSeq(text, p + 1, p + Len(sub))
  <2>1. \A i \in (p + 1)..(p + Len(sub)) : text[i] \in S
    BY <1>2, <1>1
  <2>2. /\ piece \in Seq(S)
        /\ Len(piece) = IF p + 1 <= p + Len(sub) THEN p + Len(sub) - (p + 1) + 1 ELSE 0
        /\ \A i \in 1..(p + Len(sub) - (p + 1) + 1) : piece[i] = text[p + 1 + i - 1]
    BY <2>1, <1>1, SubSeqProperties
  <2> HIDE DEF piece
  <2>3. Len(piece) = Len(sub) /\ \A i \in 1..Len(sub) : piece[i] = text[p + i]
    BY <2>2, <1>1
  <2>4. (\A i \in 1..Len(sub) : piece[i] = sub[i]) => piece = sub
    BY <2>2, <2>3, SeqEqual
  <2>5. QED
    BY <2>3, <2>4 DEF piece
<1>3. \A p : p \in 0..(Len(text) - Len(sub)) <=> p \in Nat /\ p + Len(sub) <= Len(text)
  BY <1>1
<1>4. QED
  BY <1>1, <1>2, <1>3, Zenon DEF PlacesIn

LEMMA FromSkips ==
    ASSUME NEW S, NEW text \in Seq(S), NEW sub \in Seq(S), NEW a \in Nat, NEW b \in Nat, a <= b,
           \A p \in a..(b - 1) : p \notin PlacesIn(text, sub)
    PROVE  From(text, sub, a) = From(text, sub, b)
<1>1. \A p \in PlacesIn(text, sub) : p \in Nat
  BY PlacesAre
<1>2. {p \in PlacesIn(text, sub) : a <= p} = {p \in PlacesIn(text, sub) : b <= p}
  BY <1>1
<1>3. QED
  BY <1>2 DEF From

LEMMA FromHere ==
    ASSUME NEW S, NEW text \in Seq(S), NEW sub \in Seq(S), NEW a \in PlacesIn(text, sub)
    PROVE  From(text, sub, a) = a
<1> DEFINE later == {p \in PlacesIn(text, sub) : a <= p}
<1>1. \A p \in PlacesIn(text, sub) : p \in Nat
  BY PlacesAre
<1>2. a \in later /\ \A q \in later : a <= q
  BY <1>1
<1>3. \A p \in later : (\A q \in later : p <= q) => p = a
  BY <1>1, <1>2
<1> HIDE DEF later
<1>4. (CHOOSE p \in later : \A q \in later : p <= q) = a
  BY <1>2, <1>3
<1>5. QED
  BY <1>2, <1>4 DEF From, LeastIn, later

LEMMA FromEnd ==
    ASSUME NEW S, NEW text \in Seq(S), NEW sub \in Seq(S), NEW a \in Nat,
           a + Len(sub) > Len(text)
    PROVE  From(text, sub, a) = NULL
<1>1. \A p \in PlacesIn(text, sub) : p \in Nat /\ p + Len(sub) <= Len(text)
  BY PlacesAre
<1>2. Len(sub) \in Nat /\ Len(text) \in Nat
  OBVIOUS
<1>3. {p \in PlacesIn(text, sub) : a <= p} = {}
  BY <1>1, <1>2
<1>4. QED
  BY <1>3 DEF From, LeastIn

LEMMA FromIsFirst ==
    ASSUME NEW S, NEW text \in Seq(S), NEW sub \in Seq(S)
    PROVE  FirstPlace(text, sub, From(text, sub, 0))
<1> DEFINE places == PlacesIn(text, sub)
<1>1. \A p \in places : p \in Nat
  BY PlacesAre
<1>2. {p \in places : 0 <= p} = places
  BY <1>1
<1>3. CASE places = {}
  BY <1>2, <1>3 DEF From, LeastIn, FirstPlace
<1>4. CASE places # {}
  <2>1. PICK n \in places : \A k \in places : n <= k
    BY <1>1, <1>4, LeastOf, places \in SUBSET Nat
  <2> HIDE DEF places
  <2> DEFINE first == CHOOSE p \in places : \A q \in places : p <= q
  <2>2. first \in places /\ \A q \in places : first <= q
    BY <2>1
  <2> HIDE DEF first
  <2>3. From(text, sub, 0) = first
    BY <1>2, <1>4 DEF From, LeastIn, first, places
  <2>4. QED
    BY <1>4, <2>2, <2>3 DEF FirstPlace, places
<1>5. QED
  BY <1>3, <1>4

-----------------------------------------------------------------------------
(* Copying: after k bytes these have been written. *)
Written(dst, src, n, k) ==
    IF dst > src THEN (dst + n - k + 1)..(dst + n) ELSE (dst + 1)..(dst + k)
After(mem, dst, src, n, k) ==
    [m \in DOMAIN mem |-> IF m \in Written(dst, src, n, k) THEN mem[m - dst + src] ELSE mem[m]]

LEMMA CopiedByte ==
    ASSUME NEW mem \in Seq(Chars), NEW dst \in Nat, NEW src \in Nat, NEW n \in Nat,
           dst + n <= Len(mem), src + n <= Len(mem), NEW k \in 1..n,
           NEW pos, pos = CopyOrder(dst, src, n)[k],
           NEW before, before = After(mem, dst, src, n, k - 1)
    PROVE  After(mem, dst, src, n, k) =
             [before EXCEPT ![dst + pos + 1] = before[src + pos + 1]]
<1> DEFINE W == Written(dst, src, n, k - 1)
<1>1. pos = IF dst > src THEN n - k ELSE k - 1
  BY DEF CopyOrder
<1>2. DOMAIN mem = 1..Len(mem) /\ Len(mem) \in Nat
  OBVIOUS
<1>3. pos \in 0..(n - 1)
  BY <1>1
<1>4. /\ src + pos + 1 \in DOMAIN mem /\ src + pos + 1 \notin W
      /\ dst + pos + 1 \in DOMAIN mem /\ dst + pos + 1 \notin W
  BY <1>1, <1>2 DEF Written
<1>5. \A m \in DOMAIN mem : m \in Written(dst, src, n, k) <=> m \in W \/ m = dst + pos + 1
  BY <1>1, <1>2 DEF Written
<1>6. (dst + pos + 1) - dst + src = src + pos + 1
  BY <1>3
<1> HIDE DEF W
<1>7. before[src + pos + 1] = mem[src + pos + 1]
  BY <1>4 DEF After, W
<1>8. ASSUME NEW m \in DOMAIN mem
      PROVE  After(mem, dst, src, n, k)[m] =
               [before EXCEPT ![dst + pos + 1] = before[src + pos + 1]][m]
  <2>1. CASE m = dst + pos + 1
    BY <1>4, <1>5, <1>6, <1>7, <2>1 DEF After
  <2>2. CASE m # dst + pos + 1
    BY <1>4, <1>5, <2>2 DEF After, W
  <2>3. QED
    BY <2>1, <2>2
<1>9. After(mem, dst, src, n, k) = [before EXCEPT ![dst + pos + 1] = before[src + pos + 1]]
  BY <1>8 DEF After
<1>10. QED
  BY <1>9

(* The loop of memcpy has what After says behind it. *)
LEMMA MemcpyIs ==
    ASSUME NEW mem \in Seq(Chars), NEW dst \in Nat, NEW src \in Nat, NEW n \in Nat,
           dst + n <= Len(mem), src + n <= Len(mem)
    PROVE  memcpy(mem, dst, src, n) = After(mem, dst, src, n, n)
<1> DEFINE Step(g) ==
             [k \in 0..n |->
                IF k = 0 THEN mem
                ELSE LET pos == CopyOrder(dst, src, n)[k]
                     IN  [g[k - 1] EXCEPT ![dst + pos + 1] = g[k - 1][src + pos + 1]]]
           closed == [k \in 0..n |-> After(mem, dst, src, n, k)]
           loop == CHOOSE g : g = Step(g)
<1>1. memcpy(mem, dst, src, n) = loop[n]
  BY DEF memcpy
<1>2. After(mem, dst, src, n, 0) = mem
  <2>1. mem = [m \in DOMAIN mem |-> mem[m]]
    OBVIOUS
  <2>2. \A m \in DOMAIN mem : m \notin Written(dst, src, n, 0)
    BY DEF Written
  <2>3. QED
    BY <2>1, <2>2 DEF After
<1>3. \A k \in 0..n : k # 0 => k \in 1..n /\ k - 1 \in 0..n /\ k - 1 \in 0..(k - 1)
  OBVIOUS
<1>4. ASSUME NEW k \in 0..n PROVE closed[k] = Step(closed)[k]
  <2>1. CASE k = 0
    BY <1>2, <2>1
  <2>2. CASE k # 0
    <3> DEFINE pos == CopyOrder(dst, src, n)[k]
               before == After(mem, dst, src, n, k - 1)
    <3>1. k \in 1..n /\ k - 1 \in 0..n
      BY <1>3, <2>2
    <3>5. closed[k - 1] = before /\ closed[k] = After(mem, dst, src, n, k)
      <4> HIDE DEF before
      <4>1. QED
        BY <3>1 DEF before
    <3>2. After(mem, dst, src, n, k) = [before EXCEPT ![dst + pos + 1] = before[src + pos + 1]]
      <4> HIDE DEF pos, before
      <4>1. pos = CopyOrder(dst, src, n)[k] /\ before = After(mem, dst, src, n, k - 1)
        BY DEF pos, before
      <4>2. QED
        BY <3>1, <4>1, CopiedByte
    <3>3. Step(closed)[k] =
            [closed[k - 1] EXCEPT ![dst + pos + 1] = closed[k - 1][src + pos + 1]]
      BY <2>2
    <3> HIDE DEF pos, before, Step, closed
    <3>4. QED
      BY <3>2, <3>3, <3>5
  <2>3. QED
    BY <2>1, <2>2
<1>5. closed = Step(closed)
  BY <1>4
<1>6. loop = Step(loop)
  <2> HIDE DEF closed, Step
  <2>1. QED
    BY <1>5
<1> HIDE DEF loop
<1> DEFINE Good == {k \in 0..n : loop[k] = closed[k]}
<1>7. ASSUME NEW k \in 0..n, \A h \in 0..(k - 1) : h \in Good
      PROVE  k \in Good
  <2>1. loop[k] = Step(loop)[k] /\ closed[k] = Step(closed)[k]
    BY <1>4, <1>6
  <2>2. CASE k = 0
    BY <2>1, <2>2
  <2>3. CASE k # 0
    <3>1. loop[k - 1] = closed[k - 1]
      BY <1>3, <1>7, <2>3
    <3>2. QED
      BY <2>1, <2>3, <3>1
  <2>4. QED
    BY <2>2, <2>3
<1>8. n \in Good
  <2>1. Good \in SUBSET (0..n) /\ n \in 0..n
    OBVIOUS
  <2> HIDE DEF Good
  <2>2. \A k \in 0..n : k \in Good
    BY <1>7, <2>1, UpInduction
  <2>3. QED
    BY <2>1, <2>2
<1>9. loop[n] = closed[n] /\ closed[n] = After(mem, dst, src, n, n)
  BY <1>8
<1>10. QED
  BY <1>1, <1>9

(* strlen finds the first NUL. *)
LEMMA StrlenIs ==
    ASSUME NEW s \in Seq(Chars), \E k \in DOMAIN s : s[k] = NUL
    PROVE  /\ strlen(s) \in 0..(Len(s) - 1) /\ s[strlen(s) + 1] = NUL
           /\ \A m \in 1..strlen(s) : s[m] # NUL
<1> DEFINE ends == {k \in 1..Len(s) : s[k] = NUL}
<1>1. Len(s) \in Nat /\ DOMAIN s = 1..Len(s)
  OBVIOUS
<1>2. ends \in SUBSET Nat /\ ends # {}
  BY <1>1
<1>3. PICK k \in ends : \A h \in ends : k <= h
  <2> HIDE DEF ends
  <2>1. QED
    BY <1>2, LeastOf
<1>4. k - 1 \in 0..(Len(s) - 1) /\ s[(k - 1) + 1] = NUL
  BY <1>1, <1>3
<1>5. ASSUME NEW m \in 1..(k - 1) PROVE s[m] # NUL
  <2>1. m \in 1..Len(s) /\ ~ (k <= m)
    BY <1>1, <1>3
  <2>2. QED
    BY <1>3, <2>1
<1>6. QED
  BY <1>4, <1>5 DEF strlen

LEMMA StrlenOf ==
    ASSUME NEW s \in Seq(Chars), NEW l \in 0..(Len(s) - 1), s[l + 1] = NUL,
           \A m \in 1..l : s[m] # NUL
    PROVE  strlen(s) = l
<1>1. Len(s) \in Nat /\ DOMAIN s = 1..Len(s) /\ l + 1 \in 1..Len(s)
  OBVIOUS
<1>2. strlen(s) \in 0..(Len(s) - 1) /\ s[strlen(s) + 1] = NUL
      /\ \A m \in 1..strlen(s) : s[m] # NUL
  BY <1>1, StrlenIs
<1>3. ~ (strlen(s) + 1 \in 1..l) /\ ~ (l + 1 \in 1..strlen(s))
  BY <1>2
<1>4. QED
  BY <1>2, <1>3

LEMMA TextIs ==
    ASSUME NEW s \in Seq(Chars), \E k \in DOMAIN s : s[k] = NUL
    PROVE  /\ TextOf(s) \in Seq(Chars) /\ Len(TextOf(s)) = strlen(s)
           /\ \A i \in 1..strlen(s) : TextOf(s)[i] = s[i]
<1>1. strlen(s) \in 0..(Len(s) - 1) /\ Len(s) \in Nat
  BY StrlenIs
<1>2. \A i \in 1..strlen(s) : s[i] \in Chars
  BY <1>1
<1> DEFINE l == strlen(s)
<1> HIDE DEF l
<1>3. /\ SubSeq(s, 1, l) \in Seq(Chars)
      /\ Len(SubSeq(s, 1, l)) = IF 1 <= l THEN l - 1 + 1 ELSE 0
      /\ \A i \in 1..(l - 1 + 1) : SubSeq(s, 1, l)[i] = s[1 + i - 1]
  BY <1>1, <1>2, SubSeqProperties DEF l
<1>4. l \in Nat
  BY <1>1 DEF l
<1>5. QED
  BY <1>3, <1>4 DEF TextOf, l

LEMMA TwoBehind ==
    ASSUME NEW S, NEW t \in Seq(S), NEW x \in S, NEW y \in S
    PROVE  /\ t \o <<x, y>> \in Seq(S) /\ Len(t \o <<x, y>>) = Len(t) + 2
           /\ \A i \in 1..Len(t) : (t \o <<x, y>>)[i] = t[i]
           /\ (t \o <<x, y>>)[Len(t) + 1] = x /\ (t \o <<x, y>>)[Len(t) + 2] = y
<1>1. <<x, y>> \in Seq(S) /\ Len(<<x, y>>) = 2 /\ Len(t) \in Nat
  OBVIOUS
<1>2. /\ t \o <<x, y>> \in Seq(S) /\ Len(t \o <<x, y>>) = Len(t) + Len(<<x, y>>)
      /\ \A i \in 1..(Len(t) + Len(<<x, y>>)) :
            (t \o <<x, y>>)[i] = IF i <= Len(t) THEN t[i] ELSE <<x, y>>[i - Len(t)]
  BY <1>1, ConcatProperties
<1>3. QED
  BY <1>1, <1>2

(* Whether strcat gives a string depends on the byte behind it. *)
LEMMA StrcatIs ==
    ASSUME NEW mem \in Seq(Chars), mem # <<>>, Last(mem) = NUL,
           NEW both, both = TextOf(mem) \o <<7, 8>>, Len(both) < Len(mem)
    PROVE  TextOf(strcat(mem, <<7, 8, NUL>>)) = both <=> mem[Len(both) + 1] = NUL
<1> DEFINE e == strlen(mem)
           res == strcat(mem, <<7, 8, NUL>>)
<1>1. Len(mem) \in Nat /\ DOMAIN mem = 1..Len(mem) /\ Len(mem) > 0 /\ mem[Len(mem)] = NUL
  BY DEF Last
<1>2. /\ e \in Nat /\ e < Len(mem) /\ \A m \in 1..e : mem[m] # NUL
      /\ TextOf(mem) \in Seq(Chars) /\ Len(TextOf(mem)) = e
      /\ \A i \in 1..e : TextOf(mem)[i] = mem[i]
  BY <1>1, StrlenIs, TextIs
<1> HIDE DEF e
<1>3. strlen(<<7, 8, NUL>>) = 2
  <2> DEFINE s == <<7, 8, NUL>>
  <2>1. s \in Seq(Chars) /\ Len(s) = 3 /\ s[1] = 7 /\ s[2] = 8 /\ s[3] = NUL
    BY DEF Chars, NUL
  <2> HIDE DEF s
  <2>2. 2 \in 0..(Len(s) - 1) /\ s[2 + 1] = NUL /\ \A m \in 1..2 : s[m] # NUL
    BY <2>1 DEF NUL
  <2>3. strlen(s) = 2
    BY <2>1, <2>2, StrlenOf
  <2>4. QED
    BY <2>3 DEF s
<1>4. /\ both \in Seq(Chars) /\ Len(both) = e + 2 /\ \A i \in 1..e : both[i] = mem[i]
      /\ both[e + 1] = 7 /\ both[e + 2] = 8
  <2>1. 7 \in Chars /\ 8 \in Chars
    BY DEF Chars
  <2>2. QED
    BY <1>2, <2>1, TwoBehind
<1>5. e + 2 < Len(mem)
  BY <1>4
<1>6. res = [k \in DOMAIN mem |-> IF e < k /\ k <= e + 2 THEN <<7, 8, NUL>>[k - e] ELSE mem[k]]
  BY <1>3 DEF strcat, e
<1> HIDE DEF res
<1>7. /\ \A k \in 1..Len(mem) : k # e + 1 /\ k # e + 2 => res[k] = mem[k]
      /\ res[e + 1] = 7 /\ res[e + 2] = 8
  <2>1. e + 1 \in DOMAIN mem /\ e + 2 \in DOMAIN mem
    BY <1>1, <1>2, <1>4
  <2>2. <<7, 8, NUL>>[(e + 1) - e] = 7 /\ <<7, 8, NUL>>[(e + 2) - e] = 8
    <3>1. (e + 1) - e = 1 /\ (e + 2) - e = 2
      BY <1>2
    <3>2. QED
      BY <3>1
  <2>3. \A k \in 1..Len(mem) : k # e + 1 /\ k # e + 2 => ~ (e < k /\ k <= e + 2)
    BY <1>1, <1>2
  <2>4. res[e + 1] = <<7, 8, NUL>>[(e + 1) - e] /\ res[e + 2] = <<7, 8, NUL>>[(e + 2) - e]
    <3>1. /\ e < e + 1 /\ e + 1 <= e + 2 /\ e < e + 2 /\ e + 2 <= e + 2
      BY <1>2
    <3>2. QED
      BY <1>6, <2>1, <3>1
  <2>5. \A k \in 1..Len(mem) : k # e + 1 /\ k # e + 2 => res[k] = mem[k]
    BY <1>1, <1>6, <2>3
  <2>6. QED
    BY <2>2, <2>4, <2>5
<1>8. res \in Seq(Chars) /\ Len(res) = Len(mem)
  <2>1. \A k \in 1..Len(mem) : res[k] \in Chars
    <3>1. \A k \in 1..Len(mem) : mem[k] \in Chars
      BY <1>1
    <3>2. 7 \in Chars /\ 8 \in Chars
      BY DEF Chars
    <3>3. QED
      BY <1>7, <3>1, <3>2
  <2>2. DOMAIN res = 1..Len(mem) /\ res = [k \in 1..Len(mem) |-> res[k]]
    BY <1>1, <1>6
  <2>3. QED
    BY <1>1, <2>1, <2>2
<1>9. \E k \in DOMAIN res : res[k] = NUL
  <2>1. Len(mem) # e + 1 /\ Len(mem) # e + 2 /\ Len(mem) \in 1..Len(mem)
    <3>1. \A d, l \in Nat : d + 2 < l => l # d + 1 /\ l # d + 2 /\ l \in 1..l
      OBVIOUS
    <3>2. QED
      BY <1>1, <1>2, <1>5, <3>1, Zenon
  <2>2. QED
    BY <1>1, <1>7, <1>8, <2>1
<1>10. /\ strlen(res) \in 0..(Len(mem) - 1) /\ res[strlen(res) + 1] = NUL
      /\ TextOf(res) \in Seq(Chars) /\ Len(TextOf(res)) = strlen(res)
      /\ \A i \in 1..strlen(res) : TextOf(res)[i] = res[i]
  BY <1>8, <1>9, StrlenIs, TextIs
<1>11. \A m \in 1..(e + 2) : res[m] = both[m] /\ res[m] # NUL
  <2>1. \A m \in 1..(e + 2) : m \in 1..e \/ m = e + 1 \/ m = e + 2
    BY <1>2
  <2>2. \A m \in 1..e : m \in 1..Len(mem) /\ m # e + 1 /\ m # e + 2
    BY <1>1, <1>2
  <2>3. ASSUME NEW m \in 1..e PROVE res[m] = both[m] /\ res[m] # NUL
    BY <1>2, <1>4, <1>7, <2>2
  <2>4. res[e + 1] = both[e + 1] /\ res[e + 2] = both[e + 2]
    BY <1>4, <1>7
  <2>5. res[e + 1] # NUL /\ res[e + 2] # NUL
    BY <1>7 DEF NUL
  <2>6. QED
    BY <2>1, <2>3, <2>4, <2>5
<1>12. e + 2 \in 0..(Len(res) - 1) /\ e + 3 \in 1..Len(mem) /\ e + 3 # e + 1 /\ e + 3 # e + 2
  BY <1>1, <1>2, <1>4, <1>8
<1>13. res[e + 3] = mem[e + 3] /\ (e + 2) + 1 = e + 3
  BY <1>2, <1>7, <1>12
<1>14. ASSUME mem[e + 3] = NUL PROVE TextOf(res) = both
  <2>1. strlen(res) = e + 2
    BY <1>8, <1>11, <1>12, <1>13, <1>14, StrlenOf
  <2>3. Len(TextOf(res)) = Len(both) /\ \A m \in 1..Len(both) : TextOf(res)[m] = both[m]
    BY <1>4, <1>10, <1>11, <2>1
  <2>4. QED
    BY <1>4, <1>10, <2>3, SeqEqual
<1>15. ASSUME TextOf(res) = both PROVE mem[e + 3] = NUL
  BY <1>4, <1>10, <1>13, <1>15
<1>16. QED
  BY <1>4, <1>13, <1>14, <1>15 DEF res

(* A call that copies. *)
LEMMA CopyingCalls == call \in Calls => CopiesExactly
<1> SUFFICES ASSUME call \in Calls, call.fn = "copy"
             PROVE  CopiesExactly
  BY DEF CopiesExactly
<1> DEFINE mem == call.mem
           dst == call.dst
           src == call.src
           n == call.n
<1>1. /\ mem \in Seq(Chars) /\ mem # <<>> /\ Last(mem) = NUL
      /\ dst \in Nat /\ src \in Nat /\ n \in Nat
      /\ dst + n <= Len(mem) /\ src + n <= Len(mem)
  BY CallsAssumption
<1> HIDE DEF mem, dst, src, n
<1>2. memcpy(mem, dst, src, n) =
        [k \in DOMAIN mem |-> IF dst < k /\ k <= dst + n THEN mem[k - dst + src] ELSE mem[k]]
  <2>1. memcpy(mem, dst, src, n) = After(mem, dst, src, n, n)
    BY <1>1, MemcpyIs
  <2>2. \A k \in DOMAIN mem : k \in Written(dst, src, n, n) <=> dst < k /\ k <= dst + n
    BY <1>1 DEF Written
  <2>3. QED
    BY <2>1, <2>2 DEF After
<1>3. ASSUME Len(TextOf(mem) \o <<7, 8>>) < Len(mem)
      PROVE  TextOf(strcat(mem, <<7, 8, NUL>>)) = TextOf(mem) \o <<7, 8>>
               <=> mem[Len(TextOf(mem) \o <<7, 8>>) + 1] = NUL
  <2> DEFINE both == TextOf(mem) \o <<7, 8>>
  <2>1. both = TextOf(mem) \o <<7, 8>>
    OBVIOUS
  <2> HIDE DEF both
  <2>2. QED
    BY <1>1, <1>3, <2>1, StrcatIs
<1>4. QED
  BY <1>2, <1>3, Zenon DEF CopiesExactly, mem, dst, src, n

-----------------------------------------------------------------------------
(* Comparing: a loop that goes on to the next byte until it stops. *)
LoopStep(N, Stops, val, g) == [n \in 1..N |-> IF n \in Stops THEN val[n] ELSE g[n + 1]]
StopFrom(Stops, n) == CHOOSE k \in Stops : n <= k /\ \A h \in Stops : n <= h => k <= h

LEMMA StopIs ==
    ASSUME NEW N \in Nat \ {0}, NEW Stops \in SUBSET (1..N), N \in Stops, NEW n \in 1..N
    PROVE  /\ StopFrom(Stops, n) \in Stops /\ n <= StopFrom(Stops, n)
           /\ \A h \in Stops : n <= h => StopFrom(Stops, n) <= h
<1> DEFINE later == {k \in Stops : n <= k}
<1>1. later \in SUBSET Nat /\ later # {}
  <2>1. \A h \in Stops : h \in Nat
    OBVIOUS
  <2>2. N \in later
    OBVIOUS
  <2>3. QED
    BY <2>1, <2>2
<1>2. \E k \in later : \A h \in later : k <= h
  <2> HIDE DEF later
  <2>1. QED
    BY <1>1, LeastOf
<1>3. \E k \in Stops : n <= k /\ \A h \in Stops : n <= h => k <= h
  BY <1>2
<1>4. QED
  BY <1>3 DEF StopFrom

(* There is such a loop, and it gives the value of where it stops first. *)
LEMMA LoopExists ==
    ASSUME NEW N \in Nat \ {0}, NEW Stops \in SUBSET (1..N), N \in Stops, NEW val
    PROVE  \E g : g = LoopStep(N, Stops, val, g)
<1> DEFINE g == [n \in 1..N |-> val[StopFrom(Stops, n)]]
<1>1. ASSUME NEW n \in 1..N PROVE g[n] = LoopStep(N, Stops, val, g)[n]
  <2>1. LoopStep(N, Stops, val, g)[n] = IF n \in Stops THEN val[n] ELSE g[n + 1]
    BY DEF LoopStep
  <2>2. /\ StopFrom(Stops, n) \in Stops /\ n <= StopFrom(Stops, n)
        /\ \A h \in Stops : n <= h => StopFrom(Stops, n) <= h
    BY StopIs
  <2> DEFINE s == StopFrom(Stops, n)
             t == StopFrom(Stops, n + 1)
  <2>3. s \in Nat /\ \A h \in Stops : h \in Nat
    <3>1. \A h \in Stops : h \in Nat
      OBVIOUS
    <3>2. QED
      BY <2>2, <3>1, Zenon
  <2>4. CASE n \in Stops
    <3>1. s = n
      <4> HIDE DEF s
      <4>1. s <= n /\ n <= s
        BY <2>2, <2>4 DEF s
      <4>2. QED
        BY <2>3, <4>1
    <3>2. QED
      BY <2>1, <2>4, <3>1
  <2>5. CASE n \notin Stops
    <3>1. n + 1 \in 1..N
      BY <2>5
    <3>2. /\ StopFrom(Stops, n + 1) \in Stops /\ n + 1 <= StopFrom(Stops, n + 1)
          /\ \A h \in Stops : n + 1 <= h => StopFrom(Stops, n + 1) <= h
      BY <3>1, StopIs
    <3>3. n \in Nat /\ t \in Nat /\ s # n
      <4>1. n \in Nat
        OBVIOUS
      <4>2. QED
        BY <2>2, <2>3, <2>5, <3>2, <4>1, Zenon
    <3>4. s = t
      <4> HIDE DEF s, t
      <4>1. n <= s /\ s \in Stops /\ t \in Stops /\ n + 1 <= t
        BY <2>2, <3>2 DEF s, t
      <4>2. n + 1 <= s /\ n <= t
        BY <2>3, <3>3, <4>1
      <4>3. t <= s /\ s <= t
        BY <2>2, <3>2, <4>1, <4>2 DEF s, t
      <4>4. QED
        BY <2>3, <3>3, <4>3
    <3>5. g[n] = val[s] /\ g[n + 1] = val[t]
      BY <3>1
    <3>6. QED
      BY <2>1, <2>5, <3>4, <3>5, Zenon
  <2>6. QED
    BY <2>4, <2>5
<1>2. g = LoopStep(N, Stops, val, g)
  BY <1>1 DEF LoopStep
<1>3. QED
  BY <1>2

LEMMA LoopStops ==
    ASSUME NEW N \in Nat \ {0}, NEW Stops \in SUBSET (1..N), N \in Stops, NEW val,
           NEW g, g = LoopStep(N, Stops, val, g),
           NEW k \in Stops, \A h \in 1..(k - 1) : h \notin Stops
    PROVE  g[1] = val[k]
<1> DEFINE Good == {n \in 0..k : n # 0 => g[n] = val[k]}
<1>1. \A n \in 1..N : g[n] = IF n \in Stops THEN val[n] ELSE g[n + 1]
  BY DEF LoopStep
<1>2. k \in Nat /\ k \in 1..N
  OBVIOUS
<1>3. ASSUME NEW n \in 0..k, \A h \in (n + 1)..k : h \in Good
      PROVE  n \in Good
  <2>1. CASE n = 0
    BY <2>1
  <2>2. CASE n = k
    BY <1>1, <1>2, <2>2
  <2>3. CASE n # 0 /\ n # k
    <3>1. n \in 1..N /\ n \notin Stops /\ n + 1 \in (n + 1)..k /\ n + 1 # 0
      BY <1>2, <2>3
    <3>2. g[n] = g[n + 1] /\ g[n + 1] = val[k]
      BY <1>1, <1>3, <3>1
    <3>3. QED
      BY <3>2
  <2>4. QED
    BY <2>1, <2>2, <2>3
<1>4. \A n \in 0..k : n \in Good
  <2>1. Good \in SUBSET (0..k)
    OBVIOUS
  <2> HIDE DEF Good
  <2>2. QED
    BY <1>2, <1>3, <2>1, DownInduction
<1>5. 1 \in 0..k /\ 1 # 0
  BY <1>2
<1>6. QED
  BY <1>4, <1>5

LEMMA FirstStop ==
    ASSUME NEW N \in Nat \ {0}, NEW Stops \in SUBSET (1..N), N \in Stops
    PROVE  \E k \in Stops : \A h \in 1..(k - 1) : h \notin Stops
<1>1. Stops \in SUBSET Nat /\ Stops # {}
  OBVIOUS
<1>2. PICK k \in Stops : \A h \in Stops : k <= h
  BY <1>1, LeastOf
<1>3. \A h \in 1..(k - 1) : h \notin Stops
  BY <1>2
<1>4. QED
  BY <1>3

IsLoop(N, Stops, val, g) ==
    /\ N \in Nat \ {0} /\ Stops \in SUBSET (1..N) /\ N \in Stops
    /\ g = LoopStep(N, Stops, val, g)

LEMMA LoopResult ==
    ASSUME NEW N, NEW Stops, NEW val, NEW g, IsLoop(N, Stops, val, g)
    PROVE  \E k \in Stops : (\A h \in 1..(k - 1) : h \notin Stops) /\ g[1] = val[k]
<1>1. /\ N \in Nat \ {0} /\ Stops \in SUBSET (1..N) /\ N \in Stops
      /\ g = LoopStep(N, Stops, val, g)
  BY DEF IsLoop
<1>2. PICK k \in Stops : \A h \in 1..(k - 1) : h \notin Stops
  BY <1>1, FirstStop
<1>3. g[1] = val[k]
  BY <1>1, <1>2, LoopStops
<1>4. QED
  BY <1>2, <1>3

IsString(s) == s \in Seq(Chars) /\ \E k \in DOMAIN s : s[k] = NUL

(* What is known of a string up to a byte before which there is no NUL. *)
LEMMA NotEnded ==
    ASSUME NEW s, IsString(s), NEW k \in Nat \ {0}, \A h \in 1..(k - 1) : s[h] # NUL
    PROVE  /\ strlen(s) \in Nat /\ strlen(s) < Len(s) /\ Len(s) \in Nat
           /\ k - 1 <= strlen(s)
           /\ s[k] = NUL => strlen(s) = k - 1
           /\ s[k] # NUL => k <= strlen(s)
           /\ s[k] \in Chars
           /\ TextOf(s) \in Seq(Chars) /\ Len(TextOf(s)) = strlen(s)
           /\ \A i \in 1..strlen(s) : TextOf(s)[i] = s[i]
<1>1. s \in Seq(Chars) /\ (\E i \in DOMAIN s : s[i] = NUL)
      /\ Len(s) \in Nat /\ DOMAIN s = 1..Len(s)
  BY DEF IsString
<1> DEFINE l == strlen(s)
<1>2. /\ l \in Nat /\ l < Len(s) /\ s[l + 1] = NUL /\ \A m \in 1..l : s[m] # NUL
      /\ TextOf(s) \in Seq(Chars) /\ Len(TextOf(s)) = l
      /\ \A i \in 1..l : TextOf(s)[i] = s[i]
  BY <1>1, StrlenIs, TextIs
<1> HIDE DEF l
<1>3. ~ (l + 1 \in 1..(k - 1))
  BY <1>2
<1>4. k - 1 <= l
  BY <1>2, <1>3
<1>5. k \in 1..Len(s) /\ s[k] \in Chars
  BY <1>1, <1>2, <1>4
<1>6. s[k] = NUL => l = k - 1
  BY <1>2, <1>4
<1>7. s[k] # NUL => k <= l
  BY <1>2, <1>4
<1>8. QED
  BY <1>1, <1>2, <1>4, <1>5, <1>6, <1>7 DEF l

LEMMA StrcmpSame ==
    ASSUME NEW s1, NEW s2, IsString(s1), IsString(s2)
    PROVE  strcmp(s1, s2) = 0 <=> TextOf(s1) = TextOf(s2)
<1> DEFINE N == strlen(s1) + 1
           Stops == {n \in 1..N : ~ (s1[n] = s2[n] /\ s1[n] # NUL)}
           val == [n \in 1..N |-> Signed(s1[n]) - Signed(s2[n])]
           Step(g) == [n \in 1..N |-> IF s1[n] = s2[n] /\ s1[n] # NUL THEN g[n + 1]
                                      ELSE Signed(s1[n]) - Signed(s2[n])]
           loop == CHOOSE g : g = Step(g)
<1>1. strcmp(s1, s2) = loop[1]
  BY DEF strcmp
<1>2. N \in Nat \ {0} /\ Stops \in SUBSET (1..N) /\ N \in Stops
  <2>1. strlen(s1) \in 0..(Len(s1) - 1) /\ s1[strlen(s1) + 1] = NUL /\ Len(s1) \in Nat
    BY StrlenIs DEF IsString
  <2>2. QED
    BY <2>1
<1>3. \A g : Step(g) = LoopStep(N, Stops, val, g)
  BY DEF LoopStep
<1> HIDE DEF N, Stops, val
<1>4. \E g : g = LoopStep(N, Stops, val, g)
  BY <1>2, LoopExists
<1>5. loop = LoopStep(N, Stops, val, loop)
  <2>1. loop = Step(loop)
    <3> HIDE DEF Step
    <3>1. QED
      BY <1>3, <1>4
  <2> HIDE DEF loop, Step
  <2>2. QED
    BY <1>3, <2>1
<1> HIDE DEF loop, Step
<1>6. PICK k \in Stops : (\A h \in 1..(k - 1) : h \notin Stops) /\ loop[1] = val[k]
  <2>1. IsLoop(N, Stops, val, loop)
    BY <1>2, <1>5, Zenon DEF IsLoop
  <2>2. QED
    BY <2>1, LoopResult
<1>7. loop[1] = val[k]
  BY <1>6
<1>8. k \in 1..N /\ k \in Nat \ {0} /\ ~ (s1[k] = s2[k] /\ s1[k] # NUL)
      /\ \A h \in 1..(k - 1) : s1[h] = s2[h] /\ s1[h] # NUL /\ s2[h] # NUL
  <2>1. k \in 1..N /\ N \in Nat
    BY <1>2
  <2>2. \A h \in 1..(k - 1) : h \in 1..N
    BY <2>1
  <2>3. k \in Nat \ {0}
    BY <2>1
  <2>4. QED
    BY <1>6, <2>1, <2>2, <2>3, Zenon DEF Stops
<1>9. val[k] = Signed(s1[k]) - Signed(s2[k])
  BY <1>8 DEF val
<1> DEFINE a == TextOf(s1)
           b == TextOf(s2)
           l1 == strlen(s1)
           l2 == strlen(s2)
<1>10. /\ l1 \in Nat /\ k - 1 <= l1 /\ (s1[k] = NUL => l1 = k - 1) /\ (s1[k] # NUL => k <= l1)
       /\ s1[k] \in Chars /\ a \in Seq(Chars) /\ Len(a) = l1 /\ \A i \in 1..l1 : a[i] = s1[i]
  BY <1>8, NotEnded
<1>11. /\ l2 \in Nat /\ k - 1 <= l2 /\ (s2[k] = NUL => l2 = k - 1) /\ (s2[k] # NUL => k <= l2)
       /\ s2[k] \in Chars /\ b \in Seq(Chars) /\ Len(b) = l2 /\ \A i \in 1..l2 : b[i] = s2[i]
  BY <1>8, NotEnded
<1> HIDE DEF a, b, l1, l2
<1>12. \A c, d \in Chars : Signed(c) - Signed(d) = 0 <=> c = d
  BY DEF Signed, Chars
<1>13. ASSUME s1[k] = s2[k] PROVE a = b
  <2>1. s1[k] = NUL /\ s2[k] = NUL
    BY <1>8, <1>13
  <2>2. l1 = k - 1 /\ l2 = k - 1
    BY <1>10, <1>11, <2>1
  <2>3. \A i \in 1..(k - 1) : a[i] = b[i]
    BY <1>8, <1>10, <1>11, <2>2
  <2>4. QED
    BY <1>10, <1>11, <2>2, <2>3, SeqEqual
<1>14. ASSUME a = b PROVE s1[k] = s2[k]
  <2>1. l1 = l2
    BY <1>10, <1>11, <1>14
  <2>2. CASE s1[k] # NUL /\ s2[k] # NUL
    BY <1>8, <1>10, <1>11, <1>14, <2>1, <2>2
  <2>3. CASE s1[k] = NUL \/ s2[k] = NUL
    BY <1>8, <1>10, <1>11, <2>1, <2>3
  <2>4. QED
    BY <2>2, <2>3
<1>15. QED
  BY <1>1, <1>7, <1>9, <1>10, <1>11, <1>12, <1>13, <1>14 DEF a, b

LEMMA FirstNIs ==
    ASSUME NEW t \in Seq(Chars), NEW n \in Nat
    PROVE  /\ FirstN(t, n) \in Seq(Chars)
           /\ Len(FirstN(t, n)) = IF n < Len(t) THEN n ELSE Len(t)
           /\ \A i \in 1..n : i <= Len(t) => FirstN(t, n)[i] = t[i]
<1> DEFINE l == IF n < Len(t) THEN n ELSE Len(t)
<1>1. l \in Nat /\ l <= Len(t) /\ Len(t) \in Nat
  OBVIOUS
<1>2. FirstN(t, n) = SubSeq(t, 1, l)
  BY DEF FirstN, AtMost
<1>3. \A i \in 1..n : i <= Len(t) => i \in 1..l
  OBVIOUS
<1> HIDE DEF l
<1>4. \A i \in 1..l : t[i] \in Chars
  BY <1>1
<1>5. /\ SubSeq(t, 1, l) \in Seq(Chars)
      /\ Len(SubSeq(t, 1, l)) = IF 1 <= l THEN l - 1 + 1 ELSE 0
      /\ \A i \in 1..(l - 1 + 1) : SubSeq(t, 1, l)[i] = t[1 + i - 1]
  BY <1>1, <1>4, SubSeqProperties
<1>6. Len(SubSeq(t, 1, l)) = l /\ \A i \in 1..l : SubSeq(t, 1, l)[i] = t[i]
  BY <1>1, <1>5
<1>7. QED
  BY <1>2, <1>3, <1>5, <1>6 DEF l

LEMMA StrncmpSame ==
    ASSUME NEW s1, NEW s2, IsString(s1), IsString(s2), NEW n \in Nat
    PROVE  strncmp(s1, s2, n) = 0 <=> FirstN(TextOf(s1), n) = FirstN(TextOf(s2), n)
<1> DEFINE N == n + 1
           Goes(k) == k <= n /\ s1[k] = s2[k] /\ s1[k] # NUL
           Result(k) == IF k > n THEN 0 ELSE IF s1[k] # s2[k] THEN s1[k] - s2[k] ELSE 0
           Stops == {k \in 1..N : ~ Goes(k)}
           val == [k \in 1..N |-> Result(k)]
           Step(g) == [k \in 1..(n + 1) |->
                         IF k > n THEN 0
                         ELSE IF s1[k] # s2[k] THEN s1[k] - s2[k]
                         ELSE IF s1[k] = NUL THEN 0 ELSE g[k + 1]]
           loop == CHOOSE g : g = Step(g)
<1>1. strncmp(s1, s2, n) = loop[1]
  BY DEF strncmp
<1>2. N \in Nat \ {0} /\ Stops \in SUBSET (1..N) /\ N \in Stops
  OBVIOUS
<1>3. \A g : Step(g) = LoopStep(N, Stops, val, g)
  <2> SUFFICES ASSUME NEW g, NEW k \in 1..N
               PROVE  Step(g)[k] = IF k \in Stops THEN val[k] ELSE g[k + 1]
    BY DEF LoopStep
  <2>1. k > n <=> ~ (k <= n)
    OBVIOUS
  <2>2. QED
    BY <2>1
<1> HIDE DEF N, Stops, val
<1>4. \E g : g = LoopStep(N, Stops, val, g)
  BY <1>2, LoopExists
<1>5. loop = LoopStep(N, Stops, val, loop)
  <2>1. loop = Step(loop)
    <3> HIDE DEF Step
    <3>1. QED
      BY <1>3, <1>4
  <2> HIDE DEF loop, Step
  <2>2. QED
    BY <1>3, <2>1
<1> HIDE DEF loop, Step, Goes, Result
<1>6. PICK k \in Stops : (\A h \in 1..(k - 1) : h \notin Stops) /\ loop[1] = val[k]
  <2>1. IsLoop(N, Stops, val, loop)
    BY <1>2, <1>5, Zenon DEF IsLoop
  <2>2. QED
    BY <2>1, LoopResult
<1>7. loop[1] = val[k]
  BY <1>6
<1>8. k \in 1..N /\ k \in Nat \ {0} /\ k - 1 <= n /\ ~ Goes(k)
      /\ \A h \in 1..(k - 1) : s1[h] = s2[h] /\ s1[h] # NUL /\ s2[h] # NUL
  <2>1. k \in 1..N /\ N \in Nat
    BY <1>2
  <2>2. \A h \in 1..(k - 1) : h \in 1..N
    BY <2>1
  <2>3. k \in Nat \ {0} /\ k - 1 <= n
    BY <2>1 DEF N
  <2>4. QED
    BY <1>6, <2>1, <2>2, <2>3, Zenon DEF Stops, Goes
<1>9. val[k] = Result(k)
  BY <1>8 DEF val
<1> DEFINE a == TextOf(s1)
           b == TextOf(s2)
           l1 == strlen(s1)
           l2 == strlen(s2)
<1>10. /\ l1 \in Nat /\ k - 1 <= l1 /\ (s1[k] = NUL => l1 = k - 1) /\ (s1[k] # NUL => k <= l1)
       /\ s1[k] \in Chars /\ a \in Seq(Chars) /\ Len(a) = l1 /\ \A i \in 1..l1 : a[i] = s1[i]
  BY <1>8, NotEnded
<1>11. /\ l2 \in Nat /\ k - 1 <= l2 /\ (s2[k] = NUL => l2 = k - 1) /\ (s2[k] # NUL => k <= l2)
       /\ s2[k] \in Chars /\ b \in Seq(Chars) /\ Len(b) = l2 /\ \A i \in 1..l2 : b[i] = s2[i]
  BY <1>8, NotEnded
<1> HIDE DEF a, b, l1, l2
<1> DEFINE fa == FirstN(a, n)
           fb == FirstN(b, n)
<1>12. /\ fa \in Seq(Chars) /\ Len(fa) = (IF n < l1 THEN n ELSE l1)
       /\ \A i \in 1..n : i <= l1 => fa[i] = s1[i]
  <2>1. /\ fa \in Seq(Chars) /\ Len(fa) = (IF n < Len(a) THEN n ELSE Len(a))
        /\ \A i \in 1..n : i <= Len(a) => fa[i] = a[i]
    BY <1>10, FirstNIs
  <2> HIDE DEF fa
  <2>2. \A i \in 1..n : i <= l1 => i \in 1..l1
    BY <1>10
  <2>3. QED
    BY <1>10, <2>1, <2>2
<1>13. /\ fb \in Seq(Chars) /\ Len(fb) = (IF n < l2 THEN n ELSE l2)
       /\ \A i \in 1..n : i <= l2 => fb[i] = s2[i]
  <2>1. /\ fb \in Seq(Chars) /\ Len(fb) = (IF n < Len(b) THEN n ELSE Len(b))
        /\ \A i \in 1..n : i <= Len(b) => fb[i] = b[i]
    BY <1>11, FirstNIs
  <2> HIDE DEF fb
  <2>2. \A i \in 1..n : i <= l2 => i \in 1..l2
    BY <1>11
  <2>3. QED
    BY <1>11, <2>1, <2>2
<1> HIDE DEF fa, fb
<1>14. ASSUME k <= n => s1[k] = s2[k] PROVE fa = fb /\ Result(k) = 0
  <2>1. Result(k) = 0
    <3>1. k > n \/ k <= n
      BY <1>8
    <3>2. QED
      BY <1>14, <3>1, Zenon DEF Result
  <2>2. CASE k <= n
    <3>1. s1[k] = NUL /\ s2[k] = NUL
      BY <1>8, <1>14, <2>2 DEF Goes
    <3>2. l1 = k - 1 /\ l2 = k - 1
      BY <1>10, <1>11, <3>1
    <3>3. Len(fa) = k - 1 /\ Len(fb) = k - 1
      BY <1>8, <1>12, <1>13, <2>2, <3>2
    <3>4. \A i \in 1..(k - 1) : fa[i] = fb[i]
      BY <1>8, <1>12, <1>13, <2>2, <3>2
    <3>5. QED
      BY <1>12, <1>13, <2>1, <3>3, <3>4, SeqEqual
  <2>3. CASE ~ (k <= n)
    <3>1. k - 1 = n
      BY <1>8, <2>3
    <3>2. Len(fa) = n /\ Len(fb) = n
      BY <1>10, <1>11, <1>12, <1>13, <3>1
    <3>3. \A i \in 1..n : fa[i] = fb[i]
      BY <1>8, <1>10, <1>11, <1>12, <1>13, <3>1
    <3>4. QED
      BY <1>12, <1>13, <2>1, <3>2, <3>3, SeqEqual
  <2>4. QED
    BY <2>2, <2>3
<1>15. ASSUME k <= n, s1[k] # s2[k] PROVE fa # fb /\ Result(k) # 0
  <2>1. Result(k) # 0
    <3>1. \A c, d \in Chars : c # d => c - d # 0
      BY DEF Chars
    <3>2. ~ (k > n)
      BY <1>8, <1>15
    <3>3. QED
      BY <1>10, <1>11, <1>15, <3>1, <3>2, Zenon DEF Result
  <2>2. ASSUME fa = fb PROVE FALSE
    <3>1. (IF n < l1 THEN n ELSE l1) = (IF n < l2 THEN n ELSE l2)
      BY <1>12, <1>13, <2>2
    <3>2. CASE k <= l1 /\ k <= l2
      <4>1. k \in 1..n
        BY <1>8, <1>15
      <4>2. QED
        BY <1>12, <1>13, <1>15, <2>2, <3>2, <4>1
    <3>3. CASE ~ (k <= l1 /\ k <= l2)
      <4>1. s1[k] = NUL \/ s2[k] = NUL
        BY <1>10, <1>11, <3>3
      <4>2. s1[k] = NUL /\ s2[k] = NUL
        BY <1>8, <1>10, <1>11, <1>15, <3>1, <4>1
      <4>3. QED
        BY <1>15, <4>2
    <3>4. QED
      BY <3>2, <3>3
  <2>3. QED
    BY <2>1, <2>2
<1>16. QED
  BY <1>1, <1>7, <1>9, <1>14, <1>15, Zenon DEF a, b, fa, fb

LEMMA MemcmpDiffers ==
    ASSUME NEW b1 \in Seq(Chars), NEW b2 \in Seq(Chars), NEW n \in Nat,
           n <= Len(b1), n <= Len(b2), NEW d \in 1..n, b1[d] # b2[d]
    PROVE  memcmp(b1, b2, n) # 0
<1> DEFINE N == n + 1
           Goes(k) == k <= n /\ b1[k] = b2[k]
           Stops == {k \in 1..N : ~ Goes(k)}
           val == [k \in 1..N |-> b1[k] - b2[k]]
           Step(g) == [k \in 1..(n + 1) |-> IF k <= n /\ b1[k] = b2[k] THEN g[k + 1]
                                           ELSE b1[k] - b2[k]]
           loop == CHOOSE g : g = Step(g)
<1>1. memcmp(b1, b2, n) = loop[1]
  BY DEF memcmp
<1>2. N \in Nat \ {0} /\ Stops \in SUBSET (1..N) /\ N \in Stops
  OBVIOUS
<1>3. \A g : Step(g) = LoopStep(N, Stops, val, g)
  BY DEF LoopStep
<1>4. d \in Stops
  OBVIOUS
<1> HIDE DEF N, Stops, val
<1>5. \E g : g = LoopStep(N, Stops, val, g)
  BY <1>2, LoopExists
<1>6. loop = LoopStep(N, Stops, val, loop)
  <2>1. loop = Step(loop)
    <3> HIDE DEF Step
    <3>1. QED
      BY <1>3, <1>5
  <2> HIDE DEF loop, Step
  <2>2. QED
    BY <1>3, <2>1
<1> HIDE DEF loop, Step
<1>7. PICK k \in Stops : (\A h \in 1..(k - 1) : h \notin Stops) /\ loop[1] = val[k]
  <2>1. IsLoop(N, Stops, val, loop)
    BY <1>2, <1>6, Zenon DEF IsLoop
  <2>2. QED
    BY <2>1, LoopResult
<1>8. loop[1] = val[k]
  BY <1>7
<1>9. k \in 1..n
  <2>1. k \in 1..N /\ N \in Nat
    BY <1>2
  <2>2. ~ (d \in 1..(k - 1))
    BY <1>4, <1>7
  <2>3. QED
    BY <2>1, <2>2
<1>10. b1[k] # b2[k] /\ val[k] = b1[k] - b2[k]
  BY <1>7, <1>9 DEF Stops, val, N
<1>11. b1[k] \in Chars /\ b2[k] \in Chars
  BY <1>9
<1>12. \A c, e \in Chars : c # e => c - e # 0
  BY DEF Chars
<1>13. QED
  BY <1>1, <1>8, <1>10, <1>11, <1>12, Zenon

(* A call that compares. *)
LEMMA ComparingCalls == call \in Calls => ComparesStrings
<1> SUFFICES ASSUME call \in Calls, call.fn = "compare"
             PROVE  ComparesStrings
  BY DEF ComparesStrings
<1> DEFINE s1 == call.s1
           s2 == call.s2
           n == call.n
<1>1. /\ s1 \in Seq(Chars) /\ s2 \in Seq(Chars) /\ IsString(s1) /\ IsString(s2)
      /\ n \in Nat /\ n <= Len(s1) /\ n <= Len(s2)
  BY CallsAssumption DEF IsString
<1> HIDE DEF s1, s2, n
<1>2. strcmp(s1, s2) = 0 <=> TextOf(s1) = TextOf(s2)
  BY <1>1, StrcmpSame
<1>3. strncmp(s1, s2, n) = 0 <=> FirstN(TextOf(s1), n) = FirstN(TextOf(s2), n)
  BY <1>1, StrncmpSame
<1>4. (\E k \in 1..n : s1[k] # s2[k]) => memcmp(s1, s2, n) # 0
  BY <1>1, MemcmpDiffers
<1>5. QED
  BY <1>2, <1>3, <1>4, Zenon DEF ComparesStrings, s1, s2, n

-----------------------------------------------------------------------------
(* A text with its NUL. *)
LEMMA AsString ==
    ASSUME NEW t \in Seq(Chars \ {NUL}), NEW s, s = Append(t, NUL)
    PROVE  /\ Len(t) \in Nat /\ Len(s) = Len(t) + 1 /\ s[Len(t) + 1] = NUL
           /\ \A i \in 1..Len(t) : s[i] = t[i] /\ t[i] \in Chars /\ s[i] # NUL
<1>1. Len(t) \in Nat /\ \A i \in 1..Len(t) : t[i] \in Chars \ {NUL}
  OBVIOUS
<1>2. NUL \in Chars
  BY DEF NUL, Chars
<1>3. t \in Seq(Chars)
  BY SeqMonotonic
<1>4. /\ Len(s) = Len(t) + 1 /\ s[Len(t) + 1] = NUL
      /\ \A i \in 1..Len(t) : s[i] = t[i]
  BY <1>2, <1>3, AppendProperties
<1>5. QED
  BY <1>1, <1>4

(* memmem for short inputs. *)
LEMMA MatchedIs ==
    ASSUME NEW hay \in Seq(Chars), NEW needle \in Seq(Chars), NEW n \in 1..(Len(hay) + 1),
           NEW j, j = Matched(hay, needle, n)
    PROVE  /\ j \in 0..Len(needle) /\ n - 1 + j <= Len(hay)
           /\ n - 1 \in PlacesIn(hay, needle) <=> j = Len(needle)
<1> DEFINE H == Len(hay)
           L == Len(needle)
           N == L + 1
           Goes(k) == k <= L /\ n + k - 1 <= H /\ hay[n + k - 1] = needle[k]
           Stops == {k \in 1..N : ~ Goes(k)}
           val == [k \in 1..N |-> k - 1]
           Step(g) == [k \in 1..(L + 1) |->
                         IF k <= L /\ n + k - 1 <= H /\ hay[n + k - 1] = needle[k]
                         THEN g[k + 1] ELSE k - 1]
           loop == CHOOSE g : g = Step(g)
<1>1. j = loop[1]
  BY DEF Matched
<1>2. H \in Nat /\ L \in Nat
  OBVIOUS
<1>3. N \in Nat \ {0} /\ Stops \in SUBSET (1..N) /\ N \in Stops
  BY <1>2
<1>4. \A g : Step(g) = LoopStep(N, Stops, val, g)
  BY DEF LoopStep
<1> HIDE DEF N, Stops, val
<1>5. \E g : g = LoopStep(N, Stops, val, g)
  BY <1>3, LoopExists
<1>6. loop = LoopStep(N, Stops, val, loop)
  <2>1. loop = Step(loop)
    <3> HIDE DEF Step
    <3>1. QED
      BY <1>4, <1>5
  <2> HIDE DEF loop, Step
  <2>2. QED
    BY <1>4, <2>1
<1> HIDE DEF loop, Step, Goes
<1>7. PICK k \in Stops : (\A h \in 1..(k - 1) : h \notin Stops) /\ loop[1] = val[k]
  <2>1. IsLoop(N, Stops, val, loop)
    BY <1>3, <1>6, Zenon DEF IsLoop
  <2>2. QED
    BY <2>1, LoopResult
<1>8. loop[1] = val[k]
  BY <1>7
<1>9. /\ k \in 1..N /\ ~ Goes(k) /\ \A h \in 1..(k - 1) : h \in 1..N => Goes(h)
      /\ j = k - 1
  BY <1>1, <1>7, <1>8 DEF Stops, val
<1>10. k \in 1..(L + 1) /\ j \in 0..L /\ \A h \in 1..j : Goes(h)
  <2>1. k \in 1..(L + 1) /\ j = k - 1
    BY <1>9 DEF N
  <2>2. \A h \in 1..j : h \in 1..N /\ h \in 1..(k - 1)
    BY <1>2, <2>1 DEF N
  <2>3. j \in 0..L
    BY <1>2, <2>1
  <2>4. QED
    BY <1>9, <2>1, <2>2, <2>3
<1>11. n - 1 + j <= H
  <2>1. CASE j = 0
    BY <1>2, <2>1
  <2>2. CASE j # 0
    <3>1. j \in 1..j /\ n + j - 1 = n - 1 + j
      BY <1>2, <1>10, <2>2
    <3>2. QED
      BY <1>10, <3>1 DEF Goes
  <2>3. QED
    BY <2>1, <2>2
<1>12. n - 1 \in PlacesIn(hay, needle) <=>
         n - 1 + L <= H /\ \A m \in 1..L : hay[n - 1 + m] = needle[m]
  <2>1. n - 1 \in Nat
    BY <1>2
  <2>2. \A p : p \in PlacesIn(hay, needle) <=>
          /\ p \in Nat /\ p + L <= H
          /\ \A m \in 1..L : hay[p + m] = needle[m]
    BY PlacesAre
  <2>3. QED
    BY <2>1, <2>2, Zenon
<1>13. \A m \in 1..L : n - 1 + m = n + m - 1
  BY <1>2
<1>14. ASSUME j = L PROVE n - 1 \in PlacesIn(hay, needle)
  BY <1>10, <1>11, <1>12, <1>13, <1>14 DEF Goes
<1>15. ASSUME j # L PROVE n - 1 \notin PlacesIn(hay, needle)
  <2>1. k \in 1..L
    BY <1>2, <1>9, <1>10, <1>15
  <2>2. n - 1 + L <= H => n + k - 1 <= H
    BY <1>2, <2>1
  <2>3. QED
    BY <1>9, <1>12, <1>13, <2>1, <2>2 DEF Goes
<1>16. QED
  BY <1>10, <1>11, <1>14, <1>15

LEMMA NaiveIs ==
    ASSUME NEW hay \in Seq(Chars), NEW needle \in Seq(Chars), needle # <<>>
    PROVE  Naive(hay, needle) = From(hay, needle, 0)
<1> DEFINE H == Len(hay)
           L == Len(needle)
           N == H + 1
           J(n) == Matched(hay, needle, n)
           Stops == {n \in 1..N : J(n) = L \/ n - 1 + J(n) = H}
           val == [n \in 1..N |-> IF J(n) = L THEN n - 1 ELSE NULL]
           Step(g) == [n \in 1..(H + 1) |->
                         IF J(n) = L THEN n - 1
                         ELSE IF n - 1 + J(n) = H THEN NULL ELSE g[n + 1]]
           loop == CHOOSE g : g = Step(g)
<1>1. Naive(hay, needle) = loop[1]
  BY DEF Naive
<1>2. H \in Nat /\ L \in Nat \ {0}
  BY EmptySeq
<1>3. \A n \in 1..N : /\ J(n) \in 0..L /\ n - 1 + J(n) <= H
                      /\ n - 1 \in PlacesIn(hay, needle) <=> J(n) = L
  <2> HIDE DEF J
  <2>1. QED
    BY MatchedIs DEF J
<1> HIDE DEF J
<1>4. N \in Nat \ {0} /\ Stops \in SUBSET (1..N) /\ N \in Stops
  BY <1>2, <1>3
<1>5. \A g : Step(g) = LoopStep(N, Stops, val, g)
  BY DEF LoopStep
<1> HIDE DEF Stops, val
<1>6. \E g : g = LoopStep(N, Stops, val, g)
  <2> HIDE DEF N
  <2>1. QED
    BY <1>4, LoopExists
<1>7. loop = LoopStep(N, Stops, val, loop)
  <2>1. loop = Step(loop)
    <3> HIDE DEF Step
    <3>1. QED
      BY <1>5, <1>6
  <2> HIDE DEF loop, Step
  <2>2. QED
    BY <1>5, <2>1
<1> HIDE DEF loop, Step, N
<1>8. PICK k \in Stops : (\A h \in 1..(k - 1) : h \notin Stops) /\ loop[1] = val[k]
  <2>1. IsLoop(N, Stops, val, loop)
    BY <1>4, <1>7, Zenon DEF IsLoop
  <2>2. QED
    BY <2>1, LoopResult
<1>9. loop[1] = val[k]
  BY <1>8
<1>10. k \in 1..N /\ (J(k) = L \/ k - 1 + J(k) = H) /\ val[k] = IF J(k) = L THEN k - 1 ELSE NULL
  BY <1>8 DEF Stops, val
<1>11. k \in Nat \ {0} /\ k - 1 \in Nat /\ 0 <= k - 1
  BY <1>2, <1>10 DEF N
<1>12. \A p \in 0..((k - 1) - 1) : p \notin PlacesIn(hay, needle)
  <2> SUFFICES ASSUME NEW p \in 0..((k - 1) - 1), p \in PlacesIn(hay, needle) PROVE FALSE
    OBVIOUS
  <2>1. p + 1 \in 1..(k - 1) /\ p + 1 \in 1..N /\ (p + 1) - 1 = p
    BY <1>2, <1>10 DEF N
  <2>2. J(p + 1) = L
    BY <1>3, <2>1
  <2>3. QED
    BY <1>8, <2>1, <2>2 DEF Stops
<1>13. From(hay, needle, 0) = From(hay, needle, k - 1)
  BY <1>11, <1>12, FromSkips
<1>14. CASE J(k) = L
  BY <1>1, <1>3, <1>9, <1>10, <1>13, <1>14, FromHere
<1>15. CASE J(k) # L
  <2>1. k - 1 + L > H
    BY <1>2, <1>3, <1>10, <1>11, <1>15
  <2>2. From(hay, needle, k - 1) = NULL
    BY <1>11, <2>1, FromEnd
  <2>3. QED
    BY <1>1, <1>9, <1>10, <1>13, <1>15, <2>2
<1>16. QED
  BY <1>14, <1>15

-----------------------------------------------------------------------------
(* memmem for long inputs: nothing is skipped. *)
LEMMA SkipIs ==
    ASSUME NEW hay \in Seq(Chars), NEW needle \in Seq(Chars), needle # <<>>,
           NEW at \in Nat, at + Len(needle) <= Len(hay),
           at \notin PlacesIn(hay, needle),
           NEW skip, skip = bad_char_skip(needle, hay[at + Len(needle)])
    PROVE  /\ skip \in 1..Len(needle)
           /\ \A p \in at..(at + skip - 1) : p \notin PlacesIn(hay, needle)
<1> DEFINE H == Len(hay)
           L == Len(needle)
           c == hay[at + L]
           last == L - 1
           same == {scan \in 0..(last - 1) : needle[scan + 1] = c}
<1>1. H \in Nat /\ L \in Nat \ {0} /\ last \in Nat
  BY EmptySeq
<1>2. /\ same = {} => skip = L
      /\ same # {} => skip = last - CHOOSE scan \in same : \A p \in same : p <= scan
  BY DEF bad_char_skip
<1>3. \A d \in 1..last : at + d \in PlacesIn(hay, needle) => last - d \in same
  <2> SUFFICES ASSUME NEW d \in 1..last, at + d \in PlacesIn(hay, needle)
               PROVE  last - d \in same
    OBVIOUS
  <2>1. \A m \in 1..L : hay[at + d + m] = needle[m]
    BY PlacesAre
  <2>2. L - d \in 1..L /\ at + d + (L - d) = at + L /\ last - d \in 0..(last - 1)
        /\ last - d + 1 = L - d
    BY <1>1
  <2>3. hay[at + L] = needle[L - d]
    BY <2>1, <2>2
  <2>4. QED
    BY <2>2, <2>3
<1>4. same \in SUBSET (0..last)
  BY <1>1
<1> HIDE DEF H, L, c, last, same
<1>5. skip \in 1..L /\ \A d \in 1..last : last - d \in same => skip <= d
  <2>1. L = last + 1
    BY <1>1 DEF last
  <2>2. CASE same = {}
    BY <1>1, <1>2, <2>2
  <2>3. CASE same # {}
    <3> DEFINE far == CHOOSE scan \in same : \A p \in same : p <= scan
    <3>1. \E scan \in same : \A p \in same : p <= scan
      BY <1>1, <1>4, <2>3, GreatestOf
    <3>2. far \in same /\ \A p \in same : p <= far
      BY <3>1
    <3>3. skip = last - far
      BY <1>2, <2>3
    <3> HIDE DEF far
    <3>4. far \in 0..(last - 1)
      BY <3>2 DEF same
    <3>5. ASSUME NEW d \in 1..last, last - d \in same PROVE skip <= d
      <4>1. last - d <= far
        BY <3>2, <3>5
      <4>2. QED
        BY <1>1, <3>3, <3>4, <4>1
    <3>6. skip \in 1..L
      BY <1>1, <2>1, <3>3, <3>4
    <3>7. QED
      BY <3>5, <3>6
  <2>4. QED
    BY <2>2, <2>3
<1>6. ASSUME NEW p \in at..(at + skip - 1), p \in PlacesIn(hay, needle) PROVE FALSE
  <2>1. p # at
    BY <1>6
  <2>2. p - at \in 1..last /\ at + (p - at) = p /\ ~ (skip <= p - at)
    BY <1>1, <1>5, <2>1 DEF last
  <2>3. last - (p - at) \in same
    BY <1>3, <1>6, <2>2
  <2>4. QED
    BY <1>5, <2>2, <2>3
<1>7. QED
  BY <1>5, <1>6 DEF L

LEMMA HorspoolIs ==
    ASSUME NEW hay \in Seq(Chars), NEW needle \in Seq(Chars), needle # <<>>
    PROVE  boyermoore_horspool_memmem(hay, needle) = From(hay, needle, 0)
<1> DEFINE H == Len(hay)
           L == Len(needle)
           Skip(at) == bad_char_skip(needle, hay[at + L])
           Step(g) == [at \in 0..(H + L) |->
                         IF at + L > H THEN NULL
                         ELSE IF SubSeq(hay, at + 1, at + L) = needle THEN at
                         ELSE g[at + Skip(at)]]
           closed == [at \in 0..(H + L) |-> From(hay, needle, at)]
           loop == CHOOSE g : g = Step(g)
<1>1. boyermoore_horspool_memmem(hay, needle) = loop[0]
  BY DEF boyermoore_horspool_memmem
<1>2. H \in Nat /\ L \in Nat \ {0}
  BY EmptySeq
<1>3. \A at \in 0..(H + L) : at + L <= H =>
        (SubSeq(hay, at + 1, at + L) = needle <=> at \in PlacesIn(hay, needle))
  <2> SUFFICES ASSUME NEW at \in 0..(H + L), at + L <= H
               PROVE  SubSeq(hay, at + 1, at + L) = needle <=> at \in PlacesIn(hay, needle)
    OBVIOUS
  <2>1. at \in 0..(H - L)
    BY <1>2
  <2>2. QED
    BY <2>1, Zenon DEF PlacesIn
<1>4. ASSUME NEW at \in 0..(H + L), at + L <= H, at \notin PlacesIn(hay, needle)
      PROVE  at + Skip(at) \in (at + 1)..H /\ From(hay, needle, at) = From(hay, needle, at + Skip(at))
  <2> DEFINE skip == Skip(at)
  <2>1. skip \in 1..L /\ \A p \in at..(at + skip - 1) : p \notin PlacesIn(hay, needle)
    <3>1. at \in Nat
      BY <1>2
    <3>2. skip = bad_char_skip(needle, hay[at + L])
      OBVIOUS
    <3> HIDE DEF skip
    <3>3. QED
      BY <1>4, <3>1, <3>2, SkipIs
  <2> HIDE DEF skip
  <2>2. at \in Nat /\ at + skip \in Nat /\ at <= at + skip /\ at + skip \in (at + 1)..H
    BY <1>2, <1>4, <2>1
  <2>3. From(hay, needle, at) = From(hay, needle, at + skip)
    BY <2>1, <2>2, FromSkips
  <2>4. QED
    BY <2>2, <2>3 DEF skip
<1> HIDE DEF Skip
<1>5. ASSUME NEW at \in 0..(H + L) PROVE closed[at] = Step(closed)[at]
  <2>1. CASE at + L > H
    <3>1. From(hay, needle, at) = NULL
      BY <1>2, <2>1, FromEnd
    <3>2. QED
      BY <2>1, <3>1
  <2>2. CASE ~ (at + L > H) /\ at \in PlacesIn(hay, needle)
    <3>1. From(hay, needle, at) = at
      BY <2>2, FromHere
    <3>2. SubSeq(hay, at + 1, at + L) = needle
      BY <1>2, <1>3, <2>2
    <3>3. QED
      BY <2>2, <3>1, <3>2
  <2>3. CASE ~ (at + L > H) /\ at \notin PlacesIn(hay, needle)
    <3>1. at + L <= H
      BY <1>2, <2>3
    <3>2. SubSeq(hay, at + 1, at + L) # needle
      BY <1>3, <2>3, <3>1
    <3>3. at + Skip(at) \in 0..(H + L) /\ From(hay, needle, at) = From(hay, needle, at + Skip(at))
      BY <1>2, <1>4, <2>3, <3>1
    <3>4. Step(closed)[at] = closed[at + Skip(at)]
      BY <2>3, <3>2
    <3>5. QED
      BY <3>3, <3>4
  <2>4. QED
    BY <2>1, <2>2, <2>3
<1>6. closed = Step(closed)
  BY <1>5
<1>7. loop = Step(loop)
  <2> HIDE DEF closed, Step
  <2>1. QED
    BY <1>6
<1> HIDE DEF loop
<1> DEFINE Good == {at \in 0..(H + L) : loop[at] = From(hay, needle, at)}
<1>8. ASSUME NEW at \in 0..(H + L), \A h \in (at + 1)..(H + L) : h \in Good
      PROVE  at \in Good
  <2>1. loop[at] = Step(loop)[at]
    BY <1>7
  <2>2. CASE at + L > H
    <3>1. From(hay, needle, at) = NULL
      BY <1>2, <2>2, FromEnd
    <3>2. QED
      BY <2>1, <2>2, <3>1
  <2>3. CASE ~ (at + L > H) /\ at \in PlacesIn(hay, needle)
    <3>1. From(hay, needle, at) = at
      BY <2>3, FromHere
    <3>2. SubSeq(hay, at + 1, at + L) = needle
      BY <1>2, <1>3, <2>3
    <3>3. QED
      BY <2>1, <2>3, <3>1, <3>2
  <2>4. CASE ~ (at + L > H) /\ at \notin PlacesIn(hay, needle)
    <3>1. at + L <= H
      BY <1>2, <2>4
    <3>2. SubSeq(hay, at + 1, at + L) # needle
      BY <1>3, <2>4, <3>1
    <3>3. at + Skip(at) \in (at + 1)..(H + L) /\ From(hay, needle, at) = From(hay, needle, at + Skip(at))
      BY <1>2, <1>4, <2>4, <3>1
    <3>4. loop[at] = loop[at + Skip(at)]
      BY <2>1, <2>4, <3>2
    <3>5. loop[at + Skip(at)] = From(hay, needle, at + Skip(at))
      BY <1>8, <3>3
    <3>6. QED
      BY <3>3, <3>4, <3>5
  <2>5. QED
    BY <2>2, <2>3, <2>4
<1>9. 0 \in Good
  <2>1. Good \in SUBSET (0..(H + L)) /\ H + L \in Nat /\ 0 \in 0..(H + L)
    BY <1>2
  <2> HIDE DEF Good
  <2>2. \A at \in 0..(H + L) : at \in Good
    <3> DEFINE N == H + L
    <3>1. /\ N \in Nat /\ Good \in SUBSET (0..N)
          /\ \A k \in 0..N : (\A h \in (k + 1)..N : h \in Good) => k \in Good
      BY <1>8, <2>1
    <3> HIDE DEF N
    <3>2. \A k \in 0..N : k \in Good
      BY <3>1, DownInduction
    <3>3. QED
      BY <3>2 DEF N
  <2>3. QED
    BY <2>1, <2>2
<1>10. QED
  BY <1>1, <1>9

-----------------------------------------------------------------------------
(* strstr *)
LEMMA FoundIs ==
    ASSUME NEW hay \in Seq(Chars \ {NUL}), NEW needle \in Seq(Chars \ {NUL}),
           NEW s, s = Append(hay, NUL), NEW sub, sub = Append(needle, NUL),
           NEW n \in 1..Len(hay)
    PROVE  FoundAt(s, sub, n) <=> n - 1 \in PlacesIn(hay, needle)
<1> DEFINE H == Len(hay)
           L == Len(needle)
           N == Len(sub)
           Goes(b) == sub[b] # NUL /\ s[n + b - 1] = sub[b]
           Stops == {b \in 1..N : ~ Goes(b)}
           val == [b \in 1..N |-> b]
           Step(g) == [b \in 1..Len(sub) |->
                         IF sub[b] # NUL /\ s[n + b - 1] = sub[b] THEN g[b + 1] ELSE b]
           loop == CHOOSE g : g = Step(g)
<1>1. FoundAt(s, sub, n) <=> sub[loop[1]] = NUL
  BY DEF FoundAt
<1>2. /\ H \in Nat /\ s[H + 1] = NUL /\ \A i \in 1..H : s[i] = hay[i]
      /\ L \in Nat /\ N = L + 1 /\ sub[L + 1] = NUL
      /\ \A i \in 1..L : sub[i] = needle[i] /\ sub[i] # NUL
  BY AsString
<1>3. N \in Nat \ {0} /\ Stops \in SUBSET (1..N) /\ N \in Stops
  BY <1>2
<1>4. \A g : Step(g) = LoopStep(N, Stops, val, g)
  BY DEF LoopStep
<1> HIDE DEF N, Stops, val
<1>5. \E g : g = LoopStep(N, Stops, val, g)
  BY <1>3, LoopExists
<1>6. loop = LoopStep(N, Stops, val, loop)
  <2>1. loop = Step(loop)
    <3> HIDE DEF Step
    <3>1. QED
      BY <1>4, <1>5
  <2> HIDE DEF loop, Step
  <2>2. QED
    BY <1>4, <2>1
<1> HIDE DEF loop, Step, Goes
<1>7. PICK k \in Stops : (\A h \in 1..(k - 1) : h \notin Stops) /\ loop[1] = val[k]
  <2>1. IsLoop(N, Stops, val, loop)
    BY <1>3, <1>6, Zenon DEF IsLoop
  <2>2. QED
    BY <2>1, LoopResult
<1>8. loop[1] = val[k]
  BY <1>7
<1>9. k \in 1..(L + 1) /\ ~ Goes(k) /\ loop[1] = k /\ \A h \in 1..(k - 1) : Goes(h)
  <2>1. k \in 1..N /\ ~ Goes(k) /\ val[k] = k
    BY <1>7 DEF Stops, val
  <2>2. \A h \in 1..(k - 1) : h \in 1..N
    BY <1>3, <2>1
  <2>3. QED
    BY <1>2, <1>7, <1>8, <2>1, <2>2, Zenon DEF Stops
<1>10. n - 1 \in PlacesIn(hay, needle) <=>
         n - 1 + L <= H /\ \A m \in 1..L : hay[n - 1 + m] = needle[m]
  <2>1. n - 1 \in Nat
    BY <1>2
  <2>2. hay \in Seq(Chars) /\ needle \in Seq(Chars)
    BY SeqMonotonic
  <2>3. \A p : p \in PlacesIn(hay, needle) <=>
          /\ p \in Nat /\ p + L <= H
          /\ \A m \in 1..L : hay[p + m] = needle[m]
    BY <2>2, PlacesAre
  <2>4. QED
    BY <2>1, <2>3, Zenon
<1>11. \A m \in 1..L : n - 1 + m = n + m - 1
  BY <1>2
<1> HIDE DEF H, L
<1>12. ASSUME k = L + 1 PROVE n - 1 \in PlacesIn(hay, needle)
  <2>1. \A m \in 1..L : s[n + m - 1] = needle[m] /\ s[n + m - 1] # NUL
    <3>1. \A m \in 1..L : m \in 1..(k - 1)
      BY <1>2, <1>12
    <3>2. QED
      BY <1>2, <1>9, <3>1, Zenon DEF Goes
  <2>2. n - 1 + L <= H
    <3> SUFFICES ASSUME ~ (n - 1 + L <= H) PROVE FALSE
      OBVIOUS
    <3>1. n \in 1..H
      BY DEF H
    <3>2. H - n + 2 \in 1..L /\ n + (H - n + 2) - 1 = H + 1
      BY <1>2, <3>1
    <3>3. QED
      BY <1>2, <2>1, <3>2
  <2>3. \A m \in 1..L : n + m - 1 \in 1..H
    <3>1. n \in 1..H
      BY DEF H
    <3>2. QED
      BY <1>2, <2>2, <3>1
  <2>4. QED
    BY <1>2, <1>10, <1>11, <2>1, <2>2, <2>3
<1>13. ASSUME n - 1 \in PlacesIn(hay, needle), k \in 1..L PROVE FALSE
  <2>1. n + k - 1 \in 1..H
    <3>1. n \in 1..H
      BY DEF H
    <3>2. QED
      BY <1>2, <1>10, <1>13, <3>1
  <2>2. hay[n - 1 + k] = needle[k] /\ n - 1 + k = n + k - 1
    BY <1>10, <1>11, <1>13
  <2>3. s[n + k - 1] = sub[k] /\ sub[k] # NUL
    BY <1>2, <1>13, <2>1, <2>2
  <2>4. QED
    BY <1>9, <2>3 DEF Goes
<1>14. k \in 1..L \/ k = L + 1
  BY <1>2, <1>9
<1>15. QED
  BY <1>1, <1>2, <1>9, <1>12, <1>13, <1>14

LEMMA StrstrIs ==
    ASSUME NEW hay \in Seq(Chars \ {NUL}), NEW needle \in Seq(Chars \ {NUL}), needle # <<>>,
           NEW s, s = Append(hay, NUL), NEW sub, sub = Append(needle, NUL)
    PROVE  strstr(s, sub) = From(hay, needle, 0)
<1> DEFINE H == Len(hay)
           N == Len(s)
           Found(n) == FoundAt(s, sub, n)
           Stops == {n \in 1..N : s[n] = NUL \/ Found(n)}
           val == [n \in 1..N |-> IF s[n] = NUL THEN NULL ELSE n - 1]
           Step(g) == [n \in 1..Len(s) |->
                         IF s[n] = NUL THEN NULL
                         ELSE IF Found(n) THEN n - 1 ELSE g[n + 1]]
           loop == CHOOSE g : g = Step(g)
<1>1. /\ H \in Nat /\ N = H + 1 /\ s[H + 1] = NUL /\ \A i \in 1..H : s[i] # NUL
      /\ sub[1] # NUL /\ Len(needle) \in Nat \ {0}
      /\ hay \in Seq(Chars) /\ needle \in Seq(Chars)
  <2>1. H \in Nat /\ N = H + 1 /\ s[H + 1] = NUL /\ \A i \in 1..H : s[i] # NUL
    BY AsString
  <2>2. Len(needle) \in Nat \ {0}
    BY EmptySeq
  <2>3. sub[1] # NUL
    BY <2>2, AsString
  <2>4. QED
    BY <2>1, <2>2, <2>3, SeqMonotonic
<1>2. strstr(s, sub) = loop[1]
  BY <1>1 DEF strstr
<1>3. N \in Nat \ {0} /\ Stops \in SUBSET (1..N) /\ N \in Stops
  BY <1>1
<1>4. \A g : Step(g) = LoopStep(N, Stops, val, g)
  <2> HIDE DEF Found
  <2>1. QED
    BY DEF LoopStep
<1> HIDE DEF N, Stops, val
<1>5. \E g : g = LoopStep(N, Stops, val, g)
  BY <1>3, LoopExists
<1>6. loop = LoopStep(N, Stops, val, loop)
  <2>1. loop = Step(loop)
    <3> HIDE DEF Step
    <3>1. QED
      BY <1>4, <1>5
  <2> HIDE DEF loop, Step
  <2>2. QED
    BY <1>4, <2>1
<1> HIDE DEF loop, Step
<1>7. PICK k \in Stops : (\A h \in 1..(k - 1) : h \notin Stops) /\ loop[1] = val[k]
  <2>1. IsLoop(N, Stops, val, loop)
    BY <1>3, <1>6, Zenon DEF IsLoop
  <2>2. QED
    BY <2>1, LoopResult
<1>8. loop[1] = val[k]
  BY <1>7
<1>9. k \in 1..N /\ (s[k] = NUL \/ Found(k)) /\ val[k] = IF s[k] = NUL THEN NULL ELSE k - 1
  BY <1>7 DEF Stops, val
<1>10. \A n \in 1..H : Found(n) <=> n - 1 \in PlacesIn(hay, needle)
  BY FoundIs
<1> HIDE DEF Found, H
<1>11. k \in 1..(H + 1) /\ k - 1 \in Nat /\ 0 <= k - 1
  BY <1>1, <1>9
<1>12. \A p \in 0..((k - 1) - 1) : p \notin PlacesIn(hay, needle)
  <2> SUFFICES ASSUME NEW p \in 0..((k - 1) - 1), p \in PlacesIn(hay, needle) PROVE FALSE
    OBVIOUS
  <2>1. p + 1 \in 1..(k - 1) /\ p + 1 \in 1..H /\ p + 1 \in 1..N /\ (p + 1) - 1 = p
    BY <1>1, <1>11
  <2>2. Found(p + 1)
    BY <1>10, <2>1
  <2>3. QED
    BY <1>7, <2>1, <2>2 DEF Stops
<1>13. From(hay, needle, 0) = From(hay, needle, k - 1)
  BY <1>1, <1>11, <1>12, FromSkips
<1>14. CASE k \in 1..H
  <2>1. k - 1 \in PlacesIn(hay, needle) /\ s[k] # NUL
    BY <1>1, <1>9, <1>10, <1>14
  <2>2. From(hay, needle, k - 1) = k - 1
    BY <1>1, <2>1, FromHere
  <2>3. QED
    BY <1>2, <1>8, <1>9, <1>13, <2>1, <2>2
<1>15. CASE k = H + 1
  <2>1. k - 1 + Len(needle) > Len(hay)
    BY <1>1, <1>15 DEF H
  <2>2. From(hay, needle, k - 1) = NULL
    BY <1>1, <1>11, <2>1, FromEnd
  <2>3. s[k] = NUL
    BY <1>1, <1>15
  <2>4. QED
    BY <1>2, <1>8, <1>9, <1>13, <2>2, <2>3
<1>16. QED
  BY <1>1, <1>11, <1>14, <1>15

(* A call that searches. *)
LEMMA SearchingCalls == call \in Calls => SearchFindsFirst
<1> SUFFICES ASSUME call \in Calls, call.fn = "search"
             PROVE  SearchFindsFirst
  BY DEF SearchFindsFirst
<1> DEFINE hay == call.hay
           needle == call.needle
<1>1. hay \in Seq(Chars \ {NUL}) /\ needle \in Seq(Chars \ {NUL})
  BY CallsAssumption
<1> HIDE DEF hay, needle
<1>2. hay \in Seq(Chars) /\ needle \in Seq(Chars) /\ Len(hay) \in Nat /\ Len(needle) \in Nat
  BY <1>1, SeqMonotonic
<1>3. CASE needle = <<>>
  <2>1. Len(needle) = 0
    BY <1>3
  <2>2. \A p : p \in PlacesIn(hay, needle) <=> p \in Nat /\ p <= Len(hay)
    <3>1. \A p : p \in PlacesIn(hay, needle) <=>
            /\ p \in Nat /\ p + Len(needle) <= Len(hay)
            /\ \A m \in 1..Len(needle) : hay[p + m] = needle[m]
      BY <1>2, PlacesAre
    <3>2. QED
      BY <2>1, <3>1
  <2>3. 0 \in PlacesIn(hay, needle) /\ \A p \in PlacesIn(hay, needle) : 0 <= p
    BY <1>2, <2>2
  <2>4. FirstPlace(hay, needle, 0)
    BY <2>3 DEF FirstPlace
  <2>5. memmem(hay, needle) = 0
    BY <1>3 DEF memmem
  <2>6. strstr(Append(hay, NUL), Append(needle, NUL)) = 0
    <3> DEFINE sub == Append(needle, NUL)
    <3>1. sub[1] = NUL
      <4>1. sub[Len(needle) + 1] = NUL
        <5> HIDE DEF sub
        <5>1. QED
          BY <1>1, AsString DEF sub
      <4>2. QED
        BY <2>1, <4>1
    <3> HIDE DEF sub
    <3>2. QED
      BY <3>1 DEF strstr, sub
  <2>7. QED
    BY <2>4, <2>5, <2>6 DEF SearchFindsFirst, hay, needle
<1>4. CASE needle # <<>>
  <2>1. memmem(hay, needle) = From(hay, needle, 0)
    <3>1. CASE Len(needle) > Len(hay)
      <4>1. From(hay, needle, 0) = NULL
        BY <1>2, <3>1, FromEnd
      <4>2. QED
        BY <1>4, <3>1, <4>1 DEF memmem
    <3>2. CASE ~ (Len(needle) > Len(hay)) /\ Len(needle) >= SkipNeedle /\ Len(hay) >= SkipHaystack
      BY <1>2, <1>4, <3>2, HorspoolIs DEF memmem
    <3>3. CASE ~ (Len(needle) > Len(hay)) /\ ~ (Len(needle) >= SkipNeedle /\ Len(hay) >= SkipHaystack)
      BY <1>2, <1>4, <3>3, NaiveIs DEF memmem
    <3>4. QED
      BY <3>1, <3>2, <3>3
  <2>2. strstr(Append(hay, NUL), Append(needle, NUL)) = From(hay, needle, 0)
    BY <1>1, <1>4, StrstrIs
  <2>3. FirstPlace(hay, needle, From(hay, needle, 0))
    BY <1>2, FromIsFirst
  <2>4. QED
    BY <2>1, <2>2, <2>3 DEF SearchFindsFirst, hay, needle
<1>5. QED
  BY <1>3, <1>4

-----------------------------------------------------------------------------
(* Numbers that are multiplied, divided and taken modulo another. *)
LEMMA TimesKeepsOrder ==
    ASSUME NEW a \in Nat, NEW b \in Nat, NEW n \in Nat, a <= b
    PROVE  a * n <= b * n
  OBVIOUS

LEMMA DivMod ==
    ASSUME NEW w \in Nat, NEW b \in Nat \ {0}
    PROVE  /\ w \div b \in Nat /\ w % b \in 0..(b - 1)
           /\ w = (w \div b) * b + (w % b)
  OBVIOUS

LEMMA ModOf ==
    ASSUME NEW m \in Nat \ {0}, NEW q \in Nat, NEW r \in 0..(m - 1)
    PROVE  (q * m + r) % m = r
<1> DEFINE x == q * m + r
           p == x \div m
<1>1. q * m \in Nat /\ x \in Nat
  OBVIOUS
<1>2. p \in Nat /\ x % m \in 0..(m - 1) /\ x = p * m + (x % m)
  BY <1>1, DivMod
<1> HIDE DEF p
<1>3. ASSUME p + 1 <= q PROVE FALSE
  <2>1. (p + 1) * m <= q * m
    BY <1>2, <1>3, TimesKeepsOrder
  <2>2. (p + 1) * m = p * m + m /\ p * m \in Nat
    BY <1>2
  <2>3. QED
    BY <1>1, <1>2, <2>1, <2>2
<1>4. ASSUME q + 1 <= p PROVE FALSE
  <2>1. (q + 1) * m <= p * m
    BY <1>2, <1>4, TimesKeepsOrder
  <2>2. (q + 1) * m = q * m + m /\ p * m \in Nat
    BY <1>2
  <2>3. QED
    BY <1>1, <1>2, <2>1, <2>2
<1>5. p = q
  BY <1>2, <1>3, <1>4
<1>6. QED
  BY <1>1, <1>2, <1>5

(* What is taken modulo m before a digit is added is as if it were not. *)
LEMMA ModStep ==
    ASSUME NEW m \in Nat \ {0}, NEW e \in Nat, NEW d \in Nat
    PROVE  ((e % m) * 10 + d) % m = (e * 10 + d) % m
<1> DEFINE q == e \div m
           r == e % m
           x == r * 10 + d
           p == x \div m
           t == x % m
<1>1. q \in Nat /\ r \in 0..(m - 1) /\ e = q * m + r
  BY DivMod
<1> HIDE DEF q, r
<1>2. x \in Nat
  BY <1>1
<1>3. p \in Nat /\ t \in 0..(m - 1) /\ x = p * m + t
  BY <1>2, DivMod
<1> HIDE DEF p, t
<1>4. e * 10 + d = (10 * q + p) * m + t
  <2>1. q * m \in Nat /\ p * m \in Nat
    BY <1>1, <1>3
  <2>2. (10 * q + p) * m = 10 * (q * m) + p * m
    BY <1>1, <1>3
  <2>3. QED
    BY <1>1, <1>3, <2>1, <2>2
<1>5. 10 * q + p \in Nat
  BY <1>1, <1>3
<1>6. (e * 10 + d) % m = t
  <2>1. ((10 * q + p) * m + t) % m = t
    BY <1>3, <1>5, ModOf
  <2>2. QED
    BY <1>4, <2>1
<1>7. QED
  BY <1>6 DEF t, r

(* TooBig tells, without computing it, whether the next number fits. *)
LEMMA TooBigIs ==
    ASSUME NEW acc \in Nat, NEW base \in Nat \ {0}, NEW d \in 0..(base - 1)
    PROVE  TooBig(acc, d, base) <=> acc * base + d > WordMax
<1> DEFINE q == WordMax \div base
           r == WordMax % base
<1>1. WordMax \in Nat /\ q \in Nat /\ r \in 0..(base - 1) /\ WordMax = q * base + r
  BY LibcAssumption, DivMod
<1>2. TooBig(acc, d, base) <=> acc > q \/ (acc = q /\ d > r)
  BY DEF TooBig
<1> HIDE DEF q, r
<1>3. acc * base \in Nat /\ q * base \in Nat
  BY <1>1
<1>4. CASE q + 1 <= acc
  <2>1. (q + 1) * base <= acc * base
    BY <1>1, <1>4, TimesKeepsOrder
  <2>2. (q + 1) * base = q * base + base
    BY <1>1
  <2>3. QED
    BY <1>1, <1>2, <1>3, <1>4, <2>1, <2>2
<1>5. CASE acc = q
  BY <1>1, <1>2, <1>3, <1>5
<1>6. CASE acc + 1 <= q
  <2>1. (acc + 1) * base <= q * base
    BY <1>1, <1>6, TimesKeepsOrder
  <2>2. (acc + 1) * base = acc * base + base
    OBVIOUS
  <2>3. QED
    BY <1>1, <1>2, <1>3, <1>6, <2>1, <2>2
<1>7. QED
  BY <1>1, <1>4, <1>5, <1>6

(* A function that is computed step by step exists. *)
AreSteps(S, lo, hi, a, step, f) ==
    /\ f \in [lo..hi -> S] /\ f[lo] = a
    /\ \A n \in (lo + 1)..hi : f[n] = step[n][f[n - 1]]

LEMMA StepsExist ==
    ASSUME NEW S, NEW lo \in Nat, NEW hi \in Nat, lo <= hi, NEW a \in S,
           NEW step \in [(lo + 1)..hi -> [S -> S]]
    PROVE  \E f : AreSteps(S, lo, hi, a, step, f)
<1> DEFINE N == hi - lo
           Steps(k, f) == f[lo] = a /\ \A n \in (lo + 1)..(lo + k) : f[n] = step[n][f[n - 1]]
           Good == {k \in 0..N : \E f \in [lo..(lo + k) -> S] : Steps(k, f)}
<1>1. N \in Nat
  OBVIOUS
<1>2. ASSUME NEW k \in 0..N, \A h \in 0..(k - 1) : h \in Good
      PROVE  k \in Good
  <2>1. CASE k = 0
    <3> DEFINE f == [n \in lo..(lo + k) |-> a]
    <3>1. f \in [lo..(lo + k) -> S] /\ Steps(k, f)
      BY <2>1
    <3> HIDE DEF f, Steps
    <3>2. QED
      BY <3>1
  <2>2. CASE k # 0
    <3>1. k - 1 \in 0..(k - 1) /\ k \in Nat /\ k - 1 \in Nat /\ lo + (k - 1) \in Nat
      BY <1>1, <2>2
    <3>2. PICK f \in [lo..(lo + (k - 1)) -> S] : Steps(k - 1, f)
      BY <1>2, <3>1
    <3> DEFINE top == lo + k
               g == [n \in lo..top |-> IF n = top THEN step[n][f[n - 1]] ELSE f[n]]
    <3>3. top \in (lo + 1)..hi /\ top - 1 = lo + (k - 1) /\ top - 1 \in lo..(top - 1)
      BY <1>1, <3>1
    <3>4. step[top] \in [S -> S] /\ f[top - 1] \in S
      BY <3>2, <3>3
    <3>5. step[top][f[top - 1]] \in S
      BY <3>4
    <3>6. ASSUME NEW n \in lo..top, n # top PROVE g[n] = f[n] /\ f[n] \in S /\ n \in lo..(top - 1)
      BY <3>2, <3>3, <3>6
    <3>7. g[top] = step[top][f[top - 1]]
      BY <3>3
    <3>8. g \in [lo..top -> S]
      BY <3>5, <3>6, <3>7
    <3>9. g[lo] = a
      BY <3>2, <3>3, <3>6
    <3>10. ASSUME NEW n \in (lo + 1)..top PROVE g[n] = step[n][g[n - 1]]
      <4>1. n \in lo..top /\ n - 1 \in lo..top /\ n - 1 # top
        BY <3>3
      <4>2. g[n - 1] = f[n - 1]
        BY <3>6, <4>1
      <4>3. CASE n = top
        BY <3>7, <4>2, <4>3
      <4>4. CASE n # top
        <5>1. n \in (lo + 1)..(lo + (k - 1))
          BY <3>3, <4>1, <4>4
        <5>2. f[n] = step[n][f[n - 1]]
          BY <3>2, <5>1
        <5>3. g[n] = f[n]
          BY <3>6, <4>1, <4>4
        <5>4. QED
          BY <4>2, <5>2, <5>3
      <4>5. QED
        BY <4>3, <4>4
    <3> HIDE DEF g
    <3>11. Steps(k, g)
      BY <3>9, <3>10
    <3> HIDE DEF Steps
    <3>12. QED
      BY <3>8, <3>11
  <2>3. QED
    BY <2>1, <2>2
<1>3. N \in Good
  <2>1. Good \in SUBSET (0..N) /\ N \in 0..N
    BY <1>1
  <2> HIDE DEF Good, N
  <2>2. QED
    BY <1>1, <1>2, <2>1, UpInduction
<1>4. lo + N = hi
  OBVIOUS
<1>5. PICK f \in [lo..(lo + N) -> S] : Steps(N, f)
  BY <1>3
<1>6. f \in [lo..hi -> S] /\ f[lo] = a /\ \A n \in (lo + 1)..hi : f[n] = step[n][f[n - 1]]
  <2> HIDE DEF N
  <2>1. QED
    BY <1>4, <1>5
<1>7. QED
  BY <1>6 DEF AreSteps

(* What the digits of a number say, digit by digit. *)
LEMMA ValueIs ==
    ASSUME NEW base \in 2..36, NEW digits \in Seq(0..(base - 1))
    PROVE  \E e \in [0..Len(digits) -> Nat] :
              /\ e[0] = 0
              /\ \A k \in 1..Len(digits) : e[k] = e[k - 1] * base + digits[k]
              /\ ValueOf(digits, base) = e[Len(digits)]
<1> DEFINE N == Len(digits)
           Fn(f) == [k \in 0..N |-> IF k = 0 THEN 0 ELSE f[k - 1] * base + digits[k]]
           step == [k \in 1..N |-> [x \in Nat |-> x * base + digits[k]]]
           exact == CHOOSE f : f = Fn(f)
<1>1. ValueOf(digits, base) = exact[N]
  BY DEF ValueOf
<1>2. N \in Nat /\ base \in Nat /\ \A k \in 1..N : digits[k] \in Nat
  OBVIOUS
<1>3. step \in [1..N -> [Nat -> Nat]]
  <2>1. ASSUME NEW k \in 1..N, NEW x \in Nat PROVE x * base + digits[k] \in Nat
    <3>1. x * base \in Nat
      BY <1>2
    <3>2. QED
      BY <1>2, <3>1
  <2>2. \A k \in 1..N : [x \in Nat |-> x * base + digits[k]] \in [Nat -> Nat]
    BY <2>1
  <2>3. QED
    BY <2>2
<1>4. PICK e \in [0..N -> Nat] : e[0] = 0 /\ \A k \in 1..N : e[k] = step[k][e[k - 1]]
  <2>1. N \in Nat /\ 0 \in Nat /\ 0 <= N /\ 0 + 1 = 1
    BY <1>2
  <2> HIDE DEF step, N
  <2>2. PICK e : AreSteps(Nat, 0, N, 0, step, e)
    BY <1>3, <2>1, StepsExist
  <2>3. QED
    BY <2>1, <2>2 DEF AreSteps
<1>5. ASSUME NEW k \in 1..N PROVE e[k] = e[k - 1] * base + digits[k]
  <2>1. k - 1 \in 0..N
    BY <1>2
  <2>2. e[k - 1] \in Nat
    BY <2>1
  <2>3. e[k] = step[k][e[k - 1]]
    BY <1>4, <2>1
  <2>4. QED
    BY <2>1, <2>2, <2>3
<1>6. e = Fn(e)
  <2>1. \A k \in 0..N : e[k] = Fn(e)[k]
    BY <1>2, <1>4, <1>5
  <2>2. QED
    BY <2>1
<1>7. exact = Fn(exact)
  <2> HIDE DEF Fn
  <2>1. QED
    BY <1>6
<1>8. /\ exact[0] = 0 /\ \A k \in 1..N : exact[k] = exact[k - 1] * base + digits[k]
      /\ DOMAIN exact = 0..N /\ exact = [k \in 0..N |-> exact[k]]
  <2> HIDE DEF exact
  <2>1. /\ Fn(exact)[0] = 0
        /\ \A k \in 1..N : Fn(exact)[k] = exact[k - 1] * base + digits[k]
        /\ DOMAIN Fn(exact) = 0..N /\ Fn(exact) = [k \in 0..N |-> Fn(exact)[k]]
    BY <1>2
  <2> HIDE DEF Fn
  <2>2. QED
    BY <1>7, <2>1
<1> HIDE DEF exact, Fn
<1> DEFINE Good == {k \in 0..N : exact[k] \in Nat}
<1>9. ASSUME NEW k \in 0..N, \A h \in 0..(k - 1) : h \in Good PROVE k \in Good
  <2>1. CASE k = 0
    <3>1. exact[k] \in Nat
      BY <1>8, <2>1
    <3>2. QED
      BY <3>1
  <2>2. CASE k # 0
    <3>1. k \in 1..N /\ k - 1 \in 0..(k - 1)
      BY <1>2, <2>2
    <3>2. exact[k - 1] \in Nat /\ digits[k] \in Nat
      BY <1>2, <1>9, <3>1
    <3>3. exact[k - 1] * base \in Nat
      BY <1>2, <3>2
    <3>4. exact[k] = exact[k - 1] * base + digits[k]
      BY <1>8, <3>1
    <3>5. exact[k] \in Nat
      BY <3>2, <3>3, <3>4
    <3>6. QED
      BY <3>5
  <2>3. QED
    BY <2>1, <2>2
<1>10. \A k \in 0..N : k \in Good
  <2>1. Good \in SUBSET (0..N)
    OBVIOUS
  <2> HIDE DEF Good, N
  <2>2. QED
    BY <1>2, <1>9, <2>1, UpInduction
<1>11. exact \in [0..N -> Nat]
  <2>1. \A k \in 0..N : exact[k] \in Nat
    BY <1>10
  <2>2. QED
    BY <1>8, <2>1
<1>12. QED
  BY <1>1, <1>8, <1>11

(* A number as text: its digits read back as digits, and it ends behind them. *)
AsText(digits) == [k \in DOMAIN digits |-> DigitChar(digits[k], {})]
Ended(digits) == Append(AsText(digits), NUL)
IsDigitChar(c, d) == /\ IF d < 10 THEN c = Digit0 + d ELSE c \in 97..122
                     /\ c \in {LowerX, UpperX} => d = 33
LEMMA TextOfDigits ==
    ASSUME NEW base \in 2..36, NEW digits \in Seq(0..(base - 1)), digits # <<>>
    PROVE  /\ Len(digits) \in Nat \ {0} /\ Len(AsText(digits)) = Len(digits)
           /\ Len(Ended(digits)) = Len(digits) + 1
           /\ \A k \in 1..Len(digits) :
                 /\ digits[k] \in 0..(base - 1) /\ DigitOf(Ended(digits)[k]) = digits[k]
                 /\ IsDigitChar(Ended(digits)[k], digits[k])
           /\ Ended(digits)[Len(digits) + 1] = NUL /\ DigitOf(NUL) = 36
<1> DEFINE n == Len(digits)
           text == AsText(digits)
           s == Ended(digits)
<1>1. n \in Nat \ {0} /\ DOMAIN digits = 1..n /\ \A k \in 1..n : digits[k] \in 0..(base - 1)
  OBVIOUS
<1>2. \A k \in 1..n : text[k] = DigitChar(digits[k], {}) /\ DOMAIN text = 1..n
  BY <1>1 DEF AsText
<1>3. \A k \in 1..n : text[k] \in Int
  BY <1>1, <1>2 DEF DigitChar, Digit0, LowerA
<1>4. text \in Seq(Int) /\ Len(text) = n
  BY <1>1, <1>2, <1>3 DEF AsText
<1>5. Len(s) = n + 1 /\ s[n + 1] = NUL /\ \A k \in 1..n : s[k] = text[k]
  <2>1. s = Append(text, NUL)
    BY DEF Ended
  <2> HIDE DEF text, n, s
  <2>2. QED
    BY <1>1, <1>4, <2>1, AppendProperties DEF NUL
<1>6. ASSUME NEW d \in 0..35
      PROVE  DigitOf(DigitChar(d, {})) = d /\ IsDigitChar(DigitChar(d, {}), d)
  <2>1. CASE d < 10
    BY <2>1 DEF DigitChar, DigitOf, Digit0, isdigit, IsDigitChar, LowerX, UpperX
  <2>2. CASE ~ (d < 10)
    <3>1. DigitChar(d, {}) = 87 + d
      BY <2>2 DEF DigitChar, LowerA
    <3>2. 87 + d \in 97..122
      BY <2>2
    <3>3. DigitOf(87 + d) = d
      BY <3>2 DEF DigitOf, isdigit, isalpha, isupper, LowerA
    <3>4. 87 + d \in {LowerX, UpperX} => d = 33
      BY <2>2 DEF LowerX, UpperX
    <3>5. IsDigitChar(87 + d, d)
      BY <2>2, <3>2, <3>4 DEF IsDigitChar
    <3>6. QED
      BY <3>1, <3>3, <3>5
  <2>3. QED
    BY <2>1, <2>2
<1>7. DigitOf(NUL) = 36
  BY DEF DigitOf, isdigit, isalpha, NUL
<1>8. ASSUME NEW k \in 1..n
      PROVE  /\ digits[k] \in 0..(base - 1) /\ DigitOf(s[k]) = digits[k]
             /\ IsDigitChar(s[k], digits[k])
  <2>1. digits[k] \in 0..(base - 1) /\ s[k] = DigitChar(digits[k], {})
    BY <1>1, <1>2, <1>5
  <2>2. \A d \in 0..(base - 1) : d \in 0..35
    OBVIOUS
  <2> HIDE DEF n, text, s
  <2>3. digits[k] \in 0..35
    BY <2>1, <2>2
  <2>4. QED
    BY <1>6, <2>1, <2>3
<1> HIDE DEF n, text, s
<1>9. QED
  BY <1>1, <1>4, <1>5, <1>7, <1>8 DEF n, text, s

(* What strtoull has after each digit: the number so far, or the largest. *)
Reading(v, k) == IF v > WordMax THEN [acc |-> WordMax, any |-> -1]
                 ELSE [acc |-> v, any |-> IF k = 0 THEN 0 ELSE 1]
LEMMA TakeKeeps ==
    ASSUME NEW base \in 2..36, NEW d \in 0..(base - 1), NEW v \in Nat, NEW k \in Nat
    PROVE  Take(Reading(v, k), d, base) = Reading(v * base + d, k + 1)
<1>1. base \in Nat \ {0} /\ WordMax \in Nat /\ v * base \in Nat
  BY LibcAssumption
<1>2. CASE v > WordMax
  <2>1. v * 1 <= v * base
    <3>1. 1 * v <= base * v
      BY <1>1, TimesKeepsOrder
    <3>2. QED
      BY <1>1, <3>1
  <2>2. v * base + d > WordMax
    BY <1>1, <1>2, <2>1
  <2>3. QED
    BY <1>2, <2>2 DEF Reading, Take
<1>3. CASE ~ (v > WordMax)
  <2>1. Reading(v, k).acc = v /\ ~ (Reading(v, k).any < 0)
    BY <1>3 DEF Reading
  <2>2. CASE TooBig(v, d, base)
    <3>1. v * base + d > WordMax
      BY <1>1, <2>2, TooBigIs
    <3>2. QED
      BY <2>1, <2>2, <3>1 DEF Reading, Take
  <2>3. CASE ~ TooBig(v, d, base)
    <3>1. ~ (v * base + d > WordMax)
      BY <1>1, <2>3, TooBigIs
    <3>2. v * base + d \in 0..((WordMax + 1) - 1) /\ WordMax + 1 \in Nat \ {0}
      BY <1>1, <3>1
    <3>3. (0 * (WordMax + 1) + (v * base + d)) % (WordMax + 1) = v * base + d
      BY <3>2, ModOf
    <3>4. (v * base + d) % (WordMax + 1) = v * base + d
      BY <1>1, <3>3
    <3>5. k + 1 # 0
      OBVIOUS
    <3>6. QED
      BY <2>1, <2>3, <3>1, <3>4, <3>5 DEF Reading, Take
  <2>4. QED
    BY <2>2, <2>3
<1>4. QED
  BY <1>2, <1>3

LEMMA AccumulateIs ==
    ASSUME NEW base \in 2..36, NEW digits \in Seq(0..(base - 1)), digits # <<>>
    PROVE  LET r == Reading(ValueOf(digits, base), Len(digits)) IN
           Accumulate(Ended(digits), 1, base)
             = [acc |-> r.acc, any |-> r.any, end |-> Len(digits) + 1]
<1> DEFINE N == Len(digits)
           s == Ended(digits)
           end == CHOOSE k \in 1..Len(s) : DigitOf(s[k]) >= base
                                           /\ \A m \in 1..(k - 1) : DigitOf(s[m]) < base
           Fn(f) == [k \in 1..(N + 1) |-> IF k = 1 THEN [acc |-> 0, any |-> 0]
                                         ELSE Take(f[k - 1], DigitOf(s[k - 1]), base)]
           at == CHOOSE f : f = Fn(f)
<1>1. /\ N \in Nat \ {0} /\ Len(s) = N + 1 /\ DigitOf(s[N + 1]) = 36
      /\ \A k \in 1..N : digits[k] \in 0..(base - 1) /\ DigitOf(s[k]) = digits[k]
  BY TextOfDigits
<1>2. end = N + 1
  <2>1. \A k \in 1..(N + 1) : k # N + 1 => k \in 1..N
    BY <1>1
  <2>2. \A k \in 1..N : DigitOf(s[k]) < base /\ ~ (DigitOf(s[k]) >= base)
    BY <1>1
  <2>3. DigitOf(s[N + 1]) >= base
    BY <1>1
  <2>4. \A k \in 1..(N + 1) : DigitOf(s[k]) >= base => k = N + 1
    BY <2>1, <2>2
  <2>5. N + 1 \in 1..Len(s) /\ \A m \in 1..((N + 1) - 1) : m \in 1..N
    BY <1>1
  <2> HIDE DEF s, N
  <2>6. QED
    BY <1>1, <2>2, <2>3, <2>4, <2>5
<1>3. PICK e \in [0..N -> Nat] : /\ e[0] = 0 /\ ValueOf(digits, base) = e[N]
                                 /\ \A k \in 1..N : e[k] = e[k - 1] * base + digits[k]
  BY ValueIs
<1> DEFINE g == [k \in 1..(N + 1) |-> Reading(e[k - 1], k - 1)]
<1>4. ASSUME NEW f, f = Fn(f), NEW k \in 1..(N + 1)
      PROVE  /\ f[1] = [acc |-> 0, any |-> 0]
             /\ k # 1 => f[k] = Take(f[k - 1], digits[k - 1], base)
  <2>1. Fn(f)[1] = [acc |-> 0, any |-> 0]
    BY <1>1
  <2>2. k # 1 => k - 1 \in 1..N
    BY <1>1
  <2>3. k # 1 => Fn(f)[k] = Take(f[k - 1], DigitOf(s[k - 1]), base)
    OBVIOUS
  <2> HIDE DEF Fn
  <2>4. QED
    BY <1>1, <1>4, <2>1, <2>2, <2>3
<1>5. Reading(e[0], 0) = [acc |-> 0, any |-> 0]
  BY <1>3, LibcAssumption DEF Reading
<1>6. ASSUME NEW k \in 1..N
      PROVE  Take(Reading(e[k - 1], k - 1), digits[k], base) = Reading(e[k], k)
  <2>1. k - 1 \in 0..N /\ k - 1 \in Nat /\ (k - 1) + 1 = k
    BY <1>1
  <2>2. e[k - 1] \in Nat
    BY <2>1
  <2>3. digits[k] \in 0..(base - 1)
    BY <1>1
  <2>4. e[k] = e[k - 1] * base + digits[k]
    BY <1>3
  <2> DEFINE v == e[k - 1]
             d == digits[k]
             j == k - 1
  <2>5. v \in Nat /\ d \in 0..(base - 1) /\ j \in Nat
    BY <2>1, <2>2, <2>3
  <2> HIDE DEF v, d, j
  <2>6. Take(Reading(v, j), d, base) = Reading(v * base + d, j + 1)
    BY <2>5, TakeKeeps
  <2>7. QED
    BY <2>1, <2>4, <2>6 DEF v, d, j
<1>7. g = Fn(g)
  <2>1. ASSUME NEW k \in 1..(N + 1) PROVE g[k] = Fn(g)[k]
    <3>1. CASE k = 1
      BY <1>1, <1>5, <3>1
    <3>2. CASE k # 1
      <4>1. k - 1 \in 1..N /\ k - 1 \in 1..(N + 1)
        BY <1>1, <3>2
      <4>2. g[k - 1] = Reading(e[(k - 1) - 1], (k - 1) - 1) /\ g[k] = Reading(e[k - 1], k - 1)
        BY <4>1
      <4>3. DigitOf(s[k - 1]) = digits[k - 1]
        BY <1>1, <4>1
      <4>4. Fn(g)[k] = Take(g[k - 1], digits[k - 1], base)
        BY <3>2, <4>3
      <4> HIDE DEF g, Fn
      <4>5. QED
        BY <1>6, <4>1, <4>2, <4>4
    <3>3. QED
      BY <3>1, <3>2
  <2>2. QED
    BY <2>1
<1>8. at = Fn(at)
  <2> HIDE DEF Fn
  <2>1. QED
    BY <1>7
<1> DEFINE Good == {k \in 0..N : at[k + 1] = Reading(e[k], k)}
<1>9. ASSUME NEW k \in 0..N, \A h \in 0..(k - 1) : h \in Good PROVE k \in Good
  <2> HIDE DEF at, Fn
  <2>1. k + 1 \in 1..(N + 1) /\ 1 \in 1..(N + 1)
    BY <1>1
  <2>2. CASE k = 0
    <3>1. at[1] = [acc |-> 0, any |-> 0]
      BY <1>4, <1>8, <2>1
    <3>2. at[k + 1] = Reading(e[k], k)
      BY <1>5, <2>2, <3>1
    <3>3. QED
      BY <3>2
  <2>3. CASE k # 0
    <3>1. k - 1 \in 0..(k - 1) /\ k \in 1..N /\ k + 1 # 1 /\ (k + 1) - 1 = k /\ (k - 1) + 1 = k
      BY <1>1, <2>3
    <3>2. at[(k - 1) + 1] = Reading(e[k - 1], k - 1)
      BY <1>9, <3>1
    <3>3. at[k + 1] = Take(at[(k + 1) - 1], digits[(k + 1) - 1], base)
      BY <1>4, <1>8, <2>1, <3>1
    <3>4. at[k] = Reading(e[k - 1], k - 1) /\ at[k + 1] = Take(at[k], digits[k], base)
      BY <3>1, <3>2, <3>3
    <3>5. at[k + 1] = Reading(e[k], k)
      BY <1>6, <3>1, <3>4
    <3>6. QED
      BY <3>5
  <2>4. QED
    BY <2>2, <2>3
<1>10. \A k \in 0..N : k \in Good
  <2>1. Good \in SUBSET (0..N) /\ N \in Nat
    BY <1>1
  <2> HIDE DEF Good, N
  <2>2. QED
    BY <1>9, <2>1, UpInduction
<1>11. at[N + 1] = Reading(e[N], N)
  <2>1. N \in 0..N
    BY <1>1
  <2> HIDE DEF at
  <2>2. QED
    BY <1>10, <2>1
<1>12. Accumulate(s, 1, base) = [acc |-> at[N + 1].acc, any |-> at[N + 1].any, end |-> N + 1]
  BY <1>2 DEF Accumulate
<1> HIDE DEF at, N, s
<1>13. QED
  BY <1>3, <1>11, <1>12 DEF N, s

LEMMA DigitCharIs ==
    ASSUME NEW c, NEW d \in Nat, IsDigitChar(c, d)
    PROVE  /\ ~ isspace(c) /\ c \notin {Plus, Minus}
           /\ d < 10 => c \in 48..57 /\ c = 48 + d
           /\ d # 33 => c \notin {LowerX, UpperX}
<1>1. CASE d < 10
  <2>1. c = 48 + d /\ c \in 48..57
    BY <1>1 DEF IsDigitChar, Digit0
  <2>2. QED
    BY <2>1 DEF isspace, Plus, Minus, LowerX, UpperX
<1>2. CASE ~ (d < 10)
  <2>1. c \in 97..122 /\ (c \in {LowerX, UpperX} => d = 33)
    BY <1>2 DEF IsDigitChar
  <2>2. c \in Int /\ c >= 97
    BY <2>1
  <2>3. ~ isspace(c) /\ c \notin {Plus, Minus}
    BY <2>2 DEF isspace, Plus, Minus
  <2>4. QED
    BY <1>2, <2>1, <2>3
<1>3. QED
  BY <1>1, <1>2

LEMMA StrtoullIs ==
    ASSUME NEW base \in 2..36, NEW digits \in Seq(0..(base - 1)), digits # <<>>
    PROVE  strtoull(Ended(digits), base).value
             = IF ValueOf(digits, base) > WordMax THEN WordMax ELSE ValueOf(digits, base)
<1> DEFINE N == Len(digits)
           s == Ended(digits)
           v == ValueOf(digits, base)
           first == CHOOSE n \in 1..Len(s) : ~ isspace(s[n]) /\ \A m \in 1..(n - 1) : isspace(s[m])
           hex == base \in {0, 16} /\ s[1] = Digit0 /\ s[2] \in {LowerX, UpperX}
           read == Accumulate(s, 1, base)
<1>1. /\ N \in Nat \ {0} /\ Len(s) = N + 1 /\ s[N + 1] = NUL
      /\ \A k \in 1..N : digits[k] \in 0..(base - 1) /\ IsDigitChar(s[k], digits[k])
  BY TextOfDigits
<1>2. ~ isspace(s[1]) /\ s[1] \notin {Plus, Minus}
  <2>1. digits[1] \in 0..(base - 1) /\ IsDigitChar(s[1], digits[1])
    BY <1>1
  <2>2. digits[1] \in Nat
    BY <2>1
  <2> HIDE DEF s
  <2>3. QED
    BY <2>1, <2>2, DigitCharIs
<1>3. first = 1
  <2> HIDE DEF s, N
  <2>1. ~ isspace(s[1]) /\ 1 \in 1..Len(s)
    BY <1>1, <1>2
  <2>2. \A n \in 1..Len(s) : n # 1 => 1 \in 1..(n - 1)
    BY <1>1
  <2>3. \A n \in 1..Len(s) :
           (~ isspace(s[n]) /\ \A m \in 1..(n - 1) : isspace(s[m])) <=> n = 1
    BY <2>1, <2>2
  <2>4. QED
    BY <2>1, <2>3
<1>4. ~ hex
  <2>1. CASE base = 16
    <3>1. CASE N = 1
      <4>1. s[2] = NUL
        BY <1>1, <3>1
      <4>2. QED
        BY <4>1 DEF NUL, LowerX, UpperX
    <3>2. CASE N # 1
      <4>1. 2 \in 1..N
        <5> HIDE DEF N
        <5>1. QED
          BY <1>1, <3>2
      <4>2. digits[2] \in 0..(base - 1) /\ IsDigitChar(s[2], digits[2])
        BY <1>1, <4>1
      <4>3. digits[2] \in Nat /\ digits[2] # 33
        BY <2>1, <4>2
      <4> HIDE DEF s
      <4>4. QED
        BY <4>2, <4>3, DigitCharIs
    <3>3. QED
      BY <3>1, <3>2
  <2>2. QED
    BY <2>1
<1>5. strtoull(s, base).value = read.acc
  <2>1. ~ (base < 0 \/ base = 1 \/ base > 36) /\ base # 0 /\ 1 + 1 = 2
    OBVIOUS
  <2>2. strtoull(s, base)
          = [value |-> IF s[1] = Minus /\ read.any > 0
                       THEN (WordMax + 1 - read.acc) % (WordMax + 1) ELSE read.acc,
             end |-> IF read.any = 0 THEN 0 ELSE read.end - 1]
    <3>1. strtoull(s, base) = LET digs == IF s[first] \in {Plus, Minus} THEN first + 1 ELSE first
            hx == base \in {0, 16} /\ s[digs] = Digit0 /\ s[digs + 1] \in {LowerX, UpperX}
            rd == Accumulate(s, IF hx THEN digs + 2 ELSE digs,
                           IF hx THEN 16
                           ELSE IF base # 0 THEN base
                           ELSE IF s[digs] = Digit0 THEN 8 ELSE 10)
            IN [value |-> IF s[first] = Minus /\ rd.any > 0
                        THEN (WordMax + 1 - rd.acc) % (WordMax + 1) ELSE rd.acc,
              end |-> IF rd.any = 0 THEN 0 ELSE rd.end - 1]
      BY <2>1 DEF strtoull
    <3> HIDE DEF s, first
    <3>2. QED
      BY <1>2, <1>3, <1>4, <2>1, <3>1
  <2> HIDE DEF s, read
  <2>3. QED
    BY <1>2, <2>2
<1>6. read.acc = Reading(v, N).acc
  <2>1. Accumulate(Ended(digits), 1, base)
          = [acc |-> Reading(ValueOf(digits, base), Len(digits)).acc,
             any |-> Reading(ValueOf(digits, base), Len(digits)).any, end |-> Len(digits) + 1]
    BY AccumulateIs
  <2>2. QED
    BY <2>1
<1>7. QED
  BY <1>5, <1>6 DEF Reading

LEMMA AtoiIs ==
    ASSUME NEW digits \in Seq(0..9), digits # <<>>
    PROVE  _atoi(Ended(digits))
             = [value |-> ValueOf(digits, 10) % IntSpan["int"], end |-> Len(digits)]
<1> DEFINE N == Len(digits)
           s == Ended(digits)
           w == IntSpan["int"]
           end == CHOOSE n \in 1..Len(s) : s[n] \notin 48..57 /\ \A m \in 1..(n - 1) : s[m] \in 48..57
           Fn(f) == [n \in 1..end |->
                        IF n = 1 THEN 0 ELSE (f[n - 1] * 10 + (s[n - 1] - Digit0)) % w]
           at == CHOOSE f : f = Fn(f)
<1>1. 10 \in 2..36 /\ 10 - 1 = 9
  OBVIOUS
<1>2. /\ N \in Nat \ {0} /\ Len(s) = N + 1 /\ s[N + 1] = NUL
      /\ \A k \in 1..N : digits[k] \in 0..9 /\ IsDigitChar(s[k], digits[k])
  BY <1>1, TextOfDigits
<1>3. \A k \in 1..N : digits[k] \in 0..9 /\ s[k] = 48 + digits[k] /\ s[k] \in 48..57
  <2> SUFFICES ASSUME NEW k \in 1..N
               PROVE  digits[k] \in 0..9 /\ s[k] = 48 + digits[k] /\ s[k] \in 48..57
    OBVIOUS
  <2>1. digits[k] \in 0..9 /\ IsDigitChar(s[k], digits[k])
    BY <1>2
  <2>2. digits[k] \in Nat /\ digits[k] < 10
    BY <2>1
  <2> HIDE DEF N, s
  <2>3. QED
    BY <2>1, <2>2, DigitCharIs
<1>4. end = N + 1
  <2> HIDE DEF N, s
  <2>1. \A k \in 1..N : s[k] \in 48..57
    BY <1>3
  <2>2. s[N + 1] \notin 48..57 /\ N + 1 \in 1..Len(s)
    BY <1>2 DEF NUL
  <2>3. \A k \in 1..(N + 1) : k # N + 1 => k \in 1..N
    BY <1>2
  <2>4. \A m \in 1..((N + 1) - 1) : m \in 1..N
    BY <1>2
  <2>5. QED
    BY <1>2, <2>1, <2>2, <2>3, <2>4
<1>5. w \in Nat \ {0}
  <2>1. w \in 2..(WordMax + 1) /\ WordMax \in Nat
    BY LibcAssumption
  <2> HIDE DEF w
  <2>2. QED
    BY <2>1
<1>6. PICK e \in [0..N -> Nat] : /\ e[0] = 0 /\ ValueOf(digits, 10) = e[N]
                                 /\ \A k \in 1..N : e[k] = e[k - 1] * 10 + digits[k]
  BY <1>1, ValueIs
<1>7. ASSUME NEW k \in 1..N
      PROVE  ((e[k - 1] % w) * 10 + (s[k] - Digit0)) % w = e[k] % w
  <2>1. k - 1 \in 0..N
    BY <1>2
  <2>2. e[k - 1] \in Nat
    BY <2>1
  <2>3. s[k] - Digit0 = digits[k] /\ digits[k] \in Nat /\ e[k] = e[k - 1] * 10 + digits[k]
    <3>1. s[k] = 48 + digits[k] /\ digits[k] \in 0..9
      BY <1>3
    <3>2. e[k] = e[k - 1] * 10 + digits[k]
      BY <1>6
    <3> HIDE DEF s
    <3>3. QED
      BY <3>1, <3>2 DEF Digit0
  <2> DEFINE v == e[k - 1]
             d == digits[k]
  <2>4. v \in Nat /\ d \in Nat
    BY <2>2, <2>3
  <2> HIDE DEF v, d, w
  <2>5. ((v % w) * 10 + d) % w = (v * 10 + d) % w
    BY <1>5, <2>4, ModStep
  <2>6. QED
    BY <2>3, <2>5 DEF v, d
<1>8. 0 % w = 0
  <2> HIDE DEF w
  <2>1. (0 * w + 0) % w = 0 /\ 0 * w + 0 = 0
    BY <1>5, ModOf
  <2>2. QED
    BY <2>1
<1> DEFINE g == [n \in 1..(N + 1) |-> e[n - 1] % w]
<1>9. ASSUME NEW f, f = Fn(f), NEW k \in 1..(N + 1)
      PROVE  f[1] = 0 /\ (k # 1 => f[k] = (f[k - 1] * 10 + (s[k - 1] - Digit0)) % w)
  <2>1. Fn(f)[1] = 0
    <3>1. 1 \in 1..end
      <4> HIDE DEF N, end
      <4>1. QED
        BY <1>2, <1>4
    <3>2. QED
      BY <3>1
  <2>2. k # 1 => Fn(f)[k] = (f[k - 1] * 10 + (s[k - 1] - Digit0)) % w
    <3>1. k \in 1..end
      BY <1>4
    <3> HIDE DEF end, s, w
    <3>2. QED
      BY <3>1
  <2> HIDE DEF Fn
  <2>3. QED
    BY <1>9, <2>1, <2>2
<1>10. g = Fn(g)
  <2>1. ASSUME NEW k \in 1..(N + 1) PROVE g[k] = Fn(g)[k]
    <3>1. CASE k = 1
      <4>1. Fn(g)[k] = 0
        BY <1>4, <3>1
      <4>2. g[k] = 0
        BY <1>6, <1>8, <3>1
      <4>3. QED
        BY <4>1, <4>2
    <3>2. CASE k # 1
      <4>1. k - 1 \in 1..N /\ k - 1 \in 1..(N + 1)
        BY <1>2, <3>2
      <4>2. g[k - 1] = e[(k - 1) - 1] % w /\ g[k] = e[k - 1] % w
        BY <4>1
      <4>3. Fn(g)[k] = (g[k - 1] * 10 + (s[k - 1] - Digit0)) % w
        BY <1>4, <3>2
      <4> HIDE DEF g, Fn, s, w
      <4>4. QED
        BY <1>7, <4>1, <4>2, <4>3
    <3>3. QED
      BY <3>1, <3>2
  <2>2. DOMAIN Fn(g) = 1..(N + 1) /\ Fn(g) = [n \in 1..(N + 1) |-> Fn(g)[n]]
    BY <1>4
  <2> HIDE DEF Fn
  <2>3. QED
    BY <2>1, <2>2
<1>11. at = Fn(at)
  <2> HIDE DEF Fn
  <2>1. QED
    BY <1>10
<1> DEFINE Good == {k \in 0..N : at[k + 1] = e[k] % w}
<1>12. ASSUME NEW k \in 0..N, \A h \in 0..(k - 1) : h \in Good PROVE k \in Good
  <2> HIDE DEF at, Fn
  <2>1. k + 1 \in 1..(N + 1) /\ 1 \in 1..(N + 1)
    BY <1>2
  <2>2. CASE k = 0
    <3>1. at[1] = 0
      BY <1>9, <1>11, <2>1
    <3>2. at[k + 1] = e[k] % w
      BY <1>6, <1>8, <2>2, <3>1
    <3>3. QED
      BY <3>2
  <2>3. CASE k # 0
    <3>1. k - 1 \in 0..(k - 1) /\ k \in 1..N /\ k + 1 # 1 /\ (k + 1) - 1 = k /\ (k - 1) + 1 = k
      BY <1>2, <2>3
    <3>2. at[(k - 1) + 1] = e[k - 1] % w
      BY <1>12, <3>1
    <3>3. at[k + 1] = (at[(k + 1) - 1] * 10 + (s[(k + 1) - 1] - Digit0)) % w
      BY <1>9, <1>11, <2>1, <3>1
    <3>4. at[k] = e[k - 1] % w /\ at[k + 1] = (at[k] * 10 + (s[k] - Digit0)) % w
      BY <3>1, <3>2, <3>3
    <3>5. at[k + 1] = e[k] % w
      BY <1>7, <3>1, <3>4
    <3>6. QED
      BY <3>5
  <2>4. QED
    BY <2>2, <2>3
<1>13. \A k \in 0..N : k \in Good
  <2>1. Good \in SUBSET (0..N) /\ N \in Nat
    BY <1>2
  <2> HIDE DEF Good, N
  <2>2. QED
    BY <1>12, <2>1, UpInduction
<1>14. at[N + 1] = e[N] % w
  <2>1. N \in 0..N
    BY <1>2
  <2> HIDE DEF at
  <2>2. QED
    BY <1>13, <2>1
<1>15. _atoi(s) = [value |-> at[end], end |-> end - 1]
  BY DEF _atoi
<1> HIDE DEF at, N, s, end
<1>16. (N + 1) - 1 = N
  BY <1>2
<1>17. QED
  BY <1>4, <1>6, <1>14, <1>15, <1>16 DEF N, s

(* A call that reads a number. *)
LEMMA ReadingCalls == call \in Calls => ReadsExactly
<1> SUFFICES ASSUME call \in Calls, call.fn = "read"
             PROVE  ReadsExactly
  BY DEF ReadsExactly
<1> DEFINE digits == call.digits
           base == call.base
<1>1. base \in 2..36 /\ digits \in Seq(0..(base - 1)) /\ digits # <<>>
  BY CallsAssumption
<1> HIDE DEF digits, base
<1>2. strtoull(Ended(digits), base).value
        = IF ValueOf(digits, base) > WordMax THEN WordMax ELSE ValueOf(digits, base)
  BY <1>1, StrtoullIs
<1>3. ASSUME base = 10
      PROVE  _atoi(Ended(digits)) = [value |-> ValueOf(digits, base) % IntSpan["int"],
                                     end |-> Len(AsText(digits))]
  <2>1. digits \in Seq(0..9)
    BY <1>1, <1>3
  <2>2. Len(AsText(digits)) = Len(digits)
    BY <1>1, TextOfDigits
  <2>3. QED
    BY <1>1, <1>3, <2>1, <2>2, AtoiIs
<1>4. QED
  BY <1>2, <1>3, Zenon DEF ReadsExactly, Ended, AsText, digits, base

-----------------------------------------------------------------------------
(* Whole numbers modulo a number, and multiples of it. *)
LEMMA DivInt ==
    ASSUME NEW w \in Int, NEW b \in Nat \ {0}
    PROVE  /\ w \div b \in Int /\ w % b \in 0..(b - 1)
           /\ w = (w \div b) * b + (w % b)
  OBVIOUS

LEMMA MultipleMod ==
    ASSUME NEW b \in Nat \ {0}, NEW k \in Int, NEW x \in Int, x = k * b
    PROVE  x % b = 0
<1> DEFINE q == x \div b
           r == x % b
<1>1. q \in Int /\ r \in 0..(b - 1) /\ x = q * b + r
  BY DivInt
<1> HIDE DEF q, r
<1>2. r = (k - q) * b
  BY <1>1
<1>3. CASE k - q = 0
  BY <1>2, <1>3 DEF r
<1>4. CASE k - q >= 1
  <2>1. k - q - 1 \in Nat
    BY <1>1, <1>4
  <2>2. (k - q - 1) * b \in Nat
    BY <2>1
  <2>3. r = (k - q - 1) * b + b
    BY <1>1, <1>2
  <2>4. QED
    BY <1>1, <2>2, <2>3
<1>5. CASE k - q <= -1
  <2>1. -(k - q) - 1 \in Nat
    BY <1>1, <1>5
  <2>2. (-(k - q) - 1) * b \in Nat
    BY <2>1
  <2>3. r = -((-(k - q) - 1) * b) - b
    BY <1>1, <1>2
  <2>4. QED
    BY <1>1, <2>2, <2>3
<1>6. QED
  BY <1>1, <1>3, <1>4, <1>5

LEMMA TurnedMod ==
    ASSUME NEW w \in Nat \ {0}, NEW all, NEW j \in Int, all = j * w,
           NEW value, NEW q \in Int, NEW m \in Int, value = q * w + m,
           NEW r, r = all - (w - m)
    PROVE  (r - value) % w = 0
<1> DEFINE a == j * w
           b == q * w
           c == (j - 1 - q) * w
<1>1. a \in Int /\ b \in Int /\ all = a /\ value = b + m /\ c = a - w - b /\ c \in Int
  <2>1. (j - 1 - q) * w = j * w - w - q * w
    OBVIOUS
  <2>2. j * w \in Int /\ q * w \in Int
    OBVIOUS
  <2>3. QED
    BY <2>1, <2>2
<1>2. c % w = 0
  BY <1>1, MultipleMod
<1> HIDE DEF a, b, c
<1>3. r - value = c
  BY <1>1
<1>4. QED
  BY <1>2, <1>3

(* What strtoull makes of the digits of v, behind a "-" or not. *)
ReadAs(negative, v) == IF negative THEN (WordMax + 1 - v) % (WordMax + 1) ELSE v

(* A number as the type of its size has it is what is read, modulo words. *)
LEMMA NarrowIs ==
    ASSUME NEW conv \in {"d", "u", "x"}, NEW size \in DOMAIN IntSpan, NEW value \in Int,
           NEW n, n = Narrow(conv, size, value),
           NEW v, v = IF n < 0 THEN -n ELSE n,
           NEW r, r = ReadAs(n < 0, v)
    PROVE  /\ v \in 0..WordMax /\ n \in Int
           /\ (r - value) % IntSpan[size] = 0
           /\ conv # "d" => r < IntSpan[size]
<1> DEFINE w == IntSpan[size]
           q == value \div w
           m == value % w
           j == (WordMax + 1) \div w
<1>1. w \in 2..(WordMax + 1) /\ WordMax \in Nat /\ (WordMax + 1) % w = 0
  BY LibcAssumption
<1>a. w \in Nat \ {0}
  BY <1>1
<1> HIDE DEF w
<1>2. q \in Int /\ m \in 0..(w - 1) /\ value = q * w + m
  BY <1>a, DivInt
<1>3. j \in Int /\ WordMax + 1 = j * w
  <2>1. WordMax + 1 \in Int
    BY <1>1
  <2>2. j \in Int /\ WordMax + 1 = j * w + ((WordMax + 1) % w)
    BY <2>1, <1>a, DivInt
  <2>3. j * w \in Int
    BY <2>2, <1>a
  <2> HIDE DEF j
  <2>4. QED
    BY <1>1, <2>2, <2>3
<1>4. n = IF conv = "d" /\ m >= w \div 2 THEN m - w ELSE m
  BY DEF Narrow, w
<1> HIDE DEF q, m, j
<1>5. CASE n < 0
  <2>1. conv = "d" /\ n = m - w /\ v = w - m /\ m >= w \div 2
    BY <1>2, <1>4, <1>5, <1>1
  <2>2. v \in 1..WordMax
    BY <1>1, <1>2, <2>1
  <2>3. r = WordMax + 1 - v
    BY <1>1, <1>5, <2>2 DEF ReadAs
  <2>4. r = (WordMax + 1) - (w - m) /\ m \in Int
    <3>1. v = w - m
      BY <2>1
    <3>2. m \in Int /\ w \in Int /\ WordMax \in Int
      BY <1>1, <1>2, <1>a
    <3>3. QED
      BY <2>3, <3>1, <3>2
  <2>5. (r - value) % w = 0
    BY <1>2, <1>3, <1>a, <2>4, TurnedMod
  <2>6. QED
    BY <1>2, <1>1, <2>1, <2>2, <2>5 DEF w
<1>6. CASE ~ (n < 0)
  <2>1. n = m /\ v = m /\ r = m
    <3>1. m \in Nat /\ w \in Nat /\ m < w
      BY <1>2, <1>a
    <3>2. n = m
      BY <1>4, <1>6, <3>1
    <3>3. QED
      BY <1>6, <3>2 DEF ReadAs
  <2>2. r - value = (-q) * w
    <3> DEFINE a == q * w
    <3>1. (-q) * w = -a /\ a \in Int /\ value = a + m
      BY <1>2, <1>a
    <3>2. m \in Int /\ r = m
      BY <1>2, <2>1
    <3> HIDE DEF a
    <3>3. QED
      BY <3>1, <3>2
  <2>3. (r - value) % w = 0
    <3>1. -q \in Int /\ r - value \in Int
      BY <1>2, <2>1
    <3>2. QED
      BY <1>a, <2>2, <3>1, MultipleMod
  <2>4. QED
    BY <1>1, <1>2, <2>1, <2>3 DEF w
<1>7. QED
  BY <1>5, <1>6

(* What is left of a number: a digit less with every step. *)
LEMMA RemainingIs ==
    ASSUME NEW value \in Nat, NEW base \in 2..36
    PROVE  /\ Remaining(value, base) \in [0..NtoaSize -> 0..value]
           /\ Remaining(value, base)[0] = value
           /\ \A k \in 1..NtoaSize : Remaining(value, base)[k] = Remaining(value, base)[k - 1] \div base
<1> DEFINE S == 0..value
           step == [k \in (0 + 1)..NtoaSize |-> [v \in S |-> v \div base]]
           Fn(f) == [k \in 0..NtoaSize |-> IF k = 0 THEN value ELSE f[k - 1] \div base]
           left == CHOOSE f : f = Fn(f)
<1>1. NtoaSize \in Nat /\ 0 <= NtoaSize /\ 0 \in Nat /\ value \in S
  BY LibcAssumption
<1>2. \A v \in S : v \div base \in S
  OBVIOUS
<1>3. step \in [(0 + 1)..NtoaSize -> [S -> S]]
  BY <1>2
<1>4. PICK f : AreSteps(S, 0, NtoaSize, value, step, f)
  <2> HIDE DEF S, step
  <2>1. QED
    BY <1>1, <1>3, StepsExist
<1>5. f \in [0..NtoaSize -> S] /\ f[0] = value
      /\ \A n \in 1..NtoaSize : f[n] = f[n - 1] \div base
  <2>1. f \in [0..NtoaSize -> S] /\ f[0] = value
        /\ \A n \in (0 + 1)..NtoaSize : f[n] = step[n][f[n - 1]]
    BY <1>4 DEF AreSteps
  <2>2. ASSUME NEW n \in 1..NtoaSize PROVE f[n] = f[n - 1] \div base
    <3>1. n \in (0 + 1)..NtoaSize /\ n - 1 \in 0..NtoaSize
      BY <1>1
    <3>2. f[n - 1] \in S
      BY <2>1, <3>1
    <3>3. f[n] = step[n][f[n - 1]] /\ step[n] = [v \in S |-> v \div base]
      BY <2>1, <3>1
    <3> HIDE DEF S, step
    <3>4. QED
      BY <3>2, <3>3
  <2>3. QED
    BY <2>1, <2>2
<1>6. f = Fn(f)
  <2>1. \A n \in 0..NtoaSize : f[n] = Fn(f)[n]
    BY <1>1, <1>5
  <2>2. QED
    BY <1>5, <2>1
<1>7. left = Fn(left)
  <2> HIDE DEF Fn
  <2>1. QED
    BY <1>6
<1>8. DOMAIN left = 0..NtoaSize /\ left = [n \in 0..NtoaSize |-> left[n]]
  <2>1. DOMAIN Fn(left) = 0..NtoaSize /\ Fn(left) = [n \in 0..NtoaSize |-> Fn(left)[n]]
    OBVIOUS
  <2> HIDE DEF Fn, left
  <2>2. QED
    BY <1>7, <2>1
<1>9. left[0] = value /\ \A n \in 1..NtoaSize : left[n] = left[n - 1] \div base
  <2>1. Fn(left)[0] = value
    BY <1>1
  <2>2. ASSUME NEW n \in 1..NtoaSize PROVE Fn(left)[n] = left[n - 1] \div base
    BY <1>1
  <2> HIDE DEF Fn, left
  <2>3. QED
    BY <1>7, <2>1, <2>2
<1> HIDE DEF left
<1> DEFINE Good == {n \in 0..NtoaSize : left[n] \in S}
<1>10. ASSUME NEW n \in 0..NtoaSize, \A h \in 0..(n - 1) : h \in Good PROVE n \in Good
  <2>1. CASE n = 0
    BY <1>1, <1>9, <2>1
  <2>2. CASE n # 0
    <3>1. n - 1 \in 0..(n - 1) /\ n \in 1..NtoaSize
      BY <1>1, <2>2
    <3>2. left[n - 1] \in S /\ left[n] = left[n - 1] \div base
      BY <1>9, <1>10, <3>1
    <3>3. left[n] \in S
      <4> HIDE DEF S
      <4>1. QED
        BY <1>2, <3>2
    <3>4. QED
      BY <3>3
  <2>3. QED
    BY <2>1, <2>2
<1>11. \A n \in 0..NtoaSize : n \in Good
  <2>1. Good \in SUBSET (0..NtoaSize)
    OBVIOUS
  <2> HIDE DEF Good
  <2>2. QED
    BY <1>1, <1>10, <2>1, UpInduction
<1>12. left \in [0..NtoaSize -> S]
  BY <1>8, <1>11
<1>13. Remaining(value, base) = left
  BY DEF Remaining, left
<1>14. QED
  BY <1>9, <1>12, <1>13

(* A digit is what the next step takes off. *)
LEMMA DigitIs ==
    ASSUME NEW value \in Nat, NEW base \in 2..36, NEW k \in 1..NtoaSize
    PROVE  /\ Remaining(value, base)[k - 1] \in 0..value /\ Remaining(value, base)[k] \in 0..value
           /\ Remaining(value, base)[k - 1] % base \in 0..(base - 1)
           /\ Remaining(value, base)[k - 1]
                = Remaining(value, base)[k] * base + (Remaining(value, base)[k - 1] % base)
<1> DEFINE r == Remaining(value, base)[k - 1]
<1>1. k - 1 \in 0..NtoaSize /\ k \in 0..NtoaSize
  BY LibcAssumption
<1>2. r \in 0..value /\ Remaining(value, base)[k] \in 0..value /\ Remaining(value, base)[k] = r \div base
  BY <1>1, RemainingIs
<1> HIDE DEF r
<1>3. r \in Nat /\ base \in Nat \ {0}
  BY <1>2
<1>4. r % base \in 0..(base - 1) /\ r = (r \div base) * base + (r % base)
  BY <1>3, DivMod
<1>5. QED
  BY <1>2, <1>4 DEF r

(* A smaller number in a larger base is used up sooner. *)
LEMMA RemainingOrder ==
    ASSUME NEW v \in Nat, NEW b \in 2..36, NEW w \in Nat, NEW c \in 2..36, v <= w, c <= b
    PROVE  \A k \in 0..NtoaSize : Remaining(v, b)[k] <= Remaining(w, c)[k]
<1> DEFINE l == Remaining(v, b)
           m == Remaining(w, c)
           Good == {k \in 0..NtoaSize : l[k] <= m[k]}
<1>1. /\ NtoaSize \in Nat
      /\ l \in [0..NtoaSize -> 0..v] /\ l[0] = v
      /\ \A k \in 1..NtoaSize : l[k] = l[k - 1] \div b
      /\ m \in [0..NtoaSize -> 0..w] /\ m[0] = w
      /\ \A k \in 1..NtoaSize : m[k] = m[k - 1] \div c
  BY RemainingIs, LibcAssumption
<1> HIDE DEF l, m
<1>2. ASSUME NEW k \in 0..NtoaSize, \A h \in 0..(k - 1) : h \in Good PROVE k \in Good
  <2>1. CASE k = 0
    BY <1>1, <2>1
  <2>2. CASE k # 0
    <3>1. k - 1 \in 0..(k - 1) /\ k \in 1..NtoaSize /\ k - 1 \in 0..NtoaSize
      BY <1>1, <2>2
    <3>2. /\ l[k] = l[k - 1] \div b /\ m[k] = m[k - 1] \div c /\ l[k - 1] <= m[k - 1]
          /\ l[k - 1] \in 0..v /\ m[k - 1] \in 0..w
      BY <1>1, <1>2, <3>1
    <3>3. \A x \in Nat, y \in Nat : x <= y => x \div b <= y \div c
      <4> SUFFICES ASSUME NEW x \in Nat, NEW y \in Nat, x <= y PROVE x \div b <= y \div c
        OBVIOUS
      <4> DEFINE q == x \div b
                 p == y \div c
      <4>1. /\ q \in Nat /\ x % b \in 0..(b - 1) /\ x = q * b + (x % b)
            /\ p \in Nat /\ y % c \in 0..(c - 1) /\ y = p * c + (y % c)
        <5>1. b \in Nat \ {0} /\ c \in Nat \ {0}
          OBVIOUS
        <5>2. x \div b \in Nat /\ x % b \in 0..(b - 1) /\ x = (x \div b) * b + (x % b)
          BY <5>1, DivMod
        <5>3. y \div c \in Nat /\ y % c \in 0..(c - 1) /\ y = (y \div c) * c + (y % c)
          BY <5>1, DivMod
        <5>4. QED
          BY <5>2, <5>3
      <4> HIDE DEF q, p
      <4>2. CASE q <= p
        BY <4>2 DEF q, p
      <4>3. CASE p + 1 <= q
        <5>1. (p + 1) * c <= q * c /\ c * q <= b * q
          <6>1. c \in Nat /\ b \in Nat /\ p + 1 \in Nat
            BY <4>1
          <6>2. QED
            BY <4>1, <4>3, <6>1, TimesKeepsOrder
        <5>2. (p + 1) * c = p * c + c /\ c * q = q * c /\ b * q = q * b
              /\ p * c \in Int /\ q * c \in Int /\ q * b \in Int
          BY <4>1
        <5> DEFINE pc == p * c
                   qc == q * c
                   qb == q * b
                   xm == x % b
                   ym == y % c
        <5>3. /\ pc + c <= qc /\ qc <= qb /\ x = qb + xm /\ y = pc + ym /\ xm >= 0 /\ ym < c
              /\ pc \in Int /\ qc \in Int /\ qb \in Int /\ xm \in Int /\ ym \in Int
          BY <4>1, <5>1, <5>2
        <5> HIDE DEF pc, qc, qb, xm, ym
        <5>4. QED
          BY <5>3
      <4>4. QED
        BY <4>1, <4>2, <4>3
    <3>4. l[k - 1] \in Nat /\ m[k - 1] \in Nat
      BY <3>2
    <3>5. QED
      BY <3>2, <3>3, <3>4
  <2>3. QED
    BY <2>1, <2>2
<1>3. Good \in SUBSET (0..NtoaSize)
  OBVIOUS
<1> HIDE DEF Good
<1>4. \A k \in 0..NtoaSize : k \in Good
  BY <1>1, <1>2, <1>3, UpInduction
<1>5. QED
  BY <1>4 DEF Good, l, m

(* Behind the last digit nothing is left. *)
LEMMA NothingLeft ==
    ASSUME NEW value \in Nat, NEW base \in 2..36, NEW n \in 0..NtoaSize,
           Remaining(value, base)[n] = 0, NEW m \in n..NtoaSize
    PROVE  Remaining(value, base)[m] = 0
<1> DEFINE l == Remaining(value, base)
           Good == {k \in 0..NtoaSize : k >= n => l[k] = 0}
<1>1. NtoaSize \in Nat /\ m \in 0..NtoaSize
  BY LibcAssumption
<1>a. l[n] = 0 /\ \A k \in 1..NtoaSize : l[k] = l[k - 1] \div base
  BY RemainingIs
<1> HIDE DEF l
<1>2. ASSUME NEW k \in 0..NtoaSize, \A h \in 0..(k - 1) : h \in Good PROVE k \in Good
  <2>1. CASE k > n
    <3>1. k - 1 \in 0..(k - 1) /\ k \in 1..NtoaSize /\ k - 1 >= n
      BY <1>1, <2>1
    <3>2. l[k] = l[k - 1] \div base /\ l[k - 1] = 0
      BY <1>2, <1>a, <3>1
    <3>3. 0 \div base = 0
      OBVIOUS
    <3>4. QED
      BY <3>2, <3>3
  <2>2. CASE ~ (k > n)
    BY <1>a, <2>2
  <2>3. QED
    BY <2>1, <2>2
<1>3. Good \in SUBSET (0..NtoaSize)
  OBVIOUS
<1> HIDE DEF Good
<1>4. \A k \in 0..NtoaSize : k \in Good
  BY <1>1, <1>2, <1>3, UpInduction
<1>5. QED
  BY <1>1, <1>4 DEF Good, l

(* The characters of the first n digits of a number, the last one first. *)
DigitChars(value, base, flags, n) ==
    [k \in 1..n |-> DigitChar(Remaining(value, base)[k - 1] % base, flags)]

(* A word has a digit, and they do not fill the buffer. *)
LEMMA DigitsAre ==
    ASSUME NEW value \in 0..WordMax, NEW base \in 10..36, NEW flags, "precision" \notin flags
    PROVE  \E m \in 1..(NtoaSize - 1) :
              /\ Digits(value, base, flags) = DigitChars(value, base, flags, m)
              /\ Remaining(value, base)[m] = 0
<1> DEFINE l == Remaining(value, base)
           len == CHOOSE n \in 1..NtoaSize : (l[n] = 0 \/ n = NtoaSize) /\ \A m \in 1..(n - 1) : l[m] # 0
           ends == {n \in Nat : n \in 1..NtoaSize /\ (l[n] = 0 \/ n = NtoaSize)}
<1>1. NtoaSize \in Nat /\ NtoaSize >= 2 /\ WordMax \in Nat /\ value \in Nat /\ value <= WordMax
      /\ base \in 2..36 /\ 10 \in 2..36 /\ 10 <= base /\ NtoaSize - 1 \in 0..NtoaSize
  BY LibcAssumption
<1>2. l[NtoaSize - 1] = 0
  <2>1. l[NtoaSize - 1] <= 0
    BY <1>1, RemainingOrder, NtoaAssumption
  <2>2. l[NtoaSize - 1] \in 0..value
    <3>1. l \in [0..NtoaSize -> 0..value]
      BY <1>1, RemainingIs
    <3> HIDE DEF l
    <3>2. QED
      BY <1>1, <3>1
  <2> HIDE DEF l
  <2>3. QED
    BY <2>1, <2>2
<1>3. NtoaSize - 1 \in ends
  BY <1>1, <1>2
<1>4. PICK n \in ends : \A h \in ends : n <= h
  <2>1. ends \in SUBSET Nat /\ ends # {}
    BY <1>3
  <2> HIDE DEF ends
  <2>2. QED
    BY <2>1, LeastOf
<1>5. n \in 1..NtoaSize /\ (l[n] = 0 \/ n = NtoaSize) /\ \A m \in 1..(n - 1) : l[m] # 0
  <2>1. ASSUME NEW m \in 1..(n - 1), l[m] = 0 PROVE FALSE
    <3>1. m \in ends
      BY <1>1, <1>4, <2>1
    <3>2. n <= m
      BY <1>4, <3>1
    <3>3. QED
      BY <1>4, <3>2
  <2>2. QED
    BY <1>4, <2>1
<1>6. /\ len \in 1..NtoaSize /\ (l[len] = 0 \/ len = NtoaSize) /\ \A m \in 1..(len - 1) : l[m] # 0
  <2> HIDE DEF l
  <2>1. QED
    BY <1>5
<1>7. Digits(value, base, flags) = DigitChars(value, base, flags, len)
  BY DEF Digits, DigitChars
<1> HIDE DEF len, l
<1>8. len <= NtoaSize - 1
  <2>1. CASE len = NtoaSize
    <3>1. NtoaSize - 1 \in 1..(len - 1)
      BY <1>1, <2>1
    <3>2. QED
      BY <1>2, <1>6, <3>1
  <2>2. QED
    BY <1>1, <1>6, <2>1
<1>9. len \in 1..(NtoaSize - 1) /\ l[len] = 0
  BY <1>1, <1>6, <1>8
<1>10. QED
  BY <1>7, <1>9 DEF l

(* The character of a digit is read as that digit. *)
ReadsDigit(c, d) ==
    /\ c \in Chars \ {NUL, Blank, Plus, Minus, LowerX, UpperX}
    /\ DigitOf(c) = d /\ ~ isspace(c)
LEMMA DigitCharReads ==
    ASSUME NEW d \in 0..15, NEW flags
    PROVE  ReadsDigit(DigitChar(d, flags), d)
<1>1. CASE d < 10
  BY <1>1 DEF DigitChar, ReadsDigit, DigitOf, isdigit, isspace, Chars, NUL, Blank, Plus, Minus,
              LowerX, UpperX, Digit0
<1>2. CASE d >= 10 /\ "upper" \in flags
  <2>1. DigitChar(d, flags) = 55 + d
    BY <1>2 DEF DigitChar, UpperA
  <2> DEFINE c == 55 + d
  <2>2. c \in 65..70 /\ d = c - 55
    BY <1>2
  <2> HIDE DEF c
  <2>3. ReadsDigit(c, d)
    BY <2>2 DEF ReadsDigit, DigitOf, isdigit, isalpha, isupper, isspace, Chars, NUL, Blank, Plus,
                Minus, LowerX, UpperX, UpperA
  <2>4. QED
    BY <2>1, <2>3 DEF c
<1>3. CASE d >= 10 /\ "upper" \notin flags
  <2>1. DigitChar(d, flags) = 87 + d
    BY <1>3 DEF DigitChar, LowerA
  <2> DEFINE c == 87 + d
  <2>2. c \in 97..102 /\ d = c - 87
    BY <1>3
  <2> HIDE DEF c
  <2>3. ReadsDigit(c, d)
    BY <2>2 DEF ReadsDigit, DigitOf, isdigit, isalpha, isupper, isspace, Chars, NUL, Blank, Plus,
                Minus, LowerX, UpperX, LowerA
  <2>4. QED
    BY <2>1, <2>3 DEF c
<1>4. QED
  BY <1>1, <1>2, <1>3

LEMMA DigitCharsAre ==
    ASSUME NEW value \in Nat, NEW base \in {10, 16}, NEW flags, NEW n \in 0..NtoaSize
    PROVE  /\ DigitChars(value, base, flags, n) \in Seq(Chars)
           /\ Len(DigitChars(value, base, flags, n)) = n
           /\ \A k \in 1..n :
                 /\ DigitChars(value, base, flags, n)[k]
                      = DigitChar(Remaining(value, base)[k - 1] % base, flags)
                 /\ ReadsDigit(DigitChars(value, base, flags, n)[k],
                               Remaining(value, base)[k - 1] % base)
<1> DEFINE t == DigitChars(value, base, flags, n)
<1>1. n \in Nat /\ t = [k \in 1..n |-> DigitChar(Remaining(value, base)[k - 1] % base, flags)]
  BY LibcAssumption DEF DigitChars
<1>2. ASSUME NEW k \in 1..n
      PROVE  /\ t[k] = DigitChar(Remaining(value, base)[k - 1] % base, flags)
             /\ ReadsDigit(t[k], Remaining(value, base)[k - 1] % base) /\ t[k] \in Chars
  <2>1. k \in 1..NtoaSize /\ base \in 2..36
    BY LibcAssumption
  <2> DEFINE d == Remaining(value, base)[k - 1] % base
  <2>2. d \in 0..(base - 1)
    BY <2>1, DigitIs
  <2> HIDE DEF d
  <2>3. d \in 0..15
    BY <2>2
  <2>4. ReadsDigit(DigitChar(d, flags), d)
    BY <2>3, DigitCharReads
  <2>5. t[k] = DigitChar(d, flags)
    BY <1>1 DEF d
  <2>6. QED
    BY <2>4, <2>5 DEF ReadsDigit, d
<1>3. t \in [1..n -> Chars]
  <2> HIDE DEF t
  <2>1. t = [k \in 1..n |-> t[k]]
    BY <1>1
  <2>2. QED
    BY <1>2, <2>1
<1>4. t \in Seq(Chars) /\ Len(t) = n
  <2> HIDE DEF t
  <2>1. QED
    BY <1>1, <1>3
<1>5. QED
  BY <1>2, <1>4

LEMMA CopiesAre ==
    ASSUME NEW S, NEW c \in S, NEW n \in Nat
    PROVE  /\ Copies(c, n) \in Seq(S) /\ Len(Copies(c, n)) = n
           /\ \A k \in 1..n : Copies(c, n)[k] = c
  BY DEF Copies

LEMMA Joined ==
    ASSUME NEW S, NEW s \in Seq(S), NEW t \in Seq(S), NEW a, a = Len(s), NEW b, b = Len(t)
    PROVE  /\ a \in Nat /\ b \in Nat /\ s \o t \in Seq(S) /\ Len(s \o t) = a + b
           /\ \A i \in 1..a : (s \o t)[i] = s[i]
           /\ \A i \in 1..b : (s \o t)[a + i] = t[i]
<1>1. a \in Nat /\ b \in Nat
  OBVIOUS
<1>2. /\ s \o t \in Seq(S) /\ Len(s \o t) = Len(s) + Len(t)
      /\ \A i \in 1..(Len(s) + Len(t)) : (s \o t)[i] = IF i <= Len(s) THEN s[i] ELSE t[i - Len(s)]
  BY ConcatProperties
<1>3. \A i \in 1..(a + b) : (s \o t)[i] = IF i <= a THEN s[i] ELSE t[i - a]
  BY <1>2
<1> DEFINE j == s \o t
<1>4. Len(j) = a + b /\ j \in Seq(S)
  BY <1>2
<1> HIDE DEF j
<1>5. \A i \in 1..a : j[i] = s[i]
  BY <1>1, <1>3 DEF j
<1>6. ASSUME NEW i \in 1..b PROVE j[a + i] = t[i]
  <2>1. a + i \in 1..(a + b) /\ ~ (a + i <= a) /\ (a + i) - a = i
    BY <1>1
  <2>2. QED
    BY <1>3, <2>1 DEF j
<1>7. QED
  BY <1>1, <1>4, <1>5, <1>6 DEF j

(* Zeros before a number are its next digits. *)
AreZeroed(value, base, flags, m, len, n) ==
    /\ n \in m..NtoaSize
    /\ n = IF m < AtMost(len, NtoaSize) THEN AtMost(len, NtoaSize) ELSE m
    /\ PadTo(DigitChars(value, base, flags, m), Digit0, len) = DigitChars(value, base, flags, n)
    /\ Remaining(value, base)[n] = 0
LEMMA ZerosAre ==
    ASSUME NEW value \in Nat, NEW base \in {10, 16}, NEW flags, NEW m \in 1..NtoaSize,
           Remaining(value, base)[m] = 0, NEW len \in Nat
    PROVE  \E n : AreZeroed(value, base, flags, m, len, n)
<1> DEFINE l == AtMost(len, NtoaSize)
           n == IF m < l THEN l ELSE m
           t == DigitChars(value, base, flags, m)
           u == DigitChars(value, base, flags, n)
           z == Copies(Digit0, IF m < l THEN l - m ELSE 0)
<1>1. NtoaSize \in Nat /\ l \in 0..NtoaSize /\ m \in 0..NtoaSize /\ base \in 2..36
  BY LibcAssumption DEF AtMost
<1> HIDE DEF l
<1>2. n \in m..NtoaSize /\ n \in 0..NtoaSize /\ (IF m < l THEN l - m ELSE 0) = n - m /\ n - m \in Nat
  BY <1>1
<1>3. /\ t \in Seq(Chars) /\ Len(t) = m
      /\ \A k \in 1..m : t[k] = DigitChar(Remaining(value, base)[k - 1] % base, flags)
  <2> HIDE DEF t
  <2>1. QED
    BY <1>1, DigitCharsAre DEF t
<1>4. /\ u \in Seq(Chars) /\ Len(u) = n
      /\ \A k \in 1..n : u[k] = DigitChar(Remaining(value, base)[k - 1] % base, flags)
  <2> HIDE DEF n
  <2>1. QED
    BY <1>2, DigitCharsAre
<1>5. z \in Seq(Chars) /\ Len(z) = n - m /\ \A k \in 1..(n - m) : z[k] = Digit0
  <2>1. Digit0 \in Chars
    BY DEF Digit0, Chars
  <2>2. z = Copies(Digit0, n - m)
    BY <1>2
  <2> DEFINE d == n - m
  <2>3. d \in Nat /\ z = Copies(Digit0, d)
    BY <1>2, <2>2
  <2> HIDE DEF d, z
  <2>4. z \in Seq(Chars) /\ Len(z) = d /\ \A k \in 1..d : z[k] = Digit0
    BY <2>1, <2>3, CopiesAre
  <2>5. QED
    BY <2>4 DEF d
<1>6. PadTo(t, Digit0, len) = t \o z
  <2> HIDE DEF t
  <2>1. QED
    BY <1>3 DEF PadTo, l
<1> HIDE DEF n, t, u, z
<1>7. /\ t \o z \in Seq(Chars) /\ Len(t \o z) = n
      /\ \A k \in 1..m : (t \o z)[k] = t[k]
      /\ \A k \in 1..(n - m) : (t \o z)[m + k] = z[k]
  <2>1. t \in Seq(Chars) /\ z \in Seq(Chars) /\ m = Len(t) /\ n - m = Len(z)
    BY <1>3, <1>5
  <2> DEFINE d == n - m
  <2>2. d = Len(z) /\ m + d = n
    BY <1>2, <2>1
  <2> HIDE DEF d
  <2>3. /\ t \o z \in Seq(Chars) /\ Len(t \o z) = m + d
        /\ \A i \in 1..m : (t \o z)[i] = t[i]
        /\ \A i \in 1..d : (t \o z)[m + i] = z[i]
    BY <2>1, <2>2, Joined
  <2>4. QED
    BY <2>2, <2>3 DEF d
<1>8. ASSUME NEW k \in 1..n PROVE (t \o z)[k] = u[k]
  <2>1. CASE k \in 1..m
    BY <1>3, <1>4, <1>7, <2>1
  <2>2. CASE k \notin 1..m
    <3>1. k - 1 \in m..NtoaSize /\ k - m \in 1..(n - m) /\ m + (k - m) = k
      BY <1>1, <1>2, <2>2
    <3>2. Remaining(value, base)[k - 1] = 0
      BY <1>1, <3>1, NothingLeft
    <3>3. DigitChar(0 % base, flags) = Digit0
      <4>1. 0 % base = 0
        OBVIOUS
      <4>2. QED
        BY <4>1 DEF DigitChar, Digit0
    <3>4. (t \o z)[m + (k - m)] = Digit0
      BY <1>5, <1>7, <3>1
    <3>5. u[k] = Digit0
      BY <1>4, <3>2, <3>3
    <3>6. QED
      BY <3>1, <3>4, <3>5
  <2>3. QED
    BY <2>1, <2>2
<1>9. t \o z = u
  BY <1>4, <1>7, <1>8, SeqEqual
<1>10. Remaining(value, base)[n] = 0
  BY <1>1, <1>2, NothingLeft
<1>11. QED
  BY <1>2, <1>6, <1>9, <1>10 DEF AreZeroed, n, t, u, l

(* Blanks around a text. *)
Framed(b, text, p) == Copies(Blank, b) \o text \o Copies(Blank, p)
IsFramed(f, text, n, b, p) ==
    /\ n \in Nat /\ f \in Seq(Chars) /\ Len(f) = b + n + p
    /\ \A i \in 1..b : f[i] = Blank
    /\ \A i \in 1..n : f[b + i] = text[i]
    /\ \A i \in (b + n + 1)..(b + n + p) : f[i] = Blank
LEMMA FramedIs ==
    ASSUME NEW text \in Seq(Chars), NEW n, n = Len(text), NEW b \in Nat, NEW p \in Nat,
           NEW f, f = Framed(b, text, p)
    PROVE  IsFramed(f, text, n, b, p)
<1> DEFINE x == Copies(Blank, b)
           z == Copies(Blank, p)
           t == x \o text
<1>1. n \in Nat /\ Blank \in Chars
  BY DEF Blank, Chars
<1>2. x \in Seq(Chars) /\ Len(x) = b /\ \A i \in 1..b : x[i] = Blank
  BY <1>1, CopiesAre
<1>3. z \in Seq(Chars) /\ Len(z) = p /\ \A i \in 1..p : z[i] = Blank
  BY <1>1, CopiesAre
<1>a. f = t \o z
  BY DEF Framed
<1> HIDE DEF x, z, t
<1>4. /\ t \in Seq(Chars) /\ Len(t) = b + n
      /\ \A i \in 1..b : t[i] = x[i]
      /\ \A i \in 1..n : t[b + i] = text[i]
  BY <1>2, Joined DEF t
<1>5. /\ f \in Seq(Chars) /\ Len(f) = b + n + p
      /\ \A i \in 1..(b + n) : f[i] = t[i]
      /\ \A i \in 1..p : f[b + n + i] = z[i]
  <2> DEFINE m == b + n
  <2>1. t \in Seq(Chars) /\ m = Len(t) /\ z \in Seq(Chars) /\ p = Len(z)
    BY <1>3, <1>4
  <2> HIDE DEF m
  <2>2. /\ t \o z \in Seq(Chars) /\ Len(t \o z) = m + p
        /\ \A i \in 1..m : (t \o z)[i] = t[i]
        /\ \A i \in 1..p : (t \o z)[m + i] = z[i]
    BY <2>1, Joined
  <2>3. QED
    BY <1>a, <2>2 DEF m
<1>7. \A i \in 1..b : f[i] = Blank
  <2>1. \A i \in 1..b : i \in 1..(b + n)
    BY <1>1
  <2>2. QED
    BY <1>2, <1>4, <1>5, <2>1
<1>8. ASSUME NEW i \in 1..n PROVE f[b + i] = text[i]
  <2>1. b + i \in 1..(b + n)
    BY <1>1
  <2>2. f[b + i] = t[b + i]
    BY <1>5, <2>1
  <2>3. QED
    BY <1>4, <2>2
<1>9. ASSUME NEW i \in (b + n + 1)..(b + n + p) PROVE f[i] = Blank
  <2>1. i - (b + n) \in 1..p /\ (b + n) + (i - (b + n)) = i
    BY <1>1
  <2>2. QED
    BY <1>3, <1>5, <2>1
<1>10. QED
  BY <1>1, <1>5, <1>7, <1>8, <1>9 DEF IsFramed

(* What _out_rev puts out: the text backwards in its frame of blanks. *)
Zeroed(flags) == "zero" \in flags /\ "left" \notin flags
IsOutRev(text, l, width, flags, b, p) ==
    /\ b \in Nat /\ p \in Nat
    /\ out_rev(text, width, flags) = Framed(b, Reverse(text), p)
    /\ Zeroed(flags) \/ b + l + p >= width
    /\ "left" \notin flags => p = 0
    /\ {"left", "zero"} \cap flags # {} => b = 0
LEMMA OutRevIs ==
    ASSUME NEW text \in Seq(Chars), NEW l, l = Len(text), NEW width \in Nat, NEW flags
    PROVE  \E b, p : IsOutRev(text, l, width, flags, b, p)
<1> DEFINE n == IF l < width THEN width - l ELSE 0
           b == IF flags \cap {"left", "zero"} = {} THEN n ELSE 0
           p == IF "left" \in flags THEN n ELSE 0
<1>1. l \in Nat
  OBVIOUS
<1>2. n \in Nat /\ l + n >= width
  BY <1>1
<1>3. Copies(Blank, 0) = <<>>
  BY DEF Copies
<1>4. out_rev(text, width, flags) = Framed(b, Reverse(text), p)
  BY <1>3 DEF out_rev, Framed
<1> HIDE DEF n
<1>5. b \in Nat /\ p \in Nat
  BY <1>2
<1>6. Zeroed(flags) \/ b + l + p >= width
  <2>1. CASE "left" \in flags
    BY <1>1, <1>2, <2>1
  <2>2. CASE flags \cap {"left", "zero"} = {}
    BY <1>1, <1>2, <2>2
  <2>3. QED
    BY <2>1, <2>2 DEF Zeroed
<1>7. ("left" \notin flags => p = 0) /\ ({"left", "zero"} \cap flags # {} => b = 0)
  OBVIOUS
<1> HIDE DEF b, p
<1>8. QED
  BY <1>4, <1>5, <1>6, <1>7 DEF IsOutRev

LEMMA ReversedIs ==
    ASSUME NEW S, NEW t \in Seq(S), NEW n, n = Len(t)
    PROVE  /\ n \in Nat /\ Reverse(t) \in Seq(S) /\ Len(Reverse(t)) = n
           /\ \A i \in 1..n : Reverse(t)[i] = t[n - i + 1]
<1>1. n \in Nat /\ \A i \in 1..n : n - i + 1 \in 1..n /\ t[n - i + 1] \in S
  OBVIOUS
<1>2. Reverse(t) = [i \in 1..n |-> t[n - i + 1]]
  BY DEF Reverse
<1>3. QED
  BY <1>1, <1>2

(* A sign behind the digits, which comes before them once they are reversed. *)
IsSigned(f, t, n, c, sign, sg) ==
    /\ sg \in {0, 1} /\ f \in Seq(Chars) /\ Len(f) = n + sg
    /\ \A i \in 1..n : f[i] = t[i]
    /\ sg = 1 => f[n + 1] = c
    /\ sign # <<>> /\ n < NtoaSize => sg = 1
LEMMA SignedIs ==
    ASSUME NEW t \in Seq(Chars), NEW n, n = Len(t), n <= NtoaSize,
           NEW c \in Chars, NEW sign \in {<<>>, <<c>>}
    PROVE  \E sg : IsSigned(Fits(t, sign), t, n, c, sign, sg)
<1>1. CASE sign = <<c>> /\ n < NtoaSize
  <2>1. <<c>> \in Seq(Chars) /\ 1 = Len(<<c>>) /\ 1 \in 1..1 /\ <<c>>[1] = c
    OBVIOUS
  <2>2. /\ t \o <<c>> \in Seq(Chars) /\ Len(t \o <<c>>) = n + 1
        /\ \A i \in 1..n : (t \o <<c>>)[i] = t[i]
        /\ \A i \in 1..1 : (t \o <<c>>)[n + i] = <<c>>[i]
    BY <2>1, Joined
  <2>3. Fits(t, sign) = t \o <<c>>
    BY <1>1 DEF Fits
  <2>4. (t \o <<c>>)[n + 1] = c
    BY <2>1, <2>2
  <2>5. IsSigned(Fits(t, sign), t, n, c, sign, 1)
    BY <2>2, <2>3, <2>4 DEF IsSigned
  <2>6. QED
    BY <2>5
<1>2. CASE sign = <<>> \/ ~ (n < NtoaSize)
  <2>1. Fits(t, sign) = t
    <3>1. CASE sign = <<>>
      BY <3>1, ConcatEmptySeq DEF Fits
    <3>2. CASE ~ (n < NtoaSize)
      BY <3>2 DEF Fits
    <3>3. QED
      BY <1>2, <3>1, <3>2
  <2>2. n + 0 = n
    OBVIOUS
  <2>3. IsSigned(Fits(t, sign), t, n, c, sign, 0)
    BY <1>2, <2>1, <2>2 DEF IsSigned
  <2>4. QED
    BY <2>3
<1>3. QED
  BY <1>1, <1>2

(* The numeral of v in a text: b blanks, sg signs, n digits, and blanks. *)
IsNumeral(t, base, v, negative, b, sg, n) ==
    /\ t \in Seq(Chars) /\ b \in Nat /\ sg \in {0, 1} /\ n \in 1..NtoaSize /\ b + sg + n <= Len(t)
    /\ \A i \in 1..b : t[i] = Blank
    /\ sg = 1 => t[b + 1] = IF negative THEN Minus ELSE Plus
    /\ negative => sg = 1
    /\ \A i \in 1..n : ReadsDigit(t[b + sg + i], Remaining(v, base)[n - i] % base)
    /\ \A i \in (b + sg + n + 1)..Len(t) : t[i] = Blank
    /\ Remaining(v, base)[n] = 0

LEMMA NumeralIs ==
    ASSUME NEW v \in 0..WordMax, NEW base \in {10, 16}, NEW negative \in BOOLEAN,
           NEW width \in Nat, NEW flags, flags \cap {"precision", "hash", "space"} = {},
           negative => width <= NtoaSize,
           NEW t, t = ntoa_long(v, negative, base, 0, width, flags)
    PROVE  \E b, sg, n :
              /\ IsNumeral(t, base, v, negative, b, sg, n)
              /\ Len(t) >= AtMost(width, NtoaSize)
              /\ "left" \notin flags =>
                    Len(t) = b + sg + n /\ ("zero" \in flags => b = 0)
<1> DEFINE wide == SignWidth(negative, width, flags)
           D == Digits(v, base, flags)
           zeros == IF "left" \in flags THEN D
                    ELSE PadTo(PadTo(D, Digit0, 0), Digit0, IF "zero" \in flags THEN wide ELSE 0)
           c == IF negative THEN Minus ELSE Plus
           sign == IF negative THEN <<Minus>> ELSE IF "plus" \in flags THEN <<Plus>> ELSE <<>>
           F == Fits(zeros, sign)
<1>1. /\ v \in Nat /\ base \in 2..36 /\ base \in 10..36 /\ NtoaSize \in Nat /\ NtoaSize >= 2
      /\ "precision" \notin flags /\ "hash" \notin flags /\ "space" \notin flags
  BY LibcAssumption
<1>2. t = out_rev(F, wide, flags)
  <2>1. flags \ {"hash"} = flags
    BY <1>1
  <2>2. t = ntoa_format(D, negative, base, 0, width, flags)
    BY <2>1 DEF ntoa_long
  <2> HIDE DEF D
  <2>3. QED
    BY <1>1, <2>2 DEF ntoa_format
<1>3. PICK m \in 1..(NtoaSize - 1) : D = DigitChars(v, base, flags, m) /\ Remaining(v, base)[m] = 0
  BY <1>1, DigitsAre
<1>4. /\ wide \in Nat /\ wide <= width /\ width <= wide + 1
      /\ wide # width => /\ "zero" \in flags /\ "left" \notin flags /\ sign # <<>> /\ wide = width - 1
      /\ negative /\ "zero" \in flags /\ "left" \notin flags /\ width > 0 => wide = width - 1
  BY <1>1 DEF SignWidth
<1> HIDE DEF wide, D
<1>5. PICK n \in m..NtoaSize :
        /\ zeros = DigitChars(v, base, flags, n) /\ Remaining(v, base)[n] = 0
        /\ n = IF "left" \notin flags /\ "zero" \in flags /\ m < AtMost(wide, NtoaSize)
               THEN AtMost(wide, NtoaSize) ELSE m
  <2>1. m \in 1..NtoaSize /\ m \in m..NtoaSize
    BY <1>1
  <2>2. CASE "left" \in flags
    BY <1>3, <2>1, <2>2
  <2>3. CASE "left" \notin flags
    <3> DEFINE len == IF "zero" \in flags THEN wide ELSE 0
    <3>1. PadTo(D, Digit0, 0) = D
      <4>1. AtMost(0, NtoaSize) = 0
        BY <1>1 DEF AtMost
      <4>2. PICK k : AreZeroed(v, base, flags, m, 0, k)
        BY <1>1, <1>3, <2>1, ZerosAre, 0 \in Nat
      <4>3. k = m
        BY <2>1, <4>1, <4>2 DEF AreZeroed
      <4>4. QED
        BY <1>3, <4>2, <4>3 DEF AreZeroed
    <3>2. len \in Nat /\ AtMost(0, NtoaSize) = 0
      BY <1>1, <1>4 DEF AtMost
    <3>3. zeros = PadTo(DigitChars(v, base, flags, m), Digit0, len)
      BY <1>3, <2>3, <3>1
    <3>4. ~ (m < AtMost(0, NtoaSize))
      BY <2>1, <3>2
    <3> HIDE DEF len, zeros
    <3>a. PICK k : AreZeroed(v, base, flags, m, len, k)
      BY <1>1, <1>3, <2>1, <3>2, ZerosAre
    <3>5. /\ k \in m..NtoaSize
          /\ k = IF m < AtMost(len, NtoaSize) THEN AtMost(len, NtoaSize) ELSE m
          /\ PadTo(DigitChars(v, base, flags, m), Digit0, len) = DigitChars(v, base, flags, k)
          /\ Remaining(v, base)[k] = 0
      BY <3>a DEF AreZeroed
    <3>6. k = IF "left" \notin flags /\ "zero" \in flags /\ m < AtMost(wide, NtoaSize)
              THEN AtMost(wide, NtoaSize) ELSE m
      BY <2>3, <3>2, <3>4, <3>5 DEF len
    <3>7. QED
      BY <3>3, <3>5, <3>6
  <2>4. QED
    BY <2>2, <2>3
<1> HIDE DEF zeros
<1>6. n \in 1..NtoaSize /\ n \in Nat /\ n <= NtoaSize /\ n >= m
  BY <1>1, <1>5
<1>7. /\ zeros \in Seq(Chars) /\ Len(zeros) = n
      /\ \A k \in 1..n : ReadsDigit(zeros[k], Remaining(v, base)[k - 1] % base)
  <2>1. n \in 0..NtoaSize
    BY <1>6
  <2>2. QED
    BY <1>1, <1>5, <2>1, DigitCharsAre
<1>8. c \in Chars /\ sign \in {<<>>, <<c>>} /\ (negative => sign # <<>>)
  BY DEF Plus, Minus, Chars
<1>b. PICK sg : IsSigned(F, zeros, n, c, sign, sg)
  <2> HIDE DEF sign, c
  <2>1. zeros \in Seq(Chars) /\ n = Len(zeros) /\ n <= NtoaSize
    BY <1>6, <1>7
  <2>2. QED
    BY <1>8, <2>1, SignedIs
<1>9. /\ sg \in {0, 1} /\ F \in Seq(Chars) /\ Len(F) = n + sg
      /\ \A i \in 1..n : F[i] = zeros[i]
      /\ sg = 1 => F[n + 1] = c
      /\ sign # <<>> /\ n < NtoaSize => sg = 1
  BY <1>b DEF IsSigned
<1>10. Zeroed(flags) => n >= AtMost(wide, NtoaSize)
  BY <1>1, <1>4, <1>5 DEF AtMost, Zeroed
<1>11. negative => n < NtoaSize
  <2> SUFFICES ASSUME negative PROVE n < NtoaSize
    OBVIOUS
  <2>1. CASE n = m
    BY <1>1, <2>1
  <2>2. CASE n # m
    <3>1. "left" \notin flags /\ "zero" \in flags /\ m < AtMost(wide, NtoaSize) /\ n = AtMost(wide, NtoaSize)
      BY <1>5, <2>2
    <3>2. m < wide
      BY <1>1, <1>4, <3>1 DEF AtMost
    <3>3. wide = width - 1
      BY <1>1, <1>4, <3>1, <3>2
    <3>4. QED
      BY <1>1, <1>4, <3>1, <3>3 DEF AtMost
  <2>3. QED
    BY <2>1, <2>2
<1>12. sg = 1 => F[n + 1] = IF negative THEN Minus ELSE Plus
  BY <1>9 DEF c
<1>13. negative => sg = 1
  BY <1>8, <1>9, <1>11
<1> HIDE DEF F, sign, c
<1>a. n \in Nat /\ sg \in Nat /\ NtoaSize \in Nat /\ wide \in Nat
  BY <1>1, <1>4, <1>6, <1>9
<1>14. ASSUME Zeroed(flags) PROVE n + sg >= AtMost(width, NtoaSize)
  <2>1. CASE wide = width
    BY <1>a, <1>10, <1>14, <2>1 DEF AtMost
  <2>2. CASE wide # width
    <3>1. sign # <<>> /\ wide = width - 1
      BY <1>4, <2>2
    <3>2. CASE n < NtoaSize
      <4>1. sg = 1
        BY <1>9, <3>1, <3>2
      <4>2. QED
        BY <1>a, <1>10, <1>14, <3>1, <3>2, <4>1 DEF AtMost
    <3>3. CASE ~ (n < NtoaSize)
      BY <1>a, <3>3 DEF AtMost
    <3>4. QED
      BY <3>2, <3>3
  <2>3. QED
    BY <2>1, <2>2
<1> DEFINE R == Reverse(F)
           l == n + sg
<1>15. /\ l \in Nat /\ R \in Seq(Chars) /\ Len(R) = l
       /\ \A i \in 1..l : R[i] = F[l - i + 1]
  <2>1. l = Len(F) /\ F \in Seq(Chars)
    BY <1>9
  <2> HIDE DEF l
  <2>2. QED
    BY <2>1, ReversedIs
<1> HIDE DEF R
<1>16. /\ sg = 1 => R[1] = IF negative THEN Minus ELSE Plus
       /\ \A i \in 1..n : ReadsDigit(R[sg + i], Remaining(v, base)[n - i] % base)
  <2>1. sg = 1 => R[1] = IF negative THEN Minus ELSE Plus
    <3>1. sg = 1 => 1 \in 1..l /\ l - 1 + 1 = n + 1
      BY <1>6, <1>9
    <3>2. QED
      BY <1>12, <1>15, <3>1
  <2>2. ASSUME NEW i \in 1..n
        PROVE  ReadsDigit(R[sg + i], Remaining(v, base)[n - i] % base)
    <3>1. sg + i \in 1..l /\ l - (sg + i) + 1 = n - i + 1 /\ n - i + 1 \in 1..n
          /\ (n - i + 1) - 1 = n - i
      <4>1. n \in Nat /\ sg \in Nat /\ i \in 1..n
        BY <1>a
      <4>2. /\ sg + i \in 1..(n + sg) /\ (n + sg) - (sg + i) + 1 = n - i + 1
            /\ n - i + 1 \in 1..n /\ (n - i + 1) - 1 = n - i
        BY ONLY <4>1
      <4>3. QED
        BY <4>2
    <3> DEFINE j == sg + i
    <3>a. R[j] = F[l - j + 1] /\ l - j + 1 = n - i + 1
      <4>1. j \in 1..l /\ l - j + 1 = n - i + 1
        BY <3>1
      <4> HIDE DEF j, l
      <4>2. QED
        BY <1>15, <4>1
    <3>2. R[sg + i] = F[n - i + 1]
      BY <3>a
    <3>3. R[sg + i] = zeros[n - i + 1]
      BY <1>9, <3>1, <3>2
    <3>4. ReadsDigit(zeros[n - i + 1], Remaining(v, base)[(n - i + 1) - 1] % base)
      BY <1>7, <3>1
    <3>5. QED
      BY <3>1, <3>3, <3>4
  <2>3. QED
    BY <2>1, <2>2
<1>c. PICK b, p : IsOutRev(F, l, wide, flags, b, p)
  <2>1. F \in Seq(Chars) /\ l = Len(F) /\ wide \in Nat
    BY <1>4, <1>9
  <2> HIDE DEF l
  <2>2. QED
    BY <2>1, OutRevIs
<1>17. /\ b \in Nat /\ p \in Nat /\ t = Framed(b, R, p)
       /\ Zeroed(flags) \/ b + l + p >= wide
       /\ "left" \notin flags => p = 0
       /\ {"left", "zero"} \cap flags # {} => b = 0
  BY <1>2, <1>c DEF IsOutRev, R
<1>18. /\ t \in Seq(Chars) /\ Len(t) = b + l + p
       /\ \A i \in 1..b : t[i] = Blank
       /\ \A i \in 1..l : t[b + i] = R[i]
       /\ \A i \in (b + l + 1)..(b + l + p) : t[i] = Blank
  <2>1. R \in Seq(Chars) /\ l = Len(R) /\ t = Framed(b, R, p)
    BY <1>15, <1>17
  <2> HIDE DEF l
  <2>3. IsFramed(t, R, l, b, p)
    BY <1>17, <2>1, FramedIs
  <2>2. QED
    BY <2>3 DEF IsFramed
<1>19. IsNumeral(t, base, v, negative, b, sg, n)
  <2>1. b + sg + n <= Len(t) /\ b + sg + n = b + l
    BY <1>6, <1>9, <1>17, <1>18
  <2>2. sg = 1 => t[b + 1] = IF negative THEN Minus ELSE Plus
    <3>1. sg = 1 => 1 \in 1..l
      BY <1>6, <1>9, <1>17
    <3>2. QED
      BY <1>16, <1>18, <3>1
  <2>3. ASSUME NEW i \in 1..n
        PROVE  ReadsDigit(t[b + sg + i], Remaining(v, base)[n - i] % base)
    <3>1. sg + i \in 1..l /\ b + (sg + i) = b + sg + i
      BY <1>6, <1>9, <1>17
    <3>2. t[b + sg + i] = R[sg + i]
      BY <1>18, <3>1
    <3>3. QED
      BY <1>16, <3>2
  <2>4. \A i \in (b + sg + n + 1)..Len(t) : t[i] = Blank
    BY <1>18, <2>1
  <2>5. QED
    BY <1>5, <1>6, <1>9, <1>13, <1>17, <1>18, <2>1, <2>2, <2>3, <2>4 DEF IsNumeral
<1>20. Len(t) >= AtMost(width, NtoaSize)
  <2>1. CASE Zeroed(flags)
    <3>1. l >= AtMost(width, NtoaSize) /\ AtMost(width, NtoaSize) \in Nat
      BY <1>1, <1>14, <2>1 DEF AtMost
    <3> HIDE DEF l
    <3>2. QED
      BY <1>15, <1>17, <1>18, <3>1
  <2>2. CASE ~ Zeroed(flags)
    <3>1. wide = width /\ b + l + p >= wide
      BY <1>4, <1>17, <2>2 DEF Zeroed
    <3> HIDE DEF l
    <3>2. QED
      BY <1>1, <1>15, <1>18, <3>1 DEF AtMost
  <2>3. QED
    BY <2>1, <2>2
<1>21. "left" \notin flags => Len(t) = b + sg + n /\ ("zero" \in flags => b = 0)
  BY <1>6, <1>9, <1>17, <1>18
<1>22. QED
  BY <1>6, <1>19, <1>20, <1>21

(* A digit more is read: what was left of the number one step before. *)
LEMMA TakeDigit ==
    ASSUME NEW v \in 0..WordMax, NEW base \in {10, 16}, NEW j \in 1..NtoaSize,
           NEW any \in {0, 1}, NEW at, at = [acc |-> Remaining(v, base)[j], any |-> any],
           NEW d, d = Remaining(v, base)[j - 1] % base
    PROVE  Take(at, d, base) = [acc |-> Remaining(v, base)[j - 1], any |-> 1]
<1> DEFINE a == Remaining(v, base)[j]
           r == Remaining(v, base)[j - 1]
<1>1. v \in Nat /\ v <= WordMax /\ base \in 2..36 /\ base \in Nat \ {0} /\ WordMax \in Nat
  BY LibcAssumption
<1>2. r \in 0..v /\ a \in 0..v /\ d \in 0..(base - 1) /\ r = a * base + d
  BY <1>1, DigitIs
<1> HIDE DEF a, r
<1>3. a \in Nat /\ r <= WordMax /\ r \in Nat
  BY <1>1, <1>2
<1>4. TooBig(a, d, base) <=> a * base + d > WordMax
  BY <1>1, <1>2, <1>3, TooBigIs
<1>5. ~ TooBig(a, d, base)
  <2> DEFINE x == a * base + d
  <2>1. x = r /\ (TooBig(a, d, base) <=> x > WordMax)
    BY <1>2, <1>4
  <2> HIDE DEF x
  <2>2. QED
    BY <1>1, <1>3, <2>1
<1>6. (a * base + d) % (WordMax + 1) = r
  <2>1. r % (WordMax + 1) = r
    BY <1>1, <1>3
  <2>2. QED
    BY <1>2, <2>1
<1>7. at.acc = a /\ at.any = any
  BY DEF a
<1>8. Take(at, d, base) = [acc |-> (a * base + d) % (WordMax + 1), any |-> 1]
  <2>1. ~ (at.any < 0)
    BY <1>7
  <2> DEFINE x == (a * base + d) % (WordMax + 1)
  <2>2. Take(at, d, base) = [acc |-> x, any |-> 1]
    <3>1. (at.acc * base + d) % (WordMax + 1) = x /\ ~ TooBig(at.acc, d, base)
      BY <1>5, <1>7
    <3> HIDE DEF x
    <3>2. QED
      BY <2>1, <3>1 DEF Take
  <2>3. QED
    BY <2>2
<1>9. QED
  BY <1>6, <1>8 DEF r

(* The n digits of v, and behind them none, from a place of an array on. *)
HoldsDigits(s, first, v, base, n) ==
    /\ Len(s) \in Nat /\ n \in 1..NtoaSize /\ first \in Nat \ {0} /\ first + n <= Len(s)
    /\ \A i \in 1..n : DigitOf(s[first + i - 1]) = Remaining(v, base)[n - i] % base
    /\ DigitOf(s[first + n]) = 36 /\ Remaining(v, base)[n] = 0
LEMMA AccumulateDigits ==
    ASSUME NEW v \in 0..WordMax, NEW base \in {10, 16}, NEW s, NEW first, NEW n,
           HoldsDigits(s, first, v, base, n)
    PROVE  Accumulate(s, first, base) = [acc |-> v, any |-> 1, end |-> first + n]
<1>a. /\ Len(s) \in Nat /\ n \in 1..NtoaSize /\ first \in Nat \ {0} /\ first + n <= Len(s)
      /\ DigitOf(s[first + n]) = 36 /\ Remaining(v, base)[n] = 0
      /\ \A i \in 1..n : DigitOf(s[first + i - 1]) = Remaining(v, base)[n - i] % base
  BY DEF HoldsDigits
<1> DEFINE left == Remaining(v, base)
           stop == first + n
           end == CHOOSE k \in first..Len(s) : DigitOf(s[k]) >= base
                                               /\ \A m \in first..(k - 1) : DigitOf(s[m]) < base
           Fn(f) == [k \in first..end |-> IF k = first THEN [acc |-> 0, any |-> 0]
                                          ELSE Take(f[k - 1], DigitOf(s[k - 1]), base)]
           at == CHOOSE f : f = Fn(f)
           g == [k \in first..stop |-> [acc |-> left[n - (k - first)],
                                        any |-> IF k = first THEN 0 ELSE 1]]
<1>1. n \in Nat \ {0} /\ NtoaSize \in Nat /\ base \in 2..36 /\ n <= NtoaSize /\ v \in Nat
  BY <1>a, LibcAssumption
<1>2. ASSUME NEW k \in first..(stop - 1)
      PROVE  /\ n - (k - first) \in 1..NtoaSize /\ n - (k - first) - 1 = n - ((k + 1) - first)
             /\ DigitOf(s[k]) = left[n - (k - first) - 1] % base
             /\ DigitOf(s[k]) \in 0..(base - 1)
  <2> DEFINE i == (k - first) + 1
             j == n - (k - first)
  <2>1. i \in 1..n /\ first + i - 1 = k /\ n - i = j - 1 /\ j \in 1..NtoaSize
        /\ j - 1 = n - ((k + 1) - first)
    BY <1>a, <1>1
  <2> HIDE DEF left, stop, end, i, j
  <2>2. DigitOf(s[first + i - 1]) = left[n - i] % base
    BY <1>a, <2>1 DEF left
  <2>3. DigitOf(s[k]) = left[j - 1] % base
    BY <2>1, <2>2
  <2>4. left[j - 1] % base \in 0..(base - 1)
    BY <1>1, <2>1, DigitIs DEF left
  <2>5. QED
    BY <2>1, <2>3, <2>4 DEF j
<1>3. end = stop
  <2>1. \A k \in first..(stop - 1) : DigitOf(s[k]) < base /\ ~ (DigitOf(s[k]) >= base)
    <3> HIDE DEF stop, left
    <3>1. \A k \in first..(stop - 1) : DigitOf(s[k]) \in 0..(base - 1)
      BY <1>2
    <3>2. QED
      BY <1>1, <3>1
  <2>2. DigitOf(s[stop]) >= base /\ stop \in first..Len(s)
    BY <1>a, <1>1
  <2> HIDE DEF stop
  <2>3. \A k \in first..Len(s) : (DigitOf(s[k]) >= base /\ \A m \in first..(k - 1) : DigitOf(s[m]) < base)
                                   => k = stop
    <3> SUFFICES ASSUME NEW k \in first..Len(s), DigitOf(s[k]) >= base,
                        \A m \in first..(k - 1) : DigitOf(s[m]) < base
                 PROVE  k = stop
      OBVIOUS
    <3>1. k \notin first..(stop - 1)
      BY <2>1
    <3>2. stop \notin first..(k - 1)
      <4>1. DigitOf(s[stop]) = 36
        BY <1>a DEF stop
      <4>2. ~ (36 < base)
        BY <1>1
      <4>3. QED
        BY <4>1, <4>2
    <3>3. stop \in Int /\ k \in Int /\ stop >= first /\ k >= first
      BY <2>2
    <3>4. QED
      BY <3>1, <3>2, <3>3
  <2>4. QED
    BY <2>1, <2>2, <2>3
<1> HIDE DEF left, end
<1>4. stop \in Nat /\ first \in first..stop /\ stop \in first..stop
  BY <1>a, <1>1
<1>5. left[n] = 0 /\ left[0] = v
  BY <1>a, <1>1, RemainingIs DEF left
<1>6. ASSUME NEW k \in first..stop, k # first
      PROVE  Take([acc |-> left[n - ((k - 1) - first)], any |-> IF k - 1 = first THEN 0 ELSE 1],
                  DigitOf(s[k - 1]), base)
               = [acc |-> left[n - (k - first)], any |-> 1]
  <2> DEFINE j == n - ((k - 1) - first)
             any == IF k - 1 = first THEN 0 ELSE 1
             d == DigitOf(s[k - 1])
  <2>1. k - 1 \in first..(stop - 1) /\ (k - 1) + 1 = k
    BY <1>a, <1>1, <1>6
  <2>2. j \in 1..NtoaSize /\ j - 1 = n - (k - first) /\ d = left[j - 1] % base
    <3> HIDE DEF stop
    <3>1. QED
      BY <1>2, <2>1
  <2>3. any \in {0, 1}
    OBVIOUS
  <2> HIDE DEF any, j, d
  <2>4. Take([acc |-> left[j], any |-> any], d, base) = [acc |-> left[j - 1], any |-> 1]
    BY <2>2, <2>3, TakeDigit DEF left
  <2>5. QED
    BY <2>2, <2>4 DEF any, j, d
<1>7. ASSUME NEW f, f = Fn(f), NEW k \in first..stop
      PROVE  /\ f[first] = [acc |-> 0, any |-> 0]
             /\ k # first => f[k] = Take(f[k - 1], DigitOf(s[k - 1]), base)
  <2>1. Fn(f)[first] = [acc |-> 0, any |-> 0]
    BY <1>3, <1>4
  <2>2. k # first => Fn(f)[k] = Take(f[k - 1], DigitOf(s[k - 1]), base)
    BY <1>3
  <2> HIDE DEF Fn
  <2>3. QED
    BY <1>7, <2>1, <2>2
<1>8. g = Fn(g)
  <2>1. ASSUME NEW k \in first..stop PROVE g[k] = Fn(g)[k]
    <3>1. CASE k = first
      <4>1. n - (k - first) = n
        BY <1>a, <1>1, <3>1
      <4>2. g[k] = [acc |-> 0, any |-> 0]
        BY <1>5, <3>1, <4>1
      <4>3. Fn(g)[k] = [acc |-> 0, any |-> 0]
        BY <1>3, <3>1
      <4>4. QED
        BY <4>2, <4>3
    <3>2. CASE k # first
      <4>1. k - 1 \in first..stop
        BY <1>a, <1>1, <3>2
      <4>2. g[k - 1] = [acc |-> left[n - ((k - 1) - first)], any |-> IF k - 1 = first THEN 0 ELSE 1]
        BY <4>1
      <4>3. g[k] = [acc |-> left[n - (k - first)], any |-> 1]
        BY <3>2
      <4>4. Fn(g)[k] = Take(g[k - 1], DigitOf(s[k - 1]), base)
        BY <1>3, <3>2
      <4> HIDE DEF g, Fn, stop
      <4>5. QED
        BY <1>6, <3>2, <4>2, <4>3, <4>4
    <3>3. QED
      BY <3>1, <3>2
  <2>2. DOMAIN Fn(g) = first..stop /\ Fn(g) = [k \in first..stop |-> Fn(g)[k]]
    BY <1>3
  <2> HIDE DEF Fn, stop
  <2>3. QED
    BY <2>1, <2>2
<1>9. at = Fn(at)
  <2> HIDE DEF Fn, g
  <2>1. QED
    BY <1>8
<1> DEFINE Good == {k \in 0..n : at[first + k] = g[first + k]}
<1>10. ASSUME NEW k \in 0..n, \A h \in 0..(k - 1) : h \in Good PROVE k \in Good
  <2>1. CASE k = 0
    <3>1. at[first] = [acc |-> 0, any |-> 0] /\ g[first] = [acc |-> 0, any |-> 0]
      <4> HIDE DEF at, g, Fn
      <4>1. QED
        BY <1>4, <1>7, <1>8, <1>9
    <3>2. first + k = first
      BY <1>a, <2>1
    <3> HIDE DEF at, g
    <3>3. QED
      BY <3>1, <3>2
  <2>2. CASE k # 0
    <3>1. /\ k - 1 \in 0..(k - 1) /\ first + k \in first..stop /\ first + k # first
          /\ (first + k) - 1 = first + (k - 1)
      BY <1>a, <1>1, <2>2
    <3>2. at[first + (k - 1)] = g[first + (k - 1)]
      BY <1>10, <3>1
    <3> HIDE DEF at, g, Fn, stop
    <3>3. at[first + k] = Take(at[(first + k) - 1], DigitOf(s[(first + k) - 1]), base)
      BY <1>7, <1>9, <3>1
    <3>4. g[first + k] = Take(g[(first + k) - 1], DigitOf(s[(first + k) - 1]), base)
      BY <1>7, <1>8, <3>1
    <3>5. at[first + k] = g[first + k]
      BY <3>1, <3>2, <3>3, <3>4
    <3>6. QED
      BY <3>5
  <2>3. QED
    BY <2>1, <2>2
<1>11. n \in Good
  <2>1. Good \in SUBSET (0..n) /\ n \in 0..n
    BY <1>1
  <2> HIDE DEF Good
  <2>2. \A k \in 0..n : k \in Good
    BY <1>1, <1>10, <2>1, UpInduction
  <2>3. QED
    BY <2>1, <2>2
<1>12. g[stop] = [acc |-> v, any |-> 1]
  <2>1. n - (stop - first) = 0 /\ stop # first
    BY <1>a, <1>1
  <2> HIDE DEF stop
  <2>2. QED
    BY <1>4, <1>5, <2>1
<1>13. at[stop] = [acc |-> v, any |-> 1]
  <2>1. at[first + n] = g[first + n]
    BY <1>11
  <2> HIDE DEF at, g
  <2>2. QED
    BY <1>12, <2>1
<1>14. Accumulate(s, first, base) = [acc |-> at[end].acc, any |-> at[end].any, end |-> end]
  BY DEF Accumulate, end
<1> HIDE DEF at, stop
<1>15. QED
  BY <1>3, <1>13, <1>14 DEF stop

(* strtoull reads a numeral, to its end. *)
IsRead(t, base, v, negative, b, sg, n) ==
    strtoull(Append(t, NUL), base) = [value |-> ReadAs(negative, v), end |-> b + sg + n]
LEMMA NumeralReads ==
    ASSUME NEW v \in 0..WordMax, NEW base \in {10, 16}, NEW negative \in BOOLEAN,
           NEW t, NEW b, NEW sg, NEW n, IsNumeral(t, base, v, negative, b, sg, n)
    PROVE  IsRead(t, base, v, negative, b, sg, n)
<1> DEFINE s == Append(t, NUL)
<1> SUFFICES strtoull(s, base) = [value |-> ReadAs(negative, v), end |-> b + sg + n]
  BY DEF IsRead
<1>0. s = Append(t, NUL)
  OBVIOUS
<1> HIDE DEF s
<1> DEFINE first == CHOOSE k \in 1..Len(s) : ~ isspace(s[k]) /\ \A m \in 1..(k - 1) : isspace(s[m])
           digits == b + sg + 1
           hex == base \in {0, 16} /\ s[digits] = Digit0 /\ s[digits + 1] \in {LowerX, UpperX}
           stop == b + sg + n + 1
<1>1. /\ t \in Seq(Chars) /\ b \in Nat /\ sg \in {0, 1} /\ sg \in Nat /\ n \in Nat /\ n >= 1
      /\ n \in 1..NtoaSize /\ Len(t) \in Nat /\ b + sg + n <= Len(t)
      /\ \A i \in 1..b : t[i] = Blank
      /\ sg = 1 => t[b + 1] = IF negative THEN Minus ELSE Plus
      /\ negative => sg = 1
      /\ \A i \in 1..n : ReadsDigit(t[b + sg + i], Remaining(v, base)[n - i] % base)
      /\ \A i \in (b + sg + n + 1)..Len(t) : t[i] = Blank
      /\ Remaining(v, base)[n] = 0
  BY LibcAssumption DEF IsNumeral
<1>2. Len(s) = Len(t) + 1 /\ s[Len(t) + 1] = NUL /\ \A i \in 1..Len(t) : s[i] = t[i]
  <2>1. NUL \in Chars
    BY DEF NUL, Chars
  <2>2. QED
    BY <1>0, <1>1, <2>1, AppendProperties
<1>3. /\ \A i \in 1..b : s[i] = Blank
      /\ sg = 1 => s[b + 1] = IF negative THEN Minus ELSE Plus
      /\ \A i \in 1..n : ReadsDigit(s[b + sg + i], Remaining(v, base)[n - i] % base)
      /\ s[stop] \in {Blank, NUL}
  <2>1. \A i \in 1..b : i \in 1..Len(t)
    BY <1>1
  <2>2. b + 1 \in 1..Len(t) /\ \A i \in 1..n : b + sg + i \in 1..Len(t)
    BY <1>1
  <2>3. stop \in 1..(Len(t) + 1) /\ (stop # Len(t) + 1 => stop \in (b + sg + n + 1)..Len(t))
    BY <1>1
  <2>4. s[stop] \in {Blank, NUL}
    <3>1. CASE stop = Len(t) + 1
      BY <1>2, <3>1
    <3>2. CASE stop # Len(t) + 1
      <4>1. stop \in 1..Len(t) /\ t[stop] = Blank
        BY <1>1, <2>3, <3>2
      <4> HIDE DEF stop
      <4>2. QED
        BY <1>2, <4>1
    <3>3. QED
      BY <3>1, <3>2
  <2>5. ASSUME NEW i \in 1..n PROVE ReadsDigit(s[b + sg + i], Remaining(v, base)[n - i] % base)
    BY <1>1, <1>2, <2>2
  <2>6. QED
    BY <1>1, <1>2, <2>1, <2>2, <2>4, <2>5
<1>4. isspace(Blank) /\ ~ isspace(Plus) /\ ~ isspace(Minus) /\ DigitOf(Blank) = 36 /\ DigitOf(NUL) = 36
  BY DEF isspace, DigitOf, isdigit, isalpha, Blank, Plus, Minus, NUL
<1>5. /\ ~ isspace(s[b + 1])
      /\ s[b + 1] \in {Plus, Minus} <=> sg = 1
      /\ s[b + 1] = Minus <=> negative
  <2>1. CASE sg = 1
    <3>1. Plus # Minus
      BY DEF Plus, Minus
    <3>2. QED
      BY <1>3, <1>4, <2>1, <3>1
  <2>2. CASE sg = 0
    <3>1. b + sg + 1 = b + 1 /\ 1 \in 1..n
      BY <1>1, <2>2
    <3>2. ReadsDigit(s[b + 1], Remaining(v, base)[n - 1] % base)
      BY <1>3, <3>1
    <3>3. ~ negative
      BY <1>1, <2>2
    <3>4. ~ isspace(s[b + 1]) /\ s[b + 1] \notin {Plus, Minus}
      <4> HIDE DEF first, digits, hex, stop
      <4>1. QED
        BY <3>2 DEF ReadsDigit
    <3>5. sg # 1
      BY <2>2
    <3>6. QED
      BY <3>3, <3>4, <3>5
  <2>3. QED
    BY <1>1, <2>1, <2>2
<1>6. first = b + 1
  <2>1. b + 1 \in 1..Len(s) /\ \A m \in 1..((b + 1) - 1) : isspace(s[m])
    <3>1. (b + 1) - 1 = b /\ b + 1 \in 1..Len(s)
      BY <1>1, <1>2
    <3>2. QED
      BY <1>3, <1>4, <3>1
  <2>2. ASSUME NEW k \in 1..Len(s), ~ isspace(s[k]), \A m \in 1..(k - 1) : isspace(s[m])
        PROVE  k = b + 1
    <3>1. k \notin 1..b
      BY <1>3, <1>4, <2>2
    <3>2. b + 1 \notin 1..(k - 1)
      BY <1>5, <2>2
    <3>3. QED
      BY <1>1, <3>1, <3>2
  <2>3. QED
    BY <1>5, <2>1, <2>2
<1>7. (IF s[b + 1] \in {Plus, Minus} THEN (b + 1) + 1 ELSE b + 1) = digits
  BY <1>1, <1>5
<1>8. ~ hex
  <2>1. s[digits + 1] \notin {LowerX, UpperX}
    <3>1. CASE n = 1
      <4>1. digits + 1 = stop
        BY <1>1, <3>1
      <4>2. Blank \notin {LowerX, UpperX} /\ NUL \notin {LowerX, UpperX}
        BY DEF Blank, NUL, LowerX, UpperX
      <4>3. QED
        BY <1>3, <4>1, <4>2
    <3>2. CASE n # 1
      <4>1. digits + 1 = b + sg + 2 /\ 2 \in 1..n
        BY <1>1, <3>2
      <4>2. ReadsDigit(s[digits + 1], Remaining(v, base)[n - 2] % base)
        BY <1>3, <4>1
      <4> HIDE DEF digits
      <4>3. QED
        BY <4>2 DEF ReadsDigit
    <3>3. QED
      BY <3>1, <3>2
  <2> HIDE DEF digits
  <2>2. QED
    BY <2>1
<1>9. Accumulate(s, digits, base) = [acc |-> v, any |-> 1, end |-> digits + n]
  <2>1. digits \in Nat \ {0} /\ digits + n <= Len(s) /\ Len(s) \in Nat /\ digits + n = stop
    <3>1. b \in Nat /\ sg \in Nat /\ n \in Nat /\ Len(t) \in Nat /\ b + sg + n <= Len(t)
          /\ Len(s) = Len(t) + 1
      BY <1>1, <1>2
    <3>2. b + sg + 1 \in Nat \ {0} /\ b + sg + 1 + n <= Len(s) /\ Len(s) \in Nat
          /\ b + sg + 1 + n = b + sg + n + 1
      BY ONLY <3>1
    <3>3. QED
      BY <3>2
  <2>2. ASSUME NEW i \in 1..n
        PROVE  DigitOf(s[digits + i - 1]) = Remaining(v, base)[n - i] % base
    <3>1. digits + i - 1 = b + sg + i
      BY <1>1
    <3>2. ReadsDigit(s[b + sg + i], Remaining(v, base)[n - i] % base)
      BY <1>3
    <3> HIDE DEF digits
    <3>3. QED
      BY <3>1, <3>2 DEF ReadsDigit
  <2>3. DigitOf(s[digits + n]) = 36
    <3> HIDE DEF digits, stop
    <3>1. QED
      BY <1>3, <1>4, <2>1
  <2>4. n \in 1..NtoaSize /\ Remaining(v, base)[n] = 0
    BY <1>1
  <2> HIDE DEF first, hex, digits, stop
  <2>5. HoldsDigits(s, digits, v, base, n)
    BY <2>1, <2>2, <2>3, <2>4 DEF HoldsDigits
  <2>6. QED
    BY <2>5, AccumulateDigits
<1> DEFINE read == Accumulate(s, digits, base)
<1>10. strtoull(s, base)
          = [value |-> IF s[b + 1] = Minus /\ read.any > 0
                       THEN (WordMax + 1 - read.acc) % (WordMax + 1) ELSE read.acc,
             end |-> IF read.any = 0 THEN 0 ELSE read.end - 1]
  <2>1. ~ (base < 0 \/ base = 1 \/ base > 36) /\ base # 0
    OBVIOUS
  <2>2. strtoull(s, base) = LET digs == IF s[first] \in {Plus, Minus} THEN first + 1 ELSE first
            hx == base \in {0, 16} /\ s[digs] = Digit0 /\ s[digs + 1] \in {LowerX, UpperX}
            rd == Accumulate(s, IF hx THEN digs + 2 ELSE digs,
                           IF hx THEN 16
                           ELSE IF base # 0 THEN base
                           ELSE IF s[digs] = Digit0 THEN 8 ELSE 10)
            IN [value |-> IF s[first] = Minus /\ rd.any > 0
                        THEN (WordMax + 1 - rd.acc) % (WordMax + 1) ELSE rd.acc,
              end |-> IF rd.any = 0 THEN 0 ELSE rd.end - 1]
    BY <2>1 DEF strtoull
  <2> HIDE DEF digits, first
  <2>3. QED
    BY <1>6, <1>7, <1>8, <2>1, <2>2
<1>11. read.acc = v /\ read.any = 1 /\ read.end - 1 = b + sg + n
  <2>1. (digits + n) - 1 = b + sg + n
    BY <1>1
  <2> HIDE DEF digits
  <2>2. QED
    BY <1>9, <2>1
<1> HIDE DEF read
<1>12. read.any > 0 /\ read.any # 0
  BY <1>11
<1> DEFINE turned == (WordMax + 1 - v) % (WordMax + 1)
<1>13. (WordMax + 1 - read.acc) % (WordMax + 1) = turned
  BY <1>11
<1> HIDE DEF turned, first, digits, hex, stop
<1>14. strtoull(s, base) = [value |-> IF negative THEN turned ELSE v, end |-> b + sg + n]
  <2>1. (IF s[b + 1] = Minus /\ read.any > 0
         THEN (WordMax + 1 - read.acc) % (WordMax + 1) ELSE read.acc)
           = IF negative THEN turned ELSE v
    BY <1>5, <1>11, <1>12, <1>13
  <2>2. (IF read.any = 0 THEN 0 ELSE read.end - 1) = b + sg + n
    BY <1>11, <1>12
  <2>3. QED
    BY <1>10, <2>1, <2>2
<1>15. ReadAs(negative, v) = IF negative THEN turned ELSE v
  BY DEF ReadAs, turned
<1>16. QED
  BY <1>14, <1>15

(* What the conversions of jbinit print, as they are called. *)
NumberText(conv, flags, width, size, value) ==
    IF conv = "p" THEN Pointer(flags, 0, value)
    ELSE Conversion(conv, flags, 0, width, size, value)
IsNumberText(t, conv, flags, width, size, value) ==
    /\ t \in Seq(Chars \ {NUL})
    /\ ReadsBack(t, conv, size, value)
    /\ "left" \notin flags => strtoull(Append(t, NUL), Base(conv)).end = Len(t)
    /\ Len(t) >= AtMost(IF conv = "p" THEN 16 ELSE width, NtoaSize)
    /\ Zeroed(flags) => \A k \in 1..Len(t) : t[k] # Blank

(* The characters of a numeral, none of which is a NUL. *)
LEMMA NumeralChars ==
    ASSUME NEW v, NEW base, NEW negative \in BOOLEAN,
           NEW t, NEW b, NEW sg, NEW n, IsNumeral(t, base, v, negative, b, sg, n)
    PROVE  /\ t \in Seq(Chars \ {NUL}) /\ b \in Nat /\ sg \in Nat /\ n \in Nat /\ Len(t) \in Nat
           /\ b = 0 /\ Len(t) = b + sg + n => \A i \in 1..Len(t) : t[i] # Blank
<1>1. /\ t \in Seq(Chars) /\ b \in Nat /\ sg \in {0, 1} /\ sg \in Nat /\ n \in Nat
      /\ b + sg + n <= Len(t)
      /\ \A i \in 1..b : t[i] = Blank
      /\ sg = 1 => t[b + 1] = IF negative THEN Minus ELSE Plus
      /\ \A i \in 1..n : ReadsDigit(t[b + sg + i], Remaining(v, base)[n - i] % base)
      /\ \A i \in (b + sg + n + 1)..Len(t) : t[i] = Blank
  BY LibcAssumption DEF IsNumeral
<1>2. Len(t) \in Nat /\ \A i \in 1..Len(t) : t[i] \in Chars
  BY <1>1
<1>3. ASSUME NEW i \in 1..Len(t)
      PROVE  t[i] # NUL /\ (i \in (b + 1)..(b + sg + n) => t[i] # Blank)
  <2>1. Blank # NUL /\ Plus \notin {NUL, Blank} /\ Minus \notin {NUL, Blank}
    BY DEF NUL, Blank, Plus, Minus
  <2>2. CASE i \in 1..b \/ i \in (b + sg + n + 1)..Len(t)
    BY <1>1, <2>1, <2>2
  <2>3. CASE i = b + 1 /\ sg = 1
    BY <1>1, <2>1, <2>3
  <2>4. CASE i \in (b + sg + 1)..(b + sg + n)
    <3>1. i - (b + sg) \in 1..n /\ b + sg + (i - (b + sg)) = i
      BY <1>1, <2>4
    <3> DEFINE j == i - (b + sg)
    <3>2. ReadsDigit(t[b + sg + j], Remaining(v, base)[n - j] % base) /\ b + sg + j = i
      BY <1>1, <3>1
    <3> HIDE DEF j
    <3>3. QED
      BY <3>2 DEF ReadsDigit
  <2>5. QED
    BY <1>1, <1>2, <2>2, <2>3, <2>4
<1>4. t = [i \in 1..Len(t) |-> t[i]] /\ \A i \in 1..Len(t) : t[i] \in Chars \ {NUL}
  BY <1>1, <1>2, <1>3
<1>5. t \in Seq(Chars \ {NUL})
  <2> DEFINE l == Len(t)
  <2>1. l \in Nat /\ t \in [1..l -> Chars \ {NUL}]
    BY <1>2, <1>4
  <2> HIDE DEF l
  <2>2. QED
    BY <2>1
<1>6. ASSUME b = 0, Len(t) = b + sg + n, NEW i \in 1..Len(t) PROVE t[i] # Blank
  <2>1. i \in (b + 1)..(b + sg + n)
    BY <1>1, <1>6
  <2>2. QED
    BY <1>3, <2>1
<1>7. QED
  BY <1>1, <1>2, <1>5, <1>6

(* What ntoa_long makes of a number, and what strtoull makes of it again. *)
IsNtoa(t, v, negative, base, width, flags) ==
    /\ t \in Seq(Chars \ {NUL})
    /\ strtoull(Append(t, NUL), base).value = ReadAs(negative, v)
    /\ "left" \notin flags => strtoull(Append(t, NUL), base).end = Len(t)
    /\ Len(t) >= AtMost(width, NtoaSize)
    /\ Zeroed(flags) => \A k \in 1..Len(t) : t[k] # Blank
LEMMA NtoaIs ==
    ASSUME NEW v \in 0..WordMax, NEW base \in {10, 16}, NEW negative \in BOOLEAN,
           NEW width \in Nat, NEW flags, flags \cap {"precision", "hash", "space"} = {},
           negative => width <= NtoaSize
    PROVE  IsNtoa(ntoa_long(v, negative, base, 0, width, flags), v, negative, base, width, flags)
<1> DEFINE t == ntoa_long(v, negative, base, 0, width, flags)
           s == Append(t, NUL)
<1> HIDE DEF t, s
<1>1. t = ntoa_long(v, negative, base, 0, width, flags)
  BY DEF t
<1>2. PICK b, sg, n :
        /\ IsNumeral(t, base, v, negative, b, sg, n)
        /\ Len(t) >= AtMost(width, NtoaSize)
        /\ "left" \notin flags => Len(t) = b + sg + n /\ ("zero" \in flags => b = 0)
  BY <1>1, NumeralIs
<1>3. s = Append(t, NUL)
  BY DEF s
<1>4. strtoull(s, base) = [value |-> ReadAs(negative, v), end |-> b + sg + n]
  <2>1. IsNumeral(t, base, v, negative, b, sg, n)
    BY <1>2
  <2>2. IsRead(t, base, v, negative, b, sg, n)
    BY <2>1, NumeralReads
  <2>3. QED
    BY <1>3, <2>2 DEF IsRead
<1>5. /\ t \in Seq(Chars \ {NUL})
      /\ b = 0 /\ Len(t) = b + sg + n => \A i \in 1..Len(t) : t[i] # Blank
  BY <1>2, NumeralChars
<1>6. Zeroed(flags) => \A k \in 1..Len(t) : t[k] # Blank
  BY <1>2, <1>5 DEF Zeroed
<1>7. strtoull(s, base).value = ReadAs(negative, v) /\ strtoull(s, base).end = b + sg + n
  BY <1>4
<1>8. QED
  BY <1>2, <1>5, <1>6, <1>7 DEF IsNtoa, t, s

LEMMA NumberPrinted ==
    ASSUME NEW conv \in {"d", "u", "x", "p"}, NEW flags \in SUBSET {"zero", "left", "plus"},
           NEW width \in 0..NtoaSize, NEW size \in DOMAIN IntSpan, NEW value \in Int,
           conv = "p" => value \in 0..WordMax
    PROVE  IsNumberText(NumberText(conv, flags, width, size, value), conv, flags, width, size, value)
<1>1. width \in Nat /\ width <= NtoaSize /\ NtoaSize \in Nat
  BY LibcAssumption
<1>2. CASE conv = "p"
  <2> DEFINE given == flags \cup {"zero", "upper"}
             t == ntoa_long(value, FALSE, 16, 0, 16, given)
  <2>1. given \cap {"precision", "hash", "space"} = {} /\ Base(conv) = 16
    BY <1>2 DEF Base
  <2>2. NumberText(conv, flags, width, size, value) = t
    BY <1>2 DEF NumberText, Pointer
  <2>3. /\ "left" \notin flags <=> "left" \notin given
        /\ Zeroed(flags) => Zeroed(given)
    BY DEF Zeroed
  <2> HIDE DEF given
  <2>4. IsNtoa(t, value, FALSE, 16, 16, given)
    BY <1>2, <2>1, NtoaIs
  <2> HIDE DEF t
  <2>5. ReadAs(FALSE, value) = value
    BY DEF ReadAs
  <2>6. ReadsBack(t, conv, size, value)
    BY <1>2, <2>1, <2>4, <2>5 DEF ReadsBack, IsNtoa
  <2>7. QED
    BY <1>2, <2>1, <2>2, <2>3, <2>4, <2>6 DEF IsNumberText, IsNtoa
<1>3. CASE conv # "p"
  <2> DEFINE kept == flags \ ((IF Base(conv) = 10 THEN {"hash"} ELSE {})
                                \cup (IF conv \notin {"d", "i"} THEN {"plus", "space"} ELSE {})
                                \cup (IF "precision" \in flags THEN {"zero"} ELSE {}))
             given == kept \cup (IF conv = "X" THEN {"upper"} ELSE {})
             n == Narrow(conv, size, value)
             v == IF n < 0 THEN -n ELSE n
             t == ntoa_long(v, n < 0, Base(conv), 0, width, given)
  <2>1. conv \in {"d", "u", "x"} /\ Base(conv) \in {10, 16}
    BY <1>3 DEF Base
  <2>2. NumberText(conv, flags, width, size, value) = t
    BY <1>3 DEF NumberText, Conversion
  <2>3. /\ given \cap {"precision", "hash", "space"} = {}
        /\ "left" \notin flags <=> "left" \notin given
        /\ Zeroed(flags) => Zeroed(given)
    BY <2>1 DEF Zeroed
  <2> HIDE DEF given, n, kept
  <2>4. n = Narrow(conv, size, value)
    BY DEF n
  <2> DEFINE r == ReadAs(n < 0, v)
  <2> HIDE DEF v, r
  <2>5. v = IF n < 0 THEN -n ELSE n
    BY DEF v
  <2>6. r = ReadAs(n < 0, v)
    BY DEF r
  <2>7. v \in 0..WordMax /\ n \in Int /\ (r - value) % IntSpan[size] = 0
        /\ (conv # "d" => r < IntSpan[size])
    BY <2>1, <2>4, <2>5, <2>6, NarrowIs
  <2>8. IsNtoa(t, v, n < 0, Base(conv), width, given)
    <3> DEFINE negative == n < 0
               base == Base(conv)
    <3>1. negative \in BOOLEAN /\ base \in {10, 16} /\ t = ntoa_long(v, negative, base, 0, width, given)
      BY <2>1
    <3> HIDE DEF t, negative, base
    <3>2. IsNtoa(ntoa_long(v, negative, base, 0, width, given), v, negative, base, width, given)
      BY <1>1, <2>3, <2>7, <3>1, NtoaIs
    <3>3. QED
      BY <3>1, <3>2 DEF negative, base
  <2> HIDE DEF t
  <2>9. strtoull(Append(t, NUL), Base(conv)).value = r
    BY <2>6, <2>8 DEF IsNtoa
  <2>10. ReadsBack(t, conv, size, value)
    BY <1>3, <2>7, <2>9, Zenon DEF ReadsBack
  <2>11. QED
    BY <1>3, <2>2, <2>3, <2>8, <2>10 DEF IsNumberText, IsNtoa
<1>4. QED
  BY <1>2, <1>3

(* snprintf leaves a text that fits as it is. *)
LEMMA SnprintfKeeps ==
    ASSUME NEW t \in Seq(Chars \ {NUL}), NEW count \in Nat, Len(t) < count
    PROVE  TextOf(snprintf(t, count)) = t
<1> DEFINE l == Len(t)
           s == Append(t, NUL)
<1>1. /\ l \in Nat /\ Len(s) = l + 1 /\ s[l + 1] = NUL /\ t \in Seq(Chars) /\ s \in Seq(Chars)
      /\ \A i \in 1..l : s[i] = t[i] /\ s[i] # NUL
  <2>1. t \in Seq(Chars) /\ NUL \in Chars
    BY SeqMonotonic DEF Chars, NUL
  <2>2. s \in Seq(Chars)
    BY <2>1, AppendProperties
  <2>3. QED
    BY <2>1, <2>2, AsString
<1>2. snprintf(t, count) = s
  <2>1. AtMost(l, count - 1) = l /\ count # 0
    BY <1>1 DEF AtMost
  <2>2. SubSeq(t, 1, l) = t
    BY <1>1, SubSeqFull
  <2>3. InBuffer(t, count - 1) = t
    BY <2>1, <2>2 DEF InBuffer
  <2>4. QED
    BY <2>1, <2>3 DEF snprintf
<1> HIDE DEF s, l
<1>3. l \in 0..(Len(s) - 1) /\ \E k \in DOMAIN s : s[k] = NUL
  BY <1>1
<1>4. strlen(s) = l
  BY <1>1, <1>3, StrlenOf
<1>5. TextOf(s) \in Seq(Chars) /\ Len(TextOf(s)) = l /\ \A i \in 1..l : TextOf(s)[i] = t[i]
  BY <1>1, <1>3, <1>4, TextIs
<1>6. TextOf(s) = t
  BY <1>1, <1>5, SeqEqual DEF l
<1>7. QED
  BY <1>2, <1>6

(* A call that prints a number. *)
LEMMA PrintingCalls == call \in Calls => PrintsExactly
<1> SUFFICES ASSUME call \in Calls, call.fn = "print"
             PROVE  PrintsExactly
  BY DEF PrintsExactly
<1> DEFINE conv == call.conv
           flags == call.flags
           width == call.width
           size == call.size
           value == call.value
           count == call.count
           text == IF conv = "p" THEN Pointer(flags, 0, value)
                   ELSE Conversion(conv, flags, 0, width, size, value)
<1>1. /\ conv \in {"d", "u", "x", "p"} /\ flags \subseteq {"zero", "plus"} /\ size \in DOMAIN IntSpan
      /\ count \in Nat /\ width \in 0..(IF conv = "p" /\ NtoaSize > 16 THEN 16 ELSE NtoaSize)
      /\ value \in IF conv = "p" THEN 0..WordMax ELSE Int
  BY CallsAssumption
<1>a. text = NumberText(conv, flags, width, size, value)
  BY DEF NumberText
<1>b. PrintsExactly <=>
        (returned =>
          /\ ReadsBack(text, conv, size, value)
          /\ strtoull(Append(text, NUL), Base(conv)).end = Len(text)
          /\ Len(text) >= width
          /\ "zero" \in flags => \A k \in DOMAIN text : text[k] # Blank
          /\ Len(text) < count => TextOf(snprintf(text, count)) = text)
  BY DEF PrintsExactly
<1> HIDE DEF text, conv, flags, width, size, value, count
<1>2. /\ flags \in SUBSET {"zero", "left", "plus"} /\ "left" \notin flags
      /\ width \in 0..NtoaSize /\ width \in Nat /\ NtoaSize \in Nat
      /\ value \in Int /\ (conv = "p" => value \in 0..WordMax)
      /\ AtMost(IF conv = "p" THEN 16 ELSE width, NtoaSize) >= width
      /\ AtMost(IF conv = "p" THEN 16 ELSE width, NtoaSize) \in Nat
  <2>1. NtoaSize \in Nat /\ WordMax \in Nat
    BY LibcAssumption
  <2>2. CASE conv = "p"
    BY <1>1, <2>1, <2>2 DEF AtMost
  <2>3. CASE conv # "p"
    BY <1>1, <2>1, <2>3 DEF AtMost
  <2>4. QED
    BY <2>2, <2>3
<1>3. IsNumberText(NumberText(conv, flags, width, size, value), conv, flags, width, size, value)
  BY <1>1, <1>2, NumberPrinted
<1>4. IsNumberText(text, conv, flags, width, size, value)
  BY <1>a, <1>3
<1>5. /\ text \in Seq(Chars \ {NUL}) /\ ReadsBack(text, conv, size, value)
      /\ strtoull(Append(text, NUL), Base(conv)).end = Len(text)
      /\ Len(text) >= AtMost(IF conv = "p" THEN 16 ELSE width, NtoaSize)
      /\ Zeroed(flags) => \A k \in 1..Len(text) : text[k] # Blank
  BY <1>2, <1>4 DEF IsNumberText
<1>6. Len(text) \in Nat /\ DOMAIN text = 1..Len(text)
  BY <1>5
<1>7. Len(text) >= width
  BY <1>2, <1>5, <1>6
<1>8. "zero" \in flags => \A k \in DOMAIN text : text[k] # Blank
  BY <1>2, <1>5, <1>6 DEF Zeroed
<1>9. Len(text) < count => TextOf(snprintf(text, count)) = text
  BY <1>1, <1>5, SnprintfKeeps
<1>10. QED
  BY <1>b, <1>5, <1>7, <1>8, <1>9

(* How many arguments the first k of a format take: as many more for each. *)
LEMMA ArgumentsAre == \A d : ArgumentsOf(d) \in Nat
  BY DEF ArgumentsOf

LEMMA TakenIs ==
    ASSUME NEW format, NEW N \in Nat, N = Len(format)
    PROVE  /\ Taken(format, 0) = 0 /\ \A k \in 0..N : Taken(format, k) \in Nat
           /\ \A k \in 1..N : Taken(format, k) = Taken(format, k - 1) + ArgumentsOf(format[k])
           /\ \A k \in 0..N : Taken(format, k) <= Taken(format, N)
<1> DEFINE more == [k \in 1..N |-> ArgumentsOf(format[k])]
           step == [k \in (0 + 1)..N |-> [v \in Nat |-> v + more[k]]]
           Fn(f) == [n \in 0..N |-> IF n = 0 THEN 0 ELSE f[n - 1] + ArgumentsOf(format[n])]
           taken == CHOOSE f : f = Fn(f)
<1>1. \A k \in 1..N : more[k] \in Nat /\ more[k] = ArgumentsOf(format[k])
  BY ArgumentsAre
<1> HIDE DEF more
<1>2. step \in [(0 + 1)..N -> [Nat -> Nat]] /\ 0 \in Nat /\ 0 <= N
  BY <1>1
<1>3. PICK f : AreSteps(Nat, 0, N, 0, step, f)
  <2> HIDE DEF step
  <2>1. QED
    BY <1>2, StepsExist
<1>4. f \in [0..N -> Nat] /\ f[0] = 0 /\ \A n \in 1..N : f[n] = f[n - 1] + ArgumentsOf(format[n])
  <2>1. f \in [0..N -> Nat] /\ f[0] = 0 /\ \A n \in (0 + 1)..N : f[n] = step[n][f[n - 1]]
    BY <1>3 DEF AreSteps
  <2>2. ASSUME NEW n \in 1..N PROVE f[n] = f[n - 1] + ArgumentsOf(format[n])
    <3>1. n \in (0 + 1)..N /\ n - 1 \in 0..N
      OBVIOUS
    <3>2. f[n - 1] \in Nat /\ f[n] = step[n][f[n - 1]]
      BY <2>1, <3>1
    <3>3. step[n] = [v \in Nat |-> v + more[n]]
      BY <3>1
    <3> HIDE DEF step
    <3>4. QED
      BY <1>1, <3>2, <3>3
  <2>3. QED
    BY <2>1, <2>2
<1>5. f = Fn(f)
  <2>1. \A n \in 0..N : f[n] = Fn(f)[n]
    BY <1>4
  <2>2. QED
    BY <1>4, <2>1
<1>6. taken = Fn(taken)
  <2> HIDE DEF Fn
  <2>1. QED
    BY <1>5
<1>7. \A k : Taken(format, k) = taken[k]
  BY DEF Taken
<1>8. taken[0] = 0 /\ \A n \in 1..N : taken[n] = taken[n - 1] + ArgumentsOf(format[n])
  <2>1. Fn(taken)[0] = 0 /\ \A n \in 1..N : Fn(taken)[n] = taken[n - 1] + ArgumentsOf(format[n])
    OBVIOUS
  <2> HIDE DEF Fn, taken
  <2>2. QED
    BY <1>6, <2>1
<1> HIDE DEF taken
<1> DEFINE Good == {n \in 0..N : taken[n] \in Nat /\ \A m \in 0..n : taken[m] <= taken[n]}
<1>9. ASSUME NEW n \in 0..N, \A h \in 0..(n - 1) : h \in Good PROVE n \in Good
  <2>1. CASE n = 0
    BY <1>8, <2>1
  <2>2. CASE n # 0
    <3>1. n - 1 \in 0..(n - 1) /\ n \in 1..N /\ \A m \in 0..n : m = n \/ m \in 0..(n - 1)
      BY <2>2
    <3>2. taken[n - 1] \in Nat /\ \A m \in 0..(n - 1) : taken[m] <= taken[n - 1] /\ taken[m] \in Nat
      BY <1>9, <3>1
    <3>3. taken[n] = taken[n - 1] + ArgumentsOf(format[n]) /\ ArgumentsOf(format[n]) \in Nat
      BY <1>8, <3>1, ArgumentsAre
    <3>4. taken[n] \in Nat /\ taken[n - 1] <= taken[n]
      BY <3>2, <3>3
    <3>5. \A m \in 0..n : taken[m] <= taken[n]
      BY <3>1, <3>2, <3>4
    <3>6. QED
      BY <3>4, <3>5
  <2>3. QED
    BY <2>1, <2>2
<1>10. \A n \in 0..N : n \in Good
  <2>1. Good \in SUBSET (0..N)
    OBVIOUS
  <2> HIDE DEF Good
  <2>2. QED
    BY <1>9, <2>1, UpInduction
<1>11. N \in 0..N /\ \A k \in 0..N : taken[k] \in Nat
  BY <1>10
<1>12. \A k \in 0..N : taken[k] <= taken[N]
  BY <1>10, <1>11
<1> HIDE DEF Good
<1>13. QED
  BY <1>7, <1>8, <1>11, <1>12

(* What is left of the arguments behind the first t. *)
Values(args) == {args[i] : i \in 1..Len(args)}
IsRest(args, t, a) ==
    /\ t \in Nat /\ t <= Len(args) /\ Len(args) \in Nat
    /\ a \in Seq(Values(args)) /\ Len(a) = Len(args) - t
    /\ \A i \in 1..Len(a) : a[i] = args[t + i]
LEMMA RestIs ==
    ASSUME NEW args, NEW t, NEW a, IsRest(args, t, a), NEW u, u = t + 1, t < Len(args)
    PROVE  Head(a) = args[u] /\ IsRest(args, u, Tail(a))
<1>1. /\ t \in Nat /\ Len(args) \in Nat /\ u \in Nat /\ u <= Len(args)
      /\ a \in Seq(Values(args)) /\ Len(a) = Len(args) - t
      /\ \A i \in 1..Len(a) : a[i] = args[t + i]
  BY DEF IsRest
<1>2. a # <<>> /\ 1 \in 1..Len(a)
  BY <1>1
<1>3. Head(a) = a[1] /\ Tail(a) \in Seq(Values(args)) /\ Len(Tail(a)) = Len(a) - 1
      /\ \A i \in 1..(Len(a) - 1) : Tail(a)[i] = a[i + 1]
  BY <1>1, <1>2, HeadTailProperties
<1>4. ASSUME NEW i \in 1..Len(Tail(a)) PROVE Tail(a)[i] = args[u + i]
  <2>1. i + 1 \in 1..Len(a) /\ t + (i + 1) = u + i /\ i \in 1..(Len(a) - 1)
    BY <1>1, <1>3
  <2>2. QED
    BY <1>1, <1>3, <2>1
<1>5. Len(Tail(a)) = Len(args) - u
  BY <1>1, <1>3
<1>6. QED
  BY <1>1, <1>2, <1>3, <1>4, <1>5 DEF IsRest

Stars(n) == IF n = Star THEN 1 ELSE 0
LEMMA StarIs ==
    ASSUME NEW args, NEW t, NEW a, IsRest(args, t, a), NEW n, NEW u, u = t + Stars(n), u <= Len(args)
    PROVE  /\ StarAt(n, a) = IF n = Star THEN args[t + 1] ELSE n
           /\ IsRest(args, u, BehindStar(n, a))
<1>1. t \in Nat /\ Len(args) \in Nat
  BY DEF IsRest
<1>2. CASE n = Star
  <2>1. u = t + 1 /\ t < Len(args)
    BY <1>1, <1>2 DEF Stars
  <2>2. Head(a) = args[u] /\ IsRest(args, u, Tail(a))
    BY <2>1, RestIs
  <2>3. QED
    BY <1>2, <2>1, <2>2 DEF StarAt, BehindStar
<1>3. CASE n # Star
  <2>1. u = t
    BY <1>1, <1>3 DEF Stars
  <2>2. QED
    BY <1>3, <2>1 DEF StarAt, BehindStar
<1>4. QED
  BY <1>2, <1>3

(* A text that is filled up with blanks is at one end of what comes of it. *)
IsAtEnd(piece, shown) ==
    \E m \in {0, Len(piece) - Len(shown)} :
       /\ SubSeq(piece, m + 1, m + Len(shown)) = shown
       /\ \A j \in DOMAIN piece : j \in (m + 1)..(m + Len(shown)) \/ piece[j] = Blank
LEMMA FramedAtEnd ==
    ASSUME NEW f, NEW text \in Seq(Chars), NEW n, NEW b, NEW p, n = Len(text), b \in Nat, p \in Nat,
           b = 0 \/ p = 0, IsFramed(f, text, n, b, p)
    PROVE  f \in Seq(Chars) /\ IsAtEnd(f, text)
<1>1. /\ n \in Nat /\ f \in Seq(Chars) /\ Len(f) = b + n + p
      /\ \A i \in 1..b : f[i] = Blank
      /\ \A i \in 1..n : f[b + i] = text[i]
      /\ \A i \in (b + n + 1)..(b + n + p) : f[i] = Blank
  BY DEF IsFramed
<1>2. b \in {0, Len(f) - Len(text)}
  BY <1>1
<1> DEFINE g == SubSeq(f, b + 1, b + n)
<1>3. b + 1 \in 1..(Len(f) + 1) /\ b + n \in ((b + 1) - 1)..Len(f)
  BY <1>1
<1>4. /\ g \in Seq(Chars) /\ Len(g) = n
      /\ \A i \in 1..n : g[i] = f[b + i]
  <2> DEFINE lo == b + 1
             hi == b + n
  <2>1. lo \in 1..(Len(f) + 1) /\ hi \in (lo - 1)..Len(f)
    BY <1>3
  <2>2. hi - lo + 1 = n /\ \A i \in 1..n : lo + i - 1 = b + i
    BY <1>1
  <2>3. g = SubSeq(f, lo, hi)
    OBVIOUS
  <2> HIDE DEF lo, hi, g
  <2>4. /\ SubSeq(f, lo, hi) \in Seq(Chars)
        /\ Len(SubSeq(f, lo, hi)) = IF lo <= hi THEN hi - lo + 1 ELSE 0
        /\ \A i \in 1..(hi - lo + 1) : SubSeq(f, lo, hi)[i] = f[lo + i - 1]
    BY <1>1, <2>1, SubSeqProperties
  <2>5. Len(g) = n
    BY <1>1, <2>1, <2>2, <2>3, <2>4
  <2>6. \A i \in 1..n : g[i] = f[lo + i - 1]
    BY <2>2, <2>3, <2>4
  <2>7. QED
    BY <2>2, <2>3, <2>4, <2>5, <2>6
<1> HIDE DEF g
<1>5. g = text
  BY <1>1, <1>4, SeqEqual
<1>6. DOMAIN f = 1..(b + n + p)
  BY <1>1
<1>7. \A j \in DOMAIN f : j \in (b + 1)..(b + n) \/ f[j] = Blank
  <2>1. \A j \in DOMAIN f : j \in 1..b \/ j \in (b + 1)..(b + n) \/ j \in (b + n + 1)..(b + n + p)
    BY <1>1, <1>6
  <2>2. QED
    BY <1>1, <2>1
<1>8. QED
  BY <1>1, <1>2, <1>5, <1>7 DEF IsAtEnd, g

LEMMA PaddedIs ==
    ASSUME NEW text \in Seq(Chars), NEW width \in Nat, NEW flags
    PROVE  Padded(text, width, flags) \in Seq(Chars) /\ IsAtEnd(Padded(text, width, flags), text)
<1> DEFINE n == Len(text)
           k == IF n < width THEN width - n ELSE 0
           b == IF "left" \in flags THEN 0 ELSE k
           p == IF "left" \in flags THEN k ELSE 0
           f == Framed(b, text, p)
<1>1. n \in Nat /\ k \in Nat /\ n = Len(text)
  OBVIOUS
<1> HIDE DEF n
<1>2. b \in Nat /\ p \in Nat /\ (b = 0 \/ p = 0)
  BY <1>1
<1>3. Copies(Blank, 0) = <<>> /\ Copies(Blank, k) \in Seq(Chars)
  <2>1. Blank \in Chars
    BY DEF Blank, Chars
  <2> HIDE DEF k
  <2>2. QED
    BY <1>1, <2>1, CopiesAre DEF Copies
<1>4. Padded(text, width, flags) = f
  <2>1. Padded(text, width, flags) = IF "left" \in flags THEN text \o Copies(Blank, k)
                                     ELSE Copies(Blank, k) \o text
    BY <1>1 DEF Padded
  <2> HIDE DEF k
  <2>2. <<>> \o text = text /\ Copies(Blank, k) \o text \in Seq(Chars)
    BY <1>3, ConcatEmptySeq, ConcatProperties
  <2>3. (Copies(Blank, k) \o text) \o <<>> = Copies(Blank, k) \o text
    BY <2>2, ConcatEmptySeq
  <2>4. QED
    BY <1>3, <2>1, <2>2, <2>3 DEF Framed
<1>5. f = Framed(b, text, p)
  OBVIOUS
<1> HIDE DEF b, p, f
<1>6. IsFramed(f, text, n, b, p)
  BY <1>1, <1>2, <1>5, FramedIs
<1>7. f \in Seq(Chars) /\ IsAtEnd(f, text)
  BY <1>1, <1>2, <1>6, FramedAtEnd
<1>8. QED
  BY <1>4, <1>7

(* What %s shows of a string: all of it, or as much as the precision says. *)
Cut(arg, given, prec) == IF ~ given THEN arg ELSE SubSeq(arg, 1, AtMost(Len(arg), prec))
IsCut(arg, prec, width, flags, given, p) ==
    /\ OfString(arg, prec, width, flags) = Padded(Cut(arg, given, p), width, flags)
    /\ Cut(arg, given, p) \in Seq(Chars)
LEMMA StringShown ==
    ASSUME NEW arg \in Seq(Chars \ {NUL}), NEW p \in Int, NEW given \in BOOLEAN,
           NEW prec, prec = IF p < 0 THEN 0 ELSE p, given \/ prec = 0,
           NEW flags, "precision" \in flags <=> given, NEW width
    PROVE  IsCut(arg, prec, width, flags, given, p)
<1> DEFINE n == Len(arg)
           l == AtMost(n, IF prec # 0 THEN prec ELSE n)
           k == IF given THEN AtMost(l, prec) ELSE l
<1>1. n \in Nat /\ arg \in Seq(Chars)
  BY SeqMonotonic
<1>2. OfString(arg, prec, width, flags) = Padded(SubSeq(arg, 1, k), width, flags)
  BY DEF OfString, _strnlen_s
<1>3. SubSeq(arg, 1, k) = Cut(arg, given, p)
  <2>1. CASE ~ given
    <3>1. k = n
      BY <1>1, <2>1 DEF AtMost
    <3>2. SubSeq(arg, 1, n) = arg
      BY <1>1, SubSeqFull
    <3>3. QED
      BY <2>1, <3>1, <3>2 DEF Cut
  <2>2. CASE given /\ p > 0
    <3>1. k = AtMost(n, p)
      BY <1>1, <2>2 DEF AtMost
    <3>2. QED
      BY <2>2, <3>1 DEF Cut
  <2>3. CASE given /\ ~ (p > 0)
    <3>1. k = 0 /\ AtMost(n, p) \in Int /\ AtMost(n, p) < 1
      BY <1>1, <2>3 DEF AtMost
    <3> DEFINE q == AtMost(n, p)
    <3> HIDE DEF q
    <3>2. q \in Int /\ q < 1
      BY <3>1 DEF q
    <3>3. SubSeq(arg, 1, 0) = <<>> /\ SubSeq(arg, 1, q) = <<>>
      BY <1>1, <3>2, SubSeqEmpty
    <3>4. QED
      BY <2>3, <3>1, <3>3 DEF Cut, q
  <2>4. QED
    BY <2>1, <2>2, <2>3
<1>4. k \in 0..n
  BY <1>1 DEF AtMost
<1>5. SubSeq(arg, 1, k) \in Seq(Chars)
  <2> HIDE DEF k, n
  <2>1. 1 \in 1..(n + 1) /\ k \in (1 - 1)..n
    BY <1>1, <1>4
  <2>2. QED
    BY <1>1, <2>1, SubSeqProperties DEF n
<1>6. QED
  BY <1>2, <1>3, <1>5 DEF IsCut

(* What a piece of a text shows of the argument of its directive. *)
PieceShows(piece, d, arg, prec) ==
    IF d.conv \in {"plain", "other"} THEN piece = <<d.char>>
    ELSE IF d.conv \in {"c", "s"}
      THEN IsAtEnd(piece, IF d.conv = "c" THEN <<arg>> ELSE Cut(arg, d.prec # Absent, prec))
    ELSE ReadsBack(piece, d.conv, d.size, arg)
DirectiveShows(done, d, args, last) ==
    /\ done.text \in Seq(Chars) /\ IsRest(args, last, done.args)
    /\ PieceShows(done.text, d, args[last], IF d.prec = Star THEN args[last - 1] ELSE d.prec)

LEMMA DirectiveIs ==
    ASSUME NEW args, NEW first, NEW a, IsRest(args, first, a), NEW d, d.conv # "plain",
           NEW last, last = first + ArgumentsOf(d), last <= Len(args), WellGiven(d, args, first, last)
    PROVE  DirectiveShows(Directive(d, a), d, args, last)
<1> DEFINE u == first + Stars(d.width)
           v == u + Stars(d.prec)
           w == StarAt(d.width, a)
           rest == BehindStar(d.width, a)
           p == StarAt(d.prec, rest)
           values == BehindStar(d.prec, rest)
           flags == d.flags \cup (IF d.width = Star /\ w < 0 THEN {"left"} ELSE {})
                            \cup (IF d.prec # Absent THEN {"precision"} ELSE {})
           width == IF d.width = Absent THEN 0 ELSE IF w < 0 THEN -w ELSE w
           prec == IF p < 0 THEN 0 ELSE p
           arg == args[last]
<1>1. /\ first \in Nat /\ Len(args) \in Nat /\ u \in Nat /\ v \in Nat
      /\ last = v + (IF d.conv = "other" THEN 0 ELSE 1)
      /\ u <= Len(args) /\ v <= Len(args) /\ last \in Nat
  <2>1. first \in Nat /\ Len(args) \in Nat
    BY DEF IsRest
  <2>2. Stars(d.width) \in {0, 1} /\ Stars(d.prec) \in {0, 1}
    BY DEF Stars
  <2>3. ArgumentsOf(d) = Stars(d.width) + Stars(d.prec) + (IF d.conv = "other" THEN 0 ELSE 1)
    BY DEF ArgumentsOf, Stars
  <2> DEFINE x == Stars(d.width)
             y == Stars(d.prec)
  <2> HIDE DEF x, y
  <2>4. x \in {0, 1} /\ y \in {0, 1} /\ u = first + x /\ v = first + x + y
        /\ last = first + x + y + (IF d.conv = "other" THEN 0 ELSE 1)
    BY <2>1, <2>2, <2>3 DEF x, y
  <2> HIDE DEF u, v
  <2>5. QED
    BY <2>1, <2>4
<1>2. /\ w = IF d.width = Star THEN args[first + 1] ELSE d.width
      /\ IsRest(args, u, rest)
  <2> HIDE DEF w, rest
  <2>1. u = first + Stars(d.width)
    OBVIOUS
  <2> HIDE DEF u
  <2>2. QED
    BY <1>1, <2>1, StarIs DEF w, rest
<1>3. /\ p = IF d.prec = Star THEN args[u + 1] ELSE d.prec
      /\ IsRest(args, v, values)
  <2>1. v = u + Stars(d.prec)
    OBVIOUS
  <2> HIDE DEF u, v, rest
  <2>2. QED
    BY <1>1, <1>2, <2>1, StarIs
<1>4. /\ d.conv \in {"other", "c", "s", "d", "u", "x", "p"}
      /\ d.flags \subseteq {"zero", "left", "plus"}
      /\ {d.width, d.prec} \subseteq Nat \cup {Star, Absent}
      /\ d.width = Star => args[first + 1] \in Int
      /\ d.prec = Star => args[u + 1] \in Int
  <2>1. d.prec = Star => args[first + IF d.width = Star THEN 2 ELSE 1] \in Int
    BY DEF WellGiven
  <2>2. u + 1 = first + IF d.width = Star THEN 2 ELSE 1
    BY <1>1 DEF Stars
  <2> HIDE DEF u
  <2>3. QED
    BY <2>1, <2>2 DEF WellGiven
<1>5. w \in Int /\ p \in Int /\ (d.prec # Star => p = d.prec)
  BY <1>2, <1>3, <1>4 DEF Star, Absent
<1>6. /\ d.conv \in {"other"} => Directive(d, a) = [text |-> <<d.char>>, args |-> values]
      /\ d.conv = "p" => Directive(d, a) = [text |-> Pointer(flags, prec, Head(values)), args |-> Tail(values)]
      /\ d.conv = "c" => Directive(d, a) = [text |-> Padded(<<Head(values)>>, width, flags), args |-> Tail(values)]
      /\ d.conv = "s" => Directive(d, a) = [text |-> OfString(Head(values), prec, width, flags), args |-> Tail(values)]
      /\ d.conv \in {"d", "u", "x"} =>
           Directive(d, a) = [text |-> Conversion(d.conv, flags, prec, width, d.size, Head(values)),
                              args |-> Tail(values)]
  BY DEF Directive, OtherLetter
<1> HIDE DEF u, v, w, rest, p, values
<1>7. CASE d.conv = "other"
  <2>1. Directive(d, a).text = <<d.char>> /\ Directive(d, a).args = values /\ last = v
    BY <1>1, <1>6, <1>7
  <2>2. d.char \in Chars
    BY <1>7 DEF WellGiven
  <2>3. <<d.char>> \in Seq(Chars)
    BY <2>2
  <2>4. QED
    BY <1>3, <1>7, <2>1, <2>3 DEF DirectiveShows, PieceShows
<1>8. CASE d.conv # "other"
  <2>1. last = v + 1 /\ v < Len(args)
    BY <1>1, <1>8
  <2>2. Head(values) = arg /\ IsRest(args, last, Tail(values))
    BY <1>3, <2>1, RestIs
  <2>3. width \in Nat
    BY <1>2, <1>4, <1>5 DEF Star, Absent
  <2>4. d.prec = Star => args[last - 1] = p
    <3>1. d.prec = Star => last - 1 = u + 1
      BY <1>1, <2>1 DEF v, Stars
    <3>2. QED
      BY <1>3, <3>1
  <2> DEFINE q == IF d.prec = Star THEN args[last - 1] ELSE d.prec
  <2>5. q = p
    BY <1>5, <2>4
  <2> HIDE DEF q
  <2>6. /\ d.conv = "c" => arg \in Chars
        /\ d.conv = "s" => arg \in Seq(Chars \ {NUL})
        /\ d.conv \in {"d", "u", "x", "p"} =>
             /\ arg \in (IF d.conv = "p" THEN 0..WordMax ELSE Int) /\ d.size \in DOMAIN IntSpan
             /\ d.prec = Absent /\ d.width <= NtoaSize
             /\ d.width = Star => args[first + 1] \in -NtoaSize..NtoaSize
    BY DEF WellGiven
  <2> SUFFICES /\ Directive(d, a).text \in Seq(Chars) /\ Directive(d, a).args = Tail(values)
               /\ PieceShows(Directive(d, a).text, d, arg, q)
    BY <2>2 DEF DirectiveShows, q
  <2> HIDE DEF arg
  <2>7. CASE d.conv = "c"
    <3>1. <<arg>> \in Seq(Chars)
      BY <2>6, <2>7
    <3> HIDE DEF width, flags
    <3>2. Padded(<<arg>>, width, flags) \in Seq(Chars) /\ IsAtEnd(Padded(<<arg>>, width, flags), <<arg>>)
      BY <2>3, <3>1, PaddedIs
    <3>3. QED
      BY <1>6, <2>2, <2>7, <3>2 DEF PieceShows
  <2>8. CASE d.conv = "s"
    <3> DEFINE given == d.prec # Absent
               shown == Cut(arg, given, p)
    <3>1. given \in BOOLEAN /\ ("precision" \in flags <=> given)
      BY <1>4
    <3>2. given \/ prec = 0
      BY <1>5 DEF Star, Absent
    <3>3. prec = IF p < 0 THEN 0 ELSE p
      OBVIOUS
    <3> HIDE DEF width, flags, prec, given
    <3>a. arg \in Seq(Chars \ {NUL}) /\ p \in Int
      BY <1>5, <2>6, <2>8
    <3>b. IsCut(arg, prec, width, flags, given, p)
      BY <3>a, <3>1, <3>2, <3>3, StringShown
    <3>4. OfString(arg, prec, width, flags) = Padded(shown, width, flags) /\ shown \in Seq(Chars)
      BY <3>b DEF IsCut
    <3> HIDE DEF shown
    <3>5. Padded(shown, width, flags) \in Seq(Chars) /\ IsAtEnd(Padded(shown, width, flags), shown)
      BY <2>3, <3>4, PaddedIs
    <3>6. QED
      BY <1>6, <2>2, <2>5, <2>8, <3>4, <3>5 DEF PieceShows, shown, given
  <2>9. CASE d.conv \in {"d", "u", "x", "p"}
    <3>1. d.prec = Absent /\ prec = 0 /\ d.size \in DOMAIN IntSpan
      BY <1>5, <2>6, <2>9 DEF Star, Absent
    <3>2. flags \in SUBSET {"zero", "left", "plus"}
      BY <1>4, <3>1
    <3>3. width \in 0..NtoaSize
      <4>1. NtoaSize \in Nat
        BY LibcAssumption
      <4>2. QED
        BY <1>2, <1>4, <2>6, <2>9, <4>1 DEF Star, Absent
    <3>4. arg \in Int /\ (d.conv = "p" => arg \in 0..WordMax)
      BY <2>6, <2>9
    <3> DEFINE t == NumberText(d.conv, flags, width, d.size, arg)
    <3>5. Directive(d, a).text = t /\ Directive(d, a).args = Tail(values)
      <4> HIDE DEF width, flags, prec
      <4>1. QED
        BY <1>6, <2>2, <2>9, <3>1 DEF NumberText
    <3> HIDE DEF width, flags, prec
    <3>6. IsNumberText(t, d.conv, flags, width, d.size, arg)
      BY <2>9, <3>1, <3>2, <3>3, <3>4, NumberPrinted
    <3> HIDE DEF t
    <3>7. t \in Seq(Chars) /\ ReadsBack(t, d.conv, d.size, arg)
      <4>1. t \in Seq(Chars \ {NUL}) /\ ReadsBack(t, d.conv, d.size, arg)
        BY <3>6 DEF IsNumberText
      <4>2. QED
        BY <4>1, SeqMonotonic
    <3>8. QED
      BY <2>9, <3>5, <3>7 DEF PieceShows
  <2>10. QED
    BY <1>4, <1>8, <2>7, <2>8, <2>9
<1>9. QED
  BY <1>7, <1>8

(* What is known after k of a format, and how the next one goes on. *)
IsGiven(format, args) ==
    /\ IsSequence(format) /\ IsSequence(args)
    /\ Taken(format, Len(format)) <= Len(args)
    /\ \A k \in DOMAIN format :
          WellGiven(format[k], args, Taken(format, k - 1), Taken(format, k))
States(args) == [text : Seq(Chars), args : Seq(Values(args))]
IsAt(format, args, k, at) == at \in States(args) /\ IsRest(args, Taken(format, k), at.args)
GoesOn(format, args, k, at, next) ==
    LET d == format[k]  last == Taken(format, k)
    IN  /\ IsAt(format, args, k, next)
        /\ \E piece \in Seq(Chars) :
              /\ next.text = at.text \o piece
              /\ PieceShows(piece, d, args[last], IF d.prec = Star THEN args[last - 1] ELSE d.prec)
LEMMA ItemIs ==
    ASSUME NEW format, NEW args, IsGiven(format, args), NEW k \in 1..Len(format),
           NEW at, IsAt(format, args, k - 1, at), NEW next, next = Item(at, format[k])
    PROVE  GoesOn(format, args, k, at, next)
<1> DEFINE d == format[k]
           first == Taken(format, k - 1)
           last == Taken(format, k)
           shows == IF d.prec = Star THEN args[last - 1] ELSE d.prec
           N == Len(format)
<1>1. /\ N \in Nat /\ DOMAIN format = 1..N /\ Len(args) \in Nat
      /\ WellGiven(d, args, first, last) /\ Taken(format, N) <= Len(args)
  <2>1. N \in Nat /\ format = [i \in 1..N |-> format[i]] /\ Len(args) \in Nat
    BY DEF IsGiven, IsSequence
  <2>2. DOMAIN format = 1..N
    BY <2>1
  <2>3. QED
    BY <2>1, <2>2 DEF IsGiven
<1>2. N = Len(format)
  OBVIOUS
<1>a. k \in 1..N /\ k \in 0..N
  BY <1>1
<1> HIDE DEF N
<1>b. /\ \A i \in 0..N : Taken(format, i) \in Nat
      /\ \A i \in 1..N : Taken(format, i) = Taken(format, i - 1) + ArgumentsOf(format[i])
      /\ \A i \in 0..N : Taken(format, i) <= Taken(format, N)
  BY <1>1, <1>2, TakenIs
<1>3. last = first + ArgumentsOf(d) /\ last <= Len(args) /\ last \in Nat
  <2>1. N \in 0..N
    BY <1>1
  <2>2. last <= Taken(format, N) /\ last \in Nat /\ Taken(format, N) \in Nat
    BY <1>a, <1>b, <2>1
  <2>3. QED
    BY <1>1, <1>a, <1>b, <2>2
<1>4. at \in States(args) /\ IsRest(args, first, at.args)
  BY DEF IsAt
<1> HIDE DEF first, last, shows
<1>5. at.text \in Seq(Chars) /\ at.args \in Seq(Values(args)) /\ at = [text |-> at.text, args |-> at.args]
  BY <1>4 DEF States
<1>6. PICK piece, rest : /\ next = [text |-> at.text \o piece, args |-> rest]
                         /\ piece \in Seq(Chars) /\ IsRest(args, last, rest)
                         /\ PieceShows(piece, d, args[last], shows)
  <2>1. CASE d.conv = "plain"
    <3>1. d.char \in Chars
      BY <1>1, <2>1 DEF WellGiven
    <3>2. <<d.char>> \in Seq(Chars) /\ Append(at.text, d.char) = at.text \o <<d.char>>
      BY <1>5, <3>1, AppendIsConcat
    <3>3. next = [at EXCEPT !.text = Append(@, d.char)]
      BY <2>1 DEF Item
    <3> HIDE DEF d
    <3>4. next = [text |-> Append(at.text, d.char), args |-> at.args]
      BY <1>5, <3>3
    <3>5. ArgumentsOf(d) = 0
      BY <2>1 DEF ArgumentsOf
    <3>6. first \in Nat /\ last = first
      BY <1>3, <1>4, <3>5 DEF IsRest
    <3>7. PieceShows(<<d.char>>, d, args[last], shows)
      BY <2>1 DEF PieceShows
    <3>8. QED
      BY <1>4, <3>2, <3>4, <3>6, <3>7
  <2>2. CASE d.conv # "plain"
    <3> DEFINE done == Directive(d, at.args)
    <3>1. next = [text |-> at.text \o done.text, args |-> done.args]
      BY <2>2 DEF Item
    <3> DEFINE a == at.args
    <3>2. IsRest(args, first, a)
      BY <1>4
    <3> HIDE DEF d, a
    <3>3. DirectiveShows(Directive(d, a), d, args, last)
      BY <1>1, <1>3, <2>2, <3>2, DirectiveIs
    <3>4. DirectiveShows(done, d, args, last)
      BY <3>3 DEF a
    <3> HIDE DEF done
    <3>5. done.text \in Seq(Chars) /\ IsRest(args, last, done.args)
          /\ PieceShows(done.text, d, args[last], shows)
      BY <3>4 DEF DirectiveShows, shows
    <3>6. QED
      BY <3>1, <3>5
  <2>3. QED
    BY <2>1, <2>2
<1>7. at.text \o piece \in Seq(Chars) /\ rest \in Seq(Values(args))
  BY <1>5, <1>6, ConcatProperties DEF IsRest
<1>8. IsAt(format, args, k, next) /\ next.text = at.text \o piece
  BY <1>6, <1>7 DEF IsAt, States, last
<1>9. QED
  BY <1>6, <1>8 DEF GoesOn, last, shows

(* Items: every one goes on from the one before. *)
ItemsGoOn(format, args, at) ==
    /\ \A k \in 0..Len(format) : IsAt(format, args, k, at[k])
    /\ \A k \in 1..Len(format) : GoesOn(format, args, k, at[k - 1], at[k])
LEMMA ItemsAre ==
    ASSUME NEW format, NEW args, IsGiven(format, args)
    PROVE  ItemsGoOn(format, args, Items(format, args))
<1> DEFINE N == Len(format)
           S == States(args)
           start == [text |-> <<>>, args |-> args]
           step == [k \in (0 + 1)..N |->
                      [s \in S |-> IF Item(s, format[k]) \in S THEN Item(s, format[k]) ELSE s]]
           Fn(f) == [k \in 0..N |-> IF k = 0 THEN start ELSE Item(f[k - 1], format[k])]
           at == CHOOSE f : f = Fn(f)
<1>1. N \in Nat /\ Len(args) \in Nat /\ args = [k \in 1..Len(args) |-> args[k]]
  BY DEF IsGiven, IsSequence
<1>2. IsAt(format, args, 0, start)
  <2>1. Taken(format, 0) = 0
    BY <1>1, TakenIs
  <2> DEFINE n == Len(args)
             V == Values(args)
  <2>2. \A i \in 1..n : args[i] \in V
    BY DEF Values
  <2>3. n \in Nat /\ args = [k \in 1..n |-> args[k]]
    BY <1>1
  <2> HIDE DEF n, V
  <2>4. args \in Seq(V)
    BY <2>2, <2>3
  <2>5. IsRest(args, 0, args)
    BY <1>1, <2>4 DEF IsRest, V
  <2>6. start \in States(args) /\ start.args = args
    BY <2>4, EmptySeq DEF States, V
  <2>7. QED
    BY <2>1, <2>5, <2>6 DEF IsAt
<1>3. start \in S /\ 0 \in Nat /\ 0 <= N
  BY <1>1, <1>2 DEF IsAt
<1>4. step \in [(0 + 1)..N -> [S -> S]]
  <2> HIDE DEF S
  <2>1. QED
    OBVIOUS
<1>5. PICK f : AreSteps(S, 0, N, start, step, f)
  <2> HIDE DEF S, step, start, N
  <2>1. QED
    BY <1>1, <1>3, <1>4, StepsExist
<1>6. /\ f \in [0..N -> S] /\ f[0] = start
      /\ \A k \in 1..N : f[k] = IF Item(f[k - 1], format[k]) \in S THEN Item(f[k - 1], format[k]) ELSE f[k - 1]
  <2>1. f \in [0..N -> S] /\ f[0] = start /\ \A n \in (0 + 1)..N : f[n] = step[n][f[n - 1]]
    BY <1>5 DEF AreSteps
  <2>2. ASSUME NEW k \in 1..N
        PROVE  f[k] = IF Item(f[k - 1], format[k]) \in S THEN Item(f[k - 1], format[k]) ELSE f[k - 1]
    <3>1. k \in (0 + 1)..N /\ k - 1 \in 0..N
      BY <1>1
    <3> HIDE DEF S, start, N
    <3>2. f[k - 1] \in S /\ f[k] = step[k][f[k - 1]]
      BY <2>1, <3>1
    <3>3. step[k] = [s \in S |-> IF Item(s, format[k]) \in S THEN Item(s, format[k]) ELSE s]
      BY <3>1
    <3> HIDE DEF step
    <3>4. QED
      BY <3>2, <3>3
  <2> HIDE DEF step, S, start
  <2>3. QED
    BY <2>1, <2>2
<1> HIDE DEF step, start
<1>7. ASSUME NEW k \in 1..N, NEW s, IsAt(format, args, k - 1, s)
      PROVE  /\ GoesOn(format, args, k, s, Item(s, format[k]))
             /\ IsAt(format, args, k, Item(s, format[k])) /\ Item(s, format[k]) \in S
  <2> DEFINE next == Item(s, format[k])
  <2>1. next = Item(s, format[k]) /\ k \in 1..Len(format)
    OBVIOUS
  <2> HIDE DEF next, N
  <2>2. GoesOn(format, args, k, s, next)
    BY <1>7, <2>1, ItemIs
  <2>3. IsAt(format, args, k, next)
    BY <2>2 DEF GoesOn
  <2>4. QED
    BY <2>1, <2>2, <2>3 DEF IsAt
<1> HIDE DEF S
<1> DEFINE Good == {k \in 0..N : IsAt(format, args, k, f[k])}
<1>8. ASSUME NEW k \in 0..N, \A h \in 0..(k - 1) : h \in Good PROVE k \in Good
  <2>1. CASE k = 0
    BY <1>2, <1>3, <1>6, <2>1
  <2>2. CASE k # 0
    <3>1. k - 1 \in 0..(k - 1) /\ k \in 1..N
      BY <1>1, <2>2
    <3>2. IsAt(format, args, k - 1, f[k - 1])
      BY <1>8, <3>1
    <3>3. IsAt(format, args, k, Item(f[k - 1], format[k])) /\ Item(f[k - 1], format[k]) \in S
      BY <1>7, <3>1, <3>2
    <3>4. f[k] = Item(f[k - 1], format[k])
      BY <1>6, <3>1, <3>3
    <3>5. QED
      BY <3>3, <3>4
  <2>3. QED
    BY <2>1, <2>2
<1>9. \A k \in 0..N : IsAt(format, args, k, f[k])
  <2>1. Good \in SUBSET (0..N)
    OBVIOUS
  <2> HIDE DEF Good, N
  <2>2. \A k \in 0..N : k \in Good
    BY <1>1, <1>8, <2>1, UpInduction
  <2>3. QED
    BY <2>2 DEF Good
<1>10. \A k \in 1..N : f[k] = Item(f[k - 1], format[k])
  <2> SUFFICES ASSUME NEW k \in 1..N PROVE f[k] = Item(f[k - 1], format[k])
    OBVIOUS
  <2>1. k - 1 \in 0..N
    BY <1>1
  <2>2. IsAt(format, args, k - 1, f[k - 1])
    BY <1>9, <2>1
  <2>3. Item(f[k - 1], format[k]) \in S
    BY <1>7, <2>2
  <2>4. QED
    BY <1>6, <2>3
<1>11. f = Fn(f)
  <2>1. \A k \in 0..N : f[k] = Fn(f)[k]
    BY <1>1, <1>6, <1>10
  <2>2. f = [k \in 0..N |-> f[k]] /\ Fn(f) = [k \in 0..N |-> Fn(f)[k]]
    BY <1>6
  <2> HIDE DEF Fn
  <2>3. QED
    BY <2>1, <2>2
<1>12. at = Fn(at)
  <2> HIDE DEF Fn
  <2>1. QED
    BY <1>11
<1>13. Items(format, args) = at
  BY DEF Items, start
<1>14. at[0] = start /\ \A k \in 1..N : at[k] = Item(at[k - 1], format[k])
  <2>1. Fn(at)[0] = start /\ \A k \in 1..N : Fn(at)[k] = Item(at[k - 1], format[k])
    BY <1>1
  <2> HIDE DEF Fn, at
  <2>2. QED
    BY <1>12, <2>1
<1> HIDE DEF at
<1> DEFINE Same == {k \in 0..N : at[k] = f[k]}
<1>15. ASSUME NEW k \in 0..N, \A h \in 0..(k - 1) : h \in Same PROVE k \in Same
  <2>1. CASE k = 0
    BY <1>6, <1>14, <2>1
  <2>2. CASE k # 0
    <3>1. k - 1 \in 0..(k - 1) /\ k \in 1..N
      BY <1>1, <2>2
    <3>2. QED
      BY <1>10, <1>14, <1>15, <3>1
  <2>3. QED
    BY <2>1, <2>2
<1>16. \A k \in 0..N : at[k] = f[k]
  <2>1. Same \in SUBSET (0..N)
    OBVIOUS
  <2> HIDE DEF Same, N
  <2>2. \A k \in 0..N : k \in Same
    BY <1>1, <1>15, <2>1, UpInduction
  <2>3. QED
    BY <2>2 DEF Same
<1>17. ASSUME NEW k \in 1..N PROVE GoesOn(format, args, k, at[k - 1], at[k])
  <2>1. k - 1 \in 0..N
    BY <1>1
  <2>2. IsAt(format, args, k - 1, at[k - 1])
    BY <1>9, <1>16, <2>1
  <2>3. QED
    BY <1>7, <1>14, <2>2
<1>18. \A k \in 0..N : IsAt(format, args, k, at[k])
  BY <1>9, <1>16
<1>19. QED
  BY <1>13, <1>17, <1>18 DEF ItemsGoOn

(* A text that goes on keeps what it has. *)
KeepsText(s, t) == Len(s) <= Len(t) /\ \A i \in 1..Len(s) : t[i] = s[i]
HasAdded(s, piece, t) ==
    /\ t \in Seq(Chars) /\ Len(t) = Len(s) + Len(piece) /\ KeepsText(s, t)
    /\ \A i \in 1..Len(piece) : t[Len(s) + i] = piece[i]
LEMMA TextGoesOn ==
    ASSUME NEW s \in Seq(Chars), NEW piece \in Seq(Chars), NEW t, t = s \o piece
    PROVE  HasAdded(s, piece, t)
<1> DEFINE a == Len(s)
           b == Len(piece)
<1>1. a = Len(s) /\ b = Len(piece)
  OBVIOUS
<1> HIDE DEF a, b
<1>2. /\ a \in Nat /\ b \in Nat /\ s \o piece \in Seq(Chars) /\ Len(s \o piece) = a + b
      /\ \A i \in 1..a : (s \o piece)[i] = s[i]
      /\ \A i \in 1..b : (s \o piece)[a + i] = piece[i]
  BY <1>1, Joined
<1>3. a <= a + b
  BY <1>2
<1>4. QED
  BY <1>1, <1>2, <1>3 DEF HasAdded, KeepsText

LEMMA KeptAgain ==
    ASSUME NEW r \in Seq(Chars), NEW s \in Seq(Chars), NEW t \in Seq(Chars),
           KeepsText(r, s), KeepsText(s, t)
    PROVE  KeepsText(r, t)
<1>1. Len(r) \in Nat /\ Len(s) \in Nat /\ Len(t) \in Nat /\ Len(r) <= Len(s) /\ Len(s) <= Len(t)
  BY DEF KeepsText
<1>2. ASSUME NEW i \in 1..Len(r) PROVE t[i] = r[i]
  <2>1. i \in 1..Len(s)
    BY <1>1
  <2>2. QED
    BY <2>1 DEF KeepsText
<1>3. QED
  BY <1>1, <1>2 DEF KeepsText

(* The piece between two lengths of a text that keeps both. *)
LEMMA PieceOf ==
    ASSUME NEW s \in Seq(Chars), NEW piece \in Seq(Chars), NEW t, t = s \o piece,
           NEW all \in Seq(Chars), KeepsText(t, all)
    PROVE  SubSeq(all, Len(s) + 1, Len(t)) = piece
<1> DEFINE a == Len(s)
           n == Len(piece)
           lo == a + 1
           hi == Len(t)
           g == SubSeq(all, lo, hi)
<1>1. /\ t \in Seq(Chars) /\ Len(t) = a + n /\ KeepsText(s, t) /\ a \in Nat /\ n \in Nat
      /\ \A i \in 1..n : t[a + i] = piece[i]
  <2>1. HasAdded(s, piece, t)
    BY TextGoesOn
  <2>2. a \in Nat /\ n \in Nat
    OBVIOUS
  <2>3. QED
    BY <2>1, <2>2 DEF HasAdded
<1>2. /\ Len(all) \in Nat /\ hi <= Len(all) /\ \A i \in 1..hi : all[i] = t[i]
  BY DEF KeepsText
<1>3. /\ lo \in Int /\ hi \in Int /\ lo \in Nat \ {0} /\ hi - lo + 1 = n /\ n = Len(piece)
      /\ IF lo <= hi THEN hi - lo + 1 = n ELSE n = 0
  BY <1>1
<1>a. hi = a + n /\ hi \in Nat
  BY <1>1
<1>b. g = SubSeq(all, lo, hi)
  OBVIOUS
<1>c. \A i \in 1..n : lo + i - 1 = a + i /\ a + i \in 1..hi
  BY <1>1
<1> HIDE DEF lo, hi, g, n
<1>4. \A i \in lo..hi : all[i] \in Chars
  <2>1. \A i \in lo..hi : i \in 1..Len(all)
    BY <1>2, <1>3, <1>a
  <2>2. QED
    BY <2>1
<1>5. /\ g \in Seq(Chars) /\ Len(g) = n /\ \A i \in 1..n : g[i] = all[lo + i - 1]
  <2>1. /\ g \in Seq(Chars) /\ Len(g) = IF lo <= hi THEN hi - lo + 1 ELSE 0
        /\ \A i \in 1..(hi - lo + 1) : g[i] = all[lo + i - 1]
    BY <1>3, <1>4, <1>b, SubSeqProperties
  <2>2. Len(g) = n
    BY <1>3, <2>1
  <2>3. QED
    BY <1>3, <2>1, <2>2
<1>6. ASSUME NEW i \in 1..n PROVE g[i] = piece[i]
  <2>1. g[i] = all[a + i] /\ a + i \in 1..hi
    BY <1>5, <1>c
  <2>2. all[a + i] = t[a + i]
    BY <1>2, <2>1
  <2>3. QED
    BY <1>1, <2>1, <2>2
<1>7. g = piece
  BY <1>3, <1>5, <1>6, SeqEqual
<1>8. QED
  BY <1>7 DEF g, lo, hi

(* The text after k of a format is the beginning of the whole text. *)
LEMMA TextKept ==
    ASSUME NEW format, NEW args, NEW at, ItemsGoOn(format, args, at), NEW N \in Nat, N = Len(format),
           NEW k \in 0..N
    PROVE  KeepsText(at[k].text, at[N].text)
<1>1. \A j \in 0..N : at[j].text \in Seq(Chars)
  BY DEF ItemsGoOn, IsAt, States
<1>2. ASSUME NEW j \in 1..N
      PROVE  KeepsText(at[j - 1].text, at[j].text)
  <2>1. PICK piece \in Seq(Chars) : at[j].text = at[j - 1].text \o piece
    BY DEF ItemsGoOn, GoesOn
  <2>2. j - 1 \in 0..N
    OBVIOUS
  <2> DEFINE s == at[j - 1].text
             t == at[j].text
  <2>3. s \in Seq(Chars) /\ t = s \o piece
    BY <1>1, <2>1, <2>2
  <2> HIDE DEF s, t
  <2>4. KeepsText(s, t)
    BY <2>3, TextGoesOn DEF HasAdded
  <2>5. QED
    BY <2>4 DEF s, t
<1> DEFINE Good == {j \in 0..N : k <= j => KeepsText(at[k].text, at[j].text)}
<1>3. ASSUME NEW j \in 0..N, \A h \in 0..(j - 1) : h \in Good PROVE j \in Good
  <2>1. CASE j < k
    BY <2>1
  <2>2. CASE j = k
    BY <1>1, <2>2 DEF KeepsText
  <2>3. CASE k < j
    <3>1. j - 1 \in 0..(j - 1) /\ j \in 1..N /\ k <= j - 1 /\ j - 1 \in 0..N
      BY <2>3
    <3>2. KeepsText(at[k].text, at[j - 1].text)
      BY <1>3, <3>1
    <3>3. KeepsText(at[j - 1].text, at[j].text)
      BY <1>2, <3>1
    <3>4. at[k].text \in Seq(Chars) /\ at[j - 1].text \in Seq(Chars) /\ at[j].text \in Seq(Chars)
      BY <1>1, <3>1
    <3>5. KeepsText(at[k].text, at[j].text)
      BY <3>2, <3>3, <3>4, KeptAgain
    <3>6. QED
      BY <3>5
  <2>4. QED
    BY <2>1, <2>2, <2>3
<1>4. \A j \in 0..N : j \in Good
  <2>1. Good \in SUBSET (0..N)
    OBVIOUS
  <2> HIDE DEF Good
  <2>2. QED
    BY <1>3, <2>1, UpInduction
<1>5. QED
  BY <1>4

(* A call that prints a format. *)
LEMMA FormatShown ==
    ASSUME NEW format, NEW args, IsGiven(format, args), NEW k \in DOMAIN format
    PROVE  ShowsItsArgument(format, args, k)
<1> DEFINE N == Len(format)
           at == Items(format, args)
           d == format[k]
           last == Taken(format, k)
           prec == IF d.prec = Star THEN args[last - 1] ELSE d.prec
<1>1. N \in Nat /\ k \in 1..N
  <2>1. N \in Nat /\ format = [i \in 1..N |-> format[i]]
    BY DEF IsGiven, IsSequence
  <2>2. QED
    BY <2>1
<1>2. ItemsGoOn(format, args, at)
  BY ItemsAre
<1>a. N = Len(format)
  OBVIOUS
<1> HIDE DEF N, at
<1>3. KeepsText(at[k].text, at[N].text)
  BY <1>1, <1>2, <1>a, TextKept
<1>4. GoesOn(format, args, k, at[k - 1], at[k])
  BY <1>1, <1>2, <1>a DEF ItemsGoOn
<1>5. PICK piece \in Seq(Chars) :
        /\ at[k].text = at[k - 1].text \o piece
        /\ PieceShows(piece, d, args[last], prec)
  BY <1>4 DEF GoesOn
<1>6. at[k - 1].text \in Seq(Chars) /\ at[N].text \in Seq(Chars)
  BY <1>1, <1>2, <1>a DEF ItemsGoOn, IsAt, States
<1>7. SubSeq(at[N].text, Len(at[k - 1].text) + 1, Len(at[k].text)) = piece
  BY <1>3, <1>5, <1>6, PieceOf
<1> DEFINE given == d.prec # Absent
           shown == IF d.conv = "c" THEN <<args[last]>> ELSE Cut(args[last], given, prec)
<1>8. shown = IF d.conv = "c" THEN <<args[last]>>
              ELSE IF d.prec = Absent THEN args[last]
              ELSE SubSeq(args[last], 1, AtMost(Len(args[last]), prec))
  BY DEF Cut
<1>9. PieceShows(piece, d, args[last], prec) <=>
        IF d.conv \in {"plain", "other"} THEN piece = <<d.char>>
        ELSE IF d.conv \in {"c", "s"} THEN IsAtEnd(piece, shown)
        ELSE ReadsBack(piece, d.conv, d.size, args[last])
  BY DEF PieceShows
<1> HIDE DEF shown
<1> DEFINE between == SubSeq(at[N].text, Len(at[k - 1].text) + 1, Len(at[k].text))
           shows == IF d.conv = "c" THEN <<args[last]>>
                    ELSE IF d.prec = Absent THEN args[last]
                    ELSE SubSeq(args[last], 1, AtMost(Len(args[last]), prec))
<1>10. ShowsItsArgument(format, args, k) <=>
         IF d.conv \in {"plain", "other"} THEN between = <<d.char>>
         ELSE IF d.conv \in {"c", "s"} THEN IsAtEnd(between, shows)
         ELSE ReadsBack(between, d.conv, d.size, args[last])
  BY DEF ShowsItsArgument, IsAtEnd, N, at
<1>11. between = piece /\ shows = shown
  BY <1>7, <1>8
<1> HIDE DEF between, shows
<1>12. QED
  BY <1>5, <1>9, <1>10, <1>11, Zenon

LEMMA FormatCalls == call \in Calls => FormatsInOrder
<1> SUFFICES ASSUME call \in Calls, call.fn = "format"
             PROVE  FormatsInOrder
  BY DEF FormatsInOrder
<1>1. IsGiven(call.format, call.args)
  BY FormatsAssumption DEF IsGiven
<1>2. \A k \in DOMAIN call.format : ShowsItsArgument(call.format, call.args, k)
  BY <1>1, FormatShown
<1>3. QED
  BY <1>2 DEF FormatsInOrder

-----------------------------------------------------------------------------
(* The call is one of the calls, or none. *)
CallInv == call \in Calls \cup {None}

LEMMA CallInvariant == LibSpec => []CallInv
<1>1. LibInit => CallInv
  BY DEF LibInit, CallInv
<1>2. CallInv /\ [LibNext]_libvars => CallInv'
  BY DEF CallInv, LibNext, Return, putchar, libvars
<1>3. QED
  BY <1>1, <1>2, PTL DEF LibSpec

LEMMA NoneIsOther ==
    call = None => call.fn # "search" /\ call.fn # "compare" /\ call.fn # "copy"
BY DEF None

(* memmem, with either algorithm, and strstr return the first place of any
   needle in any text, and NULL only if there is none (jbinit/lib/memmem.c,
   strstr.c). *)
THEOREM SearchIsRight == LibSpec => []SearchFindsFirst
<1>1. CallInv => SearchFindsFirst
  <2>1. call = None => SearchFindsFirst
    BY NoneIsOther DEF SearchFindsFirst
  <2>2. QED
    BY <2>1, SearchingCalls DEF CallInv
<1>2. QED
  BY CallInvariant, <1>1, PTL

(* strcmp and strncmp tell any strings apart as their texts differ, whatever
   lies behind the NUL, and memcmp any memory that differs (jbinit/lib/strcmp.c,
   strncmp.c, memcmp.c). *)
THEOREM ComparisonIsRight == LibSpec => []ComparesStrings
<1>1. CallInv => ComparesStrings
  <2>1. call = None => ComparesStrings
    BY NoneIsOther DEF ComparesStrings
  <2>2. QED
    BY <2>1, ComparingCalls DEF CallInv
<1>2. QED
  BY CallInvariant, <1>1, PTL

(* memcpy copies what the source held when it began, however the two overlap,
   and strcat gives a string exactly where the byte behind it was NUL
   (jbinit/lib/memmove.c, strcat.c). *)
THEOREM CopiesAreExact == LibSpec => []CopiesExactly
<1>1. CallInv => CopiesExactly
  <2>1. call = None => CopiesExactly
    BY NoneIsOther DEF CopiesExactly
  <2>2. QED
    BY <2>1, CopyingCalls DEF CallInv
<1>2. QED
  BY CallInvariant, <1>1, PTL

(* strtoull gives the number any digits say in any base, or ULLONG_MAX if it
   does not fit, and _atoi the number modulo 2^32 (jbinit/lib/strtoull.c,
   printf.c). *)
THEOREM ReadingIsExact == LibSpec => []ReadsExactly
<1>1. CallInv => ReadsExactly
  <2>1. call = None => ReadsExactly
    BY DEF ReadsExactly, None
  <2>2. QED
    BY <2>1, ReadingCalls DEF CallInv
<1>2. QED
  BY CallInvariant, <1>1, PTL

(* What printf makes of any number, in any flags and widths of jbinit, is read
   back as that number modulo its type, all of it, with a sign where it is
   negative; it is as wide as is asked, and snprintf leaves it as it is in a
   buffer it fits (jbinit/lib/printf.c: _ntoa_long, _ntoa_format, _out_rev,
   _out_buffer). *)
THEOREM PrintingIsExact == LibSpec => []PrintsExactly
<1>1. CallInv => PrintsExactly
  <2>1. call = None => PrintsExactly
    BY DEF PrintsExactly, None
  <2>2. QED
    BY <2>1, PrintingCalls DEF CallInv
<1>2. QED
  BY CallInvariant, <1>1, PTL

(* In any format, with the arguments the compiler asks for, every directive
   shows its own argument in its own piece of the text, however many were taken
   before it, as widths, precisions or values (jbinit/lib/printf.c:
   _vsnprintf). *)
THEOREM FormatsShowTheirArguments == LibSpec => []FormatsInOrder
<1>1. CallInv => FormatsInOrder
  <2>1. call = None => FormatsInOrder
    BY DEF FormatsInOrder, None
  <2>2. QED
    BY <2>1, FormatCalls DEF CallInv
<1>2. QED
  BY CallInvariant, <1>1, PTL

(* Numbers are read and printed exactly, alone and in any format: what the runs
   check of numbers (jbinit/lib/strtoull.c, printf.c). *)
THEOREM NumbersAreExact == LibSpec => []NumbersReadBack
<1>1. ReadsExactly /\ PrintsExactly /\ FormatsInOrder => NumbersReadBack
  BY DEF NumbersReadBack
<1>2. QED
  BY ReadingIsExact, PrintingIsExact, FormatsShowTheirArguments, <1>1, PTL

-----------------------------------------------------------------------------
(* The log. *)
(* The line buffer holds less than a line, and what was put is what was written
   followed by it; characters may be anything. *)
LogInv ==
    /\ \E S : log \in Seq(S) /\ buf \in Seq(S)
    /\ LogInOrder

LEMMA LogInit == LibInit => LogInv
<1> SUFFICES ASSUME LibInit PROVE LogInv
  OBVIOUS
<1>1. buf = <<>> /\ put = <<>> /\ log = <<>>
  BY DEF LibInit
<1>2. <<>> \in Seq(Chars) /\ Len(<<>>) = 0 /\ <<>> \o <<>> = <<>> /\ DOMAIN <<>> = {}
  BY EmptySeq, ConcatEmptySeq
<1>3. 0 < LogSize
  BY LibcAssumption
<1>4. QED
  BY <1>1, <1>2, <1>3 DEF LogInv, LogInOrder

LEMMA LogStep == LogInv /\ [LibNext]_libvars => LogInv'
<1> SUFFICES ASSUME LogInv, [LibNext]_libvars PROVE LogInv'
  OBVIOUS
<1>1. CASE putchar
  <2> DEFINE c == Head(todo)
             line == Append(buf, c)
  <2>1. PICK S : log \in Seq(S) /\ buf \in Seq(S)
    BY DEF LogInv
  <2> DEFINE T == S \cup {c}
  <2>2. log \in Seq(T) /\ buf \in Seq(T) /\ c \in T
    BY <2>1, SeqMonotonic
  <2>3. /\ Len(buf) \in Nat /\ Len(buf) < LogSize /\ LogSize \in Nat
        /\ put = log \o buf /\ \A k \in DOMAIN buf : buf[k] # NewLine
        /\ DOMAIN buf = 1..Len(buf)
    BY <2>2, LenProperties, LibcAssumption DEF LogInv, LogInOrder
  <2> HIDE DEF c, T
  <2>4. /\ line \in Seq(T) /\ Len(line) = Len(buf) + 1
        /\ \A k \in 1..Len(buf) : line[k] = buf[k]
        /\ line[Len(buf) + 1] = c
    BY <2>2, AppendProperties
  <2>5. Append(put, c) = log \o line
    <3>1. <<c>> \in Seq(T)
      BY <2>2
    <3>2. log \o buf \in Seq(T)
      BY <2>2, ConcatProperties
    <3>3. Append(log \o buf, c) = (log \o buf) \o <<c>> /\ line = buf \o <<c>>
      BY <2>2, <3>2, AppendIsConcat
    <3>4. (log \o buf) \o <<c>> = log \o (buf \o <<c>>)
      BY <2>2, <3>1, ConcatAssociative
    <3>5. QED
      BY <2>3, <3>3, <3>4
  <2>6. put' = log \o line
    BY <1>1, <2>5 DEF putchar, c
  <2> HIDE DEF line
  <2>7. CASE c = NewLine \/ Full(line)
    <3>1. log' = log \o line /\ buf' = <<>>
      BY <1>1, <2>7 DEF putchar, c, line
    <3>2. log' \in Seq(T) /\ buf' \in Seq(T) /\ Len(buf') = 0 /\ DOMAIN buf' = {}
          /\ log' \o buf' = log'
      BY <2>2, <2>4, <3>1, ConcatProperties, EmptySeq, ConcatEmptySeq
    <3>3. QED
      BY <2>3, <2>6, <3>1, <3>2 DEF LogInv, LogInOrder
  <2>8. CASE ~ (c = NewLine \/ Full(line))
    <3>1. log' = log /\ buf' = line
      BY <1>1, <2>8 DEF putchar, c, line
    <3>2. Len(line) < LogSize
      BY <2>3, <2>4, <2>8 DEF Full
    <3>3. \A k \in DOMAIN line : line[k] # NewLine
      <4>1. DOMAIN line = 1..Len(buf) + 1
        BY <2>4, LenProperties
      <4>2. QED
        BY <2>3, <2>4, <2>8, <4>1
    <3>4. QED
      BY <2>2, <2>4, <2>6, <3>1, <3>2, <3>3 DEF LogInv, LogInOrder
  <2>9. QED
    BY <2>7, <2>8
<1>2. CASE Return \/ UNCHANGED libvars
  BY <1>2 DEF Return, libvars, LogInv, LogInOrder
<1>3. QED
  BY <1>1, <1>2 DEF LibNext

(* What goes into the log comes out of it, in order and without a gap, for any
   text and any size of the line buffer, which is never written past
   (jbinit/utils.c: _putchar). *)
THEOREM LogKeepsOrder == LibSpec => []LogInOrder
<1>1. LogInv => LogInOrder
  BY DEF LogInv
<1>2. QED
  BY LogInit, LogStep, <1>1, PTL DEF LibSpec

=============================================================================
