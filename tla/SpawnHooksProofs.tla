-------------------------- MODULE SpawnHooksProofs --------------------------
(***************************************************************************)
(* Proofs about SpawnHooks, for any jobs, environments and preferences.    *)
(***************************************************************************)
EXTENDS SpawnHooks, SequenceTheorems, WellFoundedInduction, TLAPS

(* A set of positions has a smallest one. *)
LEMMA SmallestHit ==
    ASSUME NEW n \in Nat, NEW hits \in SUBSET (1..n), hits # {}
    PROVE  \E i \in hits : \A h \in hits : i <= h
<1>1. hits \subseteq Nat
  OBVIOUS
<1>2. \E i \in hits : \A h \in hits : <<h, i>> \notin OpToRel(<, Nat)
  BY <1>1, NatLessThanWellFounded, WFMin
<1>3. \E i \in hits : \A h \in hits : ~ (h < i)
  BY <1>1, <1>2 DEF OpToRel
<1>4. QED
  BY <1>1, <1>3

LEMMA FirstHit ==
    ASSUME NEW n \in Nat, NEW hits \in SUBSET (1..n), NEW k \in 1..n + 1,
           k <= n => k \in hits, \A i \in 1..k - 1 : i \notin hits
    PROVE  k = IF hits = {} THEN n + 1 ELSE CHOOSE i \in hits : \A h \in hits : i <= h
<1>1. CASE hits = {}
  BY <1>1
<1>2. CASE hits # {}
  <2> DEFINE first == CHOOSE i \in hits : \A h \in hits : i <= h
  <2>1. first \in hits /\ \A h \in hits : first <= h
    BY <1>2, SmallestHit
  <2> HIDE DEF first
  <2>2. k <= first
    BY <2>1
  <2>3. k \in hits
    BY <2>1, <2>2
  <2>4. first <= k
    BY <2>1, <2>3
  <2>5. first = k
    BY <2>1, <2>2, <2>4
  <2>6. QED
    BY <1>2, <2>5 DEF first
<1>3. QED
  BY <1>1, <1>2

(* The first variable that mentions DYLD_INSERT_LIBRARIES, and the first that
   dyld takes for it. *)
LEMMA FirstMention ==
    ASSUME NEW e \in Seq(Variables), NEW k \in 1..Len(e) + 1,
           k <= Len(e) => Mentions(e[k]), \A i \in 1..k - 1 : ~ Mentions(e[i])
    PROVE  FirstOf(e, Mentions) = k
<1> DEFINE hits == {i \in DOMAIN e : Mentions(e[i])}
<1>1. Len(e) \in Nat /\ DOMAIN e = 1..Len(e)
  BY LenProperties
<1>2. hits \in SUBSET (1..Len(e)) /\ (k <= Len(e) => k \in hits)
      /\ \A i \in 1..k - 1 : i \notin hits
  BY <1>1
<1> HIDE DEF hits
<1>3. k = IF hits = {} THEN Len(e) + 1 ELSE CHOOSE i \in hits : \A h \in hits : i <= h
  BY <1>1, <1>2, FirstHit
<1>4. QED
  BY <1>3 DEF FirstOf, hits

LEMMA FirstInsert ==
    ASSUME NEW e \in Seq(Variables), NEW k \in 1..Len(e) + 1,
           k <= Len(e) => IsInsert(e[k]), \A i \in 1..k - 1 : ~ IsInsert(e[i])
    PROVE  FirstOf(e, IsInsert) = k
<1> DEFINE hits == {i \in DOMAIN e : IsInsert(e[i])}
<1>1. Len(e) \in Nat /\ DOMAIN e = 1..Len(e)
  BY LenProperties
<1>2. hits \in SUBSET (1..Len(e)) /\ (k <= Len(e) => k \in hits)
      /\ \A i \in 1..k - 1 : i \notin hits
  BY <1>1
<1> HIDE DEF hits
<1>3. k = IF hits = {} THEN Len(e) + 1 ELSE CHOOSE i \in hits : \A h \in hits : i <= h
  BY <1>1, <1>2, FirstHit
<1>4. QED
  BY <1>3 DEF FirstOf, hits

(* Where the first variable that mentions it is, and what lies before it. *)
LEMMA MentionIn ==
    ASSUME NEW e \in Seq(Variables)
    PROVE  LET k == FirstOf(e, Mentions)
           IN  /\ Len(e) \in Nat /\ DOMAIN e = 1..Len(e) /\ k \in 1..Len(e) + 1
               /\ k <= Len(e) => Mentions(e[k]) /\ e[k] \in Variables
               /\ \A i \in 1..k - 1 : e[i] \in Variables /\ ~ Mentions(e[i])
<1> DEFINE hits == {i \in DOMAIN e : Mentions(e[i])}
           k == FirstOf(e, Mentions)
           before == \A i \in 1..k - 1 : e[i] \in Variables /\ ~ Mentions(e[i])
<1>1. Len(e) \in Nat /\ DOMAIN e = 1..Len(e)
  BY LenProperties
<1>2. \A i \in 1..Len(e) : e[i] \in Variables
  BY <1>1, ElementOfSeq
<1>3. k = IF hits = {} THEN Len(e) + 1 ELSE CHOOSE i \in hits : \A h \in hits : i <= h
  BY DEF FirstOf
<1>4. hits \in SUBSET (1..Len(e))
  BY <1>1
<1> HIDE DEF k
<1>5. CASE hits = {}
  <2>1. k = Len(e) + 1
    BY <1>3, <1>5
  <2>2. before
    BY <1>1, <1>2, <1>5, <2>1
  <2>3. QED
    BY <1>1, <2>1, <2>2 DEF k
<1>6. CASE hits # {}
  <2>1. \E i \in hits : \A h \in hits : i <= h
    BY <1>1, <1>4, <1>6, SmallestHit
  <2>2. k \in hits /\ \A h \in hits : k <= h
    BY <1>3, <1>6, <2>1
  <2>3. k \in 1..Len(e) /\ Mentions(e[k])
    BY <1>1, <2>2
  <2>4. before
    BY <1>1, <1>2, <2>2, <2>3
  <2>5. k \in 1..Len(e) + 1 /\ Mentions(e[k]) /\ e[k] \in Variables
    BY <1>1, <1>2, <2>3
  <2>6. QED
    BY <1>1, <2>4, <2>5, Zenon DEF k
<1>7. QED
  BY <1>5, <1>6

(* The same of the environment of the job. *)
K == FirstOf(job, Mentions)
LEMMA JobMention ==
    ASSUME job \in JobEnvs
    PROVE  /\ job \in Seq(Variables) /\ Len(job) \in Nat /\ DOMAIN job = 1..Len(job)
           /\ K \in 1..Len(job) + 1
           /\ K <= Len(job) => Mentions(job[K]) /\ job[K] \in Variables
           /\ \A i \in 1..K - 1 : job[i] \in Variables /\ ~ Mentions(job[i])
<1>1. job \in Seq(Variables)
  BY HooksAssumption
<1>2. QED
  BY <1>1, MentionIn DEF K

(* A library is loaded when it is in the first variable dyld takes, and is not
   when no variable that dyld may take has it. *)
LEMMA LoadsFromFirst ==
    ASSUME NEW e \in Seq(Variables), NEW k \in 1..Len(e), IsInsert(e[k]),
           \A i \in 1..k - 1 : ~ IsInsert(e[i]),
           NEW lib, NEW j \in DOMAIN e[k].libs, e[k].libs[j] = lib
    PROVE  Loads(e, lib)
<1>1. Len(e) \in Nat /\ k \in 1..Len(e) + 1
  BY LenProperties
<1>2. FirstOf(e, IsInsert) = k
  BY <1>1, FirstInsert
<1>3. QED
  BY <1>1, <1>2 DEF Loads

LEMMA NoLibNoLoad ==
    ASSUME NEW e \in Seq(Variables), NEW lib,
           \A i \in 1..Len(e) : IsInsert(e[i]) =>
               \A j \in DOMAIN e[i].libs : e[i].libs[j] # lib
    PROVE  ~ Loads(e, lib)
<1> DEFINE hits == {i \in DOMAIN e : IsInsert(e[i])}
<1>1. Len(e) \in Nat /\ DOMAIN e = 1..Len(e)
  BY LenProperties
<1>2. FirstOf(e, IsInsert) = IF hits = {} THEN Len(e) + 1
                             ELSE CHOOSE i \in hits : \A h \in hits : i <= h
  BY DEF FirstOf
<1>3. hits \in SUBSET (1..Len(e))
  BY <1>1
<1>4. CASE hits = {}
  BY <1>1, <1>2, <1>4 DEF Loads
<1>5. CASE hits # {}
  <2>1. \E i \in hits : \A h \in hits : i <= h
    BY <1>1, <1>3, <1>5, SmallestHit
  <2>2. FirstOf(e, IsInsert) \in hits
    BY <1>2, <1>5, <2>1
  <2>3. /\ FirstOf(e, IsInsert) \in 1..Len(e)
        /\ IsInsert(e[FirstOf(e, IsInsert)])
    BY <1>3, <2>2
  <2>4. QED
    BY <2>3 DEF Loads
<1>6. QED
  BY <1>4, <1>5

LEMMA ProxyPlain ==
    ASSUME NEW front \in ProxyVars
    PROVE  /\ front \in Seq(Variables) /\ Len(front) \in Nat
           /\ \A i \in 1..Len(front) :
                front[i] \in Variables /\ front[i].name = "plain"
<1>1. front \in Seq(Variables) /\ Len(front) \in Nat /\ DOMAIN front = 1..Len(front)
  BY HooksAssumption, LenProperties
<1>2. QED
  BY <1>1, HooksAssumption, ElementOfSeq

(* The environment with a job's own one between what xpcproxy adds. *)
LEMMA Between ==
    ASSUME NEW front \in ProxyVars, NEW behind \in ProxyVars, NEW e \in Seq(Variables)
    PROVE  LET all == front \o e \o behind
           IN  /\ all \in Seq(Variables) /\ Len(all) = Len(front) + Len(e) + Len(behind)
               /\ \A i \in 1..Len(front) : all[i] = front[i]
               /\ \A i \in 1..Len(e) : all[Len(front) + i] = e[i]
               /\ \A i \in 1..Len(behind) : all[Len(front) + Len(e) + i] = behind[i]
<1> DEFINE fe == front \o e
<1>1. /\ front \in Seq(Variables) /\ behind \in Seq(Variables)
      /\ Len(front) \in Nat /\ Len(behind) \in Nat /\ Len(e) \in Nat
  BY ProxyPlain, LenProperties
<1>2. /\ fe \in Seq(Variables) /\ Len(fe) = Len(front) + Len(e)
      /\ \A i \in 1..Len(front) : fe[i] = front[i]
      /\ \A i \in 1..Len(e) : fe[Len(front) + i] = e[i]
  <2>1. /\ fe \in Seq(Variables) /\ Len(fe) = Len(front) + Len(e)
        /\ \A i \in 1..Len(front) + Len(e) :
             fe[i] = IF i <= Len(front) THEN front[i] ELSE e[i - Len(front)]
    BY <1>1, ConcatProperties
  <2>2. QED
    BY <1>1, <2>1
<1> HIDE DEF fe
<1>3. /\ fe \o behind \in Seq(Variables) /\ Len(fe \o behind) = Len(fe) + Len(behind)
      /\ \A i \in 1..Len(fe) + Len(behind) :
             (fe \o behind)[i] = IF i <= Len(fe) THEN fe[i] ELSE behind[i - Len(fe)]
  <2>1. fe \in Seq(Variables) /\ behind \in Seq(Variables)
    BY <1>1, <1>2
  <2>2. QED
    BY <2>1, ConcatProperties
<1>4. QED
  BY <1>1, <1>2, <1>3 DEF fe

(* What adding a library leaves: the variables ahead of the one it goes to,
   and that one with the library at its end. *)
Extended(e, k, lib) ==
    IF k <= Len(e) THEN [name |-> e[k].name, libs |-> Append(e[k].libs, lib)]
    ELSE [name |-> "insert", libs |-> <<lib>>]
LEMMA ChangedLibs ==
    ASSUME NEW v \in Variables, NEW x
    PROVE  [v EXCEPT !.libs = x] = [name |-> v.name, libs |-> x]
BY DEF Variables
LEMMA WithLibShape ==
    ASSUME NEW e \in Seq(Variables), NEW k \in 1..Len(e) + 1,
           k <= Len(e) => Mentions(e[k]), \A i \in 1..k - 1 : ~ Mentions(e[i]),
           NEW lib \in Deployed
    PROVE  /\ Extended(e, k, lib) \in Variables
           /\ WithLib(e, lib) = Append(SubSeq(e, 1, k - 1), Extended(e, k, lib))
           /\ SubSeq(e, 1, k - 1) \in Seq(Variables)
           /\ WithLib(e, lib) \in Seq(Variables) /\ Len(WithLib(e, lib)) = k
           /\ \A i \in 1..k - 1 : WithLib(e, lib)[i] = e[i]
           /\ WithLib(e, lib)[k] = Extended(e, k, lib)
<1> DEFINE front == SubSeq(e, 1, k - 1)
           v == Extended(e, k, lib)
<1>1. Len(e) \in Nat /\ FirstOf(e, Mentions) = k
  BY LenProperties, FirstMention
<1>2. k <= Len(e) => /\ e[k] \in Variables
                     /\ e[k] = [name |-> e[k].name, libs |-> e[k].libs]
                     /\ Append(e[k].libs, lib) \in Seq(Deployed)
  <2> SUFFICES ASSUME k <= Len(e)
               PROVE  /\ e[k] \in Variables
                      /\ e[k] = [name |-> e[k].name, libs |-> e[k].libs]
                      /\ Append(e[k].libs, lib) \in Seq(Deployed)
    OBVIOUS
  <2>1. e[k] \in Variables
    BY <1>1, ElementOfSeq
  <2>2. e[k] = [name |-> e[k].name, libs |-> e[k].libs] /\ e[k].libs \in Seq(Deployed)
    BY <2>1 DEF Variables
  <2>3. QED
    BY <2>1, <2>2, AppendProperties
<1>3. v \in Variables
  <2>1. CASE k <= Len(e)
    <3>1. e[k].name \in {"insert", "like", "plain"}
      BY <2>1, <1>2 DEF Variables
    <3>2. QED
      BY <2>1, <1>2, <3>1 DEF Variables, Extended
  <2>2. CASE ~ (k <= Len(e))
    BY <2>2 DEF Variables, Extended
  <2>3. QED
    BY <2>1, <2>2
<1>4. WithLib(e, lib) = Append(front, v)
  <2>1. CASE k <= Len(e)
    <3>1. [e[k] EXCEPT !.libs = Append(@, lib)] =
              [name |-> e[k].name, libs |-> Append(e[k].libs, lib)]
      BY <1>2, <2>1, ChangedLibs
    <3>2. QED
      BY <1>1, <2>1, <3>1 DEF WithLib, Extended
  <2>2. CASE ~ (k <= Len(e))
    BY <1>1, <2>2 DEF WithLib, Extended
  <2>3. QED
    BY <2>1, <2>2
<1>5. \A i \in 1..k - 1 : e[i] \in Variables
  BY <1>1, ElementOfSeq
<1>6. /\ front \in Seq(Variables) /\ Len(front) = k - 1
      /\ \A i \in 1..k - 1 : front[i] = e[i]
  <2>1. 1 \in Int /\ k - 1 \in Int
    BY <1>1
  <2>2. /\ front \in Seq(Variables)
        /\ Len(front) = IF 1 <= k - 1 THEN (k - 1) - 1 + 1 ELSE 0
        /\ \A i \in 1..(k - 1) - 1 + 1 : front[i] = e[1 + i - 1]
    BY <1>5, <2>1, SubSeqProperties
  <2>3. QED
    BY <1>1, <2>2
<1> HIDE DEF front, v
<1>7. /\ Append(front, v) \in Seq(Variables) /\ Len(Append(front, v)) = Len(front) + 1
      /\ \A i \in 1..Len(front) : Append(front, v)[i] = front[i]
      /\ Append(front, v)[Len(front) + 1] = v
  BY <1>3, <1>6, AppendProperties
<1>8. QED
  BY <1>1, <1>3, <1>4, <1>6, <1>7 DEF front, v

(* Two libraries added in a row. *)
LEMMA AppendTwice ==
    ASSUME NEW S, NEW s \in Seq(S), NEW a \in S, NEW b \in S
    PROVE  Append(Append(s, a), b) = s \o <<a, b>>
<1>1. Append(s, a) = s \o <<a>> /\ Append(s, a) \in Seq(S)
  BY AppendIsConcat, AppendProperties
<1>2. Append(Append(s, a), b) = (s \o <<a>>) \o <<b>>
  BY <1>1, AppendIsConcat
<1>3. <<a>> \in Seq(S) /\ <<b>> \in Seq(S)
  OBVIOUS
<1>4. (s \o <<a>>) \o <<b>> = s \o (<<a>> \o <<b>>)
  BY <1>3, ConcatAssociative
<1>5. <<a>> \o <<b>> = <<a, b>>
  <2> DEFINE ab == <<a>> \o <<b>>
  <2>1. /\ Len(<<a>>) = 1 /\ Len(<<b>>) = 1 /\ <<a>>[1] = a /\ <<b>>[1] = b
        /\ <<a, b>> \in Seq(S) /\ Len(<<a, b>>) = 2
        /\ <<a, b>>[1] = a /\ <<a, b>>[2] = b
    OBVIOUS
  <2>2. /\ ab \in Seq(S) /\ Len(ab) = Len(<<a>>) + Len(<<b>>)
        /\ \A i \in 1..Len(<<a>>) + Len(<<b>>) :
             ab[i] = IF i <= Len(<<a>>) THEN <<a>>[i] ELSE <<b>>[i - Len(<<a>>)]
    BY <1>3, ConcatProperties
  <2> HIDE DEF ab
  <2>3. Len(ab) = 2 /\ ab[1] = a /\ ab[2] = b
    BY <2>1, <2>2
  <2>4. \A i \in 1..Len(ab) : ab[i] = <<a, b>>[i]
    BY <2>1, <2>3
  <2>5. ab = <<a, b>>
    BY <2>1, <2>2, <2>3, <2>4, SeqEqual
  <2>6. QED
    BY <2>5 DEF ab
<1>6. QED
  BY <1>2, <1>4, <1>5

(* The environment launchd gives the xpcproxy of cfprefsd. *)
Old == IF K <= Len(job) THEN job[K].libs ELSE <<>>
W == WithLib(job, Payload)
LEMMA PayloadAdded ==
    ASSUME job \in JobEnvs
    PROVE  /\ W \in Seq(Variables) /\ Len(W) = K
           /\ \A i \in 1..K - 1 : W[i] = job[i]
           /\ Mentions(W[K]) /\ Old \in Seq(Deployed)
           /\ Hidden => W[K].name = "like"
           /\ ~ Hidden => W[K] = [name |-> "insert", libs |-> Append(Old, Payload)]
<1>1. /\ job \in Seq(Variables) /\ Len(job) \in Nat /\ DOMAIN job = 1..Len(job)
      /\ K \in 1..Len(job) + 1
      /\ K <= Len(job) => Mentions(job[K]) /\ job[K] \in Variables
      /\ \A i \in 1..K - 1 : job[i] \in Variables /\ ~ Mentions(job[i])
  BY JobMention
<1>2. Payload \in Deployed
  BY DEF Payload, Deployed
<1>3. /\ W \in Seq(Variables) /\ Len(W) = K
      /\ \A i \in 1..K - 1 : W[i] = job[i]
      /\ W[K] = Extended(job, K, Payload)
  BY <1>1, <1>2, WithLibShape DEF W
<1>4. Hidden <=> K <= Len(job) /\ job[K].name = "like"
  BY <1>1 DEF Hidden, K
<1>5. Old \in Seq(Deployed)
  <2>1. CASE K <= Len(job)
    BY <1>1, <2>1 DEF Old, Variables
  <2>2. CASE ~ (K <= Len(job))
    BY <2>2 DEF Old
  <2>3. QED
    BY <2>1, <2>2
<1>6. CASE K <= Len(job)
  <2>1. W[K] = [name |-> job[K].name, libs |-> Append(Old, Payload)]
    BY <1>3, <1>6 DEF Extended, Old
  <2>2. W[K].name = job[K].name
    BY <2>1
  <2>3. job[K].name = "like" \/ job[K].name = "insert"
    BY <1>1, <1>6 DEF Mentions
  <2>4. QED
    BY <1>3, <1>4, <1>5, <1>6, <2>1, <2>2, <2>3 DEF Mentions
<1>7. CASE ~ (K <= Len(job))
  <2>1. W[K] = [name |-> "insert", libs |-> <<Payload>>]
    BY <1>3, <1>7 DEF Extended
  <2>2. Append(<<>>, Payload) = <<Payload>>
    OBVIOUS
  <2>3. Old = <<>>
    BY <1>7 DEF Old
  <2>4. W[K].name = "insert"
    BY <2>1
  <2>5. QED
    BY <1>3, <1>4, <1>5, <1>7, <2>1, <2>2, <2>3, <2>4 DEF Mentions
<1>8. QED
  BY <1>6, <1>7

(* payload.dylib is in it unless its variable only looks like the right one,
   and then dyld takes none of its variables. *)
LEMMA PayloadLoads ==
    ASSUME job \in JobEnvs, ~ Hidden
    PROVE  Loads(W, Payload)
<1>1. /\ W \in Seq(Variables) /\ Len(W) = K
      /\ \A i \in 1..K - 1 : W[i] = job[i]
      /\ Old \in Seq(Deployed)
      /\ W[K] = [name |-> "insert", libs |-> Append(Old, Payload)]
  BY PayloadAdded
<1>2. /\ K \in 1..Len(job) + 1 /\ Len(job) \in Nat
      /\ \A i \in 1..K - 1 : ~ Mentions(job[i])
  BY JobMention
<1>3. Payload \in Deployed
  BY DEF Payload, Deployed
<1>4. /\ Append(Old, Payload)[Len(Old) + 1] = Payload
      /\ Len(Append(Old, Payload)) = Len(Old) + 1
      /\ Append(Old, Payload) \in Seq(Deployed) /\ Len(Old) \in Nat
  BY <1>1, <1>3, AppendProperties, LenProperties
<1>5. DOMAIN Append(Old, Payload) = 1..Len(Old) + 1
  BY <1>4, LenProperties
<1>6. IsInsert(W[K]) /\ W[K].libs = Append(Old, Payload)
  BY <1>1 DEF IsInsert
<1>7. Len(Old) + 1 \in DOMAIN W[K].libs /\ W[K].libs[Len(Old) + 1] = Payload
  BY <1>4, <1>5, <1>6
<1>8. \A i \in 1..K - 1 : ~ IsInsert(W[i])
  BY <1>1, <1>2 DEF IsInsert, Mentions
<1>9. K \in 1..Len(W)
  BY <1>1, <1>2
<1>10. QED
  BY <1>1, <1>6, <1>7, <1>8, <1>9, LoadsFromFirst

LEMMA HiddenHasNone ==
    ASSUME job \in JobEnvs, Hidden
    PROVE  \A i \in 1..Len(W) : ~ IsInsert(W[i])
<1>1. /\ Len(W) = K /\ W[K].name = "like"
      /\ \A i \in 1..K - 1 : W[i] = job[i]
  BY PayloadAdded
<1>2. /\ K \in 1..Len(job) + 1 /\ Len(job) \in Nat
      /\ \A i \in 1..K - 1 : ~ Mentions(job[i])
  BY JobMention
<1>3. \A i \in 1..K - 1 : ~ IsInsert(W[i])
  BY <1>1, <1>2 DEF IsInsert, Mentions
<1>4. QED
  BY <1>1, <1>2, <1>3 DEF IsInsert

(* What xpcproxy adds changes nothing of which libraries are loaded. *)
LEMMA ProxyAddsNone ==
    ASSUME NEW front \in ProxyVars, NEW behind \in ProxyVars,
           NEW e \in Seq(Variables), NEW lib,
           \A i \in 1..Len(e) : IsInsert(e[i]) =>
               \A j \in DOMAIN e[i].libs : e[i].libs[j] # lib
    PROVE  ~ Loads(front \o e \o behind, lib)
<1> DEFINE all == front \o e \o behind
<1>1. /\ all \in Seq(Variables) /\ Len(all) = Len(front) + Len(e) + Len(behind)
      /\ \A i \in 1..Len(front) : all[i] = front[i]
      /\ \A i \in 1..Len(e) : all[Len(front) + i] = e[i]
      /\ \A i \in 1..Len(behind) : all[Len(front) + Len(e) + i] = behind[i]
  BY Between
<1>2. /\ Len(front) \in Nat /\ Len(behind) \in Nat /\ Len(e) \in Nat
      /\ \A i \in 1..Len(front) : front[i].name = "plain"
      /\ \A i \in 1..Len(behind) : behind[i].name = "plain"
  BY ProxyPlain, LenProperties
<1> HIDE DEF all
<1>3. \A i \in 1..Len(all) : IsInsert(all[i]) =>
          \A j \in DOMAIN all[i].libs : all[i].libs[j] # lib
  <2> SUFFICES ASSUME NEW i \in 1..Len(all), IsInsert(all[i])
               PROVE  \A j \in DOMAIN all[i].libs : all[i].libs[j] # lib
    OBVIOUS
  <2>1. CASE i <= Len(front)
    BY <1>1, <1>2, <2>1 DEF IsInsert
  <2>2. CASE i > Len(front) + Len(e)
    <3>1. i - Len(front) - Len(e) \in 1..Len(behind)
      BY <1>1, <1>2, <2>2
    <3>2. all[i] = behind[i - Len(front) - Len(e)]
      BY <1>1, <1>2, <3>1
    <3>3. QED
      BY <1>2, <3>1, <3>2 DEF IsInsert
  <2>3. CASE i > Len(front) /\ i <= Len(front) + Len(e)
    <3>1. i - Len(front) \in 1..Len(e)
      BY <1>1, <1>2, <2>3
    <3>2. all[Len(front) + (i - Len(front))] = e[i - Len(front)]
      BY <1>1, <3>1
    <3>3. Len(front) + (i - Len(front)) = i
      BY <1>1, <1>2
    <3>4. QED
      BY <3>1, <3>2, <3>3
  <2>4. QED
    BY <1>1, <1>2, <2>1, <2>2, <2>3
<1>4. ~ Loads(all, lib)
  BY <1>1, <1>3, NoLibNoLoad
<1>5. QED
  BY <1>4 DEF all

(* What the two hooks make of the environment of a job whose variable is not
   hidden: the one EnvKept states, and rootlesshooks.dylib is loaded. *)
Kept(front) ==
    front \o SubSeq(job, 1, K - 1) \o
        <<[name |-> "insert", libs |-> Old \o <<Payload, Rootlesshooks>>]>>
LEMMA BothAdded ==
    ASSUME job \in JobEnvs, ~ Hidden, NEW front \in ProxyVars, NEW behind \in ProxyVars
    PROVE  /\ WithLib(front \o W \o behind, Rootlesshooks) = Kept(front)
           /\ Loads(WithLib(front \o W \o behind, Rootlesshooks), Rootlesshooks)
<1> DEFINE all == front \o W \o behind
           F == WithLib(all, Rootlesshooks)
           m == Len(front) + K
           ours == [name |-> "insert", libs |-> Old \o <<Payload, Rootlesshooks>>]
           P == SubSeq(job, 1, K - 1)
<1>1. /\ W \in Seq(Variables) /\ Len(W) = K /\ Mentions(W[K])
      /\ \A i \in 1..K - 1 : W[i] = job[i]
      /\ Old \in Seq(Deployed)
      /\ W[K] = [name |-> "insert", libs |-> Append(Old, Payload)]
  BY PayloadAdded
<1>2. /\ job \in Seq(Variables) /\ K \in 1..Len(job) + 1 /\ Len(job) \in Nat
      /\ \A i \in 1..K - 1 : job[i] \in Variables /\ ~ Mentions(job[i])
  BY JobMention
<1>3. /\ front \in Seq(Variables) /\ Len(front) \in Nat /\ Len(behind) \in Nat
      /\ \A i \in 1..Len(front) : front[i] \in Variables /\ front[i].name = "plain"
  BY ProxyPlain
<1>4. /\ all \in Seq(Variables) /\ Len(all) = Len(front) + K + Len(behind)
      /\ \A i \in 1..Len(front) : all[i] = front[i]
      /\ \A i \in 1..K : all[Len(front) + i] = W[i]
  BY <1>1, Between
<1> HIDE DEF all
<1>5. /\ m \in 1..Len(all) /\ m <= Len(all) /\ all[m] = W[K]
      /\ \A i \in 1..m - 1 :
             all[i] = IF i <= Len(front) THEN front[i] ELSE job[i - Len(front)]
  <2>1. m \in 1..Len(all) /\ m <= Len(all) /\ all[m] = W[K]
    BY <1>2, <1>3, <1>4
  <2>2. ASSUME NEW i \in 1..m - 1, ~ (i <= Len(front))
        PROVE  all[i] = job[i - Len(front)]
    <3>1. i - Len(front) \in 1..K - 1 /\ i - Len(front) \in 1..K
      BY <1>2, <1>3, <2>2
    <3>2. all[Len(front) + (i - Len(front))] = W[i - Len(front)]
      BY <1>4, <3>1
    <3>3. Len(front) + (i - Len(front)) = i
      BY <1>3
    <3>4. W[i - Len(front)] = job[i - Len(front)]
      BY <1>1, <3>1
    <3>5. QED
      BY <3>2, <3>3, <3>4
  <2>3. ASSUME NEW i \in 1..m - 1, i <= Len(front)
        PROVE  all[i] = front[i]
    BY <1>2, <1>3, <1>4, <2>3
  <2>4. QED
    BY <2>1, <2>2, <2>3
<1>6. \A i \in 1..m - 1 : ~ Mentions(all[i])
  <2> SUFFICES ASSUME NEW i \in 1..m - 1 PROVE ~ Mentions(all[i])
    OBVIOUS
  <2>1. CASE i <= Len(front)
    <3>1. all[i] = front[i] /\ front[i].name = "plain"
      BY <1>2, <1>3, <1>5, <2>1
    <3>2. QED
      BY <3>1 DEF Mentions
  <2>2. CASE ~ (i <= Len(front))
    <3>1. i - Len(front) \in 1..K - 1
      BY <1>2, <1>3, <2>2
    <3>2. QED
      BY <1>2, <1>5, <2>2, <3>1
  <2>3. QED
    BY <2>1, <2>2
<1>7. Payload \in Deployed /\ Rootlesshooks \in Deployed
  BY DEF Payload, Rootlesshooks, Deployed
<1>8. /\ Append(Append(Old, Payload), Rootlesshooks) = Old \o <<Payload, Rootlesshooks>>
      /\ Append(Old, Payload) \in Seq(Deployed)
  BY <1>1, <1>7, AppendTwice, AppendProperties
<1>9. Extended(all, m, Rootlesshooks) = ours
  <2>1. all[m].name = "insert" /\ all[m].libs = Append(Old, Payload)
    BY <1>1, <1>5
  <2>2. Extended(all, m, Rootlesshooks) =
            [name |-> all[m].name, libs |-> Append(all[m].libs, Rootlesshooks)]
    BY <1>5 DEF Extended
  <2>3. QED
    BY <2>1, <2>2, <1>8
<1>10. /\ ours \in Variables /\ F \in Seq(Variables) /\ Len(F) = m
       /\ \A i \in 1..m - 1 : F[i] = all[i]
       /\ F[m] = ours
  <2>1. m \in 1..Len(all) + 1
    BY <1>5, <1>4, <1>2, <1>3
  <2>2. Mentions(all[m])
    BY <1>1, <1>5
  <2> HIDE DEF m
  <2>3. /\ Extended(all, m, Rootlesshooks) \in Variables
        /\ F \in Seq(Variables) /\ Len(F) = m
        /\ \A i \in 1..m - 1 : F[i] = all[i]
        /\ F[m] = Extended(all, m, Rootlesshooks)
    BY <1>4, <1>6, <1>7, <2>1, <2>2, WithLibShape
  <2>4. QED
    BY <1>9, <2>3
<1> HIDE DEF F, ours
<1>11. F = front \o P \o <<ours>>
  <2> DEFINE fp == front \o P
             all2 == fp \o <<ours>>
  <2>1. /\ P \in Seq(Variables) /\ Len(P) = K - 1
        /\ \A i \in 1..K - 1 : P[i] = job[i]
    <3>1. 1 \in Int /\ K - 1 \in Int
      BY <1>2
    <3>2. /\ P \in Seq(Variables)
          /\ Len(P) = IF 1 <= K - 1 THEN (K - 1) - 1 + 1 ELSE 0
          /\ \A i \in 1..(K - 1) - 1 + 1 : P[i] = job[1 + i - 1]
      BY <1>2, <3>1, SubSeqProperties
    <3>3. QED
      BY <1>2, <3>2
  <2> HIDE DEF P
  <2>2. /\ fp \in Seq(Variables) /\ Len(fp) = Len(front) + (K - 1)
        /\ \A i \in 1..Len(front) + (K - 1) :
               fp[i] = IF i <= Len(front) THEN front[i] ELSE P[i - Len(front)]
    <3>1. /\ fp \in Seq(Variables) /\ Len(fp) = Len(front) + Len(P)
          /\ \A i \in 1..Len(front) + Len(P) :
                 fp[i] = IF i <= Len(front) THEN front[i] ELSE P[i - Len(front)]
      BY <1>3, <2>1, ConcatProperties
    <3>2. QED
      BY <2>1, <3>1
  <2> HIDE DEF fp
  <2>3. /\ <<ours>> \in Seq(Variables) /\ Len(<<ours>>) = 1 /\ <<ours>>[1] = ours
    BY <1>10
  <2>4. /\ all2 \in Seq(Variables) /\ Len(all2) = Len(fp) + 1
        /\ \A i \in 1..Len(fp) + 1 :
               all2[i] = IF i <= Len(fp) THEN fp[i] ELSE <<ours>>[i - Len(fp)]
    <3>1. /\ all2 \in Seq(Variables) /\ Len(all2) = Len(fp) + Len(<<ours>>)
          /\ \A i \in 1..Len(fp) + Len(<<ours>>) :
                 all2[i] = IF i <= Len(fp) THEN fp[i] ELSE <<ours>>[i - Len(fp)]
      BY <2>2, <2>3, ConcatProperties
    <3>2. QED
      BY <2>3, <3>1
  <2> HIDE DEF all2
  <2>5. Len(all2) = m /\ Len(fp) = m - 1 /\ m \in Nat
    BY <1>2, <1>3, <2>2, <2>4
  <2>6. all2[m] = ours
    <3> HIDE DEF m
    <3>1. m - Len(fp) = 1 /\ m \in 1..Len(fp) + 1 /\ ~ (m <= Len(fp))
      BY <2>5, <2>2
    <3>2. all2[m] = <<ours>>[m - Len(fp)]
      BY <2>4, <3>1
    <3>3. QED
      BY <2>3, <3>1, <3>2
  <2>7. ASSUME NEW i \in 1..m - 1 PROVE all2[i] = F[i]
    <3>1. all2[i] = fp[i]
      BY <2>4, <2>5
    <3>2. fp[i] = IF i <= Len(front) THEN front[i] ELSE P[i - Len(front)]
      BY <2>2, <2>5
    <3>3. ~ (i <= Len(front)) => P[i - Len(front)] = job[i - Len(front)]
      BY <1>2, <1>3, <2>1
    <3>4. QED
      BY <1>5, <1>10, <3>1, <3>2, <3>3
  <2>8. \A i \in 1..Len(F) : F[i] = all2[i]
    BY <1>10, <2>5, <2>6, <2>7
  <2>9. F = all2
    BY <1>10, <2>4, <2>5, <2>8, SeqEqual
  <2>10. QED
    BY <2>9 DEF all2, fp
<1>12. Loads(F, Rootlesshooks)
  <2>1. IsInsert(F[m]) /\ F[m].libs = Append(Append(Old, Payload), Rootlesshooks)
    BY <1>8, <1>10 DEF ours, IsInsert
  <2>2. /\ Len(Append(Old, Payload)) \in Nat
        /\ Append(Append(Old, Payload), Rootlesshooks) \in Seq(Deployed)
        /\ Len(Append(Append(Old, Payload), Rootlesshooks)) = Len(Append(Old, Payload)) + 1
        /\ Append(Append(Old, Payload), Rootlesshooks)[Len(Append(Old, Payload)) + 1] =
               Rootlesshooks
    BY <1>7, <1>8, AppendProperties, LenProperties
  <2>3. DOMAIN Append(Append(Old, Payload), Rootlesshooks) =
            1..Len(Append(Old, Payload)) + 1
    BY <2>2, LenProperties
  <2>4. /\ Len(Append(Old, Payload)) + 1 \in DOMAIN F[m].libs
        /\ F[m].libs[Len(Append(Old, Payload)) + 1] = Rootlesshooks
    BY <2>1, <2>2, <2>3
  <2>5. \A i \in 1..m - 1 : ~ IsInsert(F[i])
    BY <1>6, <1>10 DEF IsInsert, Mentions
  <2>6. m \in 1..Len(F)
    BY <1>2, <1>3, <1>10
  <2> HIDE DEF m
  <2>7. QED
    BY <1>10, <2>1, <2>4, <2>5, <2>6, LoadsFromFirst
<1>13. QED
  BY <1>11, <1>12 DEF F, all, ours, Kept

-----------------------------------------------------------------------------
(* What the services' environments are between the steps of a start.  The two
   properties need it: what the second hook sees is what the first one left. *)
JobEnv ==
    IF service # "cfprefsd" THEN <<>> ELSE IF do_pspawn_hook THEN W ELSE job
HookInv ==
    /\ job \in JobEnvs /\ do_pspawn_hook \in BOOLEAN
    /\ stage \in {"none", "xpcproxy", "exec", "running"}
    /\ stage = "xpcproxy" => env = JobEnv
    /\ HookedIffRootless /\ EnvKept

LEMMA JobIsForeign ==
    ASSUME job \in JobEnvs
    PROVE  \A i \in 1..Len(job) : \A j \in DOMAIN job[i].libs :
               job[i].libs[j] # Payload /\ job[i].libs[j] # Rootlesshooks
<1>1. DOMAIN job = 1..Len(job)
  BY JobMention
<1>2. \A i \in 1..Len(job) : job[i].libs \in Seq({Foreign})
  BY <1>1, HooksAssumption
<1>3. \A i \in 1..Len(job) : \A j \in DOMAIN job[i].libs : job[i].libs[j] = Foreign
  <2> SUFFICES ASSUME NEW i \in 1..Len(job), NEW j \in DOMAIN job[i].libs
               PROVE  job[i].libs[j] = Foreign
    OBVIOUS
  <2> DEFINE l == job[i].libs
  <2>1. l \in Seq({Foreign})
    BY <1>2
  <2> HIDE DEF l
  <2>2. DOMAIN l = 1..Len(l)
    BY <2>1, LenProperties
  <2>3. j \in 1..Len(l)
    BY <2>2 DEF l
  <2>4. l[j] \in {Foreign}
    BY <2>1, <2>3, ElementOfSeq
  <2>5. QED
    BY <2>4 DEF l
<1>4. Payload # Foreign /\ Rootlesshooks # Foreign
  BY DEF Payload, Rootlesshooks, Foreign
<1>5. QED
  BY <1>3, <1>4

(* The hook in xpcproxy: payload.dylib is there in exactly one case, and only
   then rootlesshooks.dylib is in what is executed. *)
LEMMA XpcproxyHook ==
    ASSUME job \in JobEnvs, do_pspawn_hook \in BOOLEAN, env = JobEnv
    PROVE  LET wanted == do_pspawn_hook /\ service = "cfprefsd" /\ ~ Hidden
           IN  /\ wanted => InXpcproxy(service) = {Rootlesshooks} /\ env = W
               /\ ~ wanted =>
                     /\ InXpcproxy(service) = {} /\ env \in Seq(Variables)
                     /\ \A i \in 1..Len(env) : IsInsert(env[i]) =>
                            \A j \in DOMAIN env[i].libs : env[i].libs[j] # Rootlesshooks
<1>1. CASE service # "cfprefsd"
  <2>1. env = <<>> /\ InXpcproxy(service) = {}
    BY <1>1 DEF JobEnv, InXpcproxy
  <2>2. env \in Seq(Variables) /\ Len(env) = 0
    BY <2>1
  <2>3. QED
    BY <1>1, <2>1, <2>2
<1>2. CASE service = "cfprefsd" /\ ~ do_pspawn_hook
  <2>1. env = job /\ job \in Seq(Variables)
    BY <1>2, JobMention DEF JobEnv
  <2>2. ~ Loads(job, Payload)
    BY <2>1, JobIsForeign, NoLibNoLoad
  <2>3. InXpcproxy(service) = {}
    BY <2>1, <2>2 DEF InXpcproxy
  <2>4. QED
    BY <1>2, <2>1, <2>3, JobIsForeign
<1>3. CASE service = "cfprefsd" /\ do_pspawn_hook /\ Hidden
  <2>1. env = W /\ W \in Seq(Variables)
    BY <1>3, PayloadAdded DEF JobEnv
  <2>2. ~ Loads(W, Payload)
    BY <1>3, <2>1, HiddenHasNone, NoLibNoLoad
  <2>3. InXpcproxy(service) = {}
    BY <2>1, <2>2 DEF InXpcproxy
  <2>4. QED
    BY <1>3, <2>1, <2>3, HiddenHasNone
<1>4. CASE service = "cfprefsd" /\ do_pspawn_hook /\ ~ Hidden
  <2>1. env = W /\ Loads(W, Payload)
    BY <1>4, PayloadLoads DEF JobEnv
  <2>2. QED
    BY <1>4, <2>1 DEF InXpcproxy
<1>5. QED
  BY <1>1, <1>2, <1>3, <1>4

LEMMA HookInit == Init => HookInv
BY DEF Init, HookInv, HookedIffRootless, EnvKept

LEMMA HookStep == HookInv /\ [Next]_vars => HookInv'
<1> SUFFICES ASSUME HookInv, [Next]_vars PROVE HookInv'
  OBVIOUS
<1>1. CASE LaunchdSpawns
  <2>1. UNCHANGED <<job, do_pspawn_hook>>
    BY <1>1 DEF LaunchdSpawns, boot
  <2>2. PICK s \in Services :
           /\ service' = s
           /\ Spawn("xpcproxy", IF s = "cfprefsd" THEN job ELSE <<>>, InLaunchd(s))
    BY <1>1 DEF LaunchdSpawns
  <2>3. CASE stage' = "none"
    BY <2>1, <2>3 DEF HookInv, HookedIffRootless, EnvKept
  <2>4. CASE /\ stage' = "xpcproxy"
             /\ env' = IF InLaunchd(s) = {} THEN IF s = "cfprefsd" THEN job ELSE <<>>
                       ELSE WithLib(IF s = "cfprefsd" THEN job ELSE <<>>,
                                    CHOOSE l \in InLaunchd(s) : TRUE)
    <3>1. InLaunchd(s) # {} => s = "cfprefsd" /\ do_pspawn_hook
                               /\ (CHOOSE l \in InLaunchd(s) : TRUE) = Payload
      BY DEF InLaunchd
    <3>2. InLaunchd(s) = {} => ~ (s = "cfprefsd" /\ do_pspawn_hook)
      BY DEF InLaunchd
    <3>3. env' = IF s # "cfprefsd" THEN <<>>
                 ELSE IF do_pspawn_hook THEN W ELSE job
      BY <2>4, <3>1, <3>2 DEF W
    <3>4. W' = W
      BY <2>1 DEF W
    <3>5. env' = JobEnv'
      BY <2>1, <2>2, <3>3, <3>4 DEF JobEnv
    <3>6. QED
      BY <2>1, <2>4, <3>5 DEF HookInv, HookedIffRootless, EnvKept
  <2>5. QED
    BY <2>2, <2>3, <2>4 DEF Spawn
<1>2. CASE XpcproxySpawns
  <2>1. UNCHANGED <<job, do_pspawn_hook, service>> /\ stage = "xpcproxy"
    BY <1>2 DEF XpcproxySpawns, boot
  <2>2. PICK front, behind \in ProxyVars :
           /\ ahead' = front
           /\ Spawn("exec", front \o env \o behind, InXpcproxy(service))
    BY <1>2 DEF XpcproxySpawns
  <2>3. CASE stage' = "none"
    BY <2>1, <2>3 DEF HookInv, HookedIffRootless, EnvKept
  <2> DEFINE wanted == do_pspawn_hook /\ service = "cfprefsd" /\ ~ Hidden
  <2>4. CASE /\ stage' = "exec"
             /\ env' = IF InXpcproxy(service) = {} THEN front \o env \o behind
                       ELSE WithLib(front \o env \o behind,
                                    CHOOSE l \in InXpcproxy(service) : TRUE)
    <3>1. env = JobEnv /\ job \in JobEnvs /\ do_pspawn_hook \in BOOLEAN
      BY <2>1 DEF HookInv
    <3>2. CASE wanted
      <4>1. InXpcproxy(service) = {Rootlesshooks} /\ env = W
        BY <3>1, <3>2, XpcproxyHook
      <4>2. (CHOOSE l \in InXpcproxy(service) : TRUE) = Rootlesshooks
        BY <4>1
      <4>3. env' = WithLib(front \o W \o behind, Rootlesshooks)
        BY <2>4, <4>1, <4>2
      <4>4. env' = Kept(ahead') /\ Loads(env', Rootlesshooks)
        BY <2>2, <3>1, <3>2, <4>3, BothAdded
      <4>5. HookedIffRootless'
        BY <2>1, <3>2, <4>4 DEF HookedIffRootless, Hidden
      <4>6. EnvKept'
        BY <2>1, <4>4 DEF EnvKept, Kept, Old, K
      <4>7. QED
        BY <2>1, <2>4, <3>1, <4>5, <4>6 DEF HookInv
    <3>3. CASE ~ wanted
      <4>1. /\ InXpcproxy(service) = {} /\ env \in Seq(Variables)
            /\ \A i \in 1..Len(env) : IsInsert(env[i]) =>
                   \A j \in DOMAIN env[i].libs : env[i].libs[j] # Rootlesshooks
        BY <3>1, <3>3, XpcproxyHook
      <4>2. env' = front \o env \o behind
        BY <2>4, <4>1
      <4>3. ~ Loads(env', Rootlesshooks)
        BY <4>1, <4>2, ProxyAddsNone
      <4>4. HookedIffRootless' /\ EnvKept'
        BY <2>1, <3>3, <4>3 DEF HookedIffRootless, EnvKept, Hidden
      <4>5. QED
        BY <2>1, <2>4, <3>1, <4>4 DEF HookInv
    <3>4. QED
      BY <3>2, <3>3
  <2>5. QED
    BY <2>2, <2>3, <2>4 DEF Spawn
<1>3. CASE cfprefsdInit
  BY <1>3 DEF cfprefsdInit, boot, HookInv, HookedIffRootless, EnvKept, Hidden
<1>4. CASE GetPathForTriplet
  BY <1>4 DEF GetPathForTriplet, boot, HookInv, HookedIffRootless, EnvKept, Hidden, JobEnv, W
<1>5. CASE Exits
  BY <1>5 DEF Exits, boot, HookInv, HookedIffRootless, EnvKept
<1>6. CASE UNCHANGED vars
  BY <1>6 DEF vars, boot, HookInv, HookedIffRootless, EnvKept, Hidden, JobEnv, W
<1>7. QED
  BY <1>1, <1>2, <1>3, <1>4, <1>5, <1>6 DEF Next

(* rootlesshooks.dylib is in exactly the services it is meant for, through any
   failures and restarts and whatever the environments hold (payload.c:
   hook_posix_spawnp_launchd, hook_posix_spawnp_xpcproxy). *)
THEOREM HookedAsMeant == Spec => []HookedIffRootless
<1>1. HookInv => HookedIffRootless
  BY DEF HookInv
<1>2. QED
  BY HookInit, HookStep, <1>1, PTL DEF Spec

(* Of the job's environment everything ahead of the variable the hooks extend
   is kept, and so are the libraries in it, ahead of the two that are added. *)
THEOREM EnvironmentKept == Spec => []EnvKept
<1>1. HookInv => EnvKept
  BY DEF HookInv
<1>2. QED
  BY HookInit, HookStep, <1>1, PTL DEF Spec

-----------------------------------------------------------------------------
LEMMA PairProperties ==
    ASSUME NEW S, NEW a \in S, NEW b \in S
    PROVE  /\ <<a, b>> \in Seq(S) /\ Len(<<a, b>>) = 2
           /\ <<a, b>>[1] = a /\ <<a, b>>[2] = b
OBVIOUS

LEMMA SameElements ==
    ASSUME NEW S, NEW T, NEW s \in Seq(S), \A i \in 1..Len(s) : s[i] \in T
    PROVE  s \in Seq(T)
<1>1. Len(s) \in Nat /\ s \in [1..Len(s) -> S]
  BY LenProperties
<1>2. s \in [1..Len(s) -> T]
  BY <1>1
<1>3. QED
  BY <1>1, <1>2, SeqDef

(* The names a path that is answered is made of. *)
PathNamesOf == (UNION {Range(p) : p \in Paths}) \cup {"var", "jb"}
LEMMA PathNames == ASSUME NEW path \in Paths PROVE path \in Seq(PathNamesOf)
<1>1. path \in Seq(STRING)
  BY HooksAssumption
<1>2. DOMAIN path = 1..Len(path)
  BY <1>1, LenProperties
<1>3. \A i \in 1..Len(path) : path[i] \in PathNamesOf
  BY <1>2 DEF Range, PathNamesOf
<1>4. QED
  BY <1>1, <1>3, SameElements

(* What is not cut short is the path behind /var/jb, and below it. *)
LEMMA MovedShape ==
    ASSUME NEW path \in Paths
    PROVE  /\ InJb(path) \in Seq(PathNamesOf)
           /\ Len(InJb(path)) <= MaxPath
           /\ Len(InJb(path)) < MaxPath =>
                 InJb(path) = <<"var", "jb">> \o path /\ Below(InJb(path), <<"var", "jb">>)
<1> DEFINE Names == PathNamesOf
           root == <<"var", "jb">>
           moved == root \o path
           n == IF Len(moved) < MaxPath THEN Len(moved) ELSE MaxPath
<1>1. path \in Seq(Names) /\ root \in Seq(Names) /\ MaxPath \in Nat
      /\ Len(root) = 2 /\ root[1] = "var" /\ root[2] = "jb" /\ Last(root) = "jb"
  <2>1. path \in Seq(Names) /\ MaxPath \in Nat
    BY PathNames, HooksAssumption
  <2>2. root \in Seq(Names) /\ Len(root) = 2 /\ root[1] = "var" /\ root[2] = "jb"
    <3>1. "var" \in Names /\ "jb" \in Names
      BY DEF PathNamesOf
    <3>2. QED
      BY <3>1, PairProperties
  <2>3. Last(root) = root[Len(root)]
    BY DEF Last
  <2>4. QED
    BY <2>1, <2>2, <2>3
<1> HIDE DEF Names
<1>2. /\ moved \in Seq(Names) /\ Len(moved) = 2 + Len(path) /\ Len(path) \in Nat
      /\ \A i \in 1..2 + Len(path) :
             moved[i] = IF i <= 2 THEN root[i] ELSE path[i - 2]
  <2>1. /\ moved \in Seq(Names) /\ Len(moved) = Len(root) + Len(path)
        /\ \A i \in 1..Len(root) + Len(path) :
             moved[i] = IF i <= Len(root) THEN root[i] ELSE path[i - Len(root)]
    BY <1>1, ConcatProperties
  <2>2. Len(path) \in Nat
    BY <1>1, LenProperties
  <2>3. QED
    BY <1>1, <2>1, <2>2
<1> HIDE DEF moved, root
<1>3. InJb(path) = SubSeq(moved, 1, n)
  BY DEF InJb, moved, root
<1>4. n \in Nat /\ 1 \in Int /\ n \in Int /\ n <= Len(moved) /\ n <= MaxPath
      /\ 2 < MaxPath
  BY <1>1, <1>2, HooksAssumption
<1> HIDE DEF n
<1>5. /\ SubSeq(moved, 1, n) \in Seq(Names)
      /\ Len(SubSeq(moved, 1, n)) = IF 1 <= n THEN n - 1 + 1 ELSE 0
  <2>1. \A i \in 1..n : moved[i] \in Names
    BY <1>2, <1>4, ElementOfSeq
  <2>2. QED
    BY <1>4, <2>1, SubSeqProperties
<1>6. Len(InJb(path)) <= MaxPath
  BY <1>3, <1>4, <1>5
<1>7. Below(moved, root)
  <2>1. Len(moved) >= Len(root) /\ moved[1] = root[1] /\ moved[2] = "jb"
    BY <1>1, <1>2
  <2>2. \A i \in 1..(Len(root) - 1) : moved[i] = root[i]
    BY <1>1, <2>1
  <2>3. Begins(moved[Len(root)], Last(root))
    BY <1>1, <2>1 DEF Begins
  <2>4. QED
    BY <2>1, <2>2, <2>3 DEF Below
<1>8. Len(InJb(path)) < MaxPath => InJb(path) = moved
  <2> HAVE Len(InJb(path)) < MaxPath
  <2>1. n < MaxPath
    BY <1>3, <1>4, <1>5
  <2>2. n = Len(moved)
    BY <1>1, <1>2, <2>1 DEF n
  <2>3. QED
    BY <1>2, <1>3, <2>2, SubSeqFull
<1>9. QED
  BY <1>3, <1>5, <1>6, <1>7, <1>8 DEF moved, root, Names

(* Behind the same root two paths are the same only if they were. *)
LEMMA MovedApart ==
    ASSUME NEW a \in Paths, NEW b \in Paths,
           <<"var", "jb">> \o a = <<"var", "jb">> \o b
    PROVE  a = b
<1> DEFINE root == <<"var", "jb">>
<1>1. a \in Seq(PathNamesOf) /\ b \in Seq(PathNamesOf)
  BY PathNames
<1>2. root \in Seq(PathNamesOf)
  <2>1. "var" \in PathNamesOf /\ "jb" \in PathNamesOf
    BY DEF PathNamesOf
  <2>2. QED
    BY <2>1, PairProperties
<1> HIDE DEF root
<1>3. QED
  BY <1>1, <1>2, ConcatSimplifications DEF root

(* Nothing moves below /var/jb. *)
LEMMA MovedStays ==
    ASSUME NEW path \in Paths, Len(InJb(path)) < MaxPath
    PROVE  ~ preferencePlistNeedsRedirection(InJb(path))
<1>1. Below(InJb(path), <<"var", "jb">>)
  BY MovedShape
<1>2. <<"var", "jb">> \in KeptDirs
  BY DEF KeptDirs
<1>3. QED
  BY <1>1, <1>2 DEF preferencePlistNeedsRedirection

-----------------------------------------------------------------------------
(* A cfprefsd that runs is hooked in the same boots, whichever start it is:
   so what is answered depends on the path alone. *)
Redirects == do_pspawn_hook /\ ~ Hidden /\ findable
Answer(path) ==
    IF Redirects /\ preferencePlistNeedsRedirection(path) THEN InJb(path) ELSE path
AnswerInv ==
    /\ stage = "running" => hooked = (Loads(env, Rootlesshooks) /\ findable)
    /\ \A a \in answered : \E path \in Paths : a = <<path, Answer(path)>>

LEMMA AnswerInit == Init => AnswerInv
BY DEF Init, AnswerInv

LEMMA AnswerStep == HookInv /\ AnswerInv /\ [Next]_vars => AnswerInv'
<1> SUFFICES ASSUME HookInv, AnswerInv, [Next]_vars PROVE AnswerInv'
  OBVIOUS
<1>1. /\ UNCHANGED boot
      /\ (Redirects <=> Redirects') /\ \A path : Answer(path)' = Answer(path)
  <2>1. UNCHANGED boot
    BY DEF Next, LaunchdSpawns, XpcproxySpawns, cfprefsdInit, GetPathForTriplet, Exits, vars
  <2>2. Redirects <=> Redirects'
    BY <2>1 DEF boot, Redirects, Hidden
  <2>3. QED
    BY <2>1, <2>2 DEF Answer
<1> DEFINE Kept2 == \A a \in answered : \E path \in Paths : a = <<path, Answer(path)>>
<1>2. Kept2
  BY DEF AnswerInv
<1>3. answered' = answered => Kept2'
  BY <1>1, <1>2
<1>4. CASE GetPathForTriplet
  <2>1. PICK path \in Paths :
           answered' = answered \cup
              {<<path, IF hooked /\ preferencePlistNeedsRedirection(path) THEN InJb(path)
                       ELSE path>>}
    BY <1>4 DEF GetPathForTriplet
  <2>2. stage = "running" /\ service = "cfprefsd" /\ UNCHANGED <<stage, env, hooked, findable>>
    BY <1>1, <1>4 DEF GetPathForTriplet, boot
  <2>3. hooked <=> Redirects
    <3>1. hooked = (Loads(env, Rootlesshooks) /\ findable)
      BY <2>2 DEF AnswerInv
    <3>2. Loads(env, Rootlesshooks) <=> do_pspawn_hook /\ ~ Hidden
      BY <2>2 DEF HookInv, HookedIffRootless
    <3>3. QED
      BY <3>1, <3>2 DEF Redirects
  <2>4. answered' = answered \cup {<<path, Answer(path)>>}
    BY <2>1, <2>3 DEF Answer
  <2>5. Kept2'
    BY <1>1, <1>2, <2>4
  <2>6. QED
    BY <2>2, <2>5 DEF AnswerInv
<1>5. CASE cfprefsdInit
  BY <1>1, <1>3, <1>5 DEF cfprefsdInit, AnswerInv, boot
<1>6. CASE LaunchdSpawns \/ XpcproxySpawns \/ Exits
  <2>1. stage' # "running" /\ answered' = answered
    BY <1>6 DEF LaunchdSpawns, XpcproxySpawns, Exits, Spawn
  <2>2. QED
    BY <1>3, <2>1 DEF AnswerInv
<1>7. CASE UNCHANGED vars
  BY <1>1, <1>3, <1>7 DEF vars, AnswerInv, boot
<1>8. QED
  BY <1>4, <1>5, <1>6, <1>7 DEF Next

(* A preference file moves at most once: where it was moved to it is answered
   when it is asked for there (cfprefsd hook: preferencePlistNeedsRedirection
   and new_CFPrefsGetPathForTriplet agree on what is below /var/jb). *)
THEOREM MovesOnce == Spec => []SettledAtOnce
<1>1. AnswerInv => SettledAtOnce
  <2> SUFFICES ASSUME AnswerInv, NEW a \in answered, Len(a[2]) < MaxPath
               PROVE  a[2] = a[1] \/ ~ preferencePlistNeedsRedirection(a[2])
    BY DEF SettledAtOnce
  <2>1. PICK path \in Paths : a = <<path, Answer(path)>>
    BY DEF AnswerInv
  <2>2. CASE Answer(path) = path
    BY <2>1, <2>2
  <2>3. CASE Answer(path) = InJb(path)
    BY <2>1, <2>3, MovedStays
  <2>4. QED
    BY <2>2, <2>3 DEF Answer
<1>2. QED
  BY HookInit, HookStep, AnswerInit, AnswerStep, <1>1, PTL DEF Spec

(* What two requests were answered, in whichever starts of cfprefsd. *)
LEMMA AnswersApart ==
    ASSUME NEW a \in Paths, NEW b \in Paths, Answer(a) = Answer(b)
    PROVE  \/ a = b \/ Len(Answer(a)) = MaxPath
           \/ \E p \in {a, b} : Below(p, <<"var", "jb">>)
<1> SUFFICES ASSUME Len(Answer(a)) # MaxPath
             PROVE  a = b \/ \E p \in {a, b} : Below(p, <<"var", "jb">>)
  OBVIOUS
<1>1. ASSUME NEW p \in Paths, Answer(p) = Answer(a), Answer(p) # p
      PROVE  /\ Answer(p) = <<"var", "jb">> \o p
             /\ Below(Answer(p), <<"var", "jb">>)
  <2>1. Answer(p) = InJb(p)
    BY <1>1 DEF Answer
  <2>2. Len(InJb(p)) < MaxPath
    <3>1. InJb(p) \in Seq(PathNamesOf)
          /\ Len(InJb(p)) <= MaxPath
      BY MovedShape
    <3>2. Len(InJb(p)) \in Nat /\ MaxPath \in Nat
      BY <3>1, LenProperties, HooksAssumption
    <3>3. Len(InJb(p)) # MaxPath
      BY <1>1, <2>1
    <3>4. QED
      BY <3>1, <3>2, <3>3
  <2>3. QED
    BY <2>1, <2>2, MovedShape
<1>2. CASE Answer(a) # a /\ Answer(b) # b
  BY <1>1, <1>2, MovedApart
<1>3. CASE Answer(a) = a /\ Answer(b) = b
  BY <1>3
<1>4. CASE Answer(a) = a /\ Answer(b) # b
  BY <1>1, <1>4
<1>5. CASE Answer(a) # a /\ Answer(b) = b
  BY <1>1, <1>5
<1>6. QED
  BY <1>2, <1>3, <1>4, <1>5

(* An app finds its preferences in the same file through any restarts of
   cfprefsd, and no other preference is in it (new_CFPrefsGetPathForTriplet,
   with payload.dylib hooking every start of the service alike). *)
THEOREM PreferencesStayApart == Spec => []OneFilePerPreference
<1>1. AnswerInv => OneFilePerPreference
  <2> SUFFICES ASSUME AnswerInv, NEW a \in answered, NEW b \in answered
               PROVE  /\ a[1] = b[1] => a[2] = b[2]
                      /\ a[2] = b[2] => \/ a[1] = b[1] \/ Len(a[2]) = MaxPath
                                        \/ \E p \in {a[1], b[1]} : Below(p, <<"var", "jb">>)
    BY DEF OneFilePerPreference
  <2>1. PICK p \in Paths : a = <<p, Answer(p)>>
    BY DEF AnswerInv
  <2>2. PICK q \in Paths : b = <<q, Answer(q)>>
    BY DEF AnswerInv
  <2>3. a[1] = p /\ a[2] = Answer(p) /\ b[1] = q /\ b[2] = Answer(q)
    BY <2>1, <2>2
  <2>4. QED
    BY <2>3, AnswersApart
<1>2. QED
  BY HookInit, HookStep, AnswerInit, AnswerStep, <1>1, PTL DEF Spec

-----------------------------------------------------------------------------
LEMMA WithLibTyped ==
    ASSUME NEW e \in Seq(Variables), NEW lib \in Deployed
    PROVE  WithLib(e, lib) \in Seq(Variables)
<1> DEFINE k == FirstOf(e, Mentions)
<1>1. /\ k \in 1..Len(e) + 1 /\ (k <= Len(e) => Mentions(e[k]))
      /\ \A i \in 1..k - 1 : ~ Mentions(e[i])
  BY MentionIn
<1> HIDE DEF k
<1>2. QED
  BY <1>1, WithLibShape

(* A hook adds a library that is deployed. *)
LEMMA SpawnTyped ==
    ASSUME NEW to, NEW e \in Seq(Variables), NEW libs \in SUBSET Deployed,
           Spawn(to, e, libs)
    PROVE  stage' \in {to, "none"} /\ env' \in Seq(Variables)
<1>1. CASE stage' = "none" /\ env' = <<>>
  BY <1>1
<1>2. CASE stage' = to /\ env' = IF libs = {} THEN e
                                  ELSE WithLib(e, CHOOSE l \in libs : TRUE)
  <2>1. libs # {} => (CHOOSE l \in libs : TRUE) \in Deployed
    OBVIOUS
  <2>2. QED
    BY <1>2, <2>1, WithLibTyped
<1>3. QED
  BY <1>1, <1>2 DEF Spawn

LEMMA HooksTypeStep == TypeOK /\ [Next]_vars => TypeOK'
<1> SUFFICES ASSUME TypeOK, [Next]_vars PROVE TypeOK'
  OBVIOUS
<1> DEFINE Names == PathNamesOf
           bootOK == do_pspawn_hook \in BOOLEAN /\ findable \in BOOLEAN /\ job \in JobEnvs
<1>1. bootOK /\ UNCHANGED boot /\ bootOK'
  BY DEF Next, LaunchdSpawns, XpcproxySpawns, cfprefsdInit, GetPathForTriplet, Exits, vars,
         boot, TypeOK
<1>2. CASE LaunchdSpawns
  <2>1. PICK s \in Services :
           /\ service' = s
           /\ Spawn("xpcproxy", IF s = "cfprefsd" THEN job ELSE <<>>, InLaunchd(s))
    BY <1>2 DEF LaunchdSpawns
  <2>2. (IF s = "cfprefsd" THEN job ELSE <<>>) \in Seq(Variables)
    BY <1>1, HooksAssumption
  <2>3. InLaunchd(s) \in SUBSET Deployed
    BY DEF InLaunchd, Deployed, Payload
  <2>4. stage' \in {"xpcproxy", "none"} /\ env' \in Seq(Variables)
    BY <2>1, <2>2, <2>3, SpawnTyped
  <2>5. QED
    BY <1>1, <1>2, <2>1, <2>4 DEF LaunchdSpawns, TypeOK
<1>3. CASE XpcproxySpawns
  <2>1. PICK front, behind \in ProxyVars :
           /\ ahead' = front
           /\ Spawn("exec", front \o env \o behind, InXpcproxy(service))
    BY <1>3 DEF XpcproxySpawns
  <2>2. env \in Seq(Variables)
    BY DEF TypeOK
  <2>3. front \o env \o behind \in Seq(Variables)
    BY <2>2, Between
  <2>4. InXpcproxy(service) \in SUBSET Deployed
    BY DEF InXpcproxy, Deployed, Rootlesshooks
  <2>5. stage' \in {"exec", "none"} /\ env' \in Seq(Variables)
    BY <2>1, <2>3, <2>4, SpawnTyped
  <2>6. QED
    BY <1>1, <1>3, <2>1, <2>5 DEF XpcproxySpawns, TypeOK
<1>4. CASE cfprefsdInit
  <2>1. hooked' \in BOOLEAN
    <3>1. hooked' = (Loads(env, Rootlesshooks) /\ findable)
      BY <1>4 DEF cfprefsdInit
    <3>2. (Loads(env, Rootlesshooks) /\ findable) \in BOOLEAN
      OBVIOUS
    <3>3. QED
      BY <3>1, <3>2
  <2>2. QED
    BY <1>1, <1>4, <2>1 DEF cfprefsdInit, TypeOK
<1>5. CASE GetPathForTriplet
  <2>1. PICK path \in Paths :
           answered' = answered \cup
              {<<path, IF hooked /\ preferencePlistNeedsRedirection(path) THEN InJb(path)
                       ELSE path>>}
    BY <1>5 DEF GetPathForTriplet
  <2>2. path \in Seq(Names)
    BY PathNames
  <2>3. InJb(path) \in Seq(Names)
    BY MovedShape
  <2> HIDE DEF Names
  <2>4. answered' \subseteq Paths \X Seq(Names)
    BY <2>1, <2>2, <2>3 DEF TypeOK, Names, PathNamesOf
  <2>5. QED
    BY <1>1, <1>5, <2>4 DEF GetPathForTriplet, TypeOK, Names, PathNamesOf
<1>6. CASE Exits
  <2>1. env' \in Seq(Variables)
    BY <1>6, EmptySeq DEF Exits
  <2>2. QED
    BY <1>1, <1>6, <2>1 DEF Exits, TypeOK
<1>7. CASE UNCHANGED vars
  BY <1>1, <1>7 DEF vars, TypeOK
<1>8. QED
  BY <1>2, <1>3, <1>4, <1>5, <1>6, <1>7 DEF Next

(* Only libraries that are deployed are inserted, and only files are answered
   whose names were asked for or are /var/jb (payload.c, rootlesshooks). *)
THEOREM HooksTyped == Spec => []TypeOK
<1>1. Init => TypeOK
  <2>1. \A b : (b = TRUE \/ b = FALSE) => b \in BOOLEAN
    OBVIOUS
  <2>2. Init => do_pspawn_hook \in BOOLEAN
    BY DEF Init, checkrain_options_enabled
  <2>3. Init => env \in Seq(Variables) /\ hooked \in BOOLEAN
    BY EmptySeq DEF Init
  <2>4. QED
    BY <2>2, <2>3 DEF Init, TypeOK, Services
<1>2. QED
  BY <1>1, HooksTypeStep, PTL DEF Spec

=============================================================================
