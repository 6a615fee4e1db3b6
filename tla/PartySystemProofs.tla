-------------------------- MODULE PartySystemProofs ---------------------------
(***************************************************************************)
(* Theorems about PartySystem, the party server with its world servers and *)
(* the queues between them, for every number of each.  What carries the    *)
(* proof is that the packets on their way to a world server lead its pool, *)
(* one creation or destruction at a time, from what it holds to what the   *)
(* party server holds.                                                     *)
(***************************************************************************)
EXTENDS PartySvrProofs, PartySystem, CountingProofs

-----------------------------------------------------------------------------
(* Queues as paths from one set of parties to another.                     *)

\* Packet m is in turn where the parties are A, and leaves B.
Turn(m, A, B) ==
    /\ m.type = "CREATE_PARTY" => m.id \notin A /\ B = A \cup {m.id}
    /\ m.type = "DESTROY_PARTY" => m.id \in A /\ B = A \ {m.id}
    /\ m.type \notin Lifecycle => B = A

Path(f, q, A, B) ==
    /\ f \in [0 .. Len(q) -> SUBSET PartyIndex]
    /\ f[0] = A /\ f[Len(q)] = B
    /\ \A i \in 1 .. Len(q) : Turn(q[i].packet, f[i - 1], f[i])

LeadsTo(q, A, B) == \E f : Path(f, q, A, B)

LEMMA NoPacketsLeadNowhere ==
    ASSUME NEW A \in SUBSET PartyIndex PROVE LeadsTo(<<>>, A, A)
<1> DEFINE f == [i \in 0 .. 0 |-> A]
<1>1. f \in [0 .. 0 -> SUBSET PartyIndex] /\ f[0] = A
  OBVIOUS
<1> HIDE DEF f
<1>2. Len(<<>>) = 0
  OBVIOUS
<1>3. Path(f, <<>>, A, A)
  BY <1>1, <1>2 DEF Path
<1> QED
  BY <1>3 DEF LeadsTo

\* The first packet is in turn, and the rest leads on from what it leaves.
LEMMA HeadLeads ==
    ASSUME NEW S, NEW q \in Seq(S), q # <<>>, NEW A, NEW B, LeadsTo(q, A, B)
    PROVE  \E C \in SUBSET PartyIndex : Turn(Head(q).packet, A, C) /\ LeadsTo(Tail(q), C, B)
<1>1. PICK f : Path(f, q, A, B)
  BY DEF LeadsTo
<1> DEFINE n == Len(q)
           g == [i \in 0 .. n - 1 |-> f[i + 1]]
<1>2. n \in Nat /\ n > 0 /\ Head(q) = q[1]
  BY EmptySeq, LenProperties, HeadTailProperties
<1>3. /\ Tail(q) \in Seq(S) /\ Len(Tail(q)) = n - 1
      /\ \A i \in 1 .. n - 1 : Tail(q)[i] = q[i + 1]
  BY <1>2, HeadTailProperties
<1> DEFINE t == Tail(q)
<1> HIDE DEF n, t
<1>4. f \in [0 .. n -> SUBSET PartyIndex] /\ f[0] = A /\ f[n] = B
      /\ \A i \in 1 .. n : Turn(q[i].packet, f[i - 1], f[i])
  BY <1>1 DEF Path, n
<1>5. g \in [0 .. n - 1 -> SUBSET PartyIndex] /\ g[0] = f[1] /\ g[n - 1] = B
  BY <1>2, <1>4
<1>6. ASSUME NEW i \in 1 .. n - 1 PROVE Turn(t[i].packet, g[i - 1], g[i])
  <2>1. g[i - 1] = f[i] /\ g[i] = f[i + 1] /\ t[i] = q[i + 1]
    BY <1>2, <1>3 DEF n, t
  <2>2. i + 1 \in 1 .. n /\ (i + 1) - 1 = i
    BY <1>2
  <2> QED
    BY <1>4, <2>1, <2>2
<1> HIDE DEF g
<1>7. Path(g, t, f[1], B)
  BY <1>3, <1>5, <1>6 DEF Path, n, t
<1>8. Turn(q[1].packet, A, f[1]) /\ f[1] \in SUBSET PartyIndex
  <2>1. 1 \in 1 .. n /\ 1 - 1 = 0
    BY <1>2
  <2> QED
    BY <1>4, <2>1
<1> QED
  BY <1>2, <1>7, <1>8 DEF LeadsTo, t

LEMMA PathsJoin ==
    ASSUME NEW S, NEW q \in Seq(S), NEW T, NEW r \in Seq(T), NEW A, NEW B, NEW C,
           LeadsTo(q, A, B), LeadsTo(r, B, C)
    PROVE  LeadsTo(q \o r, A, C)
<1>1. PICK f : Path(f, q, A, B)
  BY DEF LeadsTo
<1>2. PICK g : Path(g, r, B, C)
  BY DEF LeadsTo
<1> DEFINE n == Len(q)
           m == Len(r)
           u == q \o r
           h == [i \in 0 .. n + m |-> IF i <= n THEN f[i] ELSE g[i - n]]
<1>3. /\ u \in Seq(S \cup T) /\ Len(u) = n + m
      /\ \A i \in 1 .. n + m : u[i] = IF i <= n THEN q[i] ELSE r[i - n]
  <2>1. q \in Seq(S \cup T) /\ r \in Seq(S \cup T)
    BY SeqMonotonic
  <2> QED
    BY <2>1, ConcatProperties
<1>4. n \in Nat /\ m \in Nat
  BY LenProperties
<1> HIDE DEF n, m, u
<1>5. f \in [0 .. n -> SUBSET PartyIndex] /\ f[0] = A /\ f[n] = B
      /\ \A i \in 1 .. n : Turn(q[i].packet, f[i - 1], f[i])
  BY <1>1 DEF Path, n
<1>6. g \in [0 .. m -> SUBSET PartyIndex] /\ g[0] = B /\ g[m] = C
      /\ \A i \in 1 .. m : Turn(r[i].packet, g[i - 1], g[i])
  BY <1>2 DEF Path, m
<1>7. h \in [0 .. n + m -> SUBSET PartyIndex]
  <2>1. ASSUME NEW i \in 0 .. n + m PROVE (IF i <= n THEN f[i] ELSE g[i - n]) \in SUBSET PartyIndex
    <3>1. CASE i <= n
      <4>1. i \in 0 .. n
        BY <1>4, <3>1
      <4> QED
        BY <1>5, <3>1, <4>1
    <3>2. CASE ~(i <= n)
      <4>1. i - n \in 0 .. m
        BY <1>4, <3>2
      <4> QED
        BY <1>6, <3>2, <4>1
    <3> QED
      BY <3>1, <3>2
  <2> QED
    BY <2>1
<1>8. h[0] = A /\ h[n + m] = C
  <2>1. h[0] = f[0]
    BY <1>4
  <2>2. CASE m = 0
    BY <1>4, <1>5, <1>6, <2>1, <2>2
  <2>3. CASE m > 0
    <3>1. h[n + m] = g[(n + m) - n] /\ (n + m) - n = m
      BY <1>4, <2>3
    <3> QED
      BY <1>5, <1>6, <2>1, <3>1
  <2> QED
    BY <1>4, <2>2, <2>3
<1>9. ASSUME NEW i \in 1 .. n + m PROVE Turn(u[i].packet, h[i - 1], h[i])
  <2>1. CASE i <= n
    <3>1. h[i - 1] = f[i - 1] /\ h[i] = f[i] /\ u[i] = q[i] /\ i \in 1 .. n
      BY <1>3, <1>4, <2>1 DEF n, m
    <3> QED
      BY <1>5, <3>1
  <2>2. CASE ~(i <= n)
    <3> DEFINE j == i - n
    <3>1. h[i] = g[j] /\ u[i] = r[j] /\ j \in 1 .. m
      BY <1>3, <1>4, <2>2 DEF n, m
    <3>2. h[i - 1] = g[j - 1]
      <4>1. CASE i - 1 <= n
        <5>1. i - 1 = n /\ j - 1 = 0
          BY <1>4, <2>2, <4>1
        <5> QED
          BY <1>4, <1>5, <1>6, <5>1
      <4>2. CASE ~(i - 1 <= n)
        <5>1. h[i - 1] = g[(i - 1) - n] /\ (i - 1) - n = j - 1
          BY <1>4, <4>2
        <5> QED
          BY <5>1
      <4> QED
        BY <4>1, <4>2
    <3> QED
      BY <1>6, <3>1, <3>2
  <2> QED
    BY <2>1, <2>2
<1> HIDE DEF h
<1>10. Path(h, u, A, C)
  BY <1>3, <1>7, <1>8, <1>9 DEF Path, n, m, u
<1> QED
  BY <1>10 DEF LeadsTo, u

LEMMA QuietPath ==
    ASSUME NEW S, NEW q \in Seq(S), NEW A \in SUBSET PartyIndex,
           \A i \in 1 .. Len(q) : q[i].packet.type \notin Lifecycle
    PROVE  LeadsTo(q, A, A)
<1> DEFINE n == Len(q)
           f == [i \in 0 .. n |-> A]
<1>1. n \in Nat
  BY LenProperties
<1> HIDE DEF n
<1>2. f \in [0 .. n -> SUBSET PartyIndex] /\ f[0] = A /\ f[n] = A
  BY <1>1
<1>3. ASSUME NEW i \in 1 .. n PROVE Turn(q[i].packet, f[i - 1], f[i])
  <2>1. f[i - 1] = A /\ f[i] = A
    BY <1>1
  <2>2. q[i].packet.type \notin Lifecycle
    BY DEF n
  <2> QED
    BY <2>1, <2>2 DEF Turn, Lifecycle
<1> HIDE DEF f
<1>4. Path(f, q, A, A)
  BY <1>2, <1>3 DEF Path, n
<1> QED
  BY <1>4 DEF LeadsTo

LEMMA OneStepPath ==
    ASSUME NEW S, NEW q \in Seq(S), NEW A \in SUBSET PartyIndex, NEW B \in SUBSET PartyIndex,
           NEW k \in 1 .. Len(q), Turn(q[k].packet, A, B),
           \A i \in 1 .. Len(q) : i # k => q[i].packet.type \notin Lifecycle
    PROVE  LeadsTo(q, A, B)
<1> DEFINE n == Len(q)
           f == [i \in 0 .. n |-> IF i < k THEN A ELSE B]
<1>1. n \in Nat /\ k \in 1 .. n
  BY LenProperties
<1> HIDE DEF n
<1>2. f \in [0 .. n -> SUBSET PartyIndex] /\ f[0] = A /\ f[n] = B
  BY <1>1
<1>3. ASSUME NEW i \in 1 .. n PROVE Turn(q[i].packet, f[i - 1], f[i])
  <2>1. CASE i = k
    <3>1. f[i - 1] = A /\ f[i] = B
      BY <1>1, <2>1
    <3> QED
      BY <2>1, <3>1
  <2>2. CASE i # k
    <3>1. f[i - 1] = f[i]
      <4>1. i - 1 < k <=> i < k
        BY <1>1, <2>2
      <4> QED
        BY <1>1, <4>1
    <3>2. q[i].packet.type \notin Lifecycle
      BY <2>2 DEF n
    <3> QED
      BY <3>1, <3>2 DEF Turn, Lifecycle
  <2> QED
    BY <2>1, <2>2
<1> HIDE DEF f
<1>4. Path(f, q, A, B)
  BY <1>2, <1>3 DEF Path, n
<1> QED
  BY <1>4 DEF LeadsTo

-----------------------------------------------------------------------------
\* The positions up to n at which q creates or destroys the party in block p.
Upto(q, p, n) == {i \in 1 .. n : q[i].packet.type \in Lifecycle /\ q[i].packet.id = p}

\* After n packets block p is taken: as the last of them about p says, or as at first.
Taken(q, p, n, A) ==
    \/ Upto(q, p, n) = {} /\ p \in A
    \/ \E i \in Upto(q, p, n) :
          /\ q[i].packet.type = "CREATE_PARTY"
          /\ \A j \in Upto(q, p, n) : j <= i

LEMMA PathEnd ==
    ASSUME NEW S, NEW q \in Seq(S), NEW A, NEW B, LeadsTo(q, A, B), NEW p \in PartyIndex
    PROVE  p \in B <=> Taken(q, p, Len(q), A)
<1>1. PICK f : Path(f, q, A, B)
  BY DEF LeadsTo
<1> DEFINE n == Len(q)
           T == {k \in 0 .. n : p \in f[k] <=> Taken(q, p, k, A)}
<1>2. n \in Nat
  BY LenProperties
<1> HIDE DEF n
<1>3. f[0] = A /\ f[n] = B /\ \A i \in 1 .. n : Turn(q[i].packet, f[i - 1], f[i])
  BY <1>1 DEF Path, n
<1>4. 0 \in T
  <2>1. Upto(q, p, 0) = {}
    BY DEF Upto
  <2> QED
    BY <1>2, <1>3, <2>1 DEF Taken
<1>5. ASSUME NEW k \in 1 .. n, k - 1 \in T PROVE k \in T
  <2>1. Turn(q[k].packet, f[k - 1], f[k])
    BY <1>3
  <2>2. p \in f[k - 1] <=> Taken(q, p, k - 1, A)
    BY <1>5
  <2>3. CASE q[k].packet.type \in Lifecycle /\ q[k].packet.id = p
    <3>1. k \in Upto(q, p, k) /\ \A j \in Upto(q, p, k) : j <= k /\ j \in Int
      BY <2>3 DEF Upto
    <3>2. Taken(q, p, k, A) <=> q[k].packet.type = "CREATE_PARTY"
      BY <3>1 DEF Taken
    <3>3. p \in f[k] <=> q[k].packet.type = "CREATE_PARTY"
      BY <2>1, <2>3 DEF Turn, Lifecycle
    <3> QED
      BY <3>2, <3>3
  <2>4. CASE ~(q[k].packet.type \in Lifecycle /\ q[k].packet.id = p)
    <3>1. Upto(q, p, k) = Upto(q, p, k - 1)
      BY <2>4 DEF Upto
    <3>2. p \in f[k] <=> p \in f[k - 1]
      BY <2>1, <2>4 DEF Turn, Lifecycle
    <3> QED
      BY <2>2, <3>1, <3>2 DEF Taken
  <2> QED
    BY <2>3, <2>4
<1>6. n \in T
  <2> HIDE DEF T
  <2>1. \A k \in 1 .. n : k - 1 \in T => k \in T
    BY <1>5
  <2>2. 0 .. n \subseteq T
    BY <1>2, <1>4, <2>1, StepByStep
  <2> QED
    BY <1>2, <2>2
<1> QED
  BY <1>3, <1>6 DEF n

-----------------------------------------------------------------------------
(* What a step sends is what the queues receive.                           *)

\* The packet at place n of what passes to world server v.
Pick(v, n) == CHOOSE i \in Passing(v) : Cardinality({j \in Passing(v) : j < i}) = n - 1

LEMMA OutgoingFacts ==
    ASSUME NEW S, sent' \in Seq(S), NEW v
    PROVE  LET n == Cardinality(Passing(v)) IN
           /\ n \in Nat
           /\ Outgoing(v) \in Seq({sent'[i] : i \in Passing(v)})
           /\ Len(Outgoing(v)) = n
           /\ \A k \in 1 .. n : Pick(v, k) \in Passing(v) /\ Outgoing(v)[k] = sent'[Pick(v, k)]
           /\ \A i \in Passing(v) : \E k \in 1 .. n : Pick(v, k) = i
           /\ \A j, k \in 1 .. n : Pick(v, j) = Pick(v, k) => j = k
<1> DEFINE P == Passing(v)
           n == Cardinality(P)
           u == Outgoing(v)
<1>1. P \in SUBSET Nat /\ IsFiniteSet(P) /\ n \in Nat
  <2>1. DOMAIN sent' = 1 .. Len(sent') /\ Len(sent') \in Nat
    BY LenProperties
  <2>2. P \subseteq 1 .. Len(sent')
    BY <2>1 DEF Passing
  <2>3. IsFiniteSet(1 .. Len(sent'))
    BY <2>1, FS_Interval
  <2> QED
    BY <2>2, <2>3, FS_Subset, FS_CardinalityType
<1>2. \A i \in P : Below(P, i) = {j \in P : j < i}
  BY DEF Below
<1>3. u = [k \in 1 .. n |-> sent'[Pick(v, k)]]
  BY DEF Outgoing, Pick
<1>4. ASSUME NEW k \in 1 .. n
      PROVE  Pick(v, k) \in P /\ Cardinality(Below(P, Pick(v, k))) = k - 1
  <2>1. \E s \in P : Cardinality(Below(P, s)) = k - 1
    BY <1>1, NthExists
  <2>2. \E s \in P : Cardinality({j \in P : j < s}) = k - 1
    BY <1>2, <2>1
  <2>3. Pick(v, k) \in P /\ Cardinality({j \in P : j < Pick(v, k)}) = k - 1
    BY <2>2 DEF Pick
  <2> QED
    BY <1>2, <2>3
<1> HIDE DEF P, n, u
<1>5. u \in [1 .. n -> {sent'[i] : i \in P}] /\ \A k \in 1 .. n : u[k] = sent'[Pick(v, k)]
  BY <1>3, <1>4
<1>6. u \in Seq({sent'[i] : i \in P}) /\ Len(u) = n
  <2>1. u \in Seq({sent'[i] : i \in P})
    BY <1>1, <1>5, SeqDef DEF n
  <2> QED
    BY <1>1, <1>5, <2>1, LenProperties DEF n
\* Equal ranks are the rank of one packet.
<1>7. \A a, b \in P : Cardinality(Below(P, a)) = Cardinality(Below(P, b)) => a = b
  <2> SUFFICES ASSUME NEW a \in P, NEW b \in P, a # b,
                      Cardinality(Below(P, a)) = Cardinality(Below(P, b))
               PROVE  FALSE
    OBVIOUS
  <2>1. a \in Nat /\ b \in Nat
    BY <1>1
  <2>2. Cardinality(Below(P, a)) \in Nat /\ Cardinality(Below(P, b)) \in Nat
    BY <1>1, BelowGrows
  <2>3. CASE a < b
    BY <1>1, <2>2, <2>3, BelowGrows
  <2>4. CASE b < a
    BY <1>1, <2>2, <2>4, BelowGrows
  <2> QED
    BY <2>1, <2>3, <2>4
<1>8. ASSUME NEW i \in P PROVE \E k \in 1 .. n : Pick(v, k) = i
  <2> DEFINE k == Cardinality(Below(P, i)) + 1
  <2>1. Cardinality(Below(P, i)) \in Nat /\ Cardinality(Below(P, i)) < n
    BY <1>1, BelowGrows DEF n
  <2>2. k \in 1 .. n /\ k - 1 = Cardinality(Below(P, i))
    BY <1>1, <2>1 DEF n
  <2> HIDE DEF k
  <2>3. Pick(v, k) = i
    BY <1>4, <1>7, <2>2 DEF n
  <2> QED
    BY <2>2, <2>3
<1>9. ASSUME NEW j \in 1 .. n, NEW k \in 1 .. n, Pick(v, j) = Pick(v, k) PROVE j = k
  <2>1. j - 1 = k - 1
    BY <1>4, <1>9 DEF n
  <2> QED
    BY <2>1
<1> QED
  BY <1>1, <1>4, <1>5, <1>6, <1>8, <1>9 DEF P, n, u

\* A queue gets the packets for it behind those it has.
Sent(v, k) == [i \in DOMAIN Outgoing(v) |-> [packet |-> Outgoing(v)[i], conn |-> k]]

LEMMA SentFacts ==
    ASSUME NEW S, sent' \in Seq(S), NEW v, NEW k
    PROVE  /\ Sent(v, k) \in Seq({[packet |-> sent'[i], conn |-> k] : i \in Passing(v)})
           /\ Len(Sent(v, k)) = Len(Outgoing(v))
           /\ \A i \in 1 .. Len(Sent(v, k)) : Sent(v, k)[i].packet = Outgoing(v)[i]
<1> DEFINE u == Outgoing(v)
           n == Len(u)
           D == {[packet |-> sent'[i], conn |-> k] : i \in Passing(v)}
<1>1. u \in Seq({sent'[i] : i \in Passing(v)})
  BY OutgoingFacts
<1> HIDE DEF u
<1>2. n \in Nat /\ DOMAIN u = 1 .. n /\ \A i \in 1 .. n : u[i] \in {sent'[j] : j \in Passing(v)}
  BY <1>1, LenProperties
<1>3. \A i \in 1 .. n : [packet |-> u[i], conn |-> k] \in D
  BY <1>2
<1>4. Sent(v, k) = [i \in 1 .. n |-> [packet |-> u[i], conn |-> k]]
  BY <1>2 DEF Sent, u
<1> HIDE DEF n, D
<1>5. Sent(v, k) \in [1 .. n -> D]
  BY <1>3, <1>4
<1>6. Sent(v, k) \in Seq(D) /\ Len(Sent(v, k)) = n
  <2>1. Sent(v, k) \in Seq(D)
    BY <1>2, <1>5, SeqDef
  <2> QED
    BY <1>2, <1>5, <2>1, LenProperties
<1> QED
  BY <1>4, <1>6 DEF u, n, D

\* What a step of the server announces leads each queue on to the parties it leaves.
LEMMA AnnouncedPath ==
    ASSUME NEW S, sent' \in Seq(S), Announces, NEW v \in World, Running(v), NEW k
    PROVE  LeadsTo(Sent(v, k), Reserved, Reserved')
<1> DEFINE s == Sent(v, k)
           n == Cardinality(Passing(v))
<1>1. /\ s \in Seq({[packet |-> sent'[i], conn |-> k] : i \in Passing(v)}) /\ Len(s) = n
      /\ \A i \in 1 .. n : Pick(v, i) \in Passing(v) /\ s[i].packet = sent'[Pick(v, i)]
      /\ \A i \in Passing(v) : \E j \in 1 .. n : Pick(v, j) = i
      /\ \A i, j \in 1 .. n : Pick(v, i) = Pick(v, j) => i = j
  <2>1. /\ Len(Outgoing(v)) = n
        /\ \A i \in 1 .. n : Pick(v, i) \in Passing(v) /\ Outgoing(v)[i] = sent'[Pick(v, i)]
        /\ \A i \in Passing(v) : \E j \in 1 .. n : Pick(v, j) = i
        /\ \A i, j \in 1 .. n : Pick(v, i) = Pick(v, j) => i = j
    BY OutgoingFacts
  <2>2. /\ s \in Seq({[packet |-> sent'[i], conn |-> k] : i \in Passing(v)})
        /\ Len(s) = Len(Outgoing(v))
        /\ \A i \in 1 .. Len(s) : s[i].packet = Outgoing(v)[i]
    BY SentFacts
  <2> HIDE DEF s, n
  <2> QED
    BY <2>1, <2>2
<1>2. Passing(v) \subseteq DOMAIN sent'
  BY DEF Passing
<1>3. Reserved \in SUBSET PartyIndex /\ Reserved' \in SUBSET PartyIndex
  BY DEF Reserved
<1> HIDE DEF s, n
<1>4. ASSUME \A i \in DOMAIN sent' : sent'[i].type \notin {"CREATE_PARTY", "DESTROY_PARTY"},
             Reserved' = Reserved
      PROVE  LeadsTo(s, Reserved, Reserved')
  <2>1. \A i \in 1 .. Len(s) : s[i].packet.type \notin Lifecycle
    BY <1>1, <1>2, <1>4 DEF Lifecycle
  <2> QED
    BY <1>1, <1>3, <1>4, <2>1, QuietPath
<1>5. ASSUME NEW i \in DOMAIN sent', sent'[i].to = Broadcast,
             sent'[i].type \in {"CREATE_PARTY", "DESTROY_PARTY"},
             \A j \in DOMAIN sent' \ {i} : sent'[j].type \notin {"CREATE_PARTY", "DESTROY_PARTY"},
             Turn(sent'[i], Reserved, Reserved')
      PROVE  LeadsTo(s, Reserved, Reserved')
  <2>1. i \in Passing(v)
    BY <1>5 DEF Passing, Effective, Broadcast
  <2>2. PICK a \in 1 .. n : Pick(v, a) = i
    BY <1>1, <2>1
  <2>3. Turn(s[a].packet, Reserved, Reserved')
    BY <1>1, <1>5, <2>2
  <2>4. \A b \in 1 .. n : b # a => s[b].packet.type \notin Lifecycle
    BY <1>1, <1>2, <1>5, <2>2 DEF Lifecycle
  <2> QED
    BY <1>1, <1>3, <2>3, <2>4, OneStepPath
<1>6. CASE Silent
  BY <1>4, <1>6 DEF Silent, Notes, s
<1>7. CASE Dies
  <2>1. Reserved' = Reserved /\ DOMAIN sent' = {}
    BY <1>7, UntouchedParties DEF Dies
  <2> QED
    BY <1>4, <2>1 DEF s
<1>8. CASE FoundsOne
  <2>1. PICK p \in PartyIndex :
          party[p] = None /\ Reserved' = Reserved \cup {p} /\ StartsWithin(sent', p)
    BY <1>8 DEF FoundsOne
  <2>2. p \notin Reserved
    BY <2>1 DEF Reserved
  <2> QED
    BY <1>5, <2>1, <2>2 DEF StartsWithin, Turn, Lifecycle, s
<1>9. CASE EndsOne
  <2>1. PICK p \in PartyIndex, rec \in Party :
          party[p] # None /\ Reserved' = Reserved \ {p} /\ EndsWithin(sent', p, rec)
    BY <1>9 DEF EndsOne
  <2>2. p \in Reserved
    BY <2>1 DEF Reserved
  <2> QED
    BY <1>5, <2>1, <2>2 DEF EndsWithin, Turn, Lifecycle, s
<1> QED
  BY <1>6, <1>7, <1>8, <1>9 DEF Announces, s

-----------------------------------------------------------------------------
(* What the handlers send.                                                 *)

\* The packets of s a world server acts on are in S.
Says(s, S) ==
    \E Q : (\A m \in Q : m.type \notin Effective) /\ s \in Seq(S \cup Q)

LEMMA SaysSeq ==
    ASSUME NEW s, NEW S, Says(s, S)
    PROVE  /\ \E T : s \in Seq(T)
           /\ \A i \in DOMAIN s : s[i].type \in Effective => s[i] \in S
  BY DEF Says

LEMMA SaysMore ==
    ASSUME NEW s, NEW S, NEW T, S \subseteq T, Says(s, S)
    PROVE  Says(s, T)
<1>1. PICK Q : (\A m \in Q : m.type \notin Effective) /\ s \in Seq(S \cup Q)
  BY DEF Says
<1>2. s \in Seq(T \cup Q)
  <2>1. S \cup Q \subseteq T \cup Q
    OBVIOUS
  <2> QED
    BY <1>1, <2>1, SeqMonotonic
<1> QED
  BY <1>1, <1>2 DEF Says

LEMMA SaysConcat ==
    ASSUME NEW S, NEW s, NEW t, Says(s, S), Says(t, S)
    PROVE  Says(s \o t, S)
<1>1. PICK Q : (\A m \in Q : m.type \notin Effective) /\ s \in Seq(S \cup Q)
  BY DEF Says
<1>2. PICK R : (\A m \in R : m.type \notin Effective) /\ t \in Seq(S \cup R)
  BY DEF Says
<1>3. s \in Seq(S \cup (Q \cup R)) /\ t \in Seq(S \cup (Q \cup R))
  <2>1. S \cup Q \subseteq S \cup (Q \cup R) /\ S \cup R \subseteq S \cup (Q \cup R)
    OBVIOUS
  <2> QED
    BY <1>1, <1>2, <2>1, SeqMonotonic
<1>4. s \o t \in Seq(S \cup (Q \cup R))
  BY <1>3, ConcatProperties
<1>5. \A m \in Q \cup R : m.type \notin Effective
  BY <1>1, <1>2
<1> QED
  BY <1>4, <1>5 DEF Says

\* One packet that either matters and is of the kind, or does not matter.
Fits(m, S) == m \in S \/ m.type \notin Effective

LEMMA SaysOne ==
    ASSUME NEW S, NEW m, Fits(m, S) PROVE Says(<<m>>, S)
<1> DEFINE Q == {x \in {m} : x.type \notin Effective}
<1>1. m \in S \cup Q
  BY DEF Fits
<1> HIDE DEF Q
<1>2. <<m>> \in Seq(S \cup Q)
  BY <1>1
<1> QED
  BY <1>2 DEF Says, Q

LEMMA SaysAppend ==
    ASSUME NEW S, NEW s, NEW m, Says(s, S), Fits(m, S)
    PROVE  Says(Append(s, m), S)
<1>1. PICK Q : (\A x \in Q : x.type \notin Effective) /\ s \in Seq(S \cup Q)
  BY DEF Says
<1> DEFINE R == {x \in {m} : x.type \notin Effective}
<1>2. m \in S \cup (Q \cup R) /\ S \cup Q \subseteq S \cup (Q \cup R)
      /\ \A x \in Q \cup R : x.type \notin Effective
  BY <1>1 DEF Fits
<1> HIDE DEF R
<1>3. s \in Seq(S \cup (Q \cup R))
  BY <1>1, <1>2, SeqMonotonic
<1>4. Append(s, m) \in Seq(S \cup (Q \cup R))
  BY <1>2, <1>3, AppendProperties
<1> QED
  BY <1>2, <1>4 DEF Says

LEMMA SaysTwo ==
    ASSUME NEW S, NEW m, NEW n, Fits(m, S), Fits(n, S) PROVE Says(<<m, n>>, S)
<1>1. <<m, n>> = Append(<<m>>, n)
  OBVIOUS
<1>2. Says(<<m>>, S)
  BY SaysOne
<1> QED
  BY <1>1, <1>2, SaysAppend

LEMMA SaysThree ==
    ASSUME NEW S, NEW a, NEW b, NEW c, Fits(a, S), Fits(b, S), Fits(c, S)
    PROVE  Says(<<a, b, c>>, S)
<1>1. <<a, b, c>> = Append(<<a, b>>, c)
  OBVIOUS
<1>2. Says(<<a, b>>, S)
  BY SaysTwo
<1> QED
  BY <1>1, <1>2, SaysAppend

LEMMA SaysFour ==
    ASSUME NEW S, NEW a, NEW b, NEW c, NEW d, Fits(a, S), Fits(b, S), Fits(c, S), Fits(d, S)
    PROVE  Says(<<a, b, c, d>>, S)
<1>1. <<a, b, c, d>> = Append(<<a, b, c>>, d)
  OBVIOUS
<1>2. Says(<<a, b, c>>, S)
  BY SaysThree
<1> QED
  BY <1>1, <1>2, SaysAppend

LEMMA SaysNothing == \A S : Says(<<>>, S)
<1>1. \A S : <<>> \in Seq(S \cup {})
  OBVIOUS
<1> QED
  BY <1>1 DEF Says

LEMMA SaysEach ==
    ASSUME NEW S, NEW rec \in Party, NEW s, s = [k \in DOMAIN rec.members |-> s[k]],
           \A k \in DOMAIN rec.members : Fits(s[k], S)
    PROVE  Says(s, S)
<1> DEFINE n == Len(rec.members)
           Q == {x \in {s[k] : k \in 1 .. n} : x.type \notin Effective}
<1>1. n \in Nat /\ DOMAIN rec.members = 1 .. n
  BY DEF Party
<1>2. \A k \in 1 .. n : s[k] \in S \cup Q
  BY <1>1 DEF Fits
<1>3. \A x \in Q : x.type \notin Effective
  OBVIOUS
<1> HIDE DEF n, Q
<1>4. s \in [1 .. n -> S \cup Q]
  BY <1>1, <1>2
<1>5. s \in Seq(S \cup Q)
  BY <1>1, <1>4, SeqDef
<1> QED
  BY <1>3, <1>5 DEF Says

-----------------------------------------------------------------------------
(* The kinds of packets.                                                   *)

LEMMA QuietPackets ==
    ASSUME NEW S
    PROVE  /\ Fits(DataMsg, S)
           /\ \A w, ok : Fits(InviteAckMsg(w, ok), S) /\ Fits(LeaderAckMsg(w, ok), S)
           /\ \A w, c, a, b : Fits(TimeoutMsg(w, c, a, b), S)
           /\ \A w : Fits(CancelMsg(w), S)
           /\ \A p, m : Fits(LeaveMsg(p, m), S)
           /\ \A m : Fits(RelayMsg(m), S)
  BY DEF Fits, Effective, DataMsg, InviteAckMsg, LeaderAckMsg, TimeoutMsg, CancelMsg, LeaveMsg, RelayMsg

LEMMA PartyPackets ==
    ASSUME NEW p \in PartyIndex, NEW rec \in Party
    PROVE  /\ CreateMsg(p, rec) \in Notice
           /\ DestroyMsg(p, rec) \in Notice
           /\ InfoMsg(p, rec) \in Notice
  BY DEF CreateMsg, DestroyMsg, InfoMsg, Notice, Broadcast, Lifecycle

LEMMA ToTyped == \A w \in World \cup {None} : To(w) \in SUBSET World
  BY DEF To

LEMMA InvitePacket ==
    ASSUME NEW src \in Located, NEW tgt \in Located
    PROVE  InviteMsg(src, tgt) \in Notice
<1>1. To(tgt.world) \in SUBSET World
  BY ToTyped DEF Located
<1> QED
  BY <1>1 DEF InviteMsg, Notice

LEMMA LeaderPacket ==
    ASSUME NEW p \in PartyIndex, NEW m \in Member, NEW c \in Character
    PROVE  LeaderMsg(p, m, c) \in Notice
<1>1. To(m.world) \in SUBSET World
  BY ToTyped DEF Member
<1> QED
  BY <1>1 DEF LeaderMsg, Notice

LEMMA AnswerPackets ==
    ASSUME NEW w \in World, NEW c \in Character
    PROVE  /\ \A p \in PartyIndex \cup {None} :
                ConnectMsg(w, c, p) \in Answer /\ ConfirmMsg(w, c, FALSE, p) \in Answer
           /\ \A p \in PartyIndex : ConfirmMsg(w, c, TRUE, p) \in Answer
           /\ \A ok \in BOOLEAN : LeaveAckMsg(w, c, ok) \in Answer
<1>1. To(w) \in SUBSET World
  BY ToTyped
<1> QED
  BY <1>1 DEF ConnectMsg, ConfirmMsg, LeaveAckMsg, Answer

LEMMA PacketsFit ==
    /\ \A p \in PartyIndex, rec \in Party :
         /\ Fits(CreateMsg(p, rec), Notice) /\ Fits(DestroyMsg(p, rec), Notice)
         /\ Fits(InfoMsg(p, rec), Notice)
         /\ Fits(DestroyMsg(p, rec), Answer \cup Notice) /\ Fits(InfoMsg(p, rec), Answer \cup Notice)
    /\ \A src, tgt \in Located : Fits(InviteMsg(src, tgt), Notice)
    /\ \A p \in PartyIndex, m \in Member, c \in Character : Fits(LeaderMsg(p, m, c), Notice)
    /\ \A w \in World, c \in Character :
         /\ \A p \in PartyIndex \cup {None} :
              /\ Fits(ConnectMsg(w, c, p), Answer) /\ Fits(ConfirmMsg(w, c, FALSE, p), Answer)
              /\ Fits(ConfirmMsg(w, c, FALSE, p), Answer \cup Notice)
         /\ \A p \in PartyIndex : Fits(ConfirmMsg(w, c, TRUE, p), Answer \cup Notice)
         /\ \A ok \in BOOLEAN : Fits(LeaveAckMsg(w, c, ok), Answer \cup Notice)
  BY PartyPackets, InvitePacket, LeaderPacket, AnswerPackets DEF Fits

LEMMA ConnectSays ==
    ASSUME RosterInv, NEW w \in World, NEW c \in Character, ClientConnect(w, c)
    PROVE  Says(sent', Answer)
<1> DEFINE p == GetPartyByCharacter(c)
<1>1. p \in PartyIndex \cup {None}
  BY PartyOfFacts
<1>2. sent' = <<ConnectMsg(w, c, None)>> \/ sent' = <<ConnectMsg(w, c, p), DataMsg>>
  BY DEF ClientConnect
<1> HIDE DEF p
<1> QED
  BY <1>1, <1>2, PacketsFit, QuietPackets, SaysOne, SaysTwo

LEMMA DisconnectSays ==
    ASSUME RosterInv, NEW c \in Character, ClientDisconnect(c)
    PROVE  Says(sent', Notice)
<1> DEFINE p == GetPartyByCharacter(c)
<1>1. p # None => p \in PartyIndex /\ party[p] \in Party
  BY PartyOfFacts
<1>2. \/ sent' = <<>>
      \/ p # None /\ sent' = <<DestroyMsg(p, party[p])>>
      \/ sent' = <<DataMsg>>
  BY DEF ClientDisconnect
<1> HIDE DEF p
<1> QED
  BY <1>1, <1>2, PacketsFit, QuietPackets, SaysNothing, SaysOne

LEMMA InviteSays ==
    ASSUME RosterInv, NEW w, NEW src \in Located, NEW tgt \in Located, PartyInvite(w, src, tgt)
    PROVE  Says(sent', Notice)
<1>1. \/ sent' = <<InviteAckMsg(w, FALSE)>>
      \/ sent' = <<InviteMsg(src, tgt)>>
      \/ \E p \in PartyIndex : sent' = <<CreateMsg(p, NewParty(src)), InviteMsg(src, tgt)>>
      \/ sent' = <<>>
  BY DEF PartyInvite, InviteRejected, InviteIntoParty, InviteFounding, InvitePoolExhausted, Crash
<1>2. NewParty(src) \in Party
  <2>1. src \in Member
    BY DEF Located, Member
  <2> QED
    BY <2>1, NewPartyFacts
<1> QED
  BY <1>1, <1>2, PacketsFit, QuietPackets, SaysNothing, SaysOne, SaysTwo

LEMMA AckSays ==
    ASSUME RosterInv, NEW src \in Located, NEW tgt \in Located, NEW ok \in BOOLEAN,
           InviteAck(src, tgt, ok)
    PROVE  Says(sent', Notice)
<1> DEFINE p == GetPartyByCharacter(src.char)
<1>1. p # None => p \in PartyIndex /\ party[p] \in Party
  BY PartyOfFacts DEF Located
<1>2. \/ sent' = <<InviteAckMsg(src.world, FALSE)>>
      \/ sent' = <<InviteAckMsg(src.world, TRUE), DataMsg>>
      \/ p # None /\ sent' = <<DestroyMsg(p, party[p]), InviteAckMsg(src.world, FALSE), DataMsg>>
  BY DEF InviteAck
<1> HIDE DEF p
<1> QED
  <2> DEFINE no == InviteAckMsg(src.world, FALSE)
             yes == InviteAckMsg(src.world, TRUE)
  <2>1. Fits(no, Notice) /\ Fits(yes, Notice) /\ Fits(DataMsg, Notice)
    BY QuietPackets
  <2>2. p # None => Fits(DestroyMsg(p, party[p]), Notice)
    BY <1>1, PacketsFit
  <2> HIDE DEF no, yes
  <2> QED
    BY <1>2, <2>1, <2>2, SaysOne, SaysTwo, SaysThree DEF no, yes

LEMMA CancelSays ==
    ASSUME RosterInv, NEW w, NEW v, NEW c \in Character, NEW d \in Character,
           InviteCancel(w, c, d, v)
    PROVE  Says(sent', Notice)
<1> DEFINE p == GetPartyByCharacter(c)
           note == TimeoutMsg(v, d, FALSE, TRUE)
<1>1. p # None => p \in PartyIndex /\ party[p] \in Party
  BY PartyOfFacts
<1>2. \/ sent' = <<note, CancelMsg(w)>>
      \/ p # None /\ sent' = <<note, DestroyMsg(p, party[p]), CancelMsg(w)>>
  BY DEF InviteCancel
<1>3. Fits(note, Notice)
  BY QuietPackets
<1> HIDE DEF p, note
<1> QED
  BY <1>1, <1>2, <1>3, PacketsFit, QuietPackets, SaysTwo, SaysThree

LEMMA UnknownSays ==
    ASSUME NEW w \in World, NEW c \in Character, NEW d, ConfirmUnknown(w, c, d)
    PROVE  Says(sent', Answer \cup Notice)
  BY PacketsFit, SaysOne DEF ConfirmUnknown

LEMMA AcceptSays ==
    ASSUME RosterInv, InviteInv, NEW w \in World, NEW v, NEW c \in Character, NEW d \in Character,
           ConfirmAccept(w, c, d, v)
    PROVE  Says(sent', Answer \cup Notice)
<1> DEFINE p == GetPartyByCharacter(d)
           m == invite[charToInvite[c]].member
           rec == IF CanAddMember(party[p], m) THEN WithMember(party[p], m) ELSE party[p]
<1>1. m \in Member
  BY DEF ConfirmAccept, HasInvite, InviteInv, InviteType, Invitation
<1>2. p \in PartyIndex /\ party[p] # None /\ party[p] \in Party
  BY PartyOfFacts DEF ConfirmAccept
<1>3. rec \in Party
  <2>1. CASE CanAddMember(party[p], m)
    <3>1. WithMember(party[p], m) \in Party
      BY <1>1, <1>2, AppendProperties DEF WithMember, Party
    <3> QED
      BY <2>1, <3>1
  <2> QED
    BY <1>2, <2>1
<1>4. sent' = <<InfoMsg(p, rec), TimeoutMsg(v, d, TRUE, FALSE), ConfirmMsg(w, c, TRUE, p), DataMsg>>
  BY DEF ConfirmAccept
<1> HIDE DEF p, rec
<1> QED
  BY <1>2, <1>3, <1>4, PacketsFit, QuietPackets, SaysFour

LEMMA DeclineSays ==
    ASSUME RosterInv, NEW w \in World, NEW v, NEW c \in Character, NEW d \in Character,
           ConfirmDecline(w, c, d, v)
    PROVE  Says(sent', Answer \cup Notice)
<1> DEFINE p == GetPartyByCharacter(d)
           note == TimeoutMsg(v, d, FALSE, FALSE)
           answer == <<ConfirmMsg(w, c, FALSE, p), DataMsg>>
<1>1. p \in PartyIndex /\ party[p] \in Party
  BY PartyOfFacts DEF ConfirmDecline
<1>2. sent' = <<note>> \o answer \/ sent' = <<note, DestroyMsg(p, party[p])>> \o answer
  BY DEF ConfirmDecline
<1>3. Fits(note, Answer \cup Notice)
  BY QuietPackets
<1>4. Says(answer, Answer \cup Notice)
  <2> HIDE DEF p
  <2> QED
    BY <1>1, PacketsFit, QuietPackets, SaysTwo
<1>5. Says(<<note, DestroyMsg(p, party[p])>>, Answer \cup Notice) /\ Says(<<note>>, Answer \cup Notice)
  <2> HIDE DEF p, note
  <2> QED
    BY <1>1, <1>3, PacketsFit, SaysOne, SaysTwo
<1> HIDE DEF p, note, answer
<1> QED
  BY <1>2, <1>4, <1>5, SaysConcat

LEMMA LeaveSays ==
    ASSUME RosterInv, NEW w \in World, NEW c \in Character, Leave(w, c)
    PROVE  Says(sent', Answer \cup Notice)
<1> DEFINE p == GetPartyByCharacter(c)
<1>1. CASE sent' = <<LeaveAckMsg(w, c, FALSE)>>
  BY <1>1, PacketsFit, SaysOne
<1>2. ASSUME p # None, NEW k \in Slot(party[p], c)
      PROVE  /\ WithoutSlot(party[p], k) \in Party
             /\ Says(<<LeaveAckMsg(w, c, TRUE)>> \o
                       ForEach(WithoutSlot(party[p], k), LAMBDA m : LeaveMsg(p, m)), Answer \cup Notice)
  <2> DEFINE rec == WithoutSlot(party[p], k)
             each == [j \in DOMAIN rec.members |-> LeaveMsg(p, rec.members[j])]
  <2>1. rec \in Party
    BY <1>2, PartyOfFacts, WithoutSlotFacts DEF Slot
  <2>2. \A j \in DOMAIN rec.members : Fits(each[j], Answer \cup Notice)
    BY QuietPackets
  <2>3. ForEach(rec, LAMBDA m : LeaveMsg(p, m)) = each
    BY DEF ForEach
  <2>4. each = [j \in DOMAIN rec.members |-> each[j]]
    OBVIOUS
  <2> HIDE DEF rec, each
  <2>5. Says(each, Answer \cup Notice)
    BY <2>1, <2>2, <2>4, SaysEach
  <2>6. Says(<<LeaveAckMsg(w, c, TRUE)>>, Answer \cup Notice)
    BY PacketsFit, SaysOne
  <2>7. Says(<<LeaveAckMsg(w, c, TRUE)>> \o each, Answer \cup Notice)
    BY <2>5, <2>6, SaysConcat
  <2> QED
    BY <2>1, <2>3, <2>7 DEF rec
<1>3. ASSUME p # None, NEW k \in Slot(party[p], c), NEW notes,
             notes = <<LeaveAckMsg(w, c, TRUE)>>
                       \o ForEach(WithoutSlot(party[p], k), LAMBDA m : LeaveMsg(p, m)),
             \/ sent' = Append(notes, DestroyMsg(p, WithoutSlot(party[p], k)))
             \/ sent' = Append(notes, DataMsg)
      PROVE  Says(sent', Answer \cup Notice)
  <2>1. WithoutSlot(party[p], k) \in Party /\ Says(notes, Answer \cup Notice)
    BY <1>2, <1>3
  <2>2. p \in PartyIndex
    BY <1>3, PartyOfFacts
  <2> HIDE DEF p
  <2> QED
    BY <1>3, <2>1, <2>2, PacketsFit, QuietPackets, SaysAppend
<1> QED
  BY <1>1, <1>3 DEF Leave

LEMMA LeaderSays ==
    ASSUME RosterInv, NEW w \in World, NEW p \in PartyIndex, NEW c \in Character,
           ChangeLeader(w, p, c)
    PROVE  Says(sent', Notice)
<1>1. CASE sent' = <<LeaderAckMsg(w, FALSE)>>
  BY <1>1, QuietPackets, SaysOne
<1>2. CASE /\ party[p] # None
           /\ sent' = <<LeaderAckMsg(w, TRUE)>> \o ForEach(party[p], LAMBDA m : LeaderMsg(p, m, c))
  <2> DEFINE rec == party[p]
             each == [j \in DOMAIN rec.members |-> LeaderMsg(p, rec.members[j], c)]
  <2>1. rec \in Party
    BY <1>2 DEF RosterInv, RosterType
  <2>2. \A j \in DOMAIN rec.members : rec.members[j] \in Member
    BY <2>1, LenProperties DEF Party
  <2>3. ForEach(rec, LAMBDA m : LeaderMsg(p, m, c)) = each
    BY DEF ForEach
  <2>4. each = [j \in DOMAIN rec.members |-> each[j]]
    OBVIOUS
  <2> HIDE DEF rec
  <2>5. \A j \in DOMAIN rec.members : Fits(each[j], Notice)
    BY <2>2, PacketsFit
  <2> HIDE DEF each
  <2>6. Says(each, Notice)
    BY <2>1, <2>4, <2>5, SaysEach
  <2>7. Says(<<LeaderAckMsg(w, TRUE)>>, Notice)
    BY QuietPackets, SaysOne
  <2> QED
    BY <1>2, <2>3, <2>6, <2>7, SaysConcat DEF rec
<1> QED
  BY <1>1, <1>2 DEF ChangeLeader

LEMMA TimeoutNotesSay ==
    ASSUME NEW inv, NEW S PROVE Says(TimeoutNotes(inv), S)
<1> DEFINE note(c) == IF charToWorld[c] = None THEN <<>>
                      ELSE <<TimeoutMsg(charToWorld[c], c, FALSE, FALSE)>>
<1>1. ASSUME NEW c PROVE Says(note(c), S)
  <2>1. Fits(TimeoutMsg(charToWorld[c], c, FALSE, FALSE), S)
    BY QuietPackets
  <2>2. note(c) = <<>> \/ note(c) = <<TimeoutMsg(charToWorld[c], c, FALSE, FALSE)>>
    OBVIOUS
  <2> HIDE DEF note
  <2> QED
    BY <2>1, <2>2, SaysNothing, SaysOne
<1>2. TimeoutNotes(inv) = note(inv.inviter) \o note(inv.member.char)
  BY DEF TimeoutNotes
<1> HIDE DEF note
<1> QED
  BY <1>1, <1>2, SaysConcat

LEMMA TickSays ==
    ASSUME RosterInv, InviteInv, Tick
    PROVE  Says(sent', Notice)
<1>1. PICK first \in Invited : TickAsserts(first) \/ TickExpires(first) \/ TickRepeats(first)
  BY DEF Tick
<1> DEFINE inv == invite[charToInvite[first]]
           p == inv.party
<1>2. CASE sent' = <<>>
  BY <1>2, SaysNothing
<1>3. CASE /\ party[p] # None
           /\ sent' = Append(TimeoutNotes(inv), DestroyMsg(p, party[p]))
  <2>1. p \in PartyIndex
    BY DEF Invited, InviteInv, InviteType, InvitesIndexed, Invitation
  <2>2. party[p] \in Party
    BY <1>3, <2>1 DEF RosterInv, RosterType
  <2>3. Says(TimeoutNotes(inv), Notice)
    BY TimeoutNotesSay
  <2> HIDE DEF inv, p
  <2> QED
    BY <1>3, <2>1, <2>2, <2>3, PacketsFit, SaysAppend
<1>4. CASE TickRepeats(first)
  <2> DEFINE notes == TimeoutNotes(inv)
             n == Len(notes)
             size == Cardinality(Invited) * n
  <2>1. n \in {0, 1, 2} /\ Says(notes, Notice)
    BY TimeoutNotesAre, TimeoutNotesSay
  <2>2. sent' = [k \in 1 .. size |-> notes[((k - 1) % n) + 1]]
    BY <1>4 DEF TickRepeats
  <2>3. Cardinality(Invited) \in Nat
    <3>1. Invited \subseteq Character
      BY DEF Invited
    <3> QED
      BY <3>1, SizeAssumption, FS_Subset, FS_CardinalityType
  <2> HIDE DEF notes
  <2>4. PICK Q : (\A m \in Q : m.type \notin Effective) /\ notes \in Seq(Notice \cup Q)
    BY <2>1 DEF Says
  <2>5. \A i \in 1 .. n : notes[i] \in Notice \cup Q
    BY <2>4, LenProperties
  <2> HIDE DEF n
  <2>6. size \in Nat /\ (n = 0 => size = 0)
    BY <2>1, <2>3
  <2> HIDE DEF size
  <2>7. \A k \in 1 .. size : ((k - 1) % n) + 1 \in 1 .. n
    <3>1. CASE n = 0
      BY <2>6, <3>1
    <3>2. CASE n = 1
      BY <2>6, <3>2
    <3>3. CASE n = 2
      BY <2>6, <3>3
    <3> QED
      BY <2>1, <3>1, <3>2, <3>3
  <2>8. sent' \in [1 .. size -> Notice \cup Q]
    BY <2>2, <2>5, <2>7
  <2>9. sent' \in Seq(Notice \cup Q)
    BY <2>6, <2>8, SeqDef
  <2> QED
    BY <2>4, <2>9 DEF Says
<1> QED
  BY <1>1, <1>2, <1>3, <1>4 DEF TickAsserts, TickExpires, Crash

-----------------------------------------------------------------------------
(* The server's steps within the system.                                   *)

\* The packets from a world server, type by type.
LEMMA FromWorldFacts ==
    ASSUME NEW w, NEW m \in FromWorld(w)
    PROVE  /\ m.type \in {"CLIENT_CONNECT", "PARTY_LEAVE", "CLIENT_DISCONNECT", "PARTY_INVITE_CANCEL",
                          "PARTY_CHANGE_LEADER", "PARTY_INVITE_CONFIRM"} => m.char \in Character
           /\ m.type \in {"CLIENT_CONNECT", "PARTY_LEAVE", "PARTY_INVITE_CONFIRM"} =>
                "conn" \in DOMAIN m /\ m.conn \in Conn
           /\ m.type \notin {"CLIENT_CONNECT", "PARTY_LEAVE", "PARTY_INVITE_CONFIRM"} =>
                "conn" \notin DOMAIN m
           /\ m.type = "PARTY_INVITE_CONFIRM" => m.inviter \in Character /\ m.accept \in BOOLEAN
           /\ m.type = "PARTY_INVITE_CANCEL" => m.target \in Character
           /\ m.type = "PARTY_INVITE" =>
                m.source \in [char : Character, world : {w}] /\ m.target \in Located
           /\ m.type = "PARTY_INVITE_ACK" =>
                m.source \in Located /\ m.target \in Located /\ m.success \in BOOLEAN
           /\ m.type = "PARTY_CHANGE_LEADER" => m.id \in PartyIndex
<1>1. CASE m \in [type : {"CLIENT_CONNECT", "PARTY_LEAVE"}, conn : Conn, char : Character]
  BY <1>1
<1>2. CASE m \in [type : {"PARTY_INVITE_CONFIRM"}, conn : Conn, char : Character,
                  inviter : Character, accept : BOOLEAN]
  BY <1>2
<1>3. CASE m \in [type : {"CLIENT_DISCONNECT"}, char : Character]
  BY <1>3
<1>4. CASE m \in [type : {"PARTY_INVITE"}, source : [char : Character, world : {w}], target : Located]
  BY <1>4
<1>5. CASE m \in [type : {"PARTY_INVITE_ACK"}, source : Located, target : Located, success : BOOLEAN]
  BY <1>5
<1>6. CASE m \in [type : {"PARTY_INVITE_CANCEL"}, char : Character, target : Character]
  BY <1>6
<1>7. CASE m \in [type : {"PARTY_CHANGE_LEADER"}, id : PartyIndex, char : Character]
  BY <1>7
<1> QED
  BY <1>1, <1>2, <1>3, <1>4, <1>5, <1>6, <1>7 DEF FromWorld

\* A packet is handled by a step of PartySvr or ignored, and is answered under its connection.
LEMMA HandleStep ==
    ASSUME IInv, status = "running", NEW w \in World, NEW m \in FromWorld(w), Handle(w, m)
    PROVE  /\ Next \/ Ignore
           /\ Says(sent', Answer \cup Notice)
           /\ "conn" \notin DOMAIN m => Says(sent', Notice)
<1> DEFINE Goal == /\ Next \/ Ignore
                   /\ Says(sent', Answer \cup Notice)
                   /\ "conn" \notin DOMAIN m => Says(sent', Notice)
<1>0. Notice \subseteq Answer \cup Notice /\ Answer \subseteq Answer \cup Notice
  OBVIOUS
<1>a. RosterInv /\ InviteInv
  BY DEF IInv
<1>1. CASE m.type = "CLIENT_CONNECT" /\ ClientConnect(w, m.char)
  <2>1. m.char \in Character /\ "conn" \in DOMAIN m
    BY <1>1, FromWorldFacts
  <2>2. Next
    BY <1>1, <2>1 DEF Next, OnPacket
  <2> QED
    BY <1>0, <1>1, <1>a, <2>1, <2>2, ConnectSays, SaysMore
<1>2. CASE m.type = "CLIENT_DISCONNECT" /\ ClientDisconnect(m.char)
  <2>1. m.char \in Character
    BY <1>2, FromWorldFacts
  <2>2. Next
    BY <1>2, <2>1 DEF Next, OnPacket
  <2> QED
    BY <1>0, <1>2, <1>a, <2>1, <2>2, DisconnectSays, SaysMore
<1>3. CASE Ignore
  BY <1>3, SaysNothing DEF Ignore
<1>4. CASE m.type = "PARTY_INVITE" /\ PartyInvite(w, m.source, m.target)
  <2>1. m.source \in Located /\ m.source.world = w /\ m.target \in Located
    BY <1>4, FromWorldFacts DEF Located
  <2>2. PartyInvite(m.source.world, m.source, m.target)
    BY <1>4, <2>1
  <2>3. Next
    BY <2>1, <2>2 DEF Next, OnPacket
  <2> QED
    BY <1>0, <1>4, <1>a, <2>1, <2>3, InviteSays, SaysMore
<1>5. CASE m.type = "PARTY_INVITE_ACK" /\ InviteAck(m.source, m.target, m.success)
  <2>1. m.source \in Located /\ m.target \in Located /\ m.success \in BOOLEAN
    BY <1>5, FromWorldFacts
  <2>2. Next
    BY <1>5, <2>1 DEF Next, OnPacket
  <2> QED
    BY <1>0, <1>5, <1>a, <2>1, <2>2, AckSays, SaysMore
<1>6. CASE /\ m.type = "PARTY_INVITE_CONFIRM"
           /\ \/ ConfirmUnknown(w, m.char, m.inviter)
              \/ ConfirmAccept(w, m.char, m.inviter, w)
              \/ ConfirmDecline(w, m.char, m.inviter, w)
  <2>1. m.char \in Character /\ m.inviter \in Character /\ "conn" \in DOMAIN m
    BY <1>6, FromWorldFacts
  <2>2. Next
    BY <1>6, <2>1 DEF Next, OnPacket
  <2> QED
    BY <1>6, <1>a, <2>1, <2>2, UnknownSays, AcceptSays, DeclineSays
<1>7. CASE m.type = "PARTY_INVITE_CANCEL" /\ InviteCancel(w, m.char, m.target, w)
  <2>1. m.char \in Character /\ m.target \in Character
    BY <1>7, FromWorldFacts
  <2>2. Next
    BY <1>7, <2>1 DEF Next, OnPacket
  <2> QED
    BY <1>0, <1>7, <1>a, <2>1, <2>2, CancelSays, SaysMore
<1>8. CASE m.type = "PARTY_LEAVE" /\ Leave(w, m.char)
  <2>1. m.char \in Character /\ "conn" \in DOMAIN m
    BY <1>8, FromWorldFacts
  <2>2. Next
    BY <1>8, <2>1 DEF Next, OnPacket
  <2> QED
    BY <1>8, <1>a, <2>1, <2>2, LeaveSays
<1>9. CASE m.type = "PARTY_CHANGE_LEADER" /\ ChangeLeader(w, m.id, m.char)
  <2>1. m.char \in Character /\ m.id \in PartyIndex
    BY <1>9, FromWorldFacts
  <2>2. Next
    BY <1>9, <2>1 DEF Next, OnPacket
  <2> QED
    BY <1>0, <1>9, <1>a, <2>1, <2>2, LeaderSays, SaysMore
<1> HIDE DEF Goal
<1> QED
  BY <1>1, <1>2, <1>3, <1>4, <1>5, <1>6, <1>7, <1>8, <1>9 DEF Handle, Goal

\* What such a step does to the roster, the invitations and the announcements.
LEMMA PartyStep ==
    ASSUME IInv, Next \/ Ignore
    PROVE  IInv' /\ RosterStep /\ Announces
<1>1. RosterInv /\ InviteInv
  BY DEF IInv
<1>2. CASE Next
  <2>1. RosterStep /\ InviteStep /\ Announces
    BY <1>1, <1>2, NextRosterStep, NextInviteStep, NextAnnounces
  <2> QED
    BY <1>1, <2>1, RosterStepInductive, InviteStepInductive DEF IInv
<1>3. CASE Ignore
  <2>1. RosterStep /\ InviteStep
    BY <1>3 DEF Ignore, RosterStep, InviteStep, roster
  <2>2. Silent
    <3>1. Notes(sent')
      BY <1>3 DEF Ignore, Notes
    <3> QED
      BY <1>3, <3>1, UntouchedParties DEF Ignore, Silent
  <2> QED
    BY <1>1, <2>1, <2>2, RosterStepInductive, InviteStepInductive DEF IInv, Announces
<1> QED
  BY <1>2, <1>3

LEMMA DispatchTyped ==
    ASSUME NEW k, Dispatch(k), down \in [World -> Seq(Delivery)],
           Says(sent', Answer \cup Notice),
           k \in Conn \/ (k = None /\ Says(sent', Notice))
    PROVE  /\ down' \in [World -> Seq(Delivery)]
           /\ \A v \in World : down'[v] = down[v] \o Sent(v, k)
<1>1. \A v \in World : down'[v] = down[v] \o Sent(v, k)
  BY DEF Dispatch, Sent
<1>2. down' = [v \in World |-> down[v] \o Sent(v, k)]
  BY DEF Dispatch, Sent
<1>3. ASSUME NEW v \in World PROVE down[v] \o Sent(v, k) \in Seq(Delivery)
  <2>1. PICK S : sent' \in Seq(S)
    BY SaysSeq
  <2> DEFINE D == {[packet |-> sent'[i], conn |-> k] : i \in Passing(v)}
  <2>2. Sent(v, k) \in Seq(D)
    BY <2>1, SentFacts
  <2>3. ASSUME NEW i \in Passing(v) PROVE [packet |-> sent'[i], conn |-> k] \in Delivery
    <3>1. i \in DOMAIN sent' /\ sent'[i].type \in Effective
      BY DEF Passing
    <3>2. CASE k \in Conn
      <4>1. sent'[i] \in Answer \cup Notice
        BY <3>1, SaysSeq
      <4> QED
        BY <3>2, <4>1 DEF Delivery
    <3>3. CASE k = None /\ Says(sent', Notice)
      <4>1. sent'[i] \in Notice
        BY <3>1, <3>3, SaysSeq
      <4> QED
        BY <3>3, <4>1 DEF Delivery
    <3> QED
      BY <3>2, <3>3
  <2>4. D \subseteq Delivery
    BY <2>3
  <2>5. Sent(v, k) \in Seq(Delivery)
    BY <2>2, <2>4, SeqMonotonic
  <2> QED
    BY <2>5, ConcatProperties
<1> QED
  BY <1>1, <1>2, <1>3

-----------------------------------------------------------------------------
(* The types, by who holds what.                                           *)

UpTypes == DOMAIN up = World /\ \A w \in World : up[w] \in Seq(FromWorld(w))
DownTypes == down \in [World -> Seq(Delivery)]
ClientTypes == opened \subseteq Conn /\ client \in [Conn -> Character \cup {None}]
AvatarTypes == avatar \in [World -> [Character -> PartyIndex \cup {NullID, None}]]
WorldTypes ==
    /\ replica \in [World -> [PartyIndex -> Party \cup {None}]]
    /\ mapped \in [World -> [Character -> PartyIndex \cup {None}]]
    /\ health \in [World -> {"running", "null dereference", "assert(Party)",
                             "assert(!DictionaryLookup)"}]

LEMMA TypesOf ==
    SystemTypeOK <=> UpTypes /\ DownTypes /\ ClientTypes /\ AvatarTypes /\ WorldTypes
  BY DEF SystemTypeOK, UpTypes, DownTypes, ClientTypes, AvatarTypes, WorldTypes

LEMMA SendTyped ==
    ASSUME UpTypes, NEW w \in World, NEW m \in FromWorld(w), Send(w, m)
    PROVE  UpTypes'
<1>1. up[w] \in Seq(FromWorld(w))
  BY DEF UpTypes
<1>2. Append(up[w], m) \in Seq(FromWorld(w))
  BY <1>1, AppendProperties
<1>3. DOMAIN up' = World /\ \A v \in World : up'[v] = IF v = w THEN Append(up[w], m) ELSE up[v]
  BY DEF Send, UpTypes
<1> QED
  BY <1>2, <1>3 DEF UpTypes

\* What a client makes its world server send.
LEMMA ClientTyped ==
    ASSUME SystemTypeOK, NEW k \in Conn,
           (\E c \in Character : Enter(k, c)) \/ Deinitialize(k) \/ Disconnect(k) \/ Request(k)
    PROVE  SystemTypeOK' /\ UNCHANGED <<server, down, worlds>>
<1>1. UpTypes /\ DownTypes /\ ClientTypes /\ AvatarTypes /\ WorldTypes
  BY TypesOf
<1>2. Home[k] \in World
  BY HomeAssumption
<1>3. client[k] # None => client[k] \in Character
  BY <1>1 DEF ClientTypes
<1>4. ASSUME NEW c \in Character, Enter(k, c) PROVE SystemTypeOK'
  <2> DEFINE m == [type |-> "CLIENT_CONNECT", conn |-> k, char |-> c]
  <2>1. m \in FromWorld(Home[k])
    BY DEF FromWorld
  <2>2. Send(Home[k], m)
    BY <1>4 DEF Enter
  <2>3. UpTypes'
    BY <1>1, <1>2, <2>1, <2>2, SendTyped
  <2>4. ClientTypes' /\ AvatarTypes'
    BY <1>1, <1>2, <1>4 DEF Enter, ClientTypes, AvatarTypes
  <2>5. DownTypes' /\ WorldTypes'
    BY <1>1, <1>4 DEF Enter, worlds, DownTypes, WorldTypes
  <2> QED
    BY <2>3, <2>4, <2>5 DEF SystemTypeOK, UpTypes, DownTypes, ClientTypes, AvatarTypes, WorldTypes
<1>5. CASE Deinitialize(k)
  <2>1. AvatarTypes'
    BY <1>1, <1>2, <1>3, <1>5 DEF Deinitialize, Playing, AvatarTypes
  <2>2. UpTypes' /\ DownTypes' /\ ClientTypes' /\ WorldTypes'
    BY <1>1, <1>5 DEF Deinitialize, worlds, UpTypes, DownTypes, ClientTypes, WorldTypes
  <2> QED
    BY <1>5, <2>1, <2>2
       DEF SystemTypeOK, UpTypes, DownTypes, ClientTypes, AvatarTypes, WorldTypes, Deinitialize
<1>6. CASE Disconnect(k)
  <2> DEFINE m == [type |-> "CLIENT_DISCONNECT", char |-> client[k]]
  <2>1. m \in FromWorld(Home[k])
    BY <1>3, <1>6 DEF FromWorld, Disconnect
  <2>2. Send(Home[k], m)
    BY <1>6 DEF Disconnect
  <2>3. UpTypes'
    BY <1>1, <1>2, <2>1, <2>2, SendTyped
  <2>4. ClientTypes' /\ AvatarTypes'
    BY <1>1, <1>2, <1>6 DEF Disconnect, ClientTypes, AvatarTypes
  <2>5. DownTypes' /\ WorldTypes'
    BY <1>1, <1>6 DEF Disconnect, worlds, DownTypes, WorldTypes
  <2> QED
    BY <1>6, <2>3, <2>4, <2>5
       DEF SystemTypeOK, UpTypes, DownTypes, ClientTypes, AvatarTypes, WorldTypes, Disconnect
<1>7. CASE Request(k)
  <2>1. PICK m \in Requested(k) : Send(Home[k], m)
    BY <1>7 DEF Request
  <2>2. client[k] \in Character
    BY <1>3, <1>7 DEF Request, Playing
  <2> DEFINE src == [char |-> client[k], world |-> Home[k]]
  <2>3. src \in [char : Character, world : {Home[k]}]
    BY <2>2
  <2>4. m \in FromWorld(Home[k])
    <3> HIDE DEF src
    <3>1. CASE m \in {[type |-> "PARTY_INVITE", source |-> src, target |-> tgt] : tgt \in Located}
      BY <2>3, <3>1 DEF FromWorld
    <3>2. CASE m \in {[type |-> "PARTY_INVITE_CONFIRM", conn |-> k, char |-> client[k],
                       inviter |-> d, accept |-> yes] : d \in Character, yes \in BOOLEAN}
      BY <2>2, <3>2 DEF FromWorld
    <3>3. CASE m \in {[type |-> "PARTY_INVITE_CANCEL", char |-> client[k], target |-> d]
                        : d \in Character}
      BY <2>2, <3>3 DEF FromWorld
    <3>4. CASE m = [type |-> "PARTY_LEAVE", conn |-> k, char |-> client[k]]
      BY <2>2, <3>4 DEF FromWorld
    <3>5. CASE m \in {[type |-> "PARTY_CHANGE_LEADER", id |-> p, char |-> d] :
                         p \in {q \in PartyIndex : Leads(k, q)}, d \in Character}
      BY <3>5 DEF FromWorld
    <3> QED
      BY <2>1, <3>1, <3>2, <3>3, <3>4, <3>5 DEF Requested, src
  <2>5. UpTypes'
    BY <1>1, <1>2, <2>1, <2>4, SendTyped
  <2>6. DownTypes' /\ ClientTypes' /\ AvatarTypes' /\ WorldTypes'
    BY <1>1, <1>7 DEF Request, worlds, DownTypes, ClientTypes, AvatarTypes, WorldTypes
  <2> QED
    BY <1>7, <2>5, <2>6
       DEF SystemTypeOK, UpTypes, DownTypes, ClientTypes, AvatarTypes, WorldTypes, Request
<1> QED
  BY <1>4, <1>5, <1>6, <1>7 DEF Enter, Deinitialize, Disconnect, Request

-----------------------------------------------------------------------------
(* What a world server does with a packet.                                 *)

\* The blocks taken in the pool of world server w.
Held(w) == {p \in PartyIndex : replica[w][p] # None}

\* Handling m keeps the types, leaves other worlds alone, and takes or frees a block of
\* w's pool as m says if m is in turn and w survives.
Handles(w, m) ==
    /\ UpTypes' /\ AvatarTypes' /\ WorldTypes'
    /\ \A v \in World \ {w} : replica'[v] = replica[v] /\ health'[v] = health[v]
    /\ Running(w)' => \A C \in SUBSET PartyIndex : Turn(m, Held(w), C) => Held(w)' = C

LEMMA DeliveryFacts ==
    ASSUME NEW d \in Delivery
    PROVE  LET m == d.packet IN
           /\ m.type \in {"CREATE_PARTY", "DESTROY_PARTY", "PARTY_INFO"} =>
                m.id \in PartyIndex /\ m.party \in Party
           /\ m.type = "PARTY_CHANGE_LEADER" => m.id \in PartyIndex /\ m.char \in Character
           /\ m.type \in {"PARTY_LEAVE_ACK", "PARTY_INVITE_CONFIRM", "CLIENT_CONNECT"} => d.conn \in Conn
           /\ m.type = "PARTY_INVITE_CONFIRM" /\ m.success => m.id \in PartyIndex
           /\ m.type = "CLIENT_CONNECT" => m.id \in PartyIndex \cup {None}
           /\ m.type = "PARTY_INVITE" => m.source \in Located /\ m.target \in Located
<1> DEFINE m == d.packet
<1>1. \/ m \in Answer /\ d.conn \in Conn
      \/ m \in Notice
  BY DEF Delivery
<1> HIDE DEF m
<1>2. CASE m \in Answer /\ d.conn \in Conn
  BY <1>2 DEF Answer, m
<1>3. CASE m \in Notice
  BY <1>3 DEF Notice, Lifecycle, m
<1> QED
  BY <1>1, <1>2, <1>3

\* A server that dies handles the packet whatever it is.
LEMMA DiesHandling ==
    ASSUME SystemTypeOK, NEW w \in World, NEW m,
           NEW how \in {"null dereference", "assert(Party)", "assert(!DictionaryLookup)"},
           WorldDies(w, how)
    PROVE  Handles(w, m)
<1>1. UpTypes /\ AvatarTypes /\ WorldTypes
  BY TypesOf
<1>2. health'[w] = how /\ \A v \in World \ {w} : health'[v] = health[v]
  BY <1>1 DEF WorldDies, WorldTypes
<1>3. WorldTypes'
  BY <1>1 DEF WorldDies, WorldTypes
<1>4. UpTypes' /\ AvatarTypes' /\ UNCHANGED replica
  BY <1>1 DEF WorldDies, UpTypes, AvatarTypes
<1>5. ~Running(w)'
  BY <1>2 DEF Running
<1> QED
  BY <1>2, <1>3, <1>4, <1>5 DEF Handles

\* A packet that is no creation or destruction and leaves the same blocks taken.
LEMMA QuietHandling ==
    ASSUME NEW w \in World, NEW m, m.type \notin Lifecycle,
           UpTypes', AvatarTypes', WorldTypes', Held(w)' = Held(w),
           \A v \in World \ {w} : replica'[v] = replica[v] /\ health'[v] = health[v]
    PROVE  Handles(w, m)
  BY DEF Handles, Turn, Lifecycle

\* The record in a block of a replica, and what becomes of the pool when one is replaced.
LEMMA ReplicaRecord ==
    ASSUME WorldTypes, NEW w \in World, NEW p \in PartyIndex, replica[w][p] # None
    PROVE  replica[w][p] \in Party
<1>1. replica[w] \in [PartyIndex -> Party \cup {None}]
  BY DEF WorldTypes
<1>2. replica[w][p] \in Party \cup {None}
  BY <1>1
<1> QED
  BY <1>2

LEMMA ReplicaUpdate ==
    ASSUME WorldTypes, NEW w \in World, NEW p \in PartyIndex, NEW rec \in Party,
           replica' = [replica EXCEPT ![w][p] = rec]
    PROVE  /\ replica' \in [World -> [PartyIndex -> Party \cup {None}]]
           /\ \A v \in World \ {w} : replica'[v] = replica[v]
           /\ Held(w)' = Held(w) \cup {p}
<1>1. rec # None
  BY NoneAssumption
<1>2. replica \in [World -> [PartyIndex -> Party \cup {None}]]
  BY DEF WorldTypes
<1>3. /\ replica'[w] = [replica[w] EXCEPT ![p] = rec]
      /\ \A v \in World \ {w} : replica'[v] = replica[v]
      /\ replica' = [v \in World |-> IF v = w THEN [replica[w] EXCEPT ![p] = rec] ELSE replica[v]]
  BY <1>2
<1>4. [replica[w] EXCEPT ![p] = rec] \in [PartyIndex -> Party \cup {None}]
  BY <1>2
<1>5. replica' \in [World -> [PartyIndex -> Party \cup {None}]]
  BY <1>2, <1>3, <1>4
<1>6. Held(w)' = Held(w) \cup {p}
  BY <1>1, <1>2, <1>3 DEF Held
<1> QED
  BY <1>3, <1>5, <1>6

LEMMA CreateHandled ==
    ASSUME SystemTypeOK, NEW w \in World, NEW m, m.type = "CREATE_PARTY",
           m.id \in PartyIndex, m.party \in Party, OnCreateParty(w, m.id, m.party)
    PROVE  Handles(w, m)
<1>1. UpTypes /\ AvatarTypes /\ WorldTypes
  BY TypesOf
<1> DEFINE p == m.id
           kept == IF replica[w][p] = None THEN m.party ELSE replica[w][p]
<1>2. CASE WorldDies(w, "assert(!DictionaryLookup)")
  BY <1>2, DiesHandling
<1>3. CASE /\ replica' = [replica EXCEPT ![w][p] = kept]
           /\ mapped' = IF replica[w][p] = None
                          THEN [mapped EXCEPT ![w] =
                                  [c \in Character |-> IF c \in Chars(m.party) THEN p ELSE mapped[w][c]]]
                          ELSE mapped
           /\ Adopt(w, Chars(kept), p)
           /\ UNCHANGED <<up, health>>
  <2>1. kept \in Party /\ kept # None
    BY <1>1, ReplicaRecord, NoneAssumption
  <2> HIDE DEF kept
  <2>2. replica' \in [World -> [PartyIndex -> Party \cup {None}]] /\ health' = health /\ up' = up
    BY <1>1, <1>3, <2>1, ReplicaUpdate
  <2>3. mapped' \in [World -> [Character -> PartyIndex \cup {None}]]
    BY <1>1, <1>3 DEF WorldTypes
  <2>4. AvatarTypes'
    BY <1>1, <1>3 DEF AvatarTypes, Adopt
  <2>5. UpTypes' /\ WorldTypes'
    BY <1>1, <2>2, <2>3 DEF UpTypes, WorldTypes
  <2>6. \A v \in World \ {w} : replica'[v] = replica[v] /\ health'[v] = health[v]
    BY <1>1, <1>3, <2>1, ReplicaUpdate
  <2>7. Held(w)' = Held(w) \cup {p}
    BY <1>1, <1>3, <2>1, ReplicaUpdate
  <2> QED
    BY <2>4, <2>5, <2>6, <2>7 DEF Handles, Turn
<1> QED
  BY <1>2, <1>3 DEF OnCreateParty

LEMMA DestroyHandled ==
    ASSUME SystemTypeOK, NEW w \in World, NEW m, m.type = "DESTROY_PARTY",
           m.id \in PartyIndex, OnDestroyParty(w, m.id, m.party)
    PROVE  Handles(w, m)
<1>1. UpTypes /\ AvatarTypes /\ WorldTypes
  BY TypesOf
<1>2. replica' \in [World -> [PartyIndex -> Party \cup {None}]]
  BY <1>1 DEF WorldTypes, OnDestroyParty
<1>3. mapped' \in [World -> [Character -> PartyIndex \cup {None}]]
  BY <1>1 DEF WorldTypes, OnDestroyParty
<1>4. UpTypes' /\ AvatarTypes' /\ WorldTypes'
  BY <1>1, <1>2, <1>3 DEF UpTypes, AvatarTypes, WorldTypes, OnDestroyParty
<1>5. \A v \in World \ {w} : replica'[v] = replica[v] /\ health'[v] = health[v]
  BY <1>1 DEF WorldTypes, OnDestroyParty
<1>6. Held(w)' = Held(w) \ {m.id}
  BY <1>1 DEF Held, WorldTypes, OnDestroyParty
<1> QED
  BY <1>4, <1>5, <1>6 DEF Handles, Turn

\* A taken block gets another record, or nothing changes.
LEMMA RewriteHandled ==
    ASSUME SystemTypeOK, NEW w \in World, NEW m, m.type \notin Lifecycle,
           \/ replica' = replica
           \/ \E p \in PartyIndex, rec \in Party :
                 replica[w][p] # None /\ replica' = [replica EXCEPT ![w][p] = rec],
           UpTypes', AvatarTypes',
           mapped' \in [World -> [Character -> PartyIndex \cup {None}]], health' = health
    PROVE  Handles(w, m)
<1>1. WorldTypes
  BY TypesOf
<1>2. /\ replica' \in [World -> [PartyIndex -> Party \cup {None}]]
      /\ \A v \in World \ {w} : replica'[v] = replica[v]
      /\ Held(w)' = Held(w)
  <2>1. CASE replica' = replica
    BY <1>1, <2>1 DEF WorldTypes, Held
  <2>2. CASE \E p \in PartyIndex, rec \in Party :
               replica[w][p] # None /\ replica' = [replica EXCEPT ![w][p] = rec]
    <3>1. PICK p \in PartyIndex, rec \in Party :
            replica[w][p] # None /\ replica' = [replica EXCEPT ![w][p] = rec]
      BY <2>2
    <3>2. p \in Held(w)
      BY <3>1 DEF Held
    <3> QED
      <4>1. Held(w)' = Held(w) \cup {p}
        BY <1>1, <3>1, ReplicaUpdate
      <4>2. /\ replica' \in [World -> [PartyIndex -> Party \cup {None}]]
            /\ \A v \in World \ {w} : replica'[v] = replica[v]
        BY <1>1, <3>1, ReplicaUpdate
      <4>3. Held(w)' = Held(w)
        BY <3>2, <4>1
      <4> QED
        BY <4>2, <4>3
  <2> QED
    BY <2>1, <2>2
<1>3. WorldTypes'
  BY <1>1, <1>2 DEF WorldTypes
<1> QED
  BY <1>2, <1>3, QuietHandling

LEMMA InfoHandled ==
    ASSUME SystemTypeOK, NEW w \in World, NEW m, m.type = "PARTY_INFO",
           m.id \in PartyIndex, m.party \in Party, OnPartyInfo(w, m.id, m.party)
    PROVE  Handles(w, m)
<1>1. UpTypes /\ AvatarTypes /\ WorldTypes
  BY TypesOf
<1>2. UpTypes' /\ AvatarTypes' /\ health' = health
      /\ mapped' \in [World -> [Character -> PartyIndex \cup {None}]]
  BY <1>1 DEF UpTypes, AvatarTypes, WorldTypes, OnPartyInfo
<1>3. CASE replica[w][m.id] = None
  <2>1. replica' = replica
    BY <1>1, <1>3 DEF WorldTypes, OnPartyInfo
  <2> QED
    BY <1>2, <2>1, RewriteHandled DEF Lifecycle
<1>4. CASE replica[w][m.id] # None
  <2>1. replica' = [replica EXCEPT ![w][m.id] = m.party]
    BY <1>1, <1>4 DEF WorldTypes, OnPartyInfo
  <2> QED
    BY <1>2, <1>4, <2>1, RewriteHandled DEF Lifecycle
<1> QED
  BY <1>3, <1>4

LEMMA LeaderHandled ==
    ASSUME SystemTypeOK, NEW w \in World, NEW m, m.type = "PARTY_CHANGE_LEADER",
           m.id \in PartyIndex, m.char \in Character, OnChangeLeader(w, m.id, m.char)
    PROVE  Handles(w, m)
<1>1. UpTypes /\ AvatarTypes /\ WorldTypes
  BY TypesOf
<1>2. UpTypes' /\ AvatarTypes' /\ health' = health
      /\ mapped' \in [World -> [Character -> PartyIndex \cup {None}]]
  BY <1>1 DEF UpTypes, AvatarTypes, WorldTypes, OnChangeLeader
<1> DEFINE rec == [replica[w][m.id] EXCEPT !.leader = m.char]
<1>3. \/ replica' = replica
      \/ replica[w][m.id] # None /\ replica' = [replica EXCEPT ![w][m.id] = rec]
  BY DEF OnChangeLeader
<1>4. replica[w][m.id] # None => rec \in Party
  <2> SUFFICES ASSUME replica[w][m.id] # None PROVE rec \in Party
    OBVIOUS
  <2>1. replica[w][m.id] \in Party
    BY <1>1, ReplicaRecord
  <2> QED
    BY <2>1 DEF Party
<1> HIDE DEF rec
<1> QED
  BY <1>2, <1>3, <1>4, RewriteHandled DEF Lifecycle

LEMMA LeaveAckHandled ==
    ASSUME SystemTypeOK, NEW w \in World, NEW m, m.type = "PARTY_LEAVE_ACK",
           NEW k \in Conn, OnLeaveAck(w, k, m.result)
    PROVE  Handles(w, m)
<1>1. UpTypes /\ ClientTypes /\ AvatarTypes /\ WorldTypes
  BY TypesOf
<1> DEFINE c == client[k]
           p == mapped[w][c]
           lost == p # None /\ replica[w][p] = None
           place == IF p = None \/ lost THEN {} ELSE Slot(replica[w][p], c)
<1>2. CASE UNCHANGED <<up, avatar, worlds>>
  <2>1. UpTypes' /\ AvatarTypes' /\ mapped' = mapped /\ health' = health /\ replica' = replica
    BY <1>1, <1>2 DEF UpTypes, AvatarTypes, worlds
  <2> QED
    BY <1>1, <2>1, RewriteHandled DEF Lifecycle, WorldTypes
<1>3. CASE /\ Playing(k)
           /\ \/ /\ \E i \in place : replica' = [replica EXCEPT ![w][p] = WithoutSlot(@, i)]
                 /\ mapped' = [mapped EXCEPT ![w][c] = None]
              \/ /\ place = {}
                 /\ UNCHANGED <<replica, mapped>>
           /\ avatar' = IF lost THEN avatar ELSE [avatar EXCEPT ![w][c] = NullID]
           /\ health' = IF lost THEN [health EXCEPT ![w] = "null dereference"] ELSE health
           /\ UNCHANGED up
  <2>1. c \in Character
    BY <1>1, <1>3 DEF ClientTypes, Playing
  <2>2. p \in PartyIndex \cup {None}
    BY <1>1, <2>1 DEF WorldTypes
  <2>3. CASE lost
    <3>1. WorldDies(w, "null dereference")
      BY <1>3, <2>3 DEF WorldDies
    <3> QED
      BY <3>1, DiesHandling
  <2>4. CASE ~lost
    <3>1. \/ replica' = replica
          \/ \E q \in PartyIndex, rec \in Party :
                replica[w][q] # None /\ replica' = [replica EXCEPT ![w][q] = rec]
      <4>1. CASE replica' = replica
        BY <4>1
      <4>2. CASE \E i \in place : replica' = [replica EXCEPT ![w][p] = WithoutSlot(@, i)]
        <5>1. PICK i \in place : replica' = [replica EXCEPT ![w][p] = WithoutSlot(@, i)]
          BY <4>2
        <5>2. p \in PartyIndex /\ replica[w][p] # None /\ i \in DOMAIN replica[w][p].members
          BY <2>2, <2>4, <5>1 DEF Slot
        <5>3. replica[w][p] \in Party
          BY <1>1, <5>2, ReplicaRecord
        <5> DEFINE rec == WithoutSlot(replica[w][p], i)
        <5>4. rec \in Party
          <6>1. RemoveAt(replica[w][p].members, i) \in Seq(Member)
            BY <5>2, <5>3, RemoveAtFacts, LenProperties DEF Party
          <6> QED
            BY <5>3, <6>1 DEF WithoutSlot, Party
        <5>5. replica' = [replica EXCEPT ![w][p] = rec]
          BY <5>1
        <5> HIDE DEF rec
        <5> QED
          BY <5>2, <5>4, <5>5
      <4> QED
        BY <1>3, <4>1, <4>2
    <3>2. mapped' \in [World -> [Character -> PartyIndex \cup {None}]]
      <4>1. mapped' = mapped \/ mapped' = [mapped EXCEPT ![w][c] = None]
        BY <1>3
      <4> HIDE DEF c, p, lost, place
      <4>2. mapped \in [World -> [Character -> PartyIndex \cup {None}]]
        BY <1>1 DEF WorldTypes
      <4>3. [mapped[w] EXCEPT ![c] = None] \in [Character -> PartyIndex \cup {None}]
        BY <2>1, <4>2
      <4>4. CASE mapped' = [mapped EXCEPT ![w][c] = None]
        <5>1. mapped' = [v \in World |-> IF v = w THEN [mapped[w] EXCEPT ![c] = None] ELSE mapped[v]]
          BY <4>2, <4>4
        <5> QED
          BY <4>2, <4>3, <5>1
      <4> QED
        BY <4>1, <4>2, <4>4
    <3>3. AvatarTypes'
      BY <1>1, <1>3, <2>1, <2>4 DEF AvatarTypes
    <3>4. UpTypes' /\ health' = health
      BY <1>1, <1>3, <2>4 DEF UpTypes
    <3> QED
      BY <3>1, <3>2, <3>3, <3>4, RewriteHandled DEF Lifecycle
  <2> QED
    BY <2>3, <2>4
<1> QED
  BY <1>2, <1>3 DEF OnLeaveAck

LEMMA ConfirmHandled ==
    ASSUME SystemTypeOK, NEW w \in World, NEW m, m.type = "PARTY_INVITE_CONFIRM",
           m.success => m.id \in PartyIndex, NEW k \in Conn,
           OnConfirm(w, k, m.char, m.success, m.id)
    PROVE  Handles(w, m)
<1>1. UpTypes /\ ClientTypes /\ AvatarTypes /\ WorldTypes
  BY TypesOf
<1>2. UpTypes' /\ replica' = replica /\ mapped' = mapped /\ health' = health
  BY <1>1 DEF UpTypes, OnConfirm, worlds
<1>3. AvatarTypes'
  <2>1. CASE avatar' = avatar
    BY <1>1, <2>1 DEF AvatarTypes
  <2>2. CASE Playing(k) /\ m.success /\ avatar' = [avatar EXCEPT ![w][client[k]] = m.id]
    <3>1. client[k] \in Character
      BY <1>1, <2>2 DEF ClientTypes, Playing
    <3> QED
      BY <1>1, <2>2, <3>1 DEF AvatarTypes
  <2> QED
    BY <2>1, <2>2 DEF OnConfirm
<1> QED
  BY <1>1, <1>2, <1>3, RewriteHandled DEF Lifecycle, WorldTypes

LEMMA ConnectHandled ==
    ASSUME SystemTypeOK, NEW w \in World, NEW m, m.type = "CLIENT_CONNECT",
           m.id \in PartyIndex \cup {None}, NEW k \in Conn, OnConnectReply(w, k, m.id)
    PROVE  Handles(w, m)
<1>1. UpTypes /\ ClientTypes /\ AvatarTypes /\ WorldTypes
  BY TypesOf
<1>2. CASE WorldDies(w, "null dereference")
  BY <1>2, DiesHandling
<1>3. CASE /\ UNCHANGED <<up, worlds>>
           /\ \/ avatar' = avatar
              \/ /\ Playing(k)
                 /\ avatar' = [avatar EXCEPT ![w][client[k]] = IF m.id = None THEN NullID ELSE m.id]
  <2>1. UpTypes' /\ replica' = replica /\ mapped' = mapped /\ health' = health
    BY <1>1, <1>3 DEF UpTypes, worlds
  <2>2. Playing(k) => client[k] \in Character
    BY <1>1 DEF ClientTypes, Playing
  <2>3. AvatarTypes'
    BY <1>1, <1>3, <2>2 DEF AvatarTypes
  <2> QED
    BY <1>1, <2>1, <2>3, RewriteHandled DEF Lifecycle, WorldTypes
<1> QED
  BY <1>2, <1>3 DEF OnConnectReply

LEMMA InviteHandled ==
    ASSUME SystemTypeOK, NEW w \in World, NEW m, m.type = "PARTY_INVITE",
           m.source \in Located, m.target \in Located, OnInvite(w, m.source, m.target)
    PROVE  Handles(w, m)
<1>1. UpTypes /\ ClientTypes /\ AvatarTypes /\ WorldTypes
  BY TypesOf
<1>2. PICK shown \in BOOLEAN :
        Send(w, [type |-> "PARTY_INVITE_ACK", source |-> m.source, success |-> shown,
                 target |-> IF shown THEN [m.target EXCEPT !.world = w] ELSE m.target])
  BY DEF OnInvite
<1> DEFINE tgt == IF shown THEN [m.target EXCEPT !.world = w] ELSE m.target
           n == [type |-> "PARTY_INVITE_ACK", source |-> m.source, success |-> shown, target |-> tgt]
<1>3. tgt \in Located
  BY DEF Located
<1>4. n \in FromWorld(w)
  <2> HIDE DEF tgt
  <2> QED
    BY <1>3 DEF FromWorld
<1>5. Send(w, n)
  BY <1>2
<1> HIDE DEF n
<1>6. UpTypes'
  BY <1>1, <1>4, <1>5, SendTyped
<1>7. AvatarTypes' /\ replica' = replica /\ mapped' = mapped /\ health' = health
  BY <1>1 DEF AvatarTypes, OnInvite, worlds
<1> QED
  BY <1>1, <1>6, <1>7, RewriteHandled DEF Lifecycle, WorldTypes

LEMMA PacketHandled ==
    ASSUME SystemTypeOK, NEW w \in World, NEW d \in Delivery, OnP2W(w, d.conn, d.packet)
    PROVE  Handles(w, d.packet)
  BY DeliveryFacts, CreateHandled, DestroyHandled, InfoHandled, LeaderHandled, LeaveAckHandled,
     ConfirmHandled, ConnectHandled, InviteHandled
     DEF OnP2W

-----------------------------------------------------------------------------
(* The theorems.                                                           *)

\* The packets on their way to a world server that runs lead its pool to the party server's.
InTurn == \A w \in World : Running(w) => LeadsTo(down[w], Held(w), Reserved)

SysInv == IInv /\ SystemTypeOK /\ InTurn

LEMMA InitHolds == ASSUME InitSystem PROVE SysInv
<1>1. IInv
  BY DEF InitSystem, Init, IInv, RosterInv, RosterType, RosterConsistent, DictionaryListed,
         ListedInDictionary, MembersWellFormed, InviteInv, InviteType, InvitesIndexed
<1>2. SystemTypeOK
  <2>1. \A S : <<>> \in Seq(S)
    OBVIOUS
  <2>2. UpTypes /\ DownTypes
    BY <2>1 DEF InitSystem, UpTypes, DownTypes
  <2>3. ClientTypes /\ AvatarTypes /\ WorldTypes
    BY DEF InitSystem, ClientTypes, AvatarTypes, WorldTypes
  <2> QED
    BY <2>2, <2>3, TypesOf
<1>3. InTurn
  <2>1. Reserved = {}
    BY DEF InitSystem, Init, Reserved
  <2>2. \A w \in World : Held(w) = {} /\ down[w] = <<>>
    BY DEF InitSystem, Held
  <2> QED
    BY <2>1, <2>2, NoPacketsLeadNowhere DEF InTurn
<1> QED
  BY <1>1, <1>2, <1>3 DEF SysInv

\* The party server's steps, with the queues they fill.
LEMMA ServerHolds ==
    ASSUME SysInv, NEW k, Dispatch(k), Next \/ Ignore,
           Says(sent', Answer \cup Notice),
           k \in Conn \/ (k = None /\ Says(sent', Notice)),
           UpTypes', UNCHANGED <<opened, client, avatar, worlds>>
    PROVE  SysInv' /\ RosterStep
<1>1. IInv /\ InTurn /\ DownTypes /\ ClientTypes /\ AvatarTypes /\ WorldTypes
  BY TypesOf DEF SysInv
<1>2. IInv' /\ RosterStep /\ Announces
  BY <1>1, PartyStep
<1>3. DownTypes' /\ \A v \in World : down'[v] = down[v] \o Sent(v, k)
  BY <1>1, DispatchTyped DEF DownTypes
<1>4. ClientTypes' /\ AvatarTypes' /\ WorldTypes'
  BY <1>1 DEF ClientTypes, AvatarTypes, WorldTypes, worlds
<1>5. ASSUME NEW v \in World, Running(v)' PROVE LeadsTo(down[v], Held(v), Reserved)'
  <2>1. Running(v) /\ Held(v)' = Held(v)
    BY <1>5 DEF Running, Held, worlds
  <2>2. PICK S : sent' \in Seq(S)
    BY SaysSeq
  <2>3. LeadsTo(Sent(v, k), Reserved, Reserved')
    BY <1>2, <2>1, <2>2, AnnouncedPath
  <2>4. LeadsTo(down[v], Held(v), Reserved)
    BY <1>1, <2>1 DEF InTurn
  <2>5. down[v] \in Seq(Delivery)
    BY <1>1 DEF DownTypes
  <2> DEFINE T == {[packet |-> sent'[i], conn |-> k] : i \in Passing(v)}
  <2>6. Sent(v, k) \in Seq(T)
    BY <2>2, SentFacts
  <2> HIDE DEF T
  <2>7. LeadsTo(down[v] \o Sent(v, k), Held(v), Reserved')
    BY <2>3, <2>4, <2>5, <2>6, PathsJoin
  <2>8. LeadsTo(down'[v], Held(v)', Reserved')
    BY <1>3, <2>1, <2>7
  <2> QED
    BY <2>8 DEF LeadsTo, Path
<1>6. InTurn'
  BY <1>5 DEF InTurn
<1>7. SystemTypeOK'
  BY <1>3, <1>4 DEF SystemTypeOK, UpTypes, DownTypes, ClientTypes, AvatarTypes, WorldTypes
<1> QED
  BY <1>2, <1>6, <1>7 DEF SysInv

LEMMA ServeHolds ==
    ASSUME SysInv, NEW w \in World, Serve(w)
    PROVE  SysInv' /\ RosterStep
<1>1. IInv /\ UpTypes
  BY TypesOf DEF SysInv
<1> DEFINE m == Head(up[w])
           k == IF "conn" \in DOMAIN m THEN m.conn ELSE None
<1>2. up[w] \in Seq(FromWorld(w)) /\ up[w] # <<>>
  BY <1>1 DEF UpTypes, Serve
<1>3. m \in FromWorld(w) /\ Tail(up[w]) \in Seq(FromWorld(w))
  BY <1>2, HeadTailProperties
<1>4. Handle(w, m) /\ Dispatch(k) /\ status = "running"
  BY DEF Serve
<1>5. UpTypes'
  <2>1. DOMAIN up' = World /\ \A v \in World : up'[v] = IF v = w THEN Tail(up[w]) ELSE up[v]
    BY <1>1 DEF Serve, UpTypes
  <2> QED
    BY <1>1, <1>3, <2>1 DEF UpTypes
<1>6. UNCHANGED <<opened, client, avatar, worlds>>
  BY DEF Serve
<1>7. "conn" \in DOMAIN m => m.conn \in Conn
  BY <1>3, FromWorldFacts
<1> HIDE DEF m
<1>8. /\ Next \/ Ignore
      /\ Says(sent', Answer \cup Notice)
      /\ "conn" \notin DOMAIN m => Says(sent', Notice)
  BY <1>1, <1>3, <1>4, HandleStep
<1>9. k \in Conn \/ (k = None /\ Says(sent', Notice))
  BY <1>7, <1>8
<1> HIDE DEF k
<1> QED
  BY <1>4, <1>5, <1>6, <1>8, <1>9, ServerHolds

LEMMA ServerTickHolds ==
    ASSUME SysInv, ServerTick
    PROVE  SysInv' /\ RosterStep
<1>1. RosterInv /\ InviteInv /\ UpTypes
  BY TypesOf DEF SysInv, IInv
<1>2. Tick /\ Next /\ Dispatch(None)
  BY DEF ServerTick, Next
<1>3. Says(sent', Notice) /\ Says(sent', Answer \cup Notice)
  <2>1. Notice \subseteq Answer \cup Notice
    OBVIOUS
  <2> QED
    BY <1>1, <1>2, <2>1, TickSays, SaysMore
<1>4. UpTypes' /\ UNCHANGED <<opened, client, avatar, worlds>>
  BY <1>1 DEF ServerTick, UpTypes
<1> QED
  BY <1>2, <1>3, <1>4, ServerHolds

\* Steps that leave the party server alone keep its invariant.
LEMMA ServerKept ==
    ASSUME IInv, UNCHANGED server
    PROVE  IInv' /\ RosterStep /\ Reserved' = Reserved
<1>1. RosterInv /\ InviteInv
  BY DEF IInv
<1>2. RosterStep /\ InviteStep
  BY DEF server, RosterStep, InviteStep, roster
<1> QED
  BY <1>1, <1>2, RosterStepInductive, InviteStepInductive DEF IInv, server, Reserved

LEMMA ReceiveHolds ==
    ASSUME SysInv, NEW w \in World, Receive(w)
    PROVE  SysInv' /\ RosterStep
<1>1. IInv /\ InTurn /\ SystemTypeOK /\ DownTypes /\ ClientTypes
  BY TypesOf DEF SysInv
<1> DEFINE q == down[w]
           d == Head(q)
<1>2. q \in Seq(Delivery) /\ q # <<>>
  BY <1>1 DEF DownTypes, Receive
<1>3. d \in Delivery /\ Tail(q) \in Seq(Delivery)
  BY <1>2, HeadTailProperties
<1>4. Handles(w, d.packet)
  BY <1>1, <1>3, PacketHandled DEF Receive
<1>5. IInv' /\ RosterStep /\ Reserved' = Reserved
  BY <1>1, ServerKept DEF Receive
<1>6. DownTypes' /\ \A v \in World : down'[v] = IF v = w THEN Tail(q) ELSE down[v]
  BY <1>1, <1>3 DEF Receive, DownTypes
<1>7. SystemTypeOK'
  <2>1. UpTypes' /\ AvatarTypes' /\ WorldTypes'
    BY <1>4 DEF Handles
  <2>2. ClientTypes'
    BY <1>1 DEF ClientTypes, Receive
  <2> QED
    BY <1>6, <2>1, <2>2 DEF SystemTypeOK, UpTypes, DownTypes, ClientTypes, AvatarTypes, WorldTypes
<1>8. PICK C \in SUBSET PartyIndex : Turn(d.packet, Held(w), C) /\ LeadsTo(Tail(q), C, Reserved)
  <2>1. LeadsTo(q, Held(w), Reserved)
    BY <1>1 DEF InTurn, Receive
  <2> HIDE DEF q
  <2> QED
    BY <1>2, <2>1, HeadLeads
<1>9. ASSUME NEW v \in World, Running(v)' PROVE LeadsTo(down'[v], Held(v)', Reserved')
  <2>1. CASE v = w
    <3>1. Held(w)' = C
      BY <1>4, <1>8, <1>9, <2>1 DEF Handles
    <3> QED
      BY <1>5, <1>6, <1>8, <2>1, <3>1
  <2>2. CASE v # w
    <3>1. Running(v) /\ Held(v)' = Held(v)
      BY <1>4, <1>9, <2>2 DEF Handles, Running, Held
    <3> QED
      BY <1>1, <1>5, <1>6, <2>2, <3>1 DEF InTurn
  <2> QED
    BY <2>1, <2>2
<1>10. InTurn'
  BY <1>9 DEF InTurn, LeadsTo, Path
<1> QED
  BY <1>5, <1>7, <1>10 DEF SysInv

LEMMA MobDiesHolds ==
    ASSUME SysInv, NEW w \in World, NEW c, MobDies(w, c)
    PROVE  SysInv' /\ RosterStep
<1>1. IInv /\ InTurn /\ SystemTypeOK /\ DownTypes /\ ClientTypes
  BY TypesOf DEF SysInv
<1>2. \A m : Handles(w, m)
  BY <1>1, DiesHandling DEF MobDies
<1>3. IInv' /\ RosterStep /\ Reserved' = Reserved
  BY <1>1, ServerKept DEF MobDies
<1>4. DownTypes' /\ ClientTypes' /\ down' = down
  BY <1>1 DEF MobDies, DownTypes, ClientTypes
<1>5. SystemTypeOK'
  BY <1>2, <1>4 DEF SystemTypeOK, UpTypes, DownTypes, ClientTypes, AvatarTypes, WorldTypes, Handles
<1>6. ASSUME NEW v \in World, Running(v)' PROVE LeadsTo(down'[v], Held(v)', Reserved')
  <2>1. v # w
    <3>1. health'[w] = "assert(Party)"
      BY <1>1, TypesOf DEF MobDies, WorldDies, WorldTypes
    <3> QED
      BY <1>6, <3>1 DEF Running
  <2>2. Running(v) /\ Held(v)' = Held(v)
    BY <1>2, <1>6, <2>1 DEF Handles, Running, Held
  <2> QED
    BY <1>1, <1>3, <1>4, <2>2 DEF InTurn
<1>7. InTurn'
  BY <1>6 DEF InTurn, LeadsTo, Path
<1> QED
  BY <1>3, <1>5, <1>7 DEF SysInv

\* A step that leaves the queues, the pools and the party server alone.
LEMMA PoolsKept ==
    ASSUME SysInv, UNCHANGED <<server, down, worlds>>, SystemTypeOK'
    PROVE  SysInv' /\ RosterStep
<1>1. IInv /\ InTurn
  BY DEF SysInv
<1>2. IInv' /\ RosterStep /\ Reserved' = Reserved
  BY <1>1, ServerKept
<1>3. ASSUME NEW v \in World, Running(v)' PROVE LeadsTo(down'[v], Held(v)', Reserved')
  <2>1. Running(v) /\ Held(v)' = Held(v) /\ down' = down
    BY <1>3 DEF worlds, Running, Held
  <2> QED
    BY <1>1, <1>2, <2>1 DEF InTurn
<1>4. InTurn'
  BY <1>3 DEF InTurn, LeadsTo, Path
<1> QED
  BY <1>2, <1>4 DEF SysInv

LEMMA NextHolds ==
    ASSUME SysInv, [NextSystem]_allVars
    PROVE  SysInv' /\ RosterStep
<1>1. SystemTypeOK
  BY DEF SysInv
<1>2. CASE UNCHANGED allVars
  <2>1. UNCHANGED <<server, down, worlds>>
    BY <1>2 DEF allVars
  <2>2. UpTypes' /\ DownTypes' /\ ClientTypes' /\ AvatarTypes' /\ WorldTypes'
    BY <1>1, <1>2, TypesOf DEF allVars, worlds, UpTypes, DownTypes, ClientTypes, AvatarTypes, WorldTypes
  <2>3. SystemTypeOK'
    BY <2>2 DEF SystemTypeOK, UpTypes, DownTypes, ClientTypes, AvatarTypes, WorldTypes
  <2> QED
    BY <2>1, <2>3, PoolsKept
<1>3. ASSUME NEW k \in Conn,
             (\E c \in Character : Enter(k, c)) \/ Deinitialize(k) \/ Disconnect(k) \/ Request(k)
      PROVE  SysInv' /\ RosterStep
  BY <1>1, <1>3, ClientTyped, PoolsKept
<1> QED
  BY <1>2, <1>3, ServeHolds, ReceiveHolds, MobDiesHolds, ServerTickHolds DEF NextSystem

\* What leads every queue of the system in turn is never lost (the inductive invariant behind
\* the theorems below), whatever the clients do and whichever world servers die.
THEOREM SystemInvariant == SpecSystem => []SysInv
<1>1. InitSystem => SysInv
  BY InitHolds
<1>2. SysInv /\ [NextSystem]_allVars => SysInv'
  BY NextHolds
<1> QED
  BY <1>1, <1>2, PTL DEF SpecSystem

\* Servers, connections and queues keep their types: every packet on its way is one of those
\* OnParty.c has a handler for, and an answer names the connection it is for.
THEOREM SystemTypesAlways == SpecSystem => []SystemTypeOK
<1>1. SysInv => SystemTypeOK
  BY DEF SysInv
<1> QED
  BY <1>1, SystemInvariant, PTL

\* The party manager's two indexes stay exact when the packets are those that its world
\* servers really send, in the order the queues deliver them.
THEOREM SystemRosterCorrect == SpecSystem => []RosterConsistent
<1>1. SysInv => RosterConsistent
  BY DEF SysInv, IInv, RosterInv
<1> QED
  BY <1>1, SystemInvariant, PTL

\* The whole system, packets on their way and all, keeps the promise of PartyRoster.
THEOREM SystemImplementsRoster == SpecSystem => RosterSpec
<1>1. InitSystem => Roster!Init
  BY DEF InitSystem, Init, Roster!Init
<1>2. SysInv /\ [NextSystem]_allVars => [Roster!Next]_charToParty
  BY NextHolds, RosterStepRefines DEF SysInv, IInv
<1> QED
  BY <1>1, <1>2, SystemInvariant, PTL DEF SpecSystem, RosterSpec, Roster!Spec

\* Whatever is founded, left, refused, timed out or disconnected in whatever order, the
\* creations and destructions on their way make each replica the party server's pool.
THEOREM ReplicasConverge == SpecSystem => []PoolsConverge
<1>1. SysInv => PoolsConverge
  <2> SUFFICES ASSUME SysInv, NEW w \in World, Running(w) PROVE Foreseen(w) = Reserved
    BY DEF PoolsConverge
  <2>1. LeadsTo(down[w], Held(w), Reserved)
    BY DEF SysInv, InTurn
  <2>2. down[w] \in Seq(Delivery)
    BY DEF SysInv, SystemTypeOK
  <2>3. \A p \in PartyIndex : p \in Reserved <=> Taken(down[w], p, Len(down[w]), Held(w))
    BY <2>1, <2>2, PathEnd
  <2>4. \A p : About(w, p) = Upto(down[w], p, Len(down[w]))
    <3>1. DOMAIN down[w] = 1 .. Len(down[w])
      BY <2>2, LenProperties
    <3> QED
      BY <3>1 DEF About, Upto
  <2>5. \A p \in PartyIndex : p \in Foreseen(w) <=> Taken(down[w], p, Len(down[w]), Held(w))
    BY <2>4 DEF Foreseen, Taken, Held
  <2>6. Foreseen(w) \subseteq PartyIndex /\ Reserved \subseteq PartyIndex
    BY DEF Foreseen, Reserved
  <2> QED
    BY <2>3, <2>5, <2>6
<1> QED
  BY <1>1, SystemInvariant, PTL

\* The fallbacks of PartyManager.c for a creation or destruction out of turn are never taken.
THEOREM LifecycleAlwaysInTurn == SpecSystem => []LifecycleInTurn
<1>1. SysInv => LifecycleInTurn
  <2> SUFFICES ASSUME SysInv, NEW w \in World, Running(w), down[w] # <<>>
               PROVE  LET m == Head(down[w]).packet IN
                      /\ m.type = "CREATE_PARTY" => replica[w][m.id] = None
                      /\ m.type = "DESTROY_PARTY" => replica[w][m.id] # None
    BY DEF LifecycleInTurn
  <2> DEFINE d == Head(down[w])
  <2>1. LeadsTo(down[w], Held(w), Reserved)
    BY DEF SysInv, InTurn
  <2>2. down[w] \in Seq(Delivery)
    BY DEF SysInv, SystemTypeOK
  <2>3. d \in Delivery
    BY <2>2, HeadTailProperties
  <2>4. \E C \in SUBSET PartyIndex : Turn(d.packet, Held(w), C)
    BY <2>1, <2>2, HeadLeads
  <2> HIDE DEF d
  <2>5. d.packet.type \in Lifecycle => d.packet.id \in PartyIndex
    BY <2>3, DeliveryFacts DEF Lifecycle
  <2> QED
    BY <2>4, <2>5 DEF Turn, Held, Lifecycle, d
<1> QED
  BY <1>1, SystemInvariant, PTL
===============================================================================
