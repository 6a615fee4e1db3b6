----------------------------- MODULE QuestsProofs -----------------------------
(***************************************************************************)
(* Theorems about the quests of a character and of a party, for every table  *)
(* of quests: no quest is paid twice, the counters of a quest are what was     *)
(* killed since it was begun, and no item of a party's quest is given or        *)
(* taken twice however the requests of its members meet.                        *)
(***************************************************************************)
EXTENDS CharacterQuests, PartyQuests, SequenceTheorems, CountingProofs

-----------------------------------------------------------------------------
(* What the operators of QuestTables compute. *)

\* What is behind an element that is removed moves up by one.
LEMMA RemoveAtMoves ==
    ASSUME NEW S, NEW s \in Seq(S), NEW k \in 1 .. Len(s)
    PROVE  /\ RemoveAt(s, k) \in Seq(S) /\ Len(RemoveAt(s, k)) = Len(s) - 1
           /\ \A i \in 1 .. Len(s) - 1 : RemoveAt(s, k)[i] = s[IF i < k THEN i ELSE i + 1]
<1> DEFINE head == SubSeq(s, 1, k - 1)
           tail == SubSeq(s, k + 1, Len(s))
<1>1. head \in Seq(S) /\ Len(head) = k - 1 /\ \A i \in 1 .. k - 1 : head[i] = s[i]
  BY SubSeqProperties
<1>2. tail \in Seq(S) /\ Len(tail) = Len(s) - k /\ \A i \in 1 .. Len(s) - k : tail[i] = s[k + i]
  BY SubSeqProperties
<1>3. RemoveAt(s, k) = head \o tail
  BY DEF RemoveAt
<1> HIDE DEF head, tail
<1>4. /\ head \o tail \in Seq(S) /\ Len(head \o tail) = Len(head) + Len(tail)
      /\ \A i \in 1 .. Len(head) + Len(tail) :
            (head \o tail)[i] = IF i <= Len(head) THEN head[i] ELSE tail[i - Len(head)]
  BY <1>1, <1>2, ConcatProperties
<1>5. Len(s) \in Nat /\ k \in Nat
  BY LenProperties
<1>6. ASSUME NEW i \in 1 .. Len(s) - 1
      PROVE  (head \o tail)[i] = s[IF i < k THEN i ELSE i + 1]
  <2>1. CASE i < k
    BY <1>1, <1>2, <1>4, <1>5, <2>1
  <2>2. CASE ~(i < k)
    <3>1. i - Len(head) \in 1 .. Len(s) - k /\ k + (i - Len(head)) = i + 1 /\ ~(i <= Len(head))
      BY <1>1, <1>5, <2>2
    <3>2. i \in 1 .. Len(head) + Len(tail)
      BY <1>1, <1>2, <1>5
    <3>3. (head \o tail)[i] = tail[i - Len(head)]
      BY <1>4, <3>1, <3>2
    <3>4. tail[i - Len(head)] = s[k + (i - Len(head))]
      BY <1>2, <3>1
    <3> QED
      BY <2>2, <3>1, <3>3, <3>4
  <2> QED
    BY <2>1, <2>2
<1> QED
  BY <1>1, <1>2, <1>3, <1>4, <1>5, <1>6

\* A sequence is known by its length and its elements.
LEMMA SeqByElements ==
    ASSUME NEW S, NEW n \in Nat, NEW s, s = [k \in 1 .. n |-> s[k]],
           \A k \in 1 .. n : s[k] \in S
    PROVE  s \in Seq(S) /\ Len(s) = n /\ DOMAIN s = 1 .. n
<1>1. s \in [1 .. n -> S]
  OBVIOUS
<1>2. s \in Seq(S)
  BY <1>1, SeqDef
<1> QED
  BY <1>1, <1>2, LenProperties

\* The missions of a quest, and their counters.
LEMMA MissionFacts ==
    ASSUME NEW q \in Quests
    PROVE  /\ Len(MissionMobs[q]) \in Nat /\ DOMAIN MissionMobs[q] = 1 .. Len(MissionMobs[q])
           /\ CounterCount \in Nat /\ DOMAIN MissionMobs[q] \subseteq 1 .. CounterCount
           /\ \A i \in DOMAIN MissionMobs[q] :
                 MissionMobs[q][i][1] \in Species /\ MissionMobs[q][i][2] \in Nat
<1> DEFINE m == MissionMobs[q]
<1>1. m \in Seq(Species \X Nat) /\ Len(m) <= CounterCount /\ CounterCount \in Nat
  BY QuestAssumption
<1> HIDE DEF m
<1>2. Len(m) \in Nat /\ DOMAIN m = 1 .. Len(m) /\ \A i \in 1 .. Len(m) : m[i] \in Species \X Nat
  BY <1>1
<1>3. DOMAIN m \subseteq 1 .. CounterCount
  BY <1>1, <1>2
<1> QED
  BY <1>1, <1>2, <1>3 DEF m

\* The numbers of mobs a mission asks for have a bound.
LEMMA MissionBounded ==
    ASSUME NEW q \in Quests
    PROVE  \E b \in Nat : \A i \in DOMAIN MissionMobs[q] : MissionMobs[q][i][2] <= b
<1> DEFINE m == MissionMobs[q]
           Bounded(n) == \E b \in Nat : \A i \in 1 .. n : m[i][2] <= b
           T == {n \in 0 .. Len(m) : ~Bounded(n)}
<1>1. \A i \in 1 .. Len(m) : m[i][2] \in Nat
  BY MissionFacts
<1>2. DOMAIN m = 1 .. Len(m) /\ Len(m) \in Nat
  BY MissionFacts
<1> SUFFICES Bounded(Len(m))
  BY <1>2, Zenon
<1> HIDE DEF m
<1>3. Bounded(0)
  BY 0 \in Nat
<1>4. ASSUME NEW n \in 0 .. Len(m) - 1, Bounded(n)
      PROVE  Bounded(n + 1)
  <2>1. PICK b \in Nat : \A i \in 1 .. n : m[i][2] <= b
    BY <1>4
  <2>2. n + 1 \in 1 .. Len(m) /\ m[n + 1][2] \in Nat
    BY <1>1, <1>2
  <2> DEFINE c == b + m[n + 1][2]
  <2>3. c \in Nat /\ b <= c /\ m[n + 1][2] <= c
    BY <2>2
  <2>4. \A i \in 1 .. n + 1 : i = n + 1 \/ (i \in 1 .. n /\ i \in 1 .. Len(m))
    BY <1>2
  <2> HIDE DEF c
  <2>5. \A i \in 1 .. n + 1 : m[i][2] <= c
    BY <1>1, <2>1, <2>3, <2>4
  <2> QED
    BY <2>3, <2>5
<1> HIDE DEF Bounded
<1>5. CASE T # {}
  <2>0. T \in SUBSET Nat
    OBVIOUS
  <2>1. PICK n \in T : \A k \in T : n <= k
    BY <2>0, <1>5, LeastNumber
  <2>2. n \in 0 .. Len(m) /\ ~Bounded(n) /\ n # 0 /\ n - 1 \in 0 .. Len(m) - 1
    BY <1>2, <1>3
  <2>3. n - 1 \notin T /\ (n - 1) + 1 = n
    BY <2>1, <2>2
  <2>4. Bounded(n - 1)
    BY <2>2, <2>3
  <2> QED
    BY <1>4, <2>2, <2>3, <2>4
<1>6. CASE T = {}
  BY <1>2, <1>6
<1> QED
  BY <1>5, <1>6

\* History counts at least as far as any counter of the quest.
LEMMA MostAskedFacts ==
    ASSUME NEW q \in Quests, NEW s \in Species
    PROVE  /\ MostAsked(q, s) \in Nat
           /\ \A i \in DOMAIN MissionMobs[q] :
                 MissionMobs[q][i][1] = s => MissionMobs[q][i][2] <= MostAsked(q, s)
<1> DEFINE S == {0} \union {MissionMobs[q][i][2] : i \in {j \in DOMAIN MissionMobs[q] :
                                                         MissionMobs[q][j][1] = s}}
           B == {b \in Nat : \A x \in S : x <= b}
<1>1. \A i \in DOMAIN MissionMobs[q] : MissionMobs[q][i][2] \in Nat
  BY MissionFacts
<1>2. S \subseteq Nat /\ 0 \in S
  BY <1>1
<1>3. B # {}
  <2>1. PICK b \in Nat : \A i \in DOMAIN MissionMobs[q] : MissionMobs[q][i][2] <= b
    BY MissionBounded
  <2> QED
    BY <2>1
<1>4. PICK b \in B : \A c \in B : b <= c
  BY <1>3, LeastNumber
<1>5. /\ MostAsked(q, s) = Max(S)
      /\ \A i \in DOMAIN MissionMobs[q] : MissionMobs[q][i][1] = s => MissionMobs[q][i][2] \in S
  BY DEF MostAsked
<1> HIDE DEF S
<1>6. b \in S
  <2>1. SUFFICES ASSUME b \notin S PROVE FALSE
    OBVIOUS
  <2>2. b \in Nat /\ b # 0 /\ b - 1 \in Nat
    BY <1>2, <2>1
  <2>3. b - 1 \in B
    BY <1>2, <2>1, <2>2
  <2> QED
    BY <1>4, <2>2, <2>3
<1>7. \E x \in S : \A y \in S : x >= y
  BY <1>2, <1>6
<1>8. Max(S) \in S /\ \A y \in S : Max(S) >= y
  BY <1>7 DEF Max
<1> QED
  BY <1>2, <1>5, <1>8

\* A counter holds what is assigned to it, if that is not too much for it.
LEMMA StoredFacts ==
    ASSUME NEW n \in Nat
    PROVE  Stored(n) \in 0 .. CounterRange - 1 /\ (n < CounterRange => Stored(n) = n)
<1> DEFINE b == CounterRange
<1>1. b \in Nat \ {0}
  BY QuestAssumption
<1> HIDE DEF b
<1>2. n % b \in 0 .. b - 1
  BY <1>1
<1>3. ASSUME n < b PROVE n % b = n
  BY <1>1, <1>3
<1> QED
  BY <1>2, <1>3 DEF Stored, b

\* One more death of a species leaves the counters what the history says.
LEMMA CountKillCounts ==
    ASSUME NEW q \in Quests, NEW s \in Species, NEW counter \in Counters,
           NEW killed \in [Species -> Nat], CountsAre(q, counter, killed)
    PROVE  /\ CountKill(q, counter, s) \in Counters
           /\ OneMore(q, killed, s) \in [Species -> Nat]
           /\ CountsAre(q, CountKill(q, counter, s), OneMore(q, killed, s))
<1>1. \A i \in DOMAIN MissionMobs[q] :
        /\ i \in DOMAIN counter
        /\ MissionMobs[q][i][1] \in Species /\ MissionMobs[q][i][2] \in Nat
        /\ MissionMobs[q][i][2] < CounterRange
  BY MissionFacts, CountersSuffice DEF Counters
<1>2. MostAsked(q, s) \in Nat
  BY MostAskedFacts
<1>3. CountKill(q, counter, s) \in Counters
  <2>1. \A i \in DOMAIN counter : counter[i] \in Nat /\ counter[i] \in 0 .. CounterRange - 1
    BY QuestAssumption DEF Counters
  <2>2. \A i \in DOMAIN MissionMobs[q] :
           Stored(Lesser(MissionMobs[q][i][2], counter[i] + 1)) \in 0 .. CounterRange - 1
    BY <1>1, <2>1, StoredFacts DEF Lesser
  <2> QED
    BY <2>1, <2>2 DEF CountKill, Counters
<1>4. OneMore(q, killed, s) \in [Species -> Nat]
  BY <1>2 DEF OneMore, Lesser
<1>5. ASSUME NEW i \in DOMAIN MissionMobs[q]
      PROVE  CountKill(q, counter, s)[i] =
               Lesser(MissionMobs[q][i][2], OneMore(q, killed, s)[MissionMobs[q][i][1]])
  <2> DEFINE t == MissionMobs[q][i][1]
             n == MissionMobs[q][i][2]
  <2>1. counter[i] = Lesser(n, killed[t]) /\ t \in Species /\ n \in Nat /\ killed[t] \in Nat
    BY <1>1 DEF CountsAre
  <2>2. CASE t = s
    <3>1. n <= MostAsked(q, s)
      BY <2>2, MostAskedFacts
    <3>2. CountKill(q, counter, s)[i] = Lesser(n, counter[i] + 1)
      <4>1. counter[i] + 1 \in Nat /\ Lesser(n, counter[i] + 1) \in Nat
        BY <2>1 DEF Lesser
      <4>2. Lesser(n, counter[i] + 1) < CounterRange
        BY <1>1, <2>1, QuestAssumption DEF Lesser
      <4>3. CountKill(q, counter, s)[i] = Stored(Lesser(n, counter[i] + 1))
        BY <1>1, <2>2 DEF CountKill
      <4> QED
        BY <4>1, <4>2, <4>3, StoredFacts
    <3>3. OneMore(q, killed, s)[t] = Lesser(MostAsked(q, s), killed[t] + 1)
      BY <2>1, <2>2 DEF OneMore
    <3> QED
      BY <1>2, <2>1, <3>1, <3>2, <3>3 DEF Lesser
  <2>3. CASE t # s
    BY <1>1, <2>1, <2>3 DEF CountKill, OneMore
  <2> QED
    BY <2>2, <2>3
<1> QED
  BY <1>3, <1>4, <1>5 DEF CountsAre

\* A quest that begins has killed nobody.
LEMMA NothingCounted ==
    ASSUME NEW q \in Quests
    PROVE  /\ NoCounters \in Counters /\ NoKills \in [Species -> Nat]
           /\ CountsAre(q, NoCounters, NoKills)
<1>1. NoCounters \in Counters /\ NoKills \in [Species -> Nat]
  BY QuestAssumption DEF NoCounters, NoKills, Counters
<1>2. \A i \in DOMAIN MissionMobs[q] :
        NoCounters[i] = 0 /\ NoKills[MissionMobs[q][i][1]] = 0 /\ MissionMobs[q][i][2] \in Nat
  BY MissionFacts DEF NoCounters, NoKills
<1> QED
  BY <1>1, <1>2 DEF CountsAre, Lesser

\* A quest begins at a step with a number, and its steps have one each.
LEMMA StepFacts ==
    ASSUME NEW q \in Quests
    PROVE  /\ Len(NpcSet[q]) \in Nat /\ DOMAIN NpcSet[q] = 1 .. Len(NpcSet[q])
           /\ \A a \in DOMAIN NpcSet[q] :
                 /\ NpcSet[q][a].order \in Nat \ {0}
                 /\ NpcSet[q][a].act \in {"give", "take"} => NpcSet[q][a].ware \in Wares
           /\ FirstStep(q) \in Nat \ {0}
<1> DEFINE n == NpcSet[q]
<1>1. n \in Seq(Step) /\ QuestBeginNpc[q] \in 0 .. Len(n)
  BY QuestAssumption
<1> HIDE DEF n
<1>2. Len(n) \in Nat /\ DOMAIN n = 1 .. Len(n) /\ \A a \in 1 .. Len(n) : n[a] \in Step
  BY <1>1
<1>3. \A x \in Step : x.order \in Nat \ {0} /\ (x.act \in {"give", "take"} => x.ware \in Wares)
  BY DEF Step
<1>4. \A a \in DOMAIN n :
         n[a].order \in Nat \ {0} /\ (n[a].act \in {"give", "take"} => n[a].ware \in Wares)
  BY <1>2, <1>3
<1>5. FirstStep(q) = IF QuestBeginNpc[q] = 0 THEN 1
                     ELSE IF QuestBeginNpc[q] < Len(n) THEN n[QuestBeginNpc[q] + 1].order
                     ELSE n[QuestBeginNpc[q]].order
  BY DEF FirstStep, n
<1>6. FirstStep(q) \in Nat \ {0}
  BY <1>1, <1>2, <1>4, <1>5
<1> QED
  BY <1>2, <1>4, <1>6 DEF n

\* History counts no further than the quest asks for.
LEMMA KillsBounded ==
    ASSUME NEW q \in Quests, NEW s \in Species, NEW killed \in [Species -> Nat],
           KillsOfOne(q, killed)
    PROVE  KillsOfOne(q, OneMore(q, killed, s))
<1>1. MostAsked(q, s) \in Nat /\ killed[s] \in 0 .. MostAsked(q, s)
  BY MostAskedFacts DEF KillsOfOne
<1>2. Lesser(MostAsked(q, s), killed[s] + 1) \in 0 .. MostAsked(q, s)
  BY <1>1 DEF Lesser
<1> QED
  BY <1>2 DEF KillsOfOne, OneMore

LEMMA OneOfAWare == ASSUME NEW w \in Wares PROVE one(w) \in Goods
  BY DEF one, Goods

\* An item put into a slot leaves every slot an item or nothing.
LEMMA PutInTyped ==
    ASSUME NEW S, NEW held \in [S -> Goods \union {Nothing}], NEW s \in S, NEW x \in Goods
    PROVE  PutIn(held, s, x) \in [S -> Goods \union {Nothing}]
<1>1. held[s] # Nothing => [ware |-> held[s].ware, count |-> held[s].count + x.count] \in Goods
  BY DEF Goods
<1> QED
  BY <1>1 DEF PutIn

-----------------------------------------------------------------------------
(* The quests of a character. *)

\* Slots of the log; what is proved holds whatever steps they stand at.
SlotsAt(steps) == [place : LogPlaces, quest : Quests, step : steps, counter : Counters]

LogTyped == \E steps : slots \in Seq(SlotsAt(steps))

HistoryTyped == since \in [Quests -> [Species -> Nat]] /\ paid \in [Quests -> Nat]

\* Items have a ware and a number.
ItemsTyped ==
    bag \in [BagSlots -> Goods \union {Nothing}] /\ drop \in Goods \union {Nothing}

\* A quest and a place are in the log once, so that a slot is found by either.
LogDistinct ==
    \A j, k \in DOMAIN slots :
       slots[j].quest = slots[k].quest \/ slots[j].place = slots[k].place => j = k

\* A quest in the log is one to be paid.
LogUnfinished == \A q \in InLog : q \notin done

\* A quest that was paid is finished, and not one that may be restored.
PaidFinished ==
    /\ deleted \subseteq done
    /\ \A q \in Quests : paid[q] # 0 => paid[q] = 1 /\ q \in done /\ q \notin deleted

\* What is not in the log starts from nothing.
OthersFresh == \A q \in Quests : q \notin InLog => since[q] = NoKills

LogInv ==
    /\ LogTyped /\ HistoryTyped /\ LogDistinct
    /\ LogUnfinished /\ PaidFinished
    /\ OthersFresh /\ KillsCounted

-----------------------------------------------------------------------------
(* The log, as three things may happen to it.                               *)

LEMMA LogFacts ==
    ASSUME LogTyped
    PROVE  /\ Len(slots) \in Nat /\ DOMAIN slots = 1 .. Len(slots)
           /\ \A k \in DOMAIN slots :
                 /\ slots[k].place \in LogPlaces /\ slots[k].quest \in Quests
                 /\ slots[k].counter \in Counters
                 /\ slots[k].quest \in InLog
           /\ InLog \subseteq Quests
<1>1. PICK steps : slots \in Seq(SlotsAt(steps))
  BY DEF LogTyped
<1>2. Len(slots) \in Nat /\ DOMAIN slots = 1 .. Len(slots) /\ \A k \in 1 .. Len(slots) : slots[k] \in SlotsAt(steps)
  BY <1>1
<1> QED
  BY <1>2 DEF SlotsAt, InLog

\* The slot of a place is the one a search finds.
LEMMA RemoveFacts ==
    ASSUME LogInv, NEW p \in LogPlaces, NEW q \in Quests, NEW k \in Found(p, q),
           slots' = RemoveQuestSlot(p)
    PROVE  /\ LogTyped' /\ LogDistinct'
           /\ Len(slots') = Len(slots) - 1 /\ DOMAIN slots' = 1 .. Len(slots) - 1
           /\ \A i \in DOMAIN slots' : \E j \in DOMAIN slots : j # k /\ slots'[i] = slots[j]
           /\ InLog' = InLog \ {q}
<1>1. k \in DOMAIN slots /\ slots[k].place = p /\ slots[k].quest = q
  BY DEF Found
<1>2. (CHOOSE j \in DOMAIN slots : slots[j].place = p) = k
  BY <1>1 DEF LogInv, LogDistinct
<1>3. PICK steps : slots \in Seq(SlotsAt(steps))
  BY DEF LogInv, LogTyped
<1>4. Len(slots) \in Nat /\ DOMAIN slots = 1 .. Len(slots) /\ k \in 1 .. Len(slots)
  BY <1>1, LogFacts DEF LogInv
<1>5. slots' = RemoveAt(slots, k)
  BY <1>2 DEF RemoveQuestSlot
<1> DEFINE from(i) == IF i < k THEN i ELSE i + 1
<1>6. /\ slots' \in Seq(SlotsAt(steps)) /\ Len(slots') = Len(slots) - 1
      /\ \A i \in 1 .. Len(slots) - 1 : slots'[i] = slots[from(i)]
  BY <1>3, <1>4, <1>5, RemoveAtMoves
<1>7. DOMAIN slots' = 1 .. Len(slots) - 1
  BY <1>4, <1>6
<1>8. \A i \in 1 .. Len(slots) - 1 : from(i) \in 1 .. Len(slots) /\ from(i) # k
  BY <1>4
<1>9. \A i, j \in 1 .. Len(slots) - 1 : from(i) = from(j) => i = j
  BY <1>4
<1>10. \A j \in 1 .. Len(slots) : j # k => \E i \in 1 .. Len(slots) - 1 : from(i) = j
  <2> SUFFICES ASSUME NEW j \in 1 .. Len(slots), j # k
               PROVE  \E i \in 1 .. Len(slots) - 1 : from(i) = j
    OBVIOUS
  <2>1. CASE j < k
    <3>1. j \in 1 .. Len(slots) - 1 /\ from(j) = j
      BY <1>4, <2>1
    <3> QED
      BY <3>1
  <2>2. CASE j > k
    <3>1. j - 1 \in 1 .. Len(slots) - 1 /\ from(j - 1) = j
      BY <1>4, <2>2
    <3> QED
      BY <3>1
  <2> QED
    BY <1>4, <2>1, <2>2
<1> HIDE DEF from
<1>11. LogTyped'
  BY <1>6 DEF LogTyped
<1>12. LogDistinct'
  BY <1>4, <1>6, <1>7, <1>8, <1>9 DEF LogInv, LogDistinct
<1>13. InLog' \subseteq InLog \ {q}
  BY <1>1, <1>4, <1>6, <1>7, <1>8 DEF InLog, LogInv, LogDistinct
<1>14. InLog \ {q} \subseteq InLog'
  <2> SUFFICES ASSUME NEW x \in InLog \ {q} PROVE x \in InLog'
    OBVIOUS
  <2>1. PICK j \in 1 .. Len(slots) : slots[j].quest = x
    BY <1>4 DEF InLog
  <2>2. PICK i \in 1 .. Len(slots) - 1 : from(i) = j
    BY <1>1, <1>10, <2>1
  <2> QED
    BY <1>6, <1>7, <2>1, <2>2 DEF InLog
<1> QED
  BY <1>4, <1>6, <1>7, <1>8, <1>11, <1>12, <1>13, <1>14

\* Slots that are written keep their quest and their place.
LEMMA RewriteFacts ==
    ASSUME LogInv, LogTyped', DOMAIN slots' = DOMAIN slots,
           \A k \in DOMAIN slots : /\ slots'[k].quest = slots[k].quest
                                   /\ slots'[k].place = slots[k].place
    PROVE  LogDistinct' /\ InLog' = InLog
  BY DEF LogInv, LogDistinct, InLog

\* The properties that name slots only survive when slots come and stay as they were.
LEMMA CountersKept ==
    ASSUME LogInv, LogTyped', UNCHANGED since, InLog' = InLog, DOMAIN slots' = DOMAIN slots,
           \A k \in DOMAIN slots :
              /\ slots'[k].quest = slots[k].quest
              /\ \A i \in DOMAIN MissionMobs[slots[k].quest] :
                    slots'[k].counter[i] = slots[k].counter[i]
    PROVE  OthersFresh' /\ KillsCounted'
  BY DEF LogInv, OthersFresh, KillsCounted, CountsAre

-----------------------------------------------------------------------------
(* The requests and what is counted, one by one.                            *)

LEMMA BeginStep ==
    ASSUME LogInv, NEW q \in Quests, NEW p \in LogPlaces, QuestBegin(q, p)
    PROVE  LogInv'
<1> DEFINE new == [place |-> p, quest |-> q, step |-> FirstStep(q), counter |-> NoCounters]
<1>1. /\ slots' = Append(slots, new) /\ UNCHANGED <<done, deleted, since, paid>>
      /\ q \notin InLog /\ q \notin done
      /\ \A k \in DOMAIN slots : slots[k].place # p
  BY DEF QuestBegin, flags, history
<1>2. PICK steps : slots \in Seq(SlotsAt(steps))
  BY DEF LogInv, LogTyped
<1>3. NoCounters \in Counters /\ CountsAre(q, NoCounters, NoKills)
  BY NothingCounted
<1> DEFINE more == steps \union {FirstStep(q)}
<1>4. new \in SlotsAt(more) /\ slots \in Seq(SlotsAt(more))
  <2>1. SlotsAt(steps) \subseteq SlotsAt(more) /\ new \in SlotsAt(more)
    BY <1>3 DEF SlotsAt
  <2>2. Len(slots) \in Nat /\ slots = [k \in 1 .. Len(slots) |-> slots[k]]
        /\ \A k \in 1 .. Len(slots) : slots[k] \in SlotsAt(steps)
    BY <1>2
  <2> HIDE DEF new, more
  <2>3. slots \in Seq(SlotsAt(more))
    BY <2>1, <2>2, SeqByElements
  <2> QED
    BY <2>1, <2>3
<1>5. new.quest = q /\ new.place = p /\ new.counter = NoCounters
  OBVIOUS
<1> HIDE DEF new, more
<1>6. /\ slots' \in Seq(SlotsAt(more))
      /\ Len(slots') = Len(slots) + 1 /\ DOMAIN slots' = 1 .. Len(slots) + 1
      /\ \A k \in 1 .. Len(slots) : slots'[k] = slots[k]
      /\ slots'[Len(slots) + 1] = new
  BY <1>1, <1>4
<1>7. Len(slots) \in Nat /\ DOMAIN slots = 1 .. Len(slots)
  BY LogFacts DEF LogInv
<1>8. LogTyped' /\ HistoryTyped'
  BY <1>1, <1>6 DEF LogInv, LogTyped, HistoryTyped
<1>9. InLog' = InLog \union {q}
  BY <1>5, <1>6, <1>7 DEF InLog
<1>10. LogDistinct'
  BY <1>1, <1>5, <1>6, <1>7 DEF LogInv, LogDistinct, InLog
<1>11. LogUnfinished' /\ PaidFinished' /\ OthersFresh'
  BY <1>1, <1>9 DEF LogInv, LogUnfinished, PaidFinished, OthersFresh
<1>12. since[q] = NoKills
  BY <1>1 DEF LogInv, OthersFresh
<1>13. KillsCounted'
  BY <1>1, <1>3, <1>5, <1>6, <1>7, <1>12 DEF LogInv, KillsCounted, CountsAre
<1> QED
  BY <1>8, <1>10, <1>11, <1>13 DEF LogInv

\* A quest leaves the log, unpaid or paid.
LEMMA CancelStep ==
    ASSUME LogInv, NEW q \in Quests, NEW p \in LogPlaces, QuestCancel(q, p)
    PROVE  LogInv'
<1>1. PICK k \in Found(p, q) : TRUE
  BY DEF QuestCancel
<1>2. /\ slots' = RemoveQuestSlot(p) /\ since' = [since EXCEPT ![q] = NoKills]
      /\ UNCHANGED <<done, deleted, paid>>
  BY DEF QuestCancel, flags
<1>3. /\ LogTyped' /\ LogDistinct' /\ InLog' = InLog \ {q}
      /\ \A i \in DOMAIN slots' : \E j \in DOMAIN slots : j # k /\ slots'[i] = slots[j]
  BY <1>2, RemoveFacts
<1>4. HistoryTyped'
  BY <1>2, NothingCounted DEF LogInv, HistoryTyped
<1>5. LogUnfinished' /\ PaidFinished' /\ OthersFresh'
  BY <1>2, <1>3 DEF LogInv, LogUnfinished, PaidFinished, OthersFresh, HistoryTyped
<1>6. \A i \in DOMAIN slots' : slots'[i].quest # q
  BY <1>3 DEF InLog
<1>7. KillsCounted'
  BY <1>2, <1>3, <1>6 DEF LogInv, KillsCounted, HistoryTyped
<1> QED
  BY <1>3, <1>4, <1>5, <1>7 DEF LogInv

LEMMA ClearStep ==
    ASSUME LogInv, NEW q \in Quests, NEW p \in LogPlaces, NEW picks, NEW s \in BagSlots,
           QuestClear(q, p, picks, s)
    PROVE  LogInv'
<1>1. PICK k \in Found(p, q) : TRUE
  BY DEF QuestClear
<1>2. k \in DOMAIN slots /\ slots[k].quest = q
  BY <1>1 DEF Found
<1>3. q \in InLog /\ q \notin done /\ paid[q] = 0
  BY <1>2, LogFacts DEF LogInv, LogUnfinished, PaidFinished
<1>4. CASE UNCHANGED <<slots, done, history>>
  BY <1>4 DEF QuestClear, history, LogInv, LogTyped, HistoryTyped, LogDistinct, LogUnfinished,
              PaidFinished, OthersFresh, KillsCounted, InLog
<1>5. CASE /\ Finish(q, p) /\ since' = [since EXCEPT ![q] = NoKills]
           /\ paid' = [paid EXCEPT ![q] = Lesser(2, @ + 1)]
  <2>1. slots' = RemoveQuestSlot(p) /\ done' = done \union {q} /\ deleted' = deleted
    BY <1>5 DEF Finish, QuestClear
  <2>2. /\ LogTyped' /\ LogDistinct' /\ InLog' = InLog \ {q}
        /\ \A i \in DOMAIN slots' : \E j \in DOMAIN slots : j # k /\ slots'[i] = slots[j]
    BY <2>1, RemoveFacts
  <2>3. paid' = [paid EXCEPT ![q] = 1]
    BY <1>3, <1>5 DEF Lesser
  <2>4. HistoryTyped'
    BY <1>5, <2>3, NothingCounted DEF LogInv, HistoryTyped
  <2>5. LogUnfinished' /\ PaidFinished' /\ OthersFresh'
    BY <1>3, <1>5, <2>1, <2>2, <2>3
       DEF LogInv, LogUnfinished, PaidFinished, OthersFresh, HistoryTyped
  <2>6. \A i \in DOMAIN slots' : slots'[i].quest # q
    BY <2>2 DEF InLog
  <2>7. KillsCounted'
    BY <1>5, <2>2, <2>6 DEF LogInv, KillsCounted, HistoryTyped
  <2> QED
    BY <2>2, <2>4, <2>5, <2>7 DEF LogInv
<1> QED
  BY <1>4, <1>5 DEF QuestClear

LEMMA ActionStep ==
    ASSUME LogInv, NEW q \in Quests, NEW p \in LogPlaces, NEW list, NEW inside \in BOOLEAN,
           QuestAction(q, p, list, inside)
    PROVE  LogInv'
<1> DEFINE after(k) == FoldLeft(LAMBDA n, a : Acted(q, n, a, inside), slots[k].step, list)
<1>1. UNCHANGED <<done, deleted, since, paid>>
  BY DEF QuestAction, flags, history
<1>2. slots' = [k \in DOMAIN slots |->
                  IF k \in Found(p, q) THEN [slots[k] EXCEPT !.step = after(k)] ELSE slots[k]]
  BY DEF QuestAction
<1>3. PICK steps : slots \in Seq(SlotsAt(steps))
  BY DEF LogInv, LogTyped
<1> DEFINE more == steps \union {after(k) : k \in DOMAIN slots}
<1>4. Len(slots) \in Nat /\ DOMAIN slots = 1 .. Len(slots) /\ \A k \in DOMAIN slots : slots[k] \in SlotsAt(steps)
  BY <1>3
<1>5. \A k \in DOMAIN slots : after(k) \in more
  OBVIOUS
<1>6. steps \subseteq more
  OBVIOUS
<1> HIDE DEF after, more
<1>7. \A k \in DOMAIN slots :
         /\ slots'[k] \in SlotsAt(more)
         /\ slots'[k].quest = slots[k].quest /\ slots'[k].place = slots[k].place
         /\ slots'[k].counter = slots[k].counter
  BY <1>2, <1>4, <1>5, <1>6 DEF SlotsAt
<1>8. slots' \in Seq(SlotsAt(more)) /\ DOMAIN slots' = DOMAIN slots
  <2>1. slots' = [k \in 1 .. Len(slots) |-> slots'[k]] /\ \A k \in 1 .. Len(slots) : slots'[k] \in SlotsAt(more)
    BY <1>2, <1>4, <1>7
  <2> QED
    BY <1>4, <2>1, SeqByElements
<1>9. LogTyped' /\ LogDistinct' /\ InLog' = InLog
  BY <1>7, <1>8, RewriteFacts DEF LogTyped
<1>10. HistoryTyped' /\ LogUnfinished' /\ PaidFinished'
  BY <1>1, <1>9 DEF LogInv, HistoryTyped, LogUnfinished, PaidFinished
<1>11. OthersFresh' /\ KillsCounted'
  BY <1>1, <1>7, <1>8, <1>9, CountersKept
<1> QED
  BY <1>9, <1>10, <1>11 DEF LogInv

\* Quests are deleted and restored outside the log.
LEMMA DeleteStep ==
    ASSUME LogInv, NEW q \in Quests, QuestDelete(q) \/ QuestRestore(q)
    PROVE  LogInv'
<1>1. UNCHANGED <<slots, since, paid>>
  BY DEF QuestDelete, QuestRestore, history
<1>2. LogUnfinished' /\ PaidFinished'
  <2>1. CASE QuestDelete(q)
    BY <1>1, <2>1 DEF QuestDelete, LogInv, LogUnfinished, PaidFinished, InLog
  <2>2. CASE QuestRestore(q)
    BY <1>1, <2>2 DEF QuestRestore, LogInv, LogUnfinished, PaidFinished, InLog
  <2> QED
    BY <2>1, <2>2
<1> QED
  BY <1>1, <1>2 DEF LogInv, LogTyped, HistoryTyped, LogDistinct, OthersFresh, KillsCounted, InLog

LEMMA KillStep ==
    ASSUME LogInv, NEW s \in Species, KillMob(s)
    PROVE  LogInv'
<1>1. /\ UNCHANGED <<done, deleted, paid>>
      /\ since' = [q \in Quests |-> IF q \in InLog THEN OneMore(q, since[q], s) ELSE since[q]]
      /\ slots' = [k \in DOMAIN slots |->
                     [slots[k] EXCEPT !.counter = CountKill(slots[k].quest, @, s)]]
  BY DEF KillMob, flags, IncrementQuestMobCounter
<1>2. PICK steps : slots \in Seq(SlotsAt(steps))
  BY DEF LogInv, LogTyped
<1>3. Len(slots) \in Nat /\ DOMAIN slots = 1 .. Len(slots) /\ \A k \in DOMAIN slots : slots[k] \in SlotsAt(steps)
  BY <1>2
<1>4. \A k \in DOMAIN slots :
         /\ slots[k].quest \in Quests /\ slots[k].quest \in InLog /\ slots[k].counter \in Counters
         /\ since[slots[k].quest] \in [Species -> Nat]
         /\ CountsAre(slots[k].quest, slots[k].counter, since[slots[k].quest])
  BY LogFacts DEF LogInv, HistoryTyped, KillsCounted
<1>5. \A k \in DOMAIN slots :
         /\ CountKill(slots[k].quest, slots[k].counter, s) \in Counters
         /\ CountsAre(slots[k].quest, CountKill(slots[k].quest, slots[k].counter, s),
                      OneMore(slots[k].quest, since[slots[k].quest], s))
  BY <1>4, CountKillCounts
<1>6. \A k \in DOMAIN slots :
         /\ slots'[k] \in SlotsAt(steps)
         /\ slots'[k].quest = slots[k].quest /\ slots'[k].place = slots[k].place
         /\ slots'[k].counter = CountKill(slots[k].quest, slots[k].counter, s)
  BY <1>1, <1>3, <1>5 DEF SlotsAt
<1>7. slots' \in Seq(SlotsAt(steps)) /\ DOMAIN slots' = DOMAIN slots
  <2>1. slots' = [k \in 1 .. Len(slots) |-> slots'[k]] /\ \A k \in 1 .. Len(slots) : slots'[k] \in SlotsAt(steps)
    BY <1>1, <1>3, <1>6
  <2> QED
    BY <1>3, <2>1, SeqByElements
<1>8. LogTyped' /\ LogDistinct' /\ InLog' = InLog
  BY <1>6, <1>7, RewriteFacts DEF LogTyped
<1>9. HistoryTyped'
  <2>1. \A q \in InLog : OneMore(q, since[q], s) \in [Species -> Nat]
    <3> SUFFICES ASSUME NEW q \in InLog PROVE OneMore(q, since[q], s) \in [Species -> Nat]
      OBVIOUS
    <3>1. q \in Quests /\ since[q] \in [Species -> Nat]
      BY LogFacts DEF LogInv, HistoryTyped
    <3> QED
      BY <3>1, MostAskedFacts DEF OneMore, Lesser
  <2> QED
    BY <1>1, <2>1 DEF LogInv, HistoryTyped
<1>10. LogUnfinished' /\ PaidFinished' /\ OthersFresh'
  BY <1>1, <1>8 DEF LogInv, LogUnfinished, PaidFinished, OthersFresh
<1>11. KillsCounted'
  BY <1>1, <1>4, <1>5, <1>6, <1>7 DEF KillsCounted
<1> QED
  BY <1>8, <1>9, <1>10, <1>11 DEF LogInv

\* The counters of items are behind those of mobs.
LEMMA LootStep ==
    ASSUME LogInv, ItemsTyped, NEW s \in BagSlots, LootItem(s)
    PROVE  LogInv'
<1>1. UNCHANGED <<done, deleted, since, paid>>
  BY DEF LootItem, flags, history
<1>2. CASE UNCHANGED slots
  BY <1>1, <1>2 DEF LogInv, LogTyped, HistoryTyped, LogDistinct, LogUnfinished,
                    PaidFinished, OthersFresh, KillsCounted, InLog
<1>3. CASE UpdateQuestItemCounter(drop) /\ drop.count \in Nat
  <2> DEFINE held(k) == [j \in 1 .. CounterCount |->
                           IF \E i \in DOMAIN MissionItems[slots[k].quest] :
                                 /\ ItemCounter(slots[k].quest, i) = j
                                 /\ MissionItems[slots[k].quest][i][1] = drop.ware
                           THEN Stored(drop.count) ELSE slots[k].counter[j]]
  <2>1. slots' = [k \in DOMAIN slots |-> [slots[k] EXCEPT !.counter = held(k)]]
    BY <1>3 DEF UpdateQuestItemCounter
  <2>2. PICK steps : slots \in Seq(SlotsAt(steps))
    BY DEF LogInv, LogTyped
  <2>3. Len(slots) \in Nat /\ DOMAIN slots = 1 .. Len(slots) /\ \A k \in DOMAIN slots : slots[k] \in SlotsAt(steps)
    BY <2>2
  <2>4. \A k \in DOMAIN slots : held(k) \in Counters
    BY <1>3, LogFacts, StoredFacts DEF LogInv, Counters
  <2>5. ASSUME NEW k \in DOMAIN slots, NEW i \in DOMAIN MissionMobs[slots[k].quest]
        PROVE  held(k)[i] = slots[k].counter[i]
    <3> DEFINE q == slots[k].quest
    <3>1. q \in Quests
      BY LogFacts DEF LogInv
    <3>2. i \in 1 .. CounterCount /\ i <= Len(MissionMobs[q]) /\ Len(MissionMobs[q]) \in Nat
      BY <3>1, MissionFacts
    <3>3. DOMAIN MissionItems[q] \subseteq Nat \ {0}
      <4>1. MissionItems[q] \in Seq(Wares \X Nat)
        BY <3>1, QuestAssumption
      <4> QED
        BY <4>1
    <3>4. \A j \in DOMAIN MissionItems[q] : ItemCounter(q, j) # i
      BY <3>2, <3>3 DEF ItemCounter
    <3> QED
      BY <3>2, <3>4
  <2> HIDE DEF held
  <2>6. \A k \in DOMAIN slots :
           /\ slots'[k] \in SlotsAt(steps)
           /\ slots'[k].quest = slots[k].quest /\ slots'[k].place = slots[k].place
           /\ slots'[k].counter = held(k)
    BY <2>1, <2>3, <2>4 DEF SlotsAt
  <2>7. slots' \in Seq(SlotsAt(steps)) /\ DOMAIN slots' = DOMAIN slots
    <3>1. slots' = [k \in 1 .. Len(slots) |-> slots'[k]] /\ \A k \in 1 .. Len(slots) : slots'[k] \in SlotsAt(steps)
      BY <2>1, <2>3, <2>6
    <3> QED
      BY <2>3, <3>1, SeqByElements
  <2>8. LogTyped' /\ LogDistinct' /\ InLog' = InLog
    BY <2>6, <2>7, RewriteFacts DEF LogTyped
  <2>9. HistoryTyped' /\ LogUnfinished' /\ PaidFinished'
    BY <1>1, <2>8 DEF LogInv, HistoryTyped, LogUnfinished, PaidFinished
  <2>10. OthersFresh' /\ KillsCounted'
    BY <1>1, <2>5, <2>6, <2>7, <2>8, CountersKept
  <2> QED
    BY <2>8, <2>9, <2>10 DEF LogInv
<1>4. drop.count \in Nat
  BY DEF ItemsTyped, LootItem, Goods
<1> QED
  BY <1>2, <1>3, <1>4 DEF LootItem

-----------------------------------------------------------------------------
(* What is in the inventory and on the ground.                              *)

LEMMA ItemsTypedStep ==
    ASSUME ItemsTyped, [QuestNext]_questVars
    PROVE  ItemsTyped'
<1> USE DEF ItemsTyped
<1>1. ASSUME NEW q \in Quests, NEW p \in LogPlaces, NEW picks, NEW s \in BagSlots,
             QuestClear(q, p, picks, s)
      PROVE  ItemsTyped'
  <2>1. Taken(q, p, picks) \in [BagSlots -> Goods \union {Nothing}]
    BY DEF Taken
  <2>2. drop' = drop
    BY <1>1 DEF QuestClear
  <2>3. CASE bag' = Taken(q, p, picks)
    BY <2>1, <2>2, <2>3
  <2>4. CASE RewardItem[q] # Nothing /\ bag' = PutIn(Taken(q, p, picks), s, one(RewardItem[q]))
    <3>1. RewardItem[q] \in Wares
      BY <2>4, QuestAssumption
    <3> QED
      BY <2>1, <2>2, <2>4, <3>1, OneOfAWare, PutInTyped
  <2> QED
    BY <1>1, <2>3, <2>4 DEF QuestClear
<1>2. ASSUME NEW s \in Species, KillMob(s)
      PROVE  ItemsTyped'
  <2>1. QuestDrops[s] \subseteq Wares
    BY QuestAssumption
  <2> QED
    BY <1>2, <2>1, OneOfAWare DEF KillMob
<1>3. ASSUME NEW s \in BagSlots, LootItem(s)
      PROVE  ItemsTyped'
  BY <1>3, PutInTyped DEF LootItem
<1>4. ASSUME NEW s \in BagSlots, Discard(s)
      PROVE  ItemsTyped'
  BY <1>4 DEF Discard
<1>5. CASE UNCHANGED items
  BY <1>5 DEF items
<1> QED
  BY <1>1, <1>2, <1>3, <1>4, <1>5
     DEF QuestNext, Log, Play, questVars, items, QuestBegin, QuestCancel, QuestAction, QuestDelete,
         QuestRestore, QuestDungeonEnd

LEMMA ItemsTypedAlways == QuestSpec => []ItemsTyped
<1>1. QuestInit => ItemsTyped
  BY DEF QuestInit, ItemsTyped
<1> QED
  BY <1>1, ItemsTypedStep, PTL DEF QuestSpec

-----------------------------------------------------------------------------
LEMMA LogInitially == QuestInit => LogInv
<1> SUFFICES ASSUME QuestInit PROVE LogInv
  OBVIOUS
<1>1. DOMAIN slots = {} /\ InLog = {} /\ slots \in Seq(SlotsAt({}))
  BY DEF QuestInit, InLog
<1>2. LogTyped
  BY <1>1 DEF LogTyped
<1>3. HistoryTyped
  BY DEF QuestInit, HistoryTyped, NoKills
<1> QED
  BY <1>1, <1>2, <1>3 DEF QuestInit, LogInv, LogDistinct, LogUnfinished, PaidFinished, OthersFresh, KillsCounted

LEMMA LogUntouched ==
    ASSUME LogInv, UNCHANGED <<slots, done, deleted, since, paid>>
    PROVE  LogInv'
  BY DEF LogInv, LogTyped, HistoryTyped, LogDistinct, LogUnfinished, PaidFinished, OthersFresh,
         KillsCounted, InLog

LEMMA LogStep ==
    ASSUME LogInv, ItemsTyped, [QuestNext]_questVars
    PROVE  LogInv'
<1>1. ASSUME NEW q \in Quests, QuestDelete(q) \/ QuestRestore(q) PROVE LogInv'
  BY <1>1, DeleteStep
<1>2. ASSUME NEW q \in Quests, NEW p \in LogPlaces, QuestBegin(q, p) PROVE LogInv'
  BY <1>2, BeginStep
<1>3. ASSUME NEW q \in Quests, NEW p \in LogPlaces, QuestCancel(q, p) PROVE LogInv'
  BY <1>3, CancelStep
<1>4. ASSUME NEW q \in Quests, NEW p \in LogPlaces, NEW list, NEW inside \in BOOLEAN,
             QuestAction(q, p, list, inside)
      PROVE  LogInv'
  BY <1>4, ActionStep
<1>5. ASSUME NEW q \in Quests, NEW p \in LogPlaces, NEW picks, NEW s \in BagSlots,
             QuestClear(q, p, picks, s)
      PROVE  LogInv'
  BY <1>5, ClearStep
<1>6. ASSUME NEW s \in Species, KillMob(s) PROVE LogInv'
  BY <1>6, KillStep
<1>7. ASSUME NEW s \in BagSlots, LootItem(s) PROVE LogInv'
  BY <1>7, LootStep
<1>8. ASSUME NEW s \in BagSlots, Discard(s) PROVE LogInv'
  BY <1>8, LogUntouched DEF Discard, flags, history
<1>9. ASSUME NEW d \in Trials, NEW own \in BOOLEAN, QuestDungeonEnd(d, own) PROVE LogInv'
  BY <1>9, LogUntouched DEF QuestDungeonEnd, history
<1>10. CASE UNCHANGED questVars
  BY <1>10, LogUntouched DEF questVars
<1> QED
  BY <1>1, <1>2, <1>3, <1>4, <1>5, <1>6, <1>7, <1>8, <1>9, <1>10 DEF QuestNext, Log, Play

LEMMA LogInvAlways == QuestSpec => []LogInv
  BY LogInitially, LogStep, ItemsTypedAlways, PTL DEF QuestSpec

\* However a quest is begun, cancelled, cleared, deleted and restored, and whatever else is
\* done between, onQuestClear pays it once: a quest that was paid is one of the finished,
\* which none may begin, and not of the deleted, which alone may be restored.
THEOREM PaidOnceAlways == QuestSpec => []PaidOnce
<1>1. LogInv => PaidOnce
  BY DEF LogInv, PaidFinished, HistoryTyped, PaidOnce
<1> QED
  BY <1>1, LogInvAlways, PTL

\* Every mob counter of every slot of the log is what was killed since its quest was begun,
\* up to what it asks for, wherever RTCharacterRemoveQuestSlot has moved the slot to: for every
\* table of quests that asks for no more than a counter can hold (CountersSuffice).
THEOREM KillsCountedAlways == QuestSpec => []KillsCounted
<1>1. LogInv => KillsCounted
  BY DEF LogInv
<1> QED
  BY <1>1, LogInvAlways, PTL

-----------------------------------------------------------------------------
(* The quests of a party. *)

\* A step is asked for only while there is one behind it, so that it is left when it is taken.
StepsAskedFor ==
    \A m \in QuestMembers :
       request[m] # Nothing /\ request[m].act = "action" => request[m].step < Len(NpcSet[request[m].quest])

\* What is not behind the step a quest stands at was never taken.
StepsAhead ==
    \A p \in QuestPlaces : \A a \in StepNumbers :
       /\ taken[p][a] <= 1
       /\ log[p].quest # Nothing /\ a >= log[p].step => taken[p][a] = 0

KillsTyped == kills \in [QuestPlaces -> [Species -> Nat]]

PartyInv == PartyQuestTypeOK /\ KillsTyped /\ StepsAskedFor /\ StepsAhead /\ PartyKillsCounted

-----------------------------------------------------------------------------
LEMMA StepNumberFacts ==
    /\ StepNumbers \subseteq Nat \ {0}
    /\ \A q \in Quests : DOMAIN NpcSet[q] \subseteq StepNumbers
  BY StepFacts DEF StepNumbers

LEMMA NothingIsNoQuest == Nothing \notin Quests
  BY QuestAssumption

\* A place that holds a quest.
LEMMA PlaceFacts ==
    ASSUME PartyQuestTypeOK, NEW p \in QuestPlaces
    PROVE  /\ log[p].quest \in Quests \union {Nothing}
           /\ log[p].step \in Nat \ {0} /\ log[p].counter \in Counters
           /\ taken[p] \in [StepNumbers -> 0 .. 2]
  BY DEF PartyQuestTypeOK, PartyQuestSlot

LEMMA FreePlace == Free \in PartyQuestSlot /\ Free.quest = Nothing
  BY QuestAssumption DEF Free, PartyQuestSlot, NoCounters, Counters

LEMMA NothingTaken == NotTaken \in [StepNumbers -> 0 .. 2] /\ \A a \in StepNumbers : NotTaken[a] = 0
  BY DEF NotTaken

LEMMA NobodyKilled ==
    /\ NoKills \in [Species -> Nat]
    /\ \A q \in Quests : KillsOfOne(q, NoKills)
<1>1. NoKills \in [Species -> Nat]
  BY DEF NoKills
<1>2. \A q \in Quests, s \in Species : NoKills[s] \in 0 .. MostAsked(q, s)
  BY MostAskedFacts DEF NoKills
<1> QED
  BY <1>1, <1>2 DEF KillsOfOne

\* What a request that is on its way may be.
LEMMA RequestFacts ==
    ASSUME PartyQuestTypeOK, NEW m \in QuestMembers, request[m] # Nothing
    PROVE  LET r == request[m] IN
           \/ r.act = "begin" /\ r.quest \in Quests /\ r.place \in QuestPlaces
           \/ /\ r.act = "action" /\ r.quest \in Quests /\ r.place \in QuestPlaces
              /\ r.step \in StepNumbers
           \/ r.act = "close" /\ r.quest \in Quests /\ r.place \in QuestPlaces
           \/ r.act = "loot" /\ r.slot \in PartySlots
<1>1. request[m] \in Requests
  BY DEF PartyQuestTypeOK
<1> QED
  BY <1>1 DEF Requests

-----------------------------------------------------------------------------
(* What the handlers do to the quests, apart from the requests.             *)

\* The quests and what is known of them, without the requests of the members.
QuestsInv ==
    /\ log \in [QuestPlaces -> PartyQuestSlot]
    /\ \A p \in QuestPlaces : log[p].quest # Nothing => KillsOfOne(log[p].quest, kills[p])
    /\ taken \in [QuestPlaces -> [StepNumbers -> 0 .. 2]]
    /\ KillsTyped /\ StepsAhead /\ PartyKillsCounted

ItemsInv ==
    /\ chest \in [PartySlots -> Goods \union {Nothing}] /\ ground \in Goods \union {Nothing}
    /\ server \in {"running", "aborted"}

LEMMA PartyInvParts ==
    PartyInv <=> /\ QuestsInv /\ ItemsInv /\ StepsAskedFor
                 /\ request \in [QuestMembers -> Requests \union {Nothing}]
  BY DEF PartyInv, QuestsInv, ItemsInv, PartyQuestTypeOK

\* A place that is given a quest, or freed, starts from nothing.
LEMMA PlaceStartsAnew ==
    ASSUME QuestsInv, NEW p \in QuestPlaces, NEW x \in PartyQuestSlot,
           x.quest # Nothing => x.counter = NoCounters,
           log' = [log EXCEPT ![p] = x],
           kills' = [kills EXCEPT ![p] = NoKills],
           taken' = [taken EXCEPT ![p] = NotTaken]
    PROVE  QuestsInv'
<1> USE DEF QuestsInv
<1>1. log' \in [QuestPlaces -> PartyQuestSlot] /\ taken' \in [QuestPlaces -> [StepNumbers -> 0 .. 2]]
  BY NothingTaken
<1>2. KillsTyped'
  BY NobodyKilled DEF KillsTyped
<1>3. /\ log'[p] = x /\ kills'[p] = NoKills /\ taken'[p] = NotTaken
      /\ \A o \in QuestPlaces \ {p} :
            log'[o] = log[o] /\ kills'[o] = kills[o] /\ taken'[o] = taken[o]
  BY DEF KillsTyped
<1>4. x.quest # Nothing => x.quest \in Quests
  BY DEF PartyQuestSlot
<1>5. (\A o \in QuestPlaces : log[o].quest # Nothing => KillsOfOne(log[o].quest, kills[o]))'
  BY <1>3, <1>4, NobodyKilled
<1>6. StepsAhead'
  BY <1>3, NothingTaken DEF StepsAhead
<1>7. PartyKillsCounted'
  BY <1>3, <1>4, NothingCounted DEF PartyKillsCounted
<1> QED
  BY <1>1, <1>2, <1>5, <1>6, <1>7

LEMMA BeginQuests ==
    ASSUME QuestsInv, NEW q \in Quests, NEW p \in QuestPlaces, PartyQuestBegin(q, p)
    PROVE  QuestsInv'
<1> DEFINE x == [quest |-> q, step |-> FirstStep(q), counter |-> NoCounters]
<1>1. CASE UNCHANGED <<log, partyHistory>>
  BY <1>1 DEF QuestsInv, partyHistory, KillsTyped, StepsAhead, PartyKillsCounted
<1>2. CASE /\ log' = [log EXCEPT ![p] = x] /\ kills' = [kills EXCEPT ![p] = NoKills]
           /\ taken' = [taken EXCEPT ![p] = NotTaken]
  <2>1. x \in PartyQuestSlot /\ x.counter = NoCounters
    BY StepFacts, NothingCounted DEF PartyQuestSlot
  <2> HIDE DEF x
  <2> QED
    BY <1>2, <2>1, PlaceStartsAnew
<1> QED
  BY <1>1, <1>2 DEF PartyQuestBegin

LEMMA CloseQuests ==
    ASSUME QuestsInv, NEW q \in Quests, NEW p \in QuestPlaces, NEW picks, NEW s,
           PartyQuestClose(q, p, picks, s)
    PROVE  QuestsInv'
<1>1. CASE UNCHANGED <<log, partyHistory>>
  BY <1>1 DEF QuestsInv, partyHistory, KillsTyped, StepsAhead, PartyKillsCounted
<1>2. CASE /\ log' = [log EXCEPT ![p] = Free] /\ kills' = [kills EXCEPT ![p] = NoKills]
           /\ taken' = [taken EXCEPT ![p] = NotTaken]
  BY <1>2, FreePlace, PlaceStartsAnew
<1> QED
  BY <1>1, <1>2 DEF PartyQuestClose

\* The step that is taken is left behind.
LEMMA ActionQuests ==
    ASSUME QuestsInv, NEW q \in Quests, NEW p \in QuestPlaces, NEW a \in StepNumbers, NEW s,
           a < Len(NpcSet[q]), PartyQuestAction(q, p, a, s)
    PROVE  QuestsInv'
<1> USE DEF QuestsInv
<1>1. CASE UNCHANGED <<log, partyHistory>>
  BY <1>1 DEF partyHistory, KillsTyped, StepsAhead, PartyKillsCounted
<1>2. CASE /\ AtStep(q, p, a) /\ log' = [log EXCEPT ![p].step = a + 1] /\ UNCHANGED kills
           /\ taken' = [taken EXCEPT ![p][a] = Lesser(2, taken[p][a] + 1)]
  <2>1. a \in Nat \ {0} /\ q # Nothing
    BY StepNumberFacts, NothingIsNoQuest
  <2>2. log[p].quest = q /\ log[p].step = a /\ log[p] \in PartyQuestSlot
    BY <1>2 DEF AtStep
  <2>3. /\ taken[p] \in [StepNumbers -> 0 .. 2]
        /\ taken[p][a] = 0 /\ \A b \in StepNumbers : b >= a + 1 => taken[p][b] = 0
    BY <2>1, <2>2, StepNumberFacts DEF StepsAhead
  <2>4. taken' = [taken EXCEPT ![p][a] = 1]
    BY <1>2, <2>3 DEF Lesser
  <2>5. log' \in [QuestPlaces -> PartyQuestSlot] /\ taken' \in [QuestPlaces -> [StepNumbers -> 0 .. 2]]
    <3>1. [log[p] EXCEPT !.step = a + 1] \in PartyQuestSlot
      BY <2>1, <2>2 DEF PartyQuestSlot
    <3>2. [taken[p] EXCEPT ![a] = 1] \in [StepNumbers -> 0 .. 2]
      BY <2>3
    <3> QED
      BY <1>2, <2>4, <3>1, <3>2
  <2>6. /\ log'[p].step = a + 1
        /\ \A o \in QuestPlaces : /\ log'[o].quest = log[o].quest /\ log'[o].counter = log[o].counter
                                  /\ o # p => log'[o] = log[o] /\ taken'[o] = taken[o]
    BY <1>2, <2>2, <2>4 DEF PartyQuestSlot
  <2>7. taken'[p][a] = 1 /\ \A b \in StepNumbers \ {a} : taken'[p][b] = taken[p][b]
    BY <2>3, <2>4
  <2>8. StepsAhead'
    BY <2>1, <2>3, <2>6, <2>7, StepNumberFacts DEF StepsAhead
  <2>9. KillsTyped' /\ PartyKillsCounted'
    BY <1>2, <2>6 DEF KillsTyped, PartyKillsCounted
  <2>10. (\A o \in QuestPlaces : log[o].quest # Nothing => KillsOfOne(log[o].quest, kills[o]))'
    BY <1>2, <2>6
  <2> QED
    BY <2>5, <2>8, <2>9, <2>10
<1> QED
  BY <1>1, <1>2 DEF PartyQuestAction

LEMMA KillQuests ==
    ASSUME QuestsInv, NEW s \in Species, KillInDungeon(s)
    PROVE  QuestsInv'
<1> USE DEF QuestsInv
<1>1. /\ log' = [p \in QuestPlaces |->
                   IF log[p].quest = Nothing THEN log[p]
                   ELSE [log[p] EXCEPT !.counter = CountKill(log[p].quest, log[p].counter, s)]]
      /\ kills' = [p \in QuestPlaces |->
                     IF log[p].quest = Nothing THEN kills[p] ELSE OneMore(log[p].quest, kills[p], s)]
      /\ UNCHANGED taken
  BY DEF KillInDungeon, IncrementPartyCounters
<1>2. \A p \in QuestPlaces :
         /\ log[p] \in PartyQuestSlot /\ kills[p] \in [Species -> Nat]
         /\ log[p].counter \in Counters /\ (log[p].quest # Nothing => log[p].quest \in Quests)
  BY DEF PartyQuestSlot, KillsTyped
<1>3. \A p \in QuestPlaces :
         log[p].quest # Nothing =>
            /\ CountKill(log[p].quest, log[p].counter, s) \in Counters
            /\ OneMore(log[p].quest, kills[p], s) \in [Species -> Nat]
            /\ CountsAre(log[p].quest, CountKill(log[p].quest, log[p].counter, s),
                         OneMore(log[p].quest, kills[p], s))
            /\ KillsOfOne(log[p].quest, OneMore(log[p].quest, kills[p], s))
  BY <1>2, CountKillCounts, KillsBounded DEF PartyKillsCounted
<1>4. \A p \in QuestPlaces :
         /\ log'[p] \in PartyQuestSlot
         /\ log'[p].quest = log[p].quest /\ log'[p].step = log[p].step
         /\ log[p].quest # Nothing => log'[p].counter = CountKill(log[p].quest, log[p].counter, s)
  BY <1>1, <1>2, <1>3 DEF PartyQuestSlot
<1>5. log' \in [QuestPlaces -> PartyQuestSlot]
  BY <1>1, <1>4
<1>6. KillsTyped'
  BY <1>1, <1>2, <1>3 DEF KillsTyped
<1>7. StepsAhead'
  BY <1>1, <1>4 DEF StepsAhead
<1>8. PartyKillsCounted'
  BY <1>1, <1>3, <1>4 DEF PartyKillsCounted
<1>9. (\A p \in QuestPlaces : log[p].quest # Nothing => KillsOfOne(log[p].quest, kills[p]))'
  BY <1>1, <1>3, <1>4
<1> QED
  BY <1>1, <1>5, <1>6, <1>7, <1>8, <1>9

-----------------------------------------------------------------------------
(* What they do to the items.                                               *)

LEMMA ItemsKept == ASSUME ItemsInv, UNCHANGED <<chest, ground, server>> PROVE ItemsInv'
  BY DEF ItemsInv

LEMMA ActionItems ==
    ASSUME ItemsInv, NEW q \in Quests, NEW p, NEW a, NEW s, PartyQuestAction(q, p, a, s)
    PROVE  ItemsInv'
<1>1. CASE UNCHANGED <<chest, ground, server>>
  BY <1>1, ItemsKept
<1>2. CASE a \in DOMAIN NpcSet[q] /\ chest' = Exchanged(NpcSet[q][a], s) /\ UNCHANGED <<ground, server>>
  <2>1. NpcSet[q][a].act = "give" => one(NpcSet[q][a].ware) \in Goods
    BY <1>2, StepFacts, OneOfAWare
  <2> QED
    BY <1>2, <2>1 DEF ItemsInv, Exchanged
<1> QED
  BY <1>1, <1>2 DEF PartyQuestAction, AtStep

LEMMA CloseItems ==
    ASSUME ItemsInv, NEW q \in Quests, NEW p, NEW picks, NEW s, PartyQuestClose(q, p, picks, s)
    PROVE  ItemsInv'
<1>1. HandedOver(q, picks) \in [PartySlots -> Goods \union {Nothing}]
  BY DEF ItemsInv, HandedOver
<1>2. CASE UNCHANGED <<chest, ground, server>>
  BY <1>2, ItemsKept
<1>3. CASE chest' = HandedOver(q, picks) /\ server' \in {server, "aborted"} /\ UNCHANGED ground
  BY <1>1, <1>3 DEF ItemsInv
<1>4. CASE /\ RewardItem[q] # Nothing /\ UNCHANGED <<ground, server>>
           /\ chest' = [HandedOver(q, picks) EXCEPT ![s] = one(RewardItem[q])]
  <2>1. one(RewardItem[q]) \in Goods
    BY <1>4, QuestAssumption, OneOfAWare
  <2> QED
    BY <1>1, <1>4, <2>1 DEF ItemsInv
<1> QED
  BY <1>2, <1>3, <1>4 DEF PartyQuestClose

LEMMA LootItems ==
    ASSUME ItemsInv, NEW s \in PartySlots, PartyQuestLootItem(s)
    PROVE  ItemsInv'
<1>1. CASE UNCHANGED <<chest, ground, server>>
  BY <1>1, ItemsKept
<1>2. CASE ground # Nothing /\ chest' = PutIn(chest, s, ground) /\ ground' = Nothing /\ UNCHANGED server
  BY <1>2, PutInTyped DEF ItemsInv
<1> QED
  BY <1>1, <1>2 DEF PartyQuestLootItem

LEMMA KillItems ==
    ASSUME ItemsInv, NEW s \in Species, KillInDungeon(s)
    PROVE  ItemsInv'
<1>1. QuestDrops[s] \subseteq Wares
  BY QuestAssumption
<1> QED
  BY <1>1, OneOfAWare DEF KillInDungeon, ItemsInv

-----------------------------------------------------------------------------
(* The requests of the members.                                             *)

LEMMA HandleStep ==
    ASSUME PartyInv, NEW m \in QuestMembers, Handle(m)
    PROVE  PartyInv'
<1>1. QuestsInv /\ ItemsInv /\ StepsAskedFor /\ request \in [QuestMembers -> Requests \union {Nothing}]
  BY PartyInvParts
<1>2. request' = [request EXCEPT ![m] = Nothing] /\ request[m] # Nothing
  BY DEF Handle
<1>3. request' \in [QuestMembers -> Requests \union {Nothing}] /\ StepsAskedFor'
  BY <1>1, <1>2 DEF StepsAskedFor
<1> DEFINE r == request[m]
<1>4. QuestsInv' /\ ItemsInv'
  <2>1. CASE r.act = "begin"
    <3>1. PartyQuestBegin(r.quest, r.place) /\ r.quest \in Quests /\ r.place \in QuestPlaces
      BY <1>2, <2>1, RequestFacts DEF Handle, PartyInv
    <3> QED
      BY <1>1, <3>1, BeginQuests, ItemsKept DEF PartyQuestBegin
  <2>2. CASE r.act = "action"
    <3>1. /\ PartyQuestAction(r.quest, r.place, r.step, r.slot)
          /\ r.quest \in Quests /\ r.place \in QuestPlaces /\ r.step \in StepNumbers
          /\ r.step < Len(NpcSet[r.quest])
      BY <1>1, <1>2, <2>2, RequestFacts DEF Handle, PartyInv, StepsAskedFor
    <3> QED
      BY <1>1, <3>1, ActionQuests, ActionItems
  <2>3. CASE r.act = "close"
    <3>1. PartyQuestClose(r.quest, r.place, r.picks, r.slot) /\ r.quest \in Quests /\ r.place \in QuestPlaces
      BY <1>2, <2>3, RequestFacts DEF Handle, PartyInv
    <3> QED
      BY <1>1, <3>1, CloseQuests, CloseItems
  <2>4. CASE r.act = "loot"
    <3>1. PartyQuestLootItem(r.slot) /\ r.slot \in PartySlots
      BY <1>2, <2>4, RequestFacts DEF Handle, PartyInv
    <3>2. UNCHANGED <<log, partyHistory>>
      BY <3>1 DEF PartyQuestLootItem
    <3> QED
      BY <1>1, <3>1, <3>2, LootItems DEF QuestsInv, partyHistory, KillsTyped, StepsAhead, PartyKillsCounted
  <2> QED
    BY <1>2, <2>1, <2>2, <2>3, <2>4, RequestFacts DEF PartyInv
<1> QED
  BY <1>3, <1>4 DEF PartyInv, QuestsInv, ItemsInv, PartyQuestTypeOK

LEMMA SendStep ==
    ASSUME PartyInv, NEW m \in QuestMembers, NEW r \in Requests, Send(m, r)
    PROVE  PartyInv'
<1>1. request' = [request EXCEPT ![m] = r] /\ UNCHANGED <<log, chest, ground, server, kills, taken>>
  BY DEF Send, partyHistory
<1>2. r.act = "action" => r.step < Len(NpcSet[r.quest])
  BY DEF Send, Sensible
<1>3. StepsAskedFor'
  BY <1>1, <1>2 DEF PartyInv, PartyQuestTypeOK, StepsAskedFor
<1> QED
  BY <1>1, <1>3 DEF PartyInv, PartyQuestTypeOK, KillsTyped, StepsAhead, PartyKillsCounted

LEMMA PartyStep ==
    ASSUME PartyInv, [PartyQuestNext]_partyQuestVars
    PROVE  PartyInv'
<1>1. ASSUME NEW m \in QuestMembers, Handle(m) PROVE PartyInv'
  BY <1>1, HandleStep
<1>2. ASSUME NEW m \in QuestMembers, NEW r \in Requests, Send(m, r) PROVE PartyInv'
  BY <1>2, SendStep
<1>3. ASSUME NEW s \in Species, KillInDungeon(s) PROVE PartyInv'
  <2>1. StepsAskedFor' /\ (request \in [QuestMembers -> Requests \union {Nothing}])'
    BY <1>3, PartyInvParts DEF KillInDungeon, StepsAskedFor
  <2>2. QuestsInv' /\ ItemsInv'
    BY <1>3, KillQuests, KillItems, PartyInvParts
  <2> QED
    BY <2>1, <2>2 DEF PartyInv, QuestsInv, ItemsInv, PartyQuestTypeOK
<1>4. CASE UNCHANGED partyQuestVars
  BY <1>4 DEF partyQuestVars, PartyInv, PartyQuestTypeOK, KillsTyped, StepsAskedFor, StepsAhead, PartyKillsCounted
<1> QED
  BY <1>1, <1>2, <1>3, <1>4 DEF PartyQuestNext

LEMMA PartyInitially == PartyQuestInit => PartyInv
<1> SUFFICES ASSUME PartyQuestInit PROVE PartyInv
  OBVIOUS
<1>1. \A p \in QuestPlaces : log[p] = Free /\ taken[p] = NotTaken /\ kills[p] = NoKills
  BY DEF PartyQuestInit
<1>2. QuestsInv
  BY <1>1, FreePlace, NothingTaken, NobodyKilled
     DEF PartyQuestInit, QuestsInv, KillsTyped, StepsAhead, PartyKillsCounted
<1>3. ItemsInv /\ StepsAskedFor /\ request \in [QuestMembers -> Requests \union {Nothing}]
  BY DEF PartyQuestInit, ItemsInv, StepsAskedFor
<1> QED
  BY <1>2, <1>3, PartyInvParts

LEMMA PartyInvAlways == PartyQuestSpec => []PartyInv
  BY PartyInitially, PartyStep, PTL DEF PartyQuestSpec

-----------------------------------------------------------------------------
\* The state of a party's quests, its inventory, what lies on the ground and the requests
\* have their types, for every table of quests.
THEOREM PartyQuestTypesAlways == PartyQuestSpec => []PartyQuestTypeOK
<1>1. PartyInv => PartyQuestTypeOK
  BY DEF PartyInv
<1> QED
  BY <1>1, PartyInvAlways, PTL

\* RTCharacterPartyQuestAction takes a step that gives or takes an item once in the life of a
\* quest, however many members ask for it before the first is answered.
THEOREM StepsOnceAlways == PartyQuestSpec => []StepsOnce
<1>1. PartyInv => StepsOnce
  BY DEF PartyInv, StepsAhead, StepsOnce
<1> QED
  BY <1>1, PartyInvAlways, PTL

\* The counters of a party's quests are what was killed since they were begun, whichever
\* member killed it and whatever the others begin and close meanwhile, if CountersSuffice.
THEOREM PartyKillsCountedAlways == PartyQuestSpec => []PartyKillsCounted
<1>1. PartyInv => PartyKillsCounted
  BY DEF PartyInv
<1> QED
  BY <1>1, PartyInvAlways, PTL
===============================================================================
