------------------------- MODULE CharacterSyncProofs -------------------------
(***************************************************************************)
(* Theorems about CharacterSync for any number of world servers, characters  *)
(* and sections: no change of a loaded character is forgotten, and a load     *)
(* finds what was there at the last unload, if the game client is orderly.    *)
(***************************************************************************)
EXTENDS CharacterSync, SequenceTheorems, WellFoundedInduction, TLAPS

Client == [id : Nat, closing : BOOLEAN, verified : BOOLEAN, listed : BOOLEAN, asked : BOOLEAN,
           account : Account, character : Characters \union {NoCharacter}]

InMemory == [loaded : {TRUE}, data : Data, account : Account, dirty : SUBSET Parts]

\* The packets to the master server and those of the database agent.
Request ==
    [kind : {"authenticate", "list"}, id : Nat]
      \union [kind : {"link"}, to : Worlds, id : Nat, account : Account]
      \union [kind : {"get"}, id : Nat, character : Characters]
      \union [kind : {"sync"}, id : Nat, character : Characters, mask : SUBSET Parts, data : Data,
              account : Account]
Reply ==
    [kind : {"authenticate"}, id : Nat, account : Account]
      \union [kind : {"list"}, id : Nat]
      \union [kind : {"get"}, id : Nat, character : Characters, success : BOOLEAN, data : Data,
              account : Account]
      \union [kind : {"sync"}, id : Nat, character : Characters, failed : SUBSET Parts]
Link == [id : Nat, account : Account]

QueuesTyped ==
    /\ toMaster \in [Worlds -> Seq(Request)]
    /\ fromDB \in [Worlds -> Seq(Reply)]
    /\ links \in [Worlds -> Seq(Link)]

ServersTyped ==
    /\ db \in [data : [Characters -> Data], account : Account]
    /\ client \in [Worlds -> Client]
    /\ memory \in [Worlds -> [Characters -> InMemory \union {Unloaded}]]
    /\ newest \in [Characters -> Data]
    /\ lost \subseteq Characters

CountersTyped ==
    /\ connections \in 0 .. MaxConnections /\ failures \in 0 .. MaxFailures
    /\ \A w \in Worlds : client[w].id <= connections

Typed == QueuesTyped /\ ServersTyped /\ CountersTyped

-----------------------------------------------------------------------------
(* Queues                                                                   *)

LEMMA Appended ==
    ASSUME NEW S, NEW Q \in [Worlds -> Seq(S)], NEW w \in Worlds, NEW m \in S,
           NEW R, R = [Q EXCEPT ![w] = Append(@, m)]
    PROVE  /\ R \in [Worlds -> Seq(S)]
           /\ \A v \in Worlds \ {w} : R[v] = Q[v]
           /\ Len(Q[w]) \in Nat /\ DOMAIN Q[w] = 1 .. Len(Q[w])
           /\ DOMAIN R[w] = 1 .. Len(Q[w]) + 1
           /\ \A i \in DOMAIN Q[w] : R[w][i] = Q[w][i]
           /\ R[w][Len(Q[w]) + 1] = m
  BY AppendProperties, LenProperties

LEMMA HeadTaken ==
    ASSUME NEW S, NEW Q \in [Worlds -> Seq(S)], NEW w \in Worlds, Q[w] # <<>>,
           NEW R, R = [Q EXCEPT ![w] = Tail(@)]
    PROVE  /\ R \in [Worlds -> Seq(S)]
           /\ \A v \in Worlds \ {w} : R[v] = Q[v]
           /\ 1 \in DOMAIN Q[w] /\ Head(Q[w]) = Q[w][1] /\ Head(Q[w]) \in S
           /\ Len(Q[w]) \in Nat /\ DOMAIN Q[w] = 1 .. Len(Q[w])
           /\ DOMAIN R[w] = 1 .. Len(Q[w]) - 1
           /\ \A i \in DOMAIN R[w] : i + 1 \in DOMAIN Q[w] /\ R[w][i] = Q[w][i + 1]
<1>1. /\ Len(Q[w]) \in Nat \ {0} /\ DOMAIN Q[w] = 1 .. Len(Q[w])
      /\ Head(Q[w]) = Q[w][1] /\ Head(Q[w]) \in S
  BY HeadTailProperties, LenProperties, EmptySeq
<1>2. /\ Tail(Q[w]) \in Seq(S) /\ Len(Tail(Q[w])) = Len(Q[w]) - 1
      /\ \A i \in 1 .. Len(Tail(Q[w])) : Tail(Q[w])[i] = Q[w][i + 1]
  BY HeadTailProperties
<1>3. R[w] = Tail(Q[w]) /\ DOMAIN R[w] = 1 .. Len(Q[w]) - 1
  BY <1>2, LenProperties
<1> QED
  BY <1>1, <1>2, <1>3

\* Induction over numbers, as a greatest counterexample.
LEMMA GreatestNumber ==
    ASSUME NEW n \in Nat, NEW T \in SUBSET (1 .. n), T # {}
    PROVE  \E k \in T : \A m \in T : m <= k
<1> DEFINE R == {ss \in Nat \X Nat : ss[1] < ss[2]}
           U == {i \in Nat : n - i \in T}
<1>1. IsWellFoundedOn(R, Nat)
  BY NatLessThanWellFounded DEF OpToRel
<1>2. \A x, y \in Nat : y < x => <<y, x>> \in R
  OBVIOUS
<1>3. U # {}
  <2>1. PICK k \in T : TRUE
    OBVIOUS
  <2>2. n - k \in Nat /\ n - (n - k) = k
    OBVIOUS
  <2> QED
    BY <2>1, <2>2
<1>4. U \in SUBSET Nat
  OBVIOUS
<1> HIDE DEF R, U
<1>5. PICK x \in U : \A y \in U : <<y, x>> \notin R
  BY <1>1, <1>3, <1>4, WFMin
<1>6. \A y \in U : ~(y < x)
  BY <1>2, <1>4, <1>5
<1>7. n - x \in T
  BY DEF U
<1>8. \A m \in T : n - m \in U
  BY DEF U
<1>9. \A m \in T : m <= n - x
  BY <1>4, <1>6, <1>8
<1> QED
  BY <1>7, <1>9

-----------------------------------------------------------------------------
(* Types                                                                    *)

LEMMA RequestFacts ==
    ASSUME NEW m \in Request
    PROVE  /\ m.id \in Nat
           /\ m.kind \in {"authenticate", "list", "link", "get", "sync"}
           /\ m.kind = "link" => m.to \in Worlds /\ m.account \in Account
           /\ m.kind = "get" => m.character \in Characters
           /\ m.kind = "sync" => /\ m.character \in Characters /\ m.mask \in SUBSET Parts
                                 /\ m.data \in Data /\ m.account \in Account
  BY DEF Request

LEMMA ReplyFacts ==
    ASSUME NEW m \in Reply
    PROVE  /\ m.id \in Nat
           /\ m.kind \in {"authenticate", "list", "get", "sync"}
           /\ m.kind = "authenticate" => m.account \in Account
           /\ m.kind = "get" => /\ m.character \in Characters /\ m.success \in BOOLEAN
                                /\ m.data \in Data /\ m.account \in Account
           /\ m.kind = "sync" => m.character \in Characters /\ m.failed \in SUBSET Parts
  BY DEF Reply

LEMMA Bounds ==
    /\ MaxVersion \in Nat /\ MaxGems \in Nat /\ MaxConnections \in Nat
    /\ MaxRequests \in Nat /\ MaxFailures \in Nat
  BY SyncAssumption

LEMMA InitiallyTyped == Init => Typed
<1> SUFFICES ASSUME Init PROVE Typed
  OBVIOUS
<1>1. /\ MaxVersion \in Nat /\ MaxGems \in Nat /\ MaxConnections \in Nat /\ MaxFailures \in Nat
  BY Bounds
<1>2. QueuesTyped
  BY EmptySeq DEF Init, QueuesTyped
<1>3. NoClient \in Client
  BY <1>1 DEF NoClient, Client, Account
<1>4. ServersTyped
  BY <1>1, <1>3 DEF Init, ServersTyped, Data, Account
<1>5. CountersTyped
  BY <1>1 DEF Init, CountersTyped, NoClient
<1> QED
  BY <1>2, <1>4, <1>5 DEF Typed

\* A loaded character is that of the connection.
LEMMA LoadedFacts ==
    ASSUME Typed, NEW w \in Worlds, Character(w).loaded
    PROVE  /\ client[w].character \in Characters
           /\ memory[w][client[w].character] \in InMemory
           /\ Character(w) = memory[w][client[w].character]
           /\ SyncMsg(w, client[w].character) \in Request
<1>1. client[w] \in Client /\ Unloaded.loaded = FALSE
  BY DEF Typed, ServersTyped, Unloaded
<1>2. client[w].character # NoCharacter
  BY <1>1 DEF Character
<1>3. client[w].character \in Characters /\ client[w].id \in Nat
  BY <1>1, <1>2 DEF Client
<1>4. memory[w][client[w].character] \in InMemory
  BY <1>1, <1>2, <1>3 DEF Character, Typed, ServersTyped
<1> QED
  BY <1>2, <1>3, <1>4 DEF Character, SyncMsg, InMemory, Request

LEMMA SendsTyped ==
    ASSUME QueuesTyped, NEW w \in Worlds, NEW m \in Request, Send(w, m), UNCHANGED <<fromDB, links>>
    PROVE  QueuesTyped'
  BY Appended DEF QueuesTyped, Send

LEMMA ReceivesTyped ==
    ASSUME QueuesTyped, NEW w \in Worlds, fromDB[w] # <<>>, Received(w), UNCHANGED <<toMaster, links>>
    PROVE  QueuesTyped' /\ Head(fromDB[w]) \in Reply
  BY HeadTaken DEF QueuesTyped, Received

LEMMA AnswersTyped ==
    ASSUME QueuesTyped, NEW w \in Worlds, toMaster[w] # <<>>, NEW m \in Reply,
           Taken(w), Answer(w, m), UNCHANGED links
    PROVE  QueuesTyped'
  BY Appended, HeadTaken DEF QueuesTyped, Taken, Answer

LEMMA HeadTyped ==
    ASSUME QueuesTyped, NEW w \in Worlds, toMaster[w] # <<>>
    PROVE  Head(toMaster[w]) \in Request
  BY HeadTaken DEF QueuesTyped

LEMMA MemoryTyped ==
    ASSUME Typed, NEW w \in Worlds, NEW c \in Characters, NEW x \in InMemory \union {Unloaded},
           memory' = [memory EXCEPT ![w][c] = x]
    PROVE  memory' \in [Worlds -> [Characters -> InMemory \union {Unloaded}]]
  BY DEF Typed, ServersTyped

LEMMA ClientTyped ==
    ASSUME Typed, NEW w \in Worlds, NEW x \in Client, x.id <= connections',
           connections' \in 0 .. MaxConnections, connections <= connections',
           client' = [client EXCEPT ![w] = x]
    PROVE  /\ client' \in [Worlds -> Client] /\ \A v \in Worlds : client'[v].id <= connections'
           /\ client'[w] = x /\ \A v \in Worlds \ {w} : client'[v] = client[v]
<1>1. /\ MaxVersion \in Nat /\ MaxGems \in Nat /\ MaxConnections \in Nat /\ MaxFailures \in Nat
  BY Bounds
<1>2. client' \in [Worlds -> Client] /\ client'[w] = x /\ \A v \in Worlds \ {w} : client'[v] = client[v]
  BY DEF Typed, ServersTyped
<1>3. \A v \in Worlds : client[v].id \in Nat
  BY DEF Typed, ServersTyped, Client
<1> QED
  BY <1>1, <1>2, <1>3 DEF Typed, CountersTyped

LEMMA ClientKept ==
    ASSUME Typed, NEW w \in Worlds, NEW x \in Client, x.id <= client[w].id, connections' = connections,
           client' = [client EXCEPT ![w] = x]
    PROVE  client' \in [Worlds -> Client] /\ \A v \in Worlds : client'[v].id <= connections'
<1>1. /\ client' \in [Worlds -> Client] /\ client'[w] = x
      /\ \A v \in Worlds \ {w} : client'[v] = client[v]
  BY DEF Typed, ServersTyped
<1>2. connections \in Nat
  BY Bounds DEF Typed, CountersTyped
<1>3. client[w].id \in Nat /\ x.id \in Nat /\ client[w].id <= connections
  BY DEF Typed, ServersTyped, CountersTyped, Client
<1>4. x.id <= connections'
  BY <1>2, <1>3
<1>5. \A v \in Worlds : client[v].id <= connections'
  BY DEF Typed, CountersTyped
<1> QED
  BY <1>1, <1>4, <1>5

LEMMA PlayTyped ==
    ASSUME Typed, NEW w \in Worlds, Play(w) \/ SyncTimer(w)
    PROVE  Typed'
<1> USE DEF Typed
<1>1. /\ MaxVersion \in Nat /\ MaxGems \in Nat /\ MaxConnections \in Nat /\ MaxFailures \in Nat
  BY Bounds
<1>2. client[w] \in Client /\ client[w].id \in Nat /\ client[w].id <= connections /\ connections \in Nat
  BY <1>1 DEF ServersTyped, CountersTyped, Client
<1>3. NoClient \in Client /\ NoClient.id = 0
  BY <1>1 DEF NoClient, Client, Account
<1>4. CASE Connect(w)
  <2> DEFINE x == [NoClient EXCEPT !.id = connections + 1]
  <2>1. x \in Client /\ x.id = connections + 1
    BY <1>2, <1>3 DEF Client
  <2>2. connections' \in 0 .. MaxConnections /\ connections' = connections + 1
        /\ client' = [client EXCEPT ![w] = x]
    BY <1>1, <1>2, <1>4 DEF Connect
  <2> HIDE DEF x
  <2>3. client' \in [Worlds -> Client] /\ \A v \in Worlds : client'[v].id <= connections'
    <3>1. connections <= connections' /\ x.id <= connections'
      BY <1>2, <2>1, <2>2
    <3> QED
      BY <2>1, <2>2, <3>1, ClientTyped
  <2> QED
    BY <1>4, <2>2, <2>3 DEF Connect, QueuesTyped, ServersTyped, CountersTyped
<1>5. CASE LogIn(w)
  <2>1. [kind |-> "authenticate", id |-> client[w].id] \in Request
    BY <1>2 DEF Request
  <2> QED
    BY <1>5, <2>1, SendsTyped DEF LogIn, ServersTyped, CountersTyped
<1>6. CASE GetCharacters(w)
  <2>1. [kind |-> "list", id |-> client[w].id] \in Request
    BY <1>2 DEF Request
  <2> QED
    BY <1>6, <2>1, SendsTyped DEF GetCharacters, ServersTyped, CountersTyped
<1>7. CASE Deinitialize(w)
  <2>1. Character(w).loaded
    BY <1>7 DEF Deinitialize, Playing
  <2>2. memory' \in [Worlds -> [Characters -> InMemory \union {Unloaded}]]
    BY <1>7, <2>1, LoadedFacts, MemoryTyped DEF Deinitialize
  <2>3. QueuesTyped'
    BY <1>7, <2>1, LoadedFacts, SendsTyped DEF Deinitialize
  <2> QED
    BY <1>7, <2>2, <2>3 DEF Deinitialize, ServersTyped, CountersTyped
<1>8. CASE Disconnect(w)
  <2>1. client' = [client EXCEPT ![w] = NoClient]
    BY <1>8 DEF Disconnect
  <2>2. connections' = connections /\ connections' \in 0 .. MaxConnections
    BY <1>8 DEF Disconnect, CountersTyped
  <2>5. NoClient.id <= client[w].id
    BY <1>2, <1>3
  <2>3. client' \in [Worlds -> Client] /\ \A v \in Worlds : client'[v].id <= connections'
    BY <1>3, <2>1, <2>2, <2>5, ClientKept
  <2>4. memory' \in [Worlds -> [Characters -> InMemory \union {Unloaded}]] /\ QueuesTyped'
    <3>1. CASE Character(w).loaded
      BY <1>8, <3>1, LoadedFacts, MemoryTyped, SendsTyped DEF Disconnect
    <3>2. CASE ~Character(w).loaded
      BY <1>8, <3>2, SMTT(30) DEF Disconnect, ServersTyped, QueuesTyped
    <3> QED
      BY <3>1, <3>2
  <2> QED
    BY <1>8, <2>2, <2>3, <2>4 DEF Disconnect, ServersTyped, CountersTyped
<1>9. CASE AddForceGem(w)
  <2> DEFINE c == client[w].character
             x == [memory[w][c] EXCEPT !.account = @ + 1, !.dirty = @ \union {"account"}]
  <2>1. Character(w).loaded /\ memory[w][c].account < MaxGems
    BY <1>9 DEF AddForceGem, Playing
  <2>5. memory[w][c] \in InMemory /\ memory[w][c].account \in 0 .. MaxGems
    BY <2>1, LoadedFacts DEF InMemory, Account
  <2>2. memory[w][c] \in InMemory /\ memory[w][c].account + 1 \in Account
    BY <1>1, <2>1, <2>5 DEF Account
  <2>3. x \in InMemory
    BY <2>2 DEF InMemory, Parts
  <2>4. memory' = [memory EXCEPT ![w][c] = x]
    BY <1>9, <2>1, LoadedFacts DEF AddForceGem, ServersTyped, InMemory
  <2> HIDE DEF x
  <2> QED
    BY <1>9, <2>1, <2>3, <2>4, LoadedFacts, MemoryTyped
       DEF AddForceGem, ServersTyped, QueuesTyped, CountersTyped
<1>10. ASSUME NEW to \in Worlds, VerifyLinks(w, to) PROVE Typed'
  <2> DEFINE x == [client[w] EXCEPT !.closing = TRUE]
             m == [kind |-> "link", to |-> to, id |-> client[to].id, account |-> client[w].account]
  <2>1. m \in Request
    BY <1>2 DEF Request, Client, ServersTyped
  <2>2. x \in Client /\ x.id = client[w].id
    BY <1>2 DEF Client
  <2>5. client[w].id <= client[w].id
    BY <1>2
  <2>3. client' = [client EXCEPT ![w] = x] /\ connections' = connections
    BY <1>10 DEF VerifyLinks
  <2> HIDE DEF x
  <2>4. client' \in [Worlds -> Client] /\ \A v \in Worlds : client'[v].id <= connections'
    BY <2>2, <2>3, <2>5, ClientKept
  <2> QED
    BY <1>10, <2>1, <2>4, SendsTyped DEF VerifyLinks, ServersTyped, CountersTyped
<1>11. ASSUME NEW c \in Characters, Initialize(w, c) PROVE Typed'
  <2> DEFINE x == [client[w] EXCEPT !.asked = TRUE]
  <2>1. [kind |-> "get", id |-> client[w].id, character |-> c] \in Request
    BY <1>2 DEF Request
  <2>2. x \in Client /\ x.id = client[w].id
    BY <1>2 DEF Client
  <2>5. client[w].id <= client[w].id
    BY <1>2
  <2>3. client' = [client EXCEPT ![w] = x] /\ connections' = connections
    BY <1>11 DEF Initialize
  <2> HIDE DEF x
  <2>4. client' \in [Worlds -> Client] /\ \A v \in Worlds : client'[v].id <= connections'
    BY <2>2, <2>3, <2>5, ClientKept, Zenon
  <2> QED
    BY <1>11, <2>1, <2>4, SendsTyped DEF Initialize, ServersTyped, CountersTyped
<1>12. ASSUME NEW s \in Sections, Touch(w, s) PROVE Typed'
  <2> DEFINE c == client[w].character
             x == [memory[w][c] EXCEPT !.data = [@ EXCEPT ![s] = newest[c][s] + 1],
                                       !.dirty = @ \union {s}]
  <2>1. Character(w).loaded /\ newest[c][s] < MaxVersion /\ newest' = [newest EXCEPT ![c][s] = @ + 1]
    BY <1>12 DEF Touch, Playing
  <2>2. newest[c] \in Data /\ newest[c][s] + 1 \in 0 .. MaxVersion
    BY <1>1, <2>1, LoadedFacts DEF ServersTyped, Data
  <2>3. x \in InMemory
    BY <2>1, <2>2, LoadedFacts DEF InMemory, Data, Parts
  <2>4. memory' = [memory EXCEPT ![w][c] = x]
    BY <1>12, <2>1, LoadedFacts, ZenonT(60) DEF Touch, ServersTyped, InMemory
  <2>5. newest' \in [Characters -> Data]
    BY <2>1, <2>2, LoadedFacts DEF ServersTyped, Data
  <2> HIDE DEF x
  <2>6. memory' \in [Worlds -> [Characters -> InMemory \union {Unloaded}]]
    BY <2>1, <2>3, <2>4, LoadedFacts, MemoryTyped
  <2> QED
    BY <1>12, <2>5, <2>6, Zenon DEF Touch, ServersTyped, QueuesTyped, CountersTyped
<1>13. CASE SyncTimer(w)
  <2> DEFINE c == client[w].character
             x == [memory[w][c] EXCEPT !.dirty = {}]
  <2>1. x \in InMemory
    BY <1>13, LoadedFacts DEF SyncTimer, InMemory
  <2>2. memory' = [memory EXCEPT ![w][c] = x]
    BY <1>13, LoadedFacts DEF SyncTimer, ServersTyped, InMemory
  <2>3. QueuesTyped'
    BY <1>13, LoadedFacts, SendsTyped DEF SyncTimer
  <2> QED
    BY <1>13, <2>1, <2>2, <2>3, LoadedFacts, MemoryTyped DEF SyncTimer, ServersTyped, CountersTyped
<1> QED
  BY <1>4, <1>5, <1>6, <1>7, <1>8, <1>9, <1>10, <1>11, <1>12, <1>13 DEF Play

LEMMA ServeTyped ==
    ASSUME Typed, NEW w \in Worlds, Serve(w)
    PROVE  Typed'
<1> USE DEF Typed
<1> DEFINE m == Head(fromDB[w])
           r == Head(toMaster[w])
<1>1. /\ MaxVersion \in Nat /\ MaxGems \in Nat /\ MaxConnections \in Nat /\ MaxFailures \in Nat
  BY Bounds
<1>2. client[w] \in Client /\ client[w].id \in Nat /\ client[w].id <= client[w].id
  BY DEF ServersTyped, Client
<1>3. fromDB[w] # <<>> => m \in Reply
  BY HeadTaken DEF QueuesTyped
<1>4. toMaster[w] # <<>> => r \in Request
  BY HeadTyped
<1>5. db.data \in [Characters -> Data] /\ db.account \in Account
  BY DEF ServersTyped
<1>6. CASE OnAuthenticate(w)
  <2> DEFINE x == [client[w] EXCEPT !.verified = TRUE, !.account = m.account]
  <2>1. m.account \in Account
    BY <1>3, <1>6, ReplyFacts DEF OnAuthenticate, Addressed
  <2>2. x \in Client /\ x.id = client[w].id
    BY <1>2, <2>1 DEF Client
  <2>3. client' = [client EXCEPT ![w] = x] /\ connections' = connections
    BY <1>6 DEF OnAuthenticate, ServersTyped, Client
  <2> HIDE DEF x
  <2>4. client' \in [Worlds -> Client] /\ \A v \in Worlds : client'[v].id <= connections'
    BY <1>2, <2>2, <2>3, ClientKept
  <2>5. QueuesTyped'
    BY <1>6, ReceivesTyped DEF OnAuthenticate, Addressed
  <2> QED
    BY <1>6, <2>4, <2>5 DEF OnAuthenticate, ServersTyped, CountersTyped
<1>7. CASE OnGetCharacterList(w)
  <2> DEFINE x == [client[w] EXCEPT !.listed = client[w].verified \/ client[w].listed]
  <2>1. x \in Client /\ x.id = client[w].id
    BY <1>2 DEF Client
  <2>2. client' = [client EXCEPT ![w] = x] /\ connections' = connections
    BY <1>7 DEF OnGetCharacterList, ServersTyped, Client
  <2> HIDE DEF x
  <2>4. client' \in [Worlds -> Client] /\ \A v \in Worlds : client'[v].id <= connections'
    BY <1>2, <2>1, <2>2, ClientKept
  <2>5. QueuesTyped'
    BY <1>7, ReceivesTyped DEF OnGetCharacterList, Addressed
  <2> QED
    BY <1>7, <2>4, <2>5 DEF OnGetCharacterList, ServersTyped, CountersTyped
<1>8. CASE OnVerifyLinks(w)
  <2> DEFINE l == Head(links[w])
             x == [client[w] EXCEPT !.verified = TRUE, !.listed = TRUE, !.account = l.account]
  <2>1. links' \in [Worlds -> Seq(Link)] /\ l \in Link
    BY <1>8, HeadTaken DEF OnVerifyLinks, QueuesTyped
  <2>2. x \in Client /\ x.id = client[w].id
    BY <1>2, <2>1 DEF Client, Link
  <2>3. \/ UNCHANGED client
        \/ client' = [client EXCEPT ![w] = x]
    BY <1>8 DEF OnVerifyLinks, ServersTyped, Client
  <2>4. connections' = connections
    BY <1>8 DEF OnVerifyLinks
  <2> HIDE DEF x
  <2>5. CASE UNCHANGED client
    BY <1>8, <2>1, <2>5 DEF OnVerifyLinks, QueuesTyped, ServersTyped, CountersTyped
  <2>6. CASE client' = [client EXCEPT ![w] = x]
    <3>1. client' \in [Worlds -> Client] /\ \A v \in Worlds : client'[v].id <= connections'
      BY <1>2, <2>2, <2>4, <2>6, ClientKept
    <3> QED
      BY <1>8, <2>1, <3>1 DEF OnVerifyLinks, QueuesTyped, ServersTyped, CountersTyped
  <2> QED
    BY <2>3, <2>5, <2>6
<1>9. CASE OnGetCharacter(w)
  <2> DEFINE c == m.character
             x == [client[w] EXCEPT !.character = c, !.account = m.account, !.asked = FALSE]
             y == Loaded(m.data, client[w].account)
  <2>1. c \in Characters /\ m.data \in Data /\ m.account \in Account
    BY <1>3, <1>9, ReplyFacts DEF OnGetCharacter, Addressed
  <2>2. x \in Client /\ x.id = client[w].id
    BY <1>2, <2>1 DEF Client
  <2>3. client' = [client EXCEPT ![w] = x] /\ connections' = connections
    BY <1>9 DEF OnGetCharacter, ServersTyped, Client
  <2>4. y \in InMemory /\ memory' = [memory EXCEPT ![w][c] = y]
    BY <1>2, <1>9, <2>1 DEF OnGetCharacter, Loaded, InMemory, Client
  <2> HIDE DEF x, y, c
  <2>5. client' \in [Worlds -> Client] /\ \A v \in Worlds : client'[v].id <= connections'
    BY <1>2, <2>2, <2>3, ClientKept
  <2>6. memory' \in [Worlds -> [Characters -> InMemory \union {Unloaded}]]
    BY <2>1, <2>4, MemoryTyped
  <2>7. QueuesTyped'
    BY <1>9, ReceivesTyped DEF OnGetCharacter, Addressed
  <2> QED
    BY <1>9, <2>5, <2>6, <2>7 DEF OnGetCharacter, ServersTyped, CountersTyped
<1>10. CASE OnGetCharacterFailed(w)
  <2> DEFINE x == [client[w] EXCEPT !.closing = TRUE]
  <2>1. x \in Client /\ x.id = client[w].id
    BY <1>2 DEF Client
  <2>2. client' = [client EXCEPT ![w] = x] /\ connections' = connections
    BY <1>10 DEF OnGetCharacterFailed
  <2> HIDE DEF x
  <2>4. client' \in [Worlds -> Client] /\ \A v \in Worlds : client'[v].id <= connections'
    BY <1>2, <2>1, <2>2, ClientKept
  <2>5. QueuesTyped'
    BY <1>10, ReceivesTyped DEF OnGetCharacterFailed, Addressed
  <2> QED
    BY <1>10, <2>4, <2>5 DEF OnGetCharacterFailed, ServersTyped, CountersTyped
<1>11. CASE OnSync(w)
  <2> DEFINE c == client[w].character
             y == [memory[w][c] EXCEPT !.dirty = @ \union m.failed]
  <2>1. m.failed \in SUBSET Parts /\ m.character \in Characters
    BY <1>3, <1>11, ReplyFacts DEF OnSync, Addressed
  <2>2. memory' \in [Worlds -> [Characters -> InMemory \union {Unloaded}]]
    <3>1. CASE Character(w).loaded
      <4>1. y \in InMemory
        BY <2>1, <3>1, LoadedFacts DEF InMemory
      <4>2. memory' = [memory EXCEPT ![w][c] = y]
        BY <1>11, <3>1, LoadedFacts DEF OnSync, Remark, ServersTyped, InMemory
      <4> HIDE DEF y
      <4> QED
        BY <3>1, <4>1, <4>2, LoadedFacts, MemoryTyped
    <3>2. CASE ~Character(w).loaded
      BY <1>11, <3>2 DEF OnSync, ServersTyped
    <3> QED
      BY <3>1, <3>2
  <2>3. lost' \subseteq Characters
    BY <1>11, <2>1 DEF OnSync, ServersTyped
  <2>4. QueuesTyped'
    BY <1>11, ReceivesTyped DEF OnSync, Addressed
  <2> QED
    BY <1>11, <2>2, <2>3, <2>4 DEF OnSync, ServersTyped, CountersTyped
<1>12. CASE DropAnswer(w)
  <2>1. lost' \subseteq Characters
    BY <1>3, <1>12, ReplyFacts DEF DropAnswer, ServersTyped
  <2>2. QueuesTyped'
    BY <1>12, ReceivesTyped DEF DropAnswer
  <2> QED
    BY <1>12, <2>1, <2>2 DEF DropAnswer, ServersTyped, CountersTyped
<1>13. CASE Forward(w)
  <2> DEFINE l == [id |-> r.id, account |-> r.account]
  <2>1. r.to \in Worlds /\ l \in Link
    BY <1>4, <1>13, RequestFacts DEF Forward, HeadIs, Link
  <2>2. links' = [links EXCEPT ![r.to] = Append(@, l)]
    BY <1>13 DEF Forward
  <2> HIDE DEF l
  <2>3. links' \in [Worlds -> Seq(Link)]
    BY <2>1, <2>2, Appended DEF QueuesTyped
  <2>4. toMaster' \in [Worlds -> Seq(Request)]
    BY <1>13, HeadTaken DEF Forward, HeadIs, Taken, QueuesTyped
  <2> QED
    BY <1>13, <2>3, <2>4 DEF Forward, QueuesTyped, ServersTyped, CountersTyped
<1>14. CASE DBAuthenticate(w)
  <2> DEFINE a == [kind |-> "authenticate", id |-> r.id, account |-> db.account]
  <2>1. a \in Reply
    BY <1>4, <1>5, <1>14, RequestFacts DEF DBAuthenticate, HeadIs, Reply
  <2>2. Taken(w) /\ Answer(w, a) /\ UNCHANGED links /\ toMaster[w] # <<>>
    BY <1>14 DEF DBAuthenticate, HeadIs
  <2> HIDE DEF a
  <2>3. QueuesTyped'
    BY <2>1, <2>2, AnswersTyped
  <2> QED
    BY <1>14, <2>3 DEF DBAuthenticate, ServersTyped, CountersTyped
<1>15. CASE DBGetCharacterList(w)
  <2> DEFINE a == [kind |-> "list", id |-> r.id]
  <2>1. a \in Reply
    BY <1>4, <1>15, RequestFacts DEF DBGetCharacterList, HeadIs, Reply
  <2>2. Taken(w) /\ Answer(w, a) /\ UNCHANGED links /\ toMaster[w] # <<>>
    BY <1>15 DEF DBGetCharacterList, HeadIs
  <2> HIDE DEF a
  <2>3. QueuesTyped'
    BY <2>1, <2>2, AnswersTyped
  <2> QED
    BY <1>15, <2>3 DEF DBGetCharacterList, ServersTyped, CountersTyped
<1>16. CASE DBGetCharacter(w)
  <2>1. PICK success \in BOOLEAN :
          /\ ~success => failures < MaxFailures
          /\ failures' = IF success THEN failures ELSE failures + 1
          /\ Answer(w, [kind |-> "get", id |-> r.id, character |-> r.character,
                        success |-> success, data |-> db.data[r.character],
                        account |-> db.account])
    BY <1>16 DEF DBGetCharacter
  <2> DEFINE a == [kind |-> "get", id |-> r.id, character |-> r.character,
                   success |-> success, data |-> db.data[r.character], account |-> db.account]
  <2>2. a \in Reply
    BY <1>4, <1>5, <1>16, RequestFacts DEF DBGetCharacter, HeadIs, Reply
  <2>3. Taken(w) /\ Answer(w, a) /\ UNCHANGED links /\ toMaster[w] # <<>>
    BY <1>16, <2>1 DEF DBGetCharacter, HeadIs
  <2> HIDE DEF a
  <2>4. QueuesTyped'
    BY <2>2, <2>3, AnswersTyped
  <2>5. failures' \in 0 .. MaxFailures
    BY <1>1, <2>1 DEF CountersTyped
  <2> QED
    BY <1>16, <2>4, <2>5 DEF DBGetCharacter, ServersTyped, CountersTyped
<1>17. CASE DBSync(w)
  <2>1. PICK failed \in SUBSET r.mask :
          /\ failed # {} => failures < MaxFailures
          /\ failures' = IF failed = {} THEN failures ELSE failures + 1
          /\ db' = Saved(r, r.mask \ failed)
          /\ Answer(w, [kind |-> "sync", id |-> r.id, character |-> r.character, failed |-> failed])
    BY <1>17 DEF DBSync
  <2> DEFINE a == [kind |-> "sync", id |-> r.id, character |-> r.character, failed |-> failed]
  <2>2. /\ r.character \in Characters /\ r.mask \in SUBSET Parts /\ r.data \in Data
        /\ r.account \in Account /\ r.id \in Nat
    BY <1>4, <1>17, RequestFacts DEF DBSync, HeadIs
  <2>3. a \in Reply
    BY <2>2 DEF Reply
  <2>4. Taken(w) /\ Answer(w, a) /\ UNCHANGED links /\ toMaster[w] # <<>>
    BY <1>17, <2>1 DEF DBSync, HeadIs
  <2> HIDE DEF a
  <2>5. QueuesTyped'
    BY <2>3, <2>4, AnswersTyped
  <2>6. failures' \in 0 .. MaxFailures
    BY <1>1, <2>1 DEF CountersTyped
  <2>7. db' \in [data : [Characters -> Data], account : Account]
    BY <1>5, <2>1, <2>2 DEF Saved, Data
  <2> QED
    BY <1>17, <2>5, <2>6, <2>7 DEF DBSync, ServersTyped, CountersTyped
<1> QED
  BY <1>6, <1>7, <1>8, <1>9, <1>10, <1>11, <1>12, <1>13, <1>14, <1>15, <1>16, <1>17 DEF Serve

LEMMA TypedStep == Typed /\ [Next]_vars => Typed'
<1>1. ASSUME Typed, UNCHANGED vars PROVE Typed'
  BY <1>1 DEF vars, Typed, QueuesTyped, ServersTyped, CountersTyped
<1> QED
  BY <1>1, PlayTyped, ServeTyped DEF Next

\* Whatever the game client does and whichever calls fail, the packets, the connections and
\* the characters in memory are what the handlers take them for.
THEOREM SyncTypesAlways == Spec => []SyncTypeOK
<1>1. ASSUME Typed PROVE SyncTypeOK
  <2>1. ASSUME NEW w \in Worlds
        PROVE  client[w] \in [id : 0 .. MaxConnections, closing : BOOLEAN, verified : BOOLEAN,
                              listed : BOOLEAN, asked : BOOLEAN, account : Account,
                              character : Characters \union {NoCharacter}]
    <3>1. client[w] \in Client /\ client[w].id \in Nat
      BY <1>1 DEF Typed, ServersTyped, Client
    <3>2. client[w].id \in 0 .. MaxConnections
      BY <1>1, <3>1, Bounds DEF Typed, CountersTyped
    <3> QED
      BY <3>1, <3>2 DEF Client
  <2>2. \A w \in Worlds, c \in Characters : memory[w][c] \in InMemory \union {Unloaded}
    BY <1>1 DEF Typed, ServersTyped
  <2> QED
    BY <1>1, <2>1, <2>2 DEF Typed, ServersTyped, CountersTyped, SyncTypeOK, InMemory
<1> QED
  BY <1>1, InitiallyTyped, TypedStep, PTL DEF Spec

-----------------------------------------------------------------------------
(* What the database will hold                                              *)

IsSave(m, c, s) == m.kind = "sync" /\ m.character = c /\ s \in m.mask

SavesOf(q, c, s) == {i \in DOMAIN q : IsSave(q[i], c, s)}

HoldsAfter(q, c, s, d) ==
    IF SavesOf(q, c, s) = {} THEN d
    ELSE q[CHOOSE i \in SavesOf(q, c, s) : \A j \in SavesOf(q, c, s) : j <= i].data[s]

LEMMA WillHoldIs ==
    \A w, c, s : /\ WillHold(w, c, s) = HoldsAfter(toMaster[w], c, s, db.data[c][s])
                 /\ WillHold(w, c, s)' = HoldsAfter(toMaster'[w], c, s, db'.data[c][s])
  BY DEF WillHold, HoldsAfter, SavesOf, IsSave

LEMMA HoldsLast ==
    ASSUME NEW S, NEW q \in Seq(S), NEW c, NEW s, NEW d,
           NEW i \in SavesOf(q, c, s), \A j \in SavesOf(q, c, s) : j <= i
    PROVE  HoldsAfter(q, c, s, d) = q[i].data[s]
<1> DEFINE T == SavesOf(q, c, s)
           k == CHOOSE x \in T : \A y \in T : y <= x
<1>1. T \subseteq Nat
  BY LenProperties DEF SavesOf
<1>2. HoldsAfter(q, c, s, d) = q[k].data[s]
  BY DEF HoldsAfter
<1> HIDE DEF T
<1>3. i \in T /\ \A y \in T : y <= i
  BY DEF T
<1>4. k \in T /\ \A y \in T : y <= k
  BY <1>3
<1> HIDE DEF k
<1>5. k <= i /\ i <= k /\ k \in Nat /\ i \in Nat
  BY <1>1, <1>3, <1>4
<1>6. k = i
  BY <1>5
<1> QED
  BY <1>2, <1>6

LEMMA LastSave ==
    ASSUME NEW S, NEW q \in Seq(S), NEW c, NEW s, SavesOf(q, c, s) # {}
    PROVE  \E i \in SavesOf(q, c, s) : \A j \in SavesOf(q, c, s) : j <= i
<1>1. SavesOf(q, c, s) \in SUBSET (1 .. Len(q)) /\ Len(q) \in Nat
  BY LenProperties DEF SavesOf
<1> QED
  BY <1>1, GreatestNumber

LEMMA HoldsAppend ==
    ASSUME NEW S, NEW q \in Seq(S), NEW m \in S, NEW c, NEW s, NEW d
    PROVE  HoldsAfter(Append(q, m), c, s, d)
             = IF IsSave(m, c, s) THEN m.data[s] ELSE HoldsAfter(q, c, s, d)
<1> DEFINE r == Append(q, m)
           n == Len(q)
           T == SavesOf(q, c, s)
           U == SavesOf(r, c, s)
<1>1. /\ n \in Nat /\ DOMAIN q = 1 .. n /\ DOMAIN r = 1 .. n + 1 /\ r \in Seq(S)
      /\ r[n + 1] = m /\ \A i \in 1 .. n : r[i] = q[i]
  BY AppendProperties, LenProperties
<1> HIDE DEF r, n
<1>2. CASE IsSave(m, c, s)
  <2>1. n + 1 \in U /\ \A j \in U : j <= n + 1
    BY <1>1, <1>2 DEF SavesOf
  <2>2. HoldsAfter(r, c, s, d) = r[n + 1].data[s]
    BY <1>1, <2>1, HoldsLast
  <2> QED
    BY <1>1, <1>2, <2>2 DEF r
<1>3. CASE ~IsSave(m, c, s)
  <2>1. U = T
    BY <1>1, <1>3 DEF SavesOf
  <2>2. CASE T = {}
    <3>1. HoldsAfter(q, c, s, d) = d /\ HoldsAfter(r, c, s, d) = d
      BY <2>1, <2>2 DEF HoldsAfter
    <3> QED
      BY <1>3, <3>1 DEF r
  <2>3. CASE T # {}
    <3>1. PICK i \in T : \A j \in T : j <= i
      BY <2>3, LastSave
    <3>2. HoldsAfter(q, c, s, d) = q[i].data[s]
      BY <3>1, HoldsLast
    <3>3. HoldsAfter(r, c, s, d) = r[i].data[s]
      BY <1>1, <2>1, <3>1, HoldsLast
    <3>4. i \in 1 .. n
      BY <1>1 DEF SavesOf
    <3> QED
      BY <1>1, <1>3, <3>2, <3>3, <3>4 DEF r
  <2> QED
    BY <2>2, <2>3
<1> QED
  BY <1>2, <1>3

LEMMA HoldsTail ==
    ASSUME NEW S, NEW q \in Seq(S), q # <<>>, NEW c, NEW s, NEW d
    PROVE  HoldsAfter(q, c, s, d)
             = HoldsAfter(Tail(q), c, s, IF IsSave(Head(q), c, s) THEN Head(q).data[s] ELSE d)
<1> DEFINE r == Tail(q)
           n == Len(q)
           T == SavesOf(q, c, s)
           U == SavesOf(r, c, s)
           e == IF IsSave(Head(q), c, s) THEN Head(q).data[s] ELSE d
<1>1. /\ n \in Nat \ {0} /\ DOMAIN q = 1 .. n /\ DOMAIN r = 1 .. n - 1 /\ r \in Seq(S)
      /\ Head(q) = q[1] /\ \A i \in 1 .. n - 1 : r[i] = q[i + 1]
  BY HeadTailProperties, LenProperties, EmptySeq
<1> HIDE DEF r, n, e
<1>2. U = {i \in 1 .. n - 1 : i + 1 \in T}
  BY <1>1 DEF SavesOf
<1>3. T \subseteq 1 .. n /\ \A j \in T : j # 1 => j - 1 \in U /\ (j - 1) + 1 = j
  <2>1. T \subseteq 1 .. n
    BY <1>1 DEF SavesOf
  <2> QED
    BY <1>1, <1>2, <2>1
<1>4. 1 \in T <=> IsSave(Head(q), c, s)
  BY <1>1 DEF SavesOf
<1> HIDE DEF T, U
<1>5. CASE U = {}
  <2>1. HoldsAfter(r, c, s, e) = e
    BY <1>5 DEF HoldsAfter, U
  <2>2. T \subseteq {1}
    BY <1>1, <1>3, <1>5
  <2>3. CASE 1 \in T
    <3>1. T = {1}
      BY <2>2, <2>3
    <3>2. \A j \in T : j <= 1
      BY <3>1
    <3>3. HoldsAfter(q, c, s, d) = q[1].data[s]
      BY <1>1, <2>3, <3>2, HoldsLast DEF T
    <3> QED
      BY <1>1, <1>4, <2>1, <2>3, <3>3 DEF e, r
  <2>4. CASE 1 \notin T
    <3>1. T = {}
      BY <2>2, <2>4
    <3> QED
      BY <1>4, <2>1, <2>4, <3>1 DEF HoldsAfter, T, e, r
  <2> QED
    BY <2>3, <2>4
<1>6. CASE U # {}
  <2>1. PICK i \in U : \A j \in U : j <= i
    BY <1>1, <1>6, LastSave DEF U
  <2>2. HoldsAfter(r, c, s, e) = r[i].data[s]
    BY <1>1, <2>1, HoldsLast DEF U
  <2>3. i \in 1 .. n - 1 /\ i + 1 \in T
    BY <1>2, <2>1
  <2>4. \A j \in T : j <= i + 1
    <3> SUFFICES ASSUME NEW j \in T PROVE j <= i + 1
      OBVIOUS
    <3>1. j \in Nat /\ i \in Nat /\ (j # 1 => j - 1 <= i)
      BY <1>1, <1>3, <2>1, <2>3
    <3> QED
      BY <3>1
  <2>5. HoldsAfter(q, c, s, d) = q[i + 1].data[s]
    BY <1>1, <2>3, <2>4, HoldsLast, SMTT(30) DEF T
  <2> QED
    BY <1>1, <2>2, <2>3, <2>5 DEF e, r
<1> QED
  BY <1>5, <1>6

-----------------------------------------------------------------------------
(* The invariant                                                            *)

Live(w) == client[w].verified /\ ~client[w].closing

\* Where the right to play is: with a connection that is verified, with a packet that will
\* verify one, or with an answer or a link that does.
Places == {"client", "out", "in", "links"}

TokenAt(k, w, i) ==
    \/ k = "client" /\ i = 0 /\ Live(w)
    \/ k = "out" /\ i \in DOMAIN toMaster[w] /\ toMaster[w][i].kind \in {"authenticate", "link"}
    \/ k = "in" /\ i \in DOMAIN fromDB[w] /\ fromDB[w][i].kind = "authenticate"
    \/ k = "links" /\ i \in DOMAIN links[w]

OneToken ==
    \A k, l \in Places : \A v, w \in Worlds : \A i, j \in Nat :
       TokenAt(k, v, i) /\ TokenAt(l, w, j) => k = l /\ v = w /\ i = j

SaveAt(w, j) == j \in DOMAIN toMaster[w] /\ toMaster[w][j].kind = "sync"

\* The saves that are on their way are those of the server that may play, or that gives the
\* right to play away behind them.
SavesFirst ==
    \A k \in Places : \A v, w \in Worlds : \A i, j \in Nat :
       TokenAt(k, v, i) /\ SaveAt(w, j) =>
          /\ v = w
          /\ \/ k = "client" /\ toMaster[w][j].id = client[w].id
             \/ k = "out" /\ toMaster[v][i].kind = "link" /\ j < i

SavesInOne == \A v, w \in Worlds : \A i, j \in Nat : SaveAt(v, i) /\ SaveAt(w, j) => v = w

Tokens == OneToken /\ SavesFirst /\ SavesInOne

\* What is loaded is the character of a connection that may play and waits for nothing.
LoadedLive ==
    \A w \in Worlds : \A c \in Characters :
       memory[w][c].loaded =>
          client[w].character = c /\ Live(w) /\ ~client[w].asked /\ client[w].id # 0

-----------------------------------------------------------------------------
(* Steps of one world server                                                *)

\* What a server does changes nothing of another's but the links.
LEMMA Elsewhere ==
    ASSUME Typed, NEW w \in Worlds, Serve(w) \/ SyncTimer(w) \/ Play(w)
    PROVE  \A v \in Worlds \ {w} :
              /\ toMaster'[v] = toMaster[v] /\ fromDB'[v] = fromDB[v]
              /\ client'[v] = client[v] /\ memory'[v] = memory[v]
<1> USE DEF Typed, QueuesTyped, ServersTyped
<1>1. ASSUME Play(w) \/ SyncTimer(w)
      PROVE  \A v \in Worlds \ {w} :
                /\ toMaster'[v] = toMaster[v] /\ fromDB'[v] = fromDB[v]
                /\ client'[v] = client[v] /\ memory'[v] = memory[v]
  BY <1>1, ZenonT(60) DEF Play, SyncTimer, Connect, LogIn, GetCharacters, Deinitialize, Disconnect, AddForceGem,
              VerifyLinks, Initialize, Touch, Send
<1>2. ASSUME Serve(w)
      PROVE  \A v \in Worlds \ {w} :
                /\ toMaster'[v] = toMaster[v] /\ fromDB'[v] = fromDB[v]
                /\ client'[v] = client[v] /\ memory'[v] = memory[v]
  BY <1>2, Zenon DEF Serve, OnAuthenticate, OnGetCharacterList, OnVerifyLinks, OnGetCharacter,
              OnGetCharacterFailed, OnSync, DropAnswer, Forward, DBAuthenticate, DBGetCharacterList,
              DBGetCharacter, DBSync, Received, Taken, Answer
<1> QED
  BY <1>1, <1>2

\* A queue that a packet is added to, and one whose head is taken.
Longer(q, r, m) ==
    /\ Len(q) \in Nat /\ DOMAIN q = 1 .. Len(q) /\ DOMAIN r = 1 .. Len(q) + 1
    /\ \A i \in DOMAIN q : r[i] = q[i]
    /\ r[Len(q) + 1] = m

Shorter(q, r) ==
    /\ Len(q) \in Nat /\ 1 \in DOMAIN q /\ Head(q) = q[1]
    /\ DOMAIN q = 1 .. Len(q) /\ DOMAIN r = 1 .. Len(q) - 1
    /\ \A i \in DOMAIN r : i + 1 \in DOMAIN q /\ r[i] = q[i + 1]

LEMMA SendsLonger ==
    ASSUME Typed, NEW w \in Worlds, NEW m \in Request, Send(w, m)
    PROVE  Longer(toMaster[w], toMaster'[w], m)
  BY Appended DEF Typed, QueuesTyped, Send, Longer

LEMMA TakenShorter ==
    ASSUME Typed, NEW w \in Worlds, toMaster[w] # <<>>, Taken(w)
    PROVE  Shorter(toMaster[w], toMaster'[w])
  BY HeadTaken DEF Typed, QueuesTyped, Taken, Shorter

LEMMA AnswerLonger ==
    ASSUME Typed, NEW w \in Worlds, NEW m \in Reply, Answer(w, m)
    PROVE  Longer(fromDB[w], fromDB'[w], m)
  BY Appended DEF Typed, QueuesTyped, Answer, Longer

LEMMA ReceivedShorter ==
    ASSUME Typed, NEW w \in Worlds, fromDB[w] # <<>>, Received(w)
    PROVE  Shorter(fromDB[w], fromDB'[w])
  BY HeadTaken DEF Typed, QueuesTyped, Received, Shorter

\* What lies elsewhere.
Untouched(w) ==
    \A v \in Worlds \ {w} :
       /\ toMaster'[v] = toMaster[v] /\ fromDB'[v] = fromDB[v]
       /\ client'[v] = client[v] /\ memory'[v] = memory[v]

\* Every packet of these kinds is one that was in the queue, d places further back.
From(q, r, kinds, d) ==
    \A i \in DOMAIN r : r[i].kind \in kinds => i + d \in DOMAIN q /\ r[i] = q[i + d]

\* A step that moves no right to play and sends no save.
Calm(w, d, e) ==
    /\ From(toMaster[w], toMaster'[w], {"authenticate", "link", "sync"}, d)
    /\ From(fromDB[w], fromDB'[w], {"authenticate"}, e)
    /\ UNCHANGED links
    /\ Live(w)' => Live(w) /\ client'[w].id = client[w].id

LEMMA FromFacts ==
    ASSUME NEW q, NEW r, NEW m, NEW kinds, DOMAIN q \subseteq Nat
    PROVE  /\ r = q => From(q, r, kinds, 0)
           /\ Longer(q, r, m) /\ m.kind \notin kinds => From(q, r, kinds, 0)
           /\ Shorter(q, r) => From(q, r, kinds, 1)
<1>1. \A i \in DOMAIN q : i + 0 = i
  OBVIOUS
<1>2. r = q => From(q, r, kinds, 0)
  BY <1>1 DEF From
<1>3. ASSUME Longer(q, r, m), m.kind \notin kinds PROVE From(q, r, kinds, 0)
  <2>1. ASSUME NEW i \in DOMAIN r, r[i].kind \in kinds PROVE i \in DOMAIN q
    BY <1>3, <2>1 DEF Longer
  <2> QED
    BY <1>1, <1>3, <2>1 DEF From, Longer
<1>4. Shorter(q, r) => From(q, r, kinds, 1)
  BY DEF From, Shorter
<1> QED
  BY <1>2, <1>3, <1>4

LEMMA CalmTokens ==
    ASSUME Typed, Tokens, NEW w \in Worlds, Untouched(w),
           NEW d \in {0, 1}, NEW e \in {0, 1}, Calm(w, d, e)
    PROVE  Tokens'
<1> DEFINE back(k, v, i) == IF v = w /\ k = "out" THEN i + d
                            ELSE IF v = w /\ k = "in" THEN i + e ELSE i
<1>1. ASSUME NEW k \in Places, NEW v \in Worlds, NEW i \in Nat, TokenAt(k, v, i)'
      PROVE  /\ back(k, v, i) \in Nat /\ TokenAt(k, v, back(k, v, i))
             /\ k = "out" => toMaster'[v][i] = toMaster[v][back(k, v, i)]
             /\ k = "client" => client'[v].id = client[v].id
  <2>1. CASE v # w
    BY <1>1, <2>1 DEF TokenAt, Untouched, Calm, Live
  <2>2. CASE v = w
    BY <1>1, <2>2 DEF TokenAt, Calm, Live, From
  <2> QED
    BY <2>1, <2>2
<1>2. ASSUME NEW v \in Worlds, NEW j \in Nat, SaveAt(v, j)'
      PROVE  back("out", v, j) \in Nat /\ SaveAt(v, back("out", v, j))
             /\ toMaster'[v][j] = toMaster[v][back("out", v, j)]
  <2>1. CASE v # w
    BY <1>2, <2>1 DEF SaveAt, Untouched
  <2>2. CASE v = w
    BY <1>2, <2>2 DEF SaveAt, Calm, From
  <2> QED
    BY <2>1, <2>2
<1>3. \A k \in Places : \A v \in Worlds : \A i, j \in Nat :
         /\ back(k, v, i) = back(k, v, j) => i = j
         /\ back("out", v, j) < back("out", v, i) => j < i
  OBVIOUS
<1> HIDE DEF back
<1>4. OneToken'
  BY <1>1, <1>3 DEF Tokens, OneToken
<1>5. SavesInOne'
  BY <1>2 DEF Tokens, SavesInOne
<1>6. SavesFirst'
  <2> SUFFICES ASSUME NEW k \in Places, NEW v \in Worlds, NEW u \in Worlds, NEW i \in Nat, NEW j \in Nat,
                      TokenAt(k, v, i)', SaveAt(u, j)'
               PROVE  /\ v = u
                      /\ \/ k = "client" /\ toMaster'[u][j].id = client'[u].id
                         \/ k = "out" /\ toMaster'[v][i].kind = "link" /\ j < i
    BY DEF SavesFirst
  <2>1. /\ TokenAt(k, v, back(k, v, i)) /\ SaveAt(u, back("out", u, j))
        /\ back(k, v, i) \in Nat /\ back("out", u, j) \in Nat
    BY <1>1, <1>2
  <2>2. /\ v = u
        /\ \/ k = "client" /\ toMaster[u][back("out", u, j)].id = client[u].id
           \/ k = "out" /\ toMaster[v][back(k, v, i)].kind = "link" /\ back("out", u, j) < back(k, v, i)
    BY <2>1 DEF Tokens, SavesFirst
  <2> QED
    BY <1>1, <1>2, <1>3, <2>2
<1> QED
  BY <1>4, <1>5, <1>6 DEF Tokens

\* What the queues of a server hold.
LEMMA Queues ==
    ASSUME Typed, NEW w \in Worlds
    PROVE  /\ toMaster[w] \in Seq(Request) /\ fromDB[w] \in Seq(Reply) /\ links[w] \in Seq(Link)
           /\ DOMAIN toMaster[w] \subseteq Nat /\ DOMAIN fromDB[w] \subseteq Nat
           /\ client[w] \in Client
           /\ \A c \in Characters : memory[w][c] \in InMemory \union {Unloaded}
  BY LenProperties DEF Typed, QueuesTyped, ServersTyped

\* Requests, answers and changes that leave the right to play and the saves where they are.
LEMMA CalmPlay ==
    ASSUME Typed, NEW w \in Worlds,
           \/ Connect(w) \/ GetCharacters(w) \/ AddForceGem(w)
           \/ \E c \in Characters : Initialize(w, c)
           \/ \E s \in Sections : Touch(w, s)
           \/ Disconnect(w) /\ ~Character(w).loaded
    PROVE  Calm(w, 0, 0)
<1> DEFINE out == {"authenticate", "link", "sync"}
           in == {"authenticate"}
<1>1. UNCHANGED <<fromDB, links>>
  BY Zenon DEF Connect, GetCharacters, AddForceGem, Initialize, Touch, Disconnect
<1>2. From(fromDB[w], fromDB'[w], in, 0)
  <2> HIDE DEF in
  <2> QED
    BY <1>1, Queues, FromFacts, Zenon
<1>3. From(toMaster[w], toMaster'[w], out, 0)
  <2>1. CASE UNCHANGED toMaster
    <3> HIDE DEF out
    <3> QED
      BY <2>1, Queues, FromFacts
  <2>2. ASSUME NEW m \in Request, Send(w, m), m.kind \notin out PROVE From(toMaster[w], toMaster'[w], out, 0)
    <3> HIDE DEF out
    <3> QED
      BY <2>2, Queues, FromFacts, SendsLonger
  <2>3. client[w].id \in Nat
    BY Queues DEF Client
  <2>4. ASSUME GetCharacters(w) PROVE From(toMaster[w], toMaster'[w], out, 0)
    <3>1. [kind |-> "list", id |-> client[w].id] \in Request
      BY <2>3 DEF Request
    <3> QED
      BY <2>2, <2>4, <3>1 DEF GetCharacters
  <2>5. ASSUME NEW c \in Characters, Initialize(w, c) PROVE From(toMaster[w], toMaster'[w], out, 0)
    <3>1. [kind |-> "get", id |-> client[w].id, character |-> c] \in Request
      BY <2>3 DEF Request
    <3> QED
      BY <2>2, <2>5, <3>1 DEF Initialize
  <2> QED
    BY <2>1, <2>4, <2>5, Zenon DEF Connect, AddForceGem, Touch, Disconnect
<1>4. Live(w)' => Live(w) /\ client'[w].id = client[w].id
  <2>1. client \in [Worlds -> Client]
    BY DEF Typed, ServersTyped
  <2>2. ASSUME Connect(w) \/ Disconnect(w) PROVE ~client'[w].verified
    BY <2>1, <2>2 DEF Connect, Disconnect, NoClient
  <2>3. CASE UNCHANGED client
    BY <2>3 DEF Live
  <2>4. ASSUME NEW c \in Characters, Initialize(w, c)
        PROVE  Live(w)' => Live(w) /\ client'[w].id = client[w].id
    BY <2>1, <2>4 DEF Initialize, Live, Client
  <2> QED
    BY <2>2, <2>3, <2>4, Zenon DEF GetCharacters, AddForceGem, Touch, Live
<1> QED
  BY <1>1, <1>2, <1>3, <1>4 DEF Calm

LEMMA CalmReceives ==
    ASSUME Typed, NEW w \in Worlds,
           \/ OnGetCharacterList(w) \/ OnGetCharacter(w) \/ OnGetCharacterFailed(w)
           \/ OnSync(w) \/ DropAnswer(w)
    PROVE  Calm(w, 0, 1)
<1>1. UNCHANGED <<toMaster, links>> /\ Received(w) /\ fromDB[w] # <<>>
  BY DEF OnGetCharacterList, OnGetCharacter, OnGetCharacterFailed, OnSync, DropAnswer, Addressed
<1>2. \A kinds : From(fromDB[w], fromDB'[w], kinds, 1)
  BY <1>1, Queues, FromFacts, ReceivedShorter
<1>3. \A kinds : From(toMaster[w], toMaster'[w], kinds, 0)
  BY <1>1, Queues, FromFacts
<1>4. Live(w)' => Live(w) /\ client'[w].id = client[w].id
  BY DEF OnGetCharacterList, OnGetCharacter, OnGetCharacterFailed, OnSync, DropAnswer, Live,
         Typed, ServersTyped, Client
<1> QED
  BY <1>1, <1>2, <1>3, <1>4 DEF Calm

LEMMA CalmAnswers ==
    ASSUME Typed, NEW w \in Worlds,
           DBGetCharacterList(w) \/ DBGetCharacter(w) \/ DBSync(w)
    PROVE  Calm(w, 1, 0)
<1>1. UNCHANGED <<client, links>> /\ Taken(w) /\ toMaster[w] # <<>>
  BY DEF DBGetCharacterList, DBGetCharacter, DBSync, HeadIs
<1>2. \A kinds : From(toMaster[w], toMaster'[w], kinds, 1)
  BY <1>1, Queues, FromFacts, TakenShorter
<1>3. \E m \in Reply : Answer(w, m) /\ m.kind \notin {"authenticate"}
  <2> DEFINE r == Head(toMaster[w])
  <2>1. r \in Request /\ db.data \in [Characters -> Data] /\ db.account \in Account
    BY <1>1, HeadTyped DEF Typed, ServersTyped
  <2>2. CASE DBGetCharacterList(w)
    <3>1. [kind |-> "list", id |-> r.id] \in Reply
      BY <2>1, RequestFacts DEF Reply
    <3> QED
      BY <2>2, <3>1 DEF DBGetCharacterList
  <2>3. CASE DBGetCharacter(w)
    <3>1. r.character \in Characters /\ r.id \in Nat
      BY <2>1, <2>3, RequestFacts DEF DBGetCharacter, HeadIs
    <3>2. \A success \in BOOLEAN :
             [kind |-> "get", id |-> r.id, character |-> r.character, success |-> success,
              data |-> db.data[r.character], account |-> db.account] \in Reply
      BY <2>1, <3>1 DEF Reply
    <3> QED
      BY <2>3, <3>2 DEF DBGetCharacter
  <2>4. CASE DBSync(w)
    <3>1. r.character \in Characters /\ r.id \in Nat /\ r.mask \in SUBSET Parts
      BY <2>1, <2>4, RequestFacts DEF DBSync, HeadIs
    <3>2. \A failed \in SUBSET r.mask :
             [kind |-> "sync", id |-> r.id, character |-> r.character, failed |-> failed] \in Reply
      BY <3>1 DEF Reply
    <3> QED
      BY <2>4, <3>2 DEF DBSync
  <2> QED
    BY <2>2, <2>3, <2>4
<1>4. From(fromDB[w], fromDB'[w], {"authenticate"}, 0)
  BY <1>3, Queues, FromFacts, AnswerLonger
<1> QED
  BY <1>1, <1>2, <1>4 DEF Calm, Live

\* A server that may play saves.
LEMMA SaveTokens ==
    ASSUME Typed, Tokens, NEW w \in Worlds, Untouched(w), Live(w),
           NEW m \in Request, m.kind = "sync", m.id = client[w].id, Send(w, m),
           UNCHANGED <<fromDB, links>>, Live(w)' => client'[w].id = client[w].id
    PROVE  Tokens'
<1>1. Longer(toMaster[w], toMaster'[w], m)
  BY SendsLonger
<1>2. TokenAt("client", w, 0)
  BY DEF TokenAt
<1>3. ASSUME NEW k \in Places, NEW v \in Worlds, NEW i \in Nat, TokenAt(k, v, i)'
      PROVE  k = "client" /\ v = w /\ i = 0 /\ Live(w)'
  <2>1. TokenAt(k, v, i)
    <3>1. CASE v # w
      BY <1>3, <3>1 DEF TokenAt, Untouched, Live
    <3>2. CASE v = w
      BY <1>1, <1>3, <3>2 DEF TokenAt, Longer
    <3> QED
      BY <3>1, <3>2
  <2>2. k = "client" /\ v = w /\ i = 0
    BY <1>2, <2>1 DEF Tokens, OneToken, Places
  <2> QED
    BY <1>3, <2>2 DEF TokenAt
<1>4. ASSUME NEW v \in Worlds, NEW j \in Nat, SaveAt(v, j)'
      PROVE  v = w /\ toMaster'[v][j].id = client[w].id
  <2>1. ASSUME SaveAt(v, j), toMaster'[v][j] = toMaster[v][j]
        PROVE  v = w /\ toMaster'[v][j].id = client[w].id
    BY <1>2, <2>1 DEF Tokens, SavesFirst, Places
  <2>2. CASE v # w
    BY <1>4, <2>1, <2>2 DEF SaveAt, Untouched
  <2>3. CASE v = w
    BY <1>1, <1>4, <2>1, <2>3 DEF SaveAt, Longer
  <2> QED
    BY <2>2, <2>3
<1>5. OneToken' /\ SavesInOne'
  BY <1>3, <1>4 DEF OneToken, SavesInOne
<1>6. SavesFirst'
  BY <1>3, <1>4 DEF SavesFirst
<1> QED
  BY <1>5, <1>6 DEF Tokens

\* The right to play moves when no save is on its way.
LEMMA MovedTokens ==
    ASSUME NEW k, NEW w, NEW i,
           \A l \in Places : \A v \in Worlds : \A j \in Nat : TokenAt(l, v, j)' => l = k /\ v = w /\ j = i,
           \A v \in Worlds : \A j \in Nat : ~SaveAt(v, j)'
    PROVE  Tokens'
  BY DEF Tokens, OneToken, SavesFirst, SavesInOne

\* Where the right to play is an answer, a link or the packet that asks for it at the head of
\* a queue, there are no saves.
LEMMA NoSaves ==
    ASSUME Typed, Tokens, NEW k \in Places, NEW w \in Worlds, NEW i \in Nat, TokenAt(k, w, i),
           k \in {"in", "links"} \/ (k = "out" /\ i = 1)
    PROVE  \A v \in Worlds : \A j \in Nat : ~SaveAt(v, j)
<1> SUFFICES ASSUME NEW v \in Worlds, NEW j \in Nat, SaveAt(v, j) PROVE FALSE
  OBVIOUS
<1>1. k = "out" /\ j < 1 /\ v = w
  BY DEF Tokens, SavesFirst
<1>2. j >= 1
  BY Queues, LenProperties DEF SaveAt
<1> QED
  BY <1>1, <1>2

LEMMA VerifyLinksTokens ==
    ASSUME Typed, Tokens, NEW w \in Worlds, NEW to \in Worlds, VerifyLinks(w, to), Untouched(w)
    PROVE  Tokens'
<1> DEFINE m == [kind |-> "link", to |-> to, id |-> client[to].id, account |-> client[w].account]
           n == Len(toMaster[w]) + 1
<1>1. m \in Request /\ m.kind = "link"
  <2>1. client[w] \in Client /\ client[to] \in Client
    BY Queues
  <2> QED
    BY <2>1 DEF Client, Request
<1>2. Send(w, m) /\ UNCHANGED <<fromDB, links>>
  BY DEF VerifyLinks
<1> HIDE DEF m
<1>3. Longer(toMaster[w], toMaster'[w], m) /\ n \in Nat
  BY <1>1, <1>2, SendsLonger DEF Longer
<1>4. Live(w) /\ ~Live(w)' /\ TokenAt("client", w, 0)
  BY DEF VerifyLinks, Live, TokenAt, Typed, ServersTyped, Client
<1>5. \A k \in Places : \A v \in Worlds : \A i \in Nat : TokenAt(k, v, i) => k = "client" /\ v = w
  BY <1>4 DEF Tokens, OneToken, Places
<1>6. ASSUME NEW k \in Places, NEW v \in Worlds, NEW i \in Nat, TokenAt(k, v, i)'
      PROVE  k = "out" /\ v = w /\ i = n
  <2>1. CASE v # w
    BY <1>2, <1>5, <1>6, <2>1 DEF TokenAt, Untouched, Live
  <2>2. CASE v = w /\ k = "client"
    BY <1>4, <1>6, <2>2 DEF TokenAt
  <2>3. CASE v = w /\ k = "out" /\ i # n
    <3>1. TokenAt(k, v, i)
      BY <1>3, <1>6, <2>3 DEF TokenAt, Longer
    <3> QED
      BY <1>5, <2>3, <3>1
  <2>4. CASE v = w /\ k \in {"in", "links"}
    <3>1. TokenAt(k, v, i)
      BY <1>2, <1>6, <2>4 DEF TokenAt
    <3> QED
      BY <1>5, <2>4, <3>1
  <2> QED
    BY <2>1, <2>2, <2>3, <2>4 DEF Places
<1>7. ASSUME NEW v \in Worlds, NEW j \in Nat, SaveAt(v, j)'
      PROVE  v = w /\ j < n
  <2>1. CASE v # w
    <3>1. SaveAt(v, j)
      BY <1>7, <2>1 DEF SaveAt, Untouched
    <3> QED
      BY <1>4, <2>1, <3>1 DEF Tokens, SavesFirst, Places
  <2>2. CASE v = w
    BY <1>1, <1>3, <1>7, <2>2 DEF SaveAt, Longer
  <2> QED
    BY <2>1, <2>2
<1>8. toMaster'[w][n].kind = "link"
  BY <1>1, <1>3 DEF Longer
<1> HIDE DEF n
<1>9. OneToken' /\ SavesInOne'
  BY <1>6, <1>7 DEF OneToken, SavesInOne
<1>10. SavesFirst'
  BY <1>6, <1>7, <1>8 DEF SavesFirst
<1> QED
  BY <1>9, <1>10 DEF Tokens

LEMMA LogInTokens ==
    ASSUME Typed, NEW w \in Worlds, LogIn(w), Untouched(w)
    PROVE  Tokens'
<1> DEFINE m == [kind |-> "authenticate", id |-> client[w].id]
<1>1. m \in Request
  BY Queues DEF Client, Request
<1>2. Send(w, m) /\ UNCHANGED <<client, fromDB, links>> /\ m.kind = "authenticate"
  BY DEF LogIn
<1> HIDE DEF m
<1>3. Longer(toMaster[w], toMaster'[w], m)
  BY <1>1, <1>2, SendsLonger
<1>4. \A v \in Worlds : /\ ~Live(v) /\ toMaster[v] = <<>> /\ fromDB[v] = <<>> /\ links[v] = <<>>
  BY DEF LogIn, Quiet, Live
<1>5. Len(toMaster[w]) = 0 /\ DOMAIN toMaster'[w] = 1 .. 1 /\ toMaster'[w][1] = m
  BY <1>3, <1>4 DEF Longer
<1>6. \A v \in Worlds : /\ DOMAIN fromDB'[v] = {} /\ DOMAIN links'[v] = {} /\ ~Live(v)'
                        /\ v # w => DOMAIN toMaster'[v] = {}
  BY <1>2, <1>4 DEF Untouched, Live
<1>7. \A k \in Places : \A v \in Worlds : \A i \in Nat : TokenAt(k, v, i)' => k = "out" /\ v = w /\ i = 1
  BY <1>5, <1>6 DEF TokenAt
<1>8. \A v \in Worlds : \A j \in Nat : ~SaveAt(v, j)'
  BY <1>2, <1>5, <1>6 DEF SaveAt
<1> QED
  BY <1>7, <1>8, MovedTokens

LEMMA ForwardTokens ==
    ASSUME Typed, Tokens, NEW w \in Worlds, Forward(w), Untouched(w)
    PROVE  Tokens'
<1> DEFINE m == Head(toMaster[w])
           l == [id |-> m.id, account |-> m.account]
           n == Len(links[m.to]) + 1
<1>1. toMaster[w] # <<>> /\ Taken(w) /\ m.kind = "link" /\ UNCHANGED <<client, fromDB>>
  BY DEF Forward, HeadIs
<1>2. m \in Request
  BY <1>1, HeadTyped DEF Typed
<1>3. m.to \in Worlds /\ l \in Link
  BY <1>1, <1>2, RequestFacts DEF Link
<1>4. links' = [links EXCEPT ![m.to] = Append(@, l)]
  BY DEF Forward
<1> HIDE DEF l
<1>5. /\ \A v \in Worlds \ {m.to} : links'[v] = links[v]
      /\ n \in Nat /\ DOMAIN links[m.to] = 1 .. n - 1 /\ DOMAIN links'[m.to] = 1 .. n
  BY <1>3, <1>4, Appended DEF Typed, QueuesTyped
<1>6. Shorter(toMaster[w], toMaster'[w])
  BY <1>1, TakenShorter
<1>7. TokenAt("out", w, 1)
  BY <1>1, <1>6 DEF TokenAt, Shorter
<1>8. \A k \in Places : \A v \in Worlds : \A i \in Nat : TokenAt(k, v, i) => k = "out" /\ v = w /\ i = 1
  BY <1>7 DEF Tokens, OneToken, Places
<1>9. \A v \in Worlds : \A j \in Nat : ~SaveAt(v, j)
  BY <1>7, NoSaves DEF Places
<1>10. ASSUME NEW v \in Worlds, NEW i \in Nat, i \in DOMAIN toMaster'[v]
       PROVE  toMaster'[v][i].kind \notin {"authenticate", "link", "sync"}
  <2>1. CASE v # w
    <3>1. i \in DOMAIN toMaster[v] /\ toMaster'[v][i] = toMaster[v][i]
      BY <1>10, <2>1 DEF Untouched
    <3>2. ~TokenAt("out", v, i)
      BY <1>8, <2>1 DEF Places
    <3> QED
      BY <1>9, <3>1, <3>2 DEF TokenAt, SaveAt
  <2>2. CASE v = w
    <3>1. i + 1 \in DOMAIN toMaster[w] /\ toMaster'[w][i] = toMaster[w][i + 1] /\ i + 1 # 1 /\ i + 1 \in Nat
      BY <1>6, <1>10, <2>2 DEF Shorter
    <3>2. ~TokenAt("out", w, i + 1)
      BY <1>8, <3>1 DEF Places
    <3> QED
      BY <1>9, <2>2, <3>1, <3>2 DEF TokenAt, SaveAt
  <2> QED
    BY <2>1, <2>2
<1>11. \A v \in Worlds : \A j \in Nat : ~SaveAt(v, j)'
  BY <1>10 DEF SaveAt
<1>12. ASSUME NEW k \in Places, NEW v \in Worlds, NEW i \in Nat, TokenAt(k, v, i)'
       PROVE  k = "links" /\ v = m.to /\ i = n
  <2>1. k # "out"
    BY <1>10, <1>12 DEF TokenAt
  <2>2. k \notin {"client", "in"}
    <3>1. k \in {"client", "in"} => TokenAt(k, v, i)
      BY <1>1, <1>12 DEF TokenAt, Live
    <3> QED
      BY <1>8, <3>1
  <2>3. k = "links" /\ i \in DOMAIN links'[v] /\ i \notin DOMAIN links[v]
    <3>1. ~TokenAt("links", v, i)
      BY <1>8 DEF Places
    <3> QED
      BY <1>12, <2>1, <2>2, <3>1 DEF TokenAt, Places
  <2>4. v = m.to
    BY <1>5, <2>3
  <2>5. i \in 1 .. n /\ i \notin 1 .. n - 1
    BY <1>5, <2>3, <2>4
  <2> QED
    BY <1>5, <2>3, <2>4, <2>5
<1> HIDE DEF n, m
<1> QED
  BY <1>11, <1>12, MovedTokens

LEMMA DBAuthenticateTokens ==
    ASSUME Typed, Tokens, NEW w \in Worlds, DBAuthenticate(w), Untouched(w)
    PROVE  Tokens'
<1> DEFINE m == Head(toMaster[w])
           a == [kind |-> "authenticate", id |-> m.id, account |-> db.account]
           n == Len(fromDB[w]) + 1
<1>1. toMaster[w] # <<>> /\ Taken(w) /\ m.kind = "authenticate" /\ UNCHANGED <<client, links>> /\ Answer(w, a)
  BY DEF DBAuthenticate, HeadIs
<1>2. a \in Reply
  <2>1. m \in Request /\ db.account \in Account
    BY <1>1, HeadTyped DEF Typed, ServersTyped
  <2> QED
    BY <2>1, RequestFacts DEF Reply
<1> HIDE DEF a
<1>3. Longer(fromDB[w], fromDB'[w], a) /\ n \in Nat
  BY <1>1, <1>2, AnswerLonger DEF Longer
<1>4. Shorter(toMaster[w], toMaster'[w])
  BY <1>1, TakenShorter
<1>5. TokenAt("out", w, 1) /\ toMaster[w][1].kind = "authenticate"
  BY <1>1, <1>4 DEF TokenAt, Shorter
<1>6. \A k \in Places : \A v \in Worlds : \A i \in Nat : TokenAt(k, v, i) => k = "out" /\ v = w /\ i = 1
  BY <1>5 DEF Tokens, OneToken, Places
<1>7. \A v \in Worlds : \A j \in Nat : ~SaveAt(v, j)
  BY <1>5, NoSaves DEF Places
<1>8. ASSUME NEW v \in Worlds, NEW i \in Nat, i \in DOMAIN toMaster'[v]
      PROVE  toMaster'[v][i].kind \notin {"authenticate", "link", "sync"}
  <2>1. CASE v # w
    <3>1. i \in DOMAIN toMaster[v] /\ toMaster'[v][i] = toMaster[v][i]
      BY <1>8, <2>1 DEF Untouched
    <3>2. ~TokenAt("out", v, i)
      BY <1>6, <2>1 DEF Places
    <3> QED
      BY <1>7, <3>1, <3>2 DEF TokenAt, SaveAt
  <2>2. CASE v = w
    <3>1. i + 1 \in DOMAIN toMaster[w] /\ toMaster'[w][i] = toMaster[w][i + 1] /\ i + 1 # 1 /\ i + 1 \in Nat
      BY <1>4, <1>8, <2>2 DEF Shorter
    <3>2. ~TokenAt("out", w, i + 1)
      BY <1>6, <3>1 DEF Places
    <3> QED
      BY <1>7, <2>2, <3>1, <3>2 DEF TokenAt, SaveAt
  <2> QED
    BY <2>1, <2>2
<1>9. \A v \in Worlds : \A j \in Nat : ~SaveAt(v, j)'
  BY <1>8 DEF SaveAt
<1>10. ASSUME NEW k \in Places, NEW v \in Worlds, NEW i \in Nat, TokenAt(k, v, i)'
       PROVE  k = "in" /\ v = w /\ i = n
  <2>1. k # "out"
    BY <1>8, <1>10 DEF TokenAt
  <2>2. k \notin {"client", "links"}
    <3>1. k \in {"client", "links"} => TokenAt(k, v, i)
      BY <1>1, <1>10 DEF TokenAt, Live
    <3> QED
      BY <1>6, <3>1
  <2>3. k = "in" /\ i \in DOMAIN fromDB'[v] /\ fromDB'[v][i].kind = "authenticate" /\ ~TokenAt("in", v, i)
    BY <1>6, <1>10, <2>1, <2>2 DEF TokenAt, Places
  <2>4. v = w
    BY <2>3 DEF TokenAt, Untouched
  <2> QED
    BY <1>3, <2>3, <2>4 DEF TokenAt, Longer
<1> HIDE DEF n, m
<1> QED
  BY <1>9, <1>10, MovedTokens

\* An answer or a link gives the right to play to the connection, or to none.
LEMMA VerifiedTokens ==
    ASSUME Typed, Tokens, NEW w \in Worlds, Untouched(w), OnAuthenticate(w) \/ OnVerifyLinks(w)
    PROVE  Tokens'
<1> DEFINE p == IF OnAuthenticate(w) THEN "in" ELSE "links"
<1>1. UNCHANGED toMaster
  BY DEF OnAuthenticate, OnVerifyLinks
<1>2. TokenAt(p, w, 1) /\ p \in {"in", "links"}
  <2>1. CASE OnAuthenticate(w)
    <3>1. Shorter(fromDB[w], fromDB'[w]) /\ Head(fromDB[w]).kind = "authenticate"
      BY <2>1, ReceivedShorter DEF OnAuthenticate, Addressed
    <3> QED
      BY <2>1, <3>1 DEF TokenAt, Shorter
  <2>2. CASE ~OnAuthenticate(w)
    <3>1. 1 \in DOMAIN links[w]
      BY <2>2, HeadTaken DEF OnVerifyLinks, Typed, QueuesTyped
    <3> QED
      BY <2>2, <3>1 DEF TokenAt
  <2> QED
    BY <2>1, <2>2
<1>3. \A k \in Places : \A v \in Worlds : \A i \in Nat : TokenAt(k, v, i) => k = p /\ v = w /\ i = 1
  BY <1>2 DEF Tokens, OneToken, Places
<1>4. \A v \in Worlds : \A j \in Nat : ~SaveAt(v, j)'
  BY <1>1, <1>2, NoSaves DEF Places, SaveAt
<1>5. ASSUME NEW v \in Worlds, NEW i \in Nat PROVE ~TokenAt("in", v, i)'
  <2>1. CASE OnAuthenticate(w)
    <3>1. Shorter(fromDB[w], fromDB'[w])
      BY <2>1, ReceivedShorter DEF OnAuthenticate, Addressed
    <3>2. (~TokenAt("in", w, i + 1) /\ i + 1 \in Nat) \/ i + 1 = 1
      BY <1>3 DEF Places
    <3>3. v # w => ~TokenAt("in", v, i)
      BY <1>3 DEF Places
    <3>4. CASE v = w
      <4>1. i \in DOMAIN fromDB'[w] => i # 0 /\ i + 1 \in DOMAIN fromDB[w] /\ fromDB'[w][i] = fromDB[w][i + 1]
        BY <3>1 DEF Shorter
      <4> QED
        BY <3>2, <3>4, <4>1 DEF TokenAt
    <3> QED
      BY <3>3, <3>4 DEF TokenAt, Untouched
  <2>2. CASE ~OnAuthenticate(w)
    BY <1>3, <2>2 DEF OnVerifyLinks, TokenAt, Places
  <2> QED
    BY <2>1, <2>2
<1>6. ASSUME NEW v \in Worlds, NEW i \in Nat PROVE ~TokenAt("links", v, i)'
  <2>1. CASE OnAuthenticate(w)
    BY <1>3, <2>1 DEF OnAuthenticate, TokenAt, Places
  <2>2. CASE ~OnAuthenticate(w)
    <3> DEFINE R == [links EXCEPT ![w] = Tail(@)]
    <3>1. links' = R /\ links[w] # <<>>
      BY <2>2 DEF OnVerifyLinks
    <3>2. /\ \A u \in Worlds \ {w} : R[u] = links[u]
          /\ Len(links[w]) \in Nat /\ DOMAIN R[w] = 1 .. Len(links[w]) - 1
          /\ \A j \in DOMAIN R[w] : j + 1 \in DOMAIN links[w]
      BY <3>1, HeadTaken DEF Typed, QueuesTyped
    <3> HIDE DEF R
    <3>3. \A u \in Worlds : \A j \in Nat : TokenAt("links", u, j) => u = w /\ j = 1
      BY <1>3 DEF Places
    <3>4. v # w => ~TokenAt("links", v, i)
      BY <3>3
    <3>5. CASE v = w
      <4>1. i \in DOMAIN R[w] => i + 1 \in DOMAIN links[w] /\ i + 1 # 1 /\ i + 1 \in Nat
        BY <3>2
      <4>2. TokenAt("links", w, i + 1) /\ i + 1 \in Nat => i + 1 = 1
        BY <3>3
      <4> QED
        BY <3>1, <3>5, <4>1, <4>2 DEF TokenAt
    <3> QED
      BY <3>1, <3>2, <3>4, <3>5 DEF TokenAt
  <2> QED
    BY <2>1, <2>2
<1>7. ASSUME NEW v \in Worlds, NEW i \in Nat PROVE ~TokenAt("out", v, i)'
  BY <1>1, <1>2, <1>3 DEF TokenAt, Places
<1>8. ASSUME NEW v \in Worlds, NEW i \in Nat, TokenAt("client", v, i)' PROVE v = w /\ i = 0
  <2>1. v # w => ~TokenAt("client", v, i)
    BY <1>2, <1>3 DEF Places
  <2> QED
    BY <1>8, <2>1 DEF TokenAt, Untouched, Live
<1>9. \A k \in Places : \A v \in Worlds : \A i \in Nat : TokenAt(k, v, i)' => k = "client" /\ v = w /\ i = 0
  BY <1>5, <1>6, <1>7, <1>8 DEF Places
<1> QED
  BY <1>4, <1>9, MovedTokens

\* Wherever the right to play goes, there is one of it, and the saves go before it.
LEMMA TokensStep ==
    ASSUME Typed, Tokens, LoadedLive, NEW w \in Worlds, Serve(w) \/ SyncTimer(w) \/ Play(w)
    PROVE  Tokens'
<1>1. Untouched(w)
  BY Elsewhere DEF Untouched
<1>2. ASSUME Calm(w, 0, 0) \/ Calm(w, 0, 1) \/ Calm(w, 1, 0) PROVE Tokens'
  BY <1>1, <1>2, CalmTokens
<1>3. ASSUME Serve(w) PROVE Tokens'
  BY <1>1, <1>2, <1>3, CalmReceives, CalmAnswers, VerifiedTokens, ForwardTokens, DBAuthenticateTokens DEF Serve
<1>4. ASSUME Character(w).loaded, Send(w, SyncMsg(w, client[w].character)), UNCHANGED <<fromDB, links>>,
             Live(w)' => client'[w].id = client[w].id
      PROVE  Tokens'
  <2> DEFINE m == SyncMsg(w, client[w].character)
  <2>1. m \in Request /\ Live(w)
    BY <1>4, LoadedFacts DEF LoadedLive
  <2>2. m.kind = "sync" /\ m.id = client[w].id
    BY DEF SyncMsg
  <2> HIDE DEF m
  <2> QED
    BY <1>1, <1>4, <2>1, <2>2, SaveTokens DEF m
<1>5. ASSUME SyncTimer(w) \/ Deinitialize(w) PROVE Tokens'
  BY <1>4, <1>5 DEF SyncTimer, Deinitialize, Playing
<1>6. ASSUME Disconnect(w), Character(w).loaded PROVE Tokens'
  <2>1. ~Live(w)'
    BY <1>6 DEF Disconnect, NoClient, Live, Typed, ServersTyped
  <2> QED
    BY <1>4, <1>6, <2>1 DEF Disconnect
<1>7. ASSUME NEW to \in Worlds, VerifyLinks(w, to) PROVE Tokens'
  BY <1>1, <1>7, VerifyLinksTokens
<1>8. ASSUME LogIn(w) PROVE Tokens'
  BY <1>1, <1>8, LogInTokens
<1>9. ASSUME \/ Connect(w) \/ GetCharacters(w) \/ AddForceGem(w)
             \/ \E c \in Characters : Initialize(w, c)
             \/ \E s \in Sections : Touch(w, s)
             \/ Disconnect(w) /\ ~Character(w).loaded
      PROVE  Tokens'
  BY <1>2, <1>9, CalmPlay
<1> QED
  BY <1>3, <1>5, <1>6, <1>7, <1>8, <1>9 DEF Play

-----------------------------------------------------------------------------
(* What is loaded                                                           *)

Nothing(w) == \A c \in Characters : ~memory[w][c].loaded

LEMMA LoadedAt ==
    ASSUME Typed, LoadedLive, NEW w \in Worlds
    PROVE  /\ \A c \in Characters : memory[w][c].loaded => c = client[w].character /\ Character(w).loaded
           /\ ~Character(w).loaded => Nothing(w)
<1>1. \A c \in Characters : memory[w][c].loaded => c = client[w].character /\ Character(w).loaded
  BY SyncAssumption DEF LoadedLive, Character
<1> QED
  BY <1>1 DEF Nothing

\* No two characters are in memory at a time.
LEMMA OneLoaded ==
    ASSUME Tokens, LoadedLive, NEW v \in Worlds, NEW w \in Worlds, NEW c \in Characters, NEW d \in Characters,
           memory[v][c].loaded, memory[w][d].loaded
    PROVE  v = w /\ c = d
<1>1. TokenAt("client", v, 0) /\ TokenAt("client", w, 0)
  BY DEF LoadedLive, TokenAt
<1>2. v = w
  BY <1>1 DEF Tokens, OneToken, Places
<1> QED
  BY <1>2 DEF LoadedLive

\* The connection is the same, what it may do stays so, and nothing more is loaded.
Held(w) ==
    /\ \A c \in Characters : memory'[w][c].loaded => memory[w][c].loaded
    /\ client'[w].id = client[w].id /\ client'[w].character = client[w].character
    /\ client'[w].asked = client[w].asked
    /\ Live(w) => Live(w)'

LEMMA HeldPlay ==
    ASSUME Typed, NEW w \in Worlds,
           \/ LogIn(w) \/ GetCharacters(w) \/ Deinitialize(w) \/ AddForceGem(w) \/ SyncTimer(w)
           \/ \E s \in Sections : Touch(w, s)
    PROVE  Held(w)
<1>1. UNCHANGED client
  BY Zenon DEF LogIn, GetCharacters, Deinitialize, AddForceGem, SyncTimer, Touch
<1>2. UNCHANGED memory \/ Character(w).loaded
  BY Zenon DEF LogIn, GetCharacters, Deinitialize, AddForceGem, SyncTimer, Touch, Playing
<1>3. ASSUME NEW c \in Characters, memory'[w][c].loaded PROVE memory[w][c].loaded
  <2>1. CASE UNCHANGED memory
    BY <1>3, <2>1
  <2>2. CASE Character(w).loaded
    <3>1. client[w].character \in Characters /\ memory[w][client[w].character].loaded
      BY <2>2, LoadedFacts
    <3>2. memory \in [Worlds -> [Characters -> InMemory \union {Unloaded}]]
      BY DEF Typed, ServersTyped
    <3>3. c # client[w].character => memory'[w][c] = memory[w][c]
      <4>1. CASE Deinitialize(w) \/ SyncTimer(w)
        BY <3>1, <3>2, <4>1 DEF Deinitialize, SyncTimer
      <4>2. CASE AddForceGem(w)
        BY <3>1, <3>2, <4>2 DEF AddForceGem
      <4>3. ASSUME NEW s \in Sections, Touch(w, s)
            PROVE  c # client[w].character => memory'[w][c] = memory[w][c]
        BY <3>1, <3>2, <4>3, ZenonT(60) DEF Touch
      <4> QED
        BY <4>1, <4>2, <4>3 DEF LogIn, GetCharacters
    <3> QED
      BY <1>3, <3>1, <3>3
  <2> QED
    BY <1>2, <2>1, <2>2
<1> QED
  BY <1>1, <1>3 DEF Held, Live

LEMMA HeldServe ==
    ASSUME Typed, NEW w \in Worlds,
           \/ OnAuthenticate(w) \/ OnGetCharacterList(w) \/ OnVerifyLinks(w) \/ OnSync(w)
           \/ DropAnswer(w) \/ Forward(w) \/ DBAuthenticate(w) \/ DBGetCharacterList(w)
           \/ DBGetCharacter(w) \/ DBSync(w)
    PROVE  Held(w)
<1>1. /\ client'[w].id = client[w].id /\ client'[w].character = client[w].character
      /\ client'[w].asked = client[w].asked
      /\ Live(w) => Live(w)'
  <2>1. CASE OnAuthenticate(w)
    BY <2>1 DEF OnAuthenticate, Live, Typed, ServersTyped, Client
  <2>2. CASE OnGetCharacterList(w)
    BY <2>2 DEF OnGetCharacterList, Live, Typed, ServersTyped, Client
  <2>3. CASE OnVerifyLinks(w)
    BY <2>3 DEF OnVerifyLinks, Live, Typed, ServersTyped, Client
  <2>4. CASE UNCHANGED client
    BY <2>4 DEF Live
  <2> QED
    BY <2>1, <2>2, <2>3, <2>4, Zenon DEF OnSync, DropAnswer, Forward, DBAuthenticate, DBGetCharacterList,
       DBGetCharacter, DBSync
<1>2. ASSUME NEW c \in Characters, memory'[w][c].loaded PROVE memory[w][c].loaded
  <2>1. CASE OnSync(w)
    <3>1. CASE Character(w).loaded
      <4>1. /\ client[w].character \in Characters /\ memory[w][client[w].character].loaded
            /\ c # client[w].character => memory'[w][c] = memory[w][c]
        BY <2>1, <3>1, LoadedFacts DEF OnSync, Typed, ServersTyped
      <4> QED
        BY <1>2, <4>1
    <3>2. CASE ~Character(w).loaded
      BY <1>2, <2>1, <3>2 DEF OnSync
    <3> QED
      BY <3>1, <3>2
  <2>2. CASE UNCHANGED memory
    BY <1>2, <2>2
  <2> QED
    BY <2>1, <2>2, Zenon DEF OnAuthenticate, OnGetCharacterList, OnVerifyLinks, DropAnswer, Forward,
       DBAuthenticate, DBGetCharacterList, DBGetCharacter, DBSync
<1> QED
  BY <1>1, <1>2 DEF Held

-----------------------------------------------------------------------------
(* The request for a character and its answer                               *)

\* A request of the connection that is there, on its way to the agent; its answer.
GetOut(w, i) ==
    i \in DOMAIN toMaster[w] /\ toMaster[w][i].kind = "get" /\ toMaster[w][i].id = client[w].id

GetIn(w, i) ==
    i \in DOMAIN fromDB[w] /\ fromDB[w][i].kind = "get" /\ fromDB[w][i].id = client[w].id

Waiting(w) == Live(w) /\ client[w].asked /\ Nothing(w)

\* The connection has one request at most, behind the saves, and its answer comes behind the
\* notices, with what the database still holds.
RequestAsked(w, i) ==
    /\ Waiting(w)
    /\ \A j \in Nat : SaveAt(w, j) => j < i
    /\ \A j \in Nat : GetOut(w, j) => j = i
    /\ \A j \in Nat : ~GetIn(w, j)

AnswerAsked(w, i) ==
    /\ Waiting(w)
    /\ \A j \in Nat : ~SaveAt(w, j)
    /\ \A j \in Nat : GetIn(w, j) => j = i
    /\ \A j \in DOMAIN fromDB[w] : fromDB[w][j].kind = "sync" => j < i
    /\ fromDB[w][i].data = db.data[fromDB[w][i].character]

GetsAskedAt(w) == \A i \in Nat : (GetOut(w, i) => RequestAsked(w, i)) /\ (GetIn(w, i) => AnswerAsked(w, i))

GetsAsked == \A w \in Worlds : GetsAskedAt(w)

NoGets(w) == \A i \in Nat : ~GetOut(w, i) /\ ~GetIn(w, i)

\* The connections that requests and answers name were opened.
IdsKnown ==
    \A w \in Worlds :
       /\ \A i \in DOMAIN toMaster[w] : toMaster[w][i].kind = "get" => toMaster[w][i].id \in 1 .. connections
       /\ \A i \in DOMAIN fromDB[w] : fromDB[w][i].kind = "get" => fromDB[w][i].id \in 1 .. connections

LEMMA UntouchedGets ==
    ASSUME NEW w \in Worlds, Untouched(w), GetsAsked, NEW v \in Worlds \ {w},
           NoGets(v) \/ db'.data = db.data
    PROVE  GetsAskedAt(v)'
<1>1. /\ toMaster'[v] = toMaster[v] /\ fromDB'[v] = fromDB[v]
      /\ client'[v] = client[v] /\ memory'[v] = memory[v]
  BY DEF Untouched
<1>2. GetsAskedAt(v)
  BY DEF GetsAsked
<1> QED
  BY <1>1, <1>2 DEF GetsAskedAt, NoGets, GetOut, GetIn, RequestAsked, AnswerAsked, Waiting, Live, Nothing, SaveAt

LEMMA FewerGets ==
    ASSUME NEW w \in Worlds, GetsAskedAt(w), NEW d \in {0, 1}, NEW e \in {0, 1},
           From(toMaster[w], toMaster'[w], {"get", "sync"}, d),
           From(fromDB[w], fromDB'[w], {"get", "sync"}, e),
           DOMAIN toMaster'[w] \subseteq Nat, DOMAIN fromDB'[w] \subseteq Nat,
           Held(w), db'.data = db.data
    PROVE  GetsAskedAt(w)'
<1>1. \A i \in Nat : /\ GetOut(w, i)' => GetOut(w, i + d) /\ i + d \in Nat
                     /\ SaveAt(w, i)' => SaveAt(w, i + d) /\ i + d \in Nat
                     /\ GetIn(w, i)' => GetIn(w, i + e) /\ i + e \in Nat /\ fromDB'[w][i] = fromDB[w][i + e]
  BY DEF GetOut, GetIn, SaveAt, From, Held
<1>2. Waiting(w) => Waiting(w)'
  BY DEF Waiting, Held, Nothing
<1>3. ASSUME NEW i \in Nat, GetOut(w, i)' PROVE RequestAsked(w, i)'
  <2>1. RequestAsked(w, i + d)
    BY <1>1, <1>3 DEF GetsAskedAt
  <2>2. \A j \in Nat : SaveAt(w, j)' => j < i
    <3> SUFFICES ASSUME NEW j \in Nat, SaveAt(w, j)' PROVE j < i
      OBVIOUS
    <3>1. j + d < i + d
      BY <1>1, <2>1 DEF RequestAsked
    <3> QED
      BY <3>1
  <2>3. \A j \in Nat : GetOut(w, j)' => j = i
    <3> SUFFICES ASSUME NEW j \in Nat, GetOut(w, j)' PROVE j = i
      OBVIOUS
    <3>1. j + d = i + d
      BY <1>1, <2>1 DEF RequestAsked
    <3> QED
      BY <3>1
  <2>4. \A j \in Nat : ~GetIn(w, j)'
    BY <1>1, <2>1 DEF RequestAsked
  <2> QED
    BY <1>2, <2>1, <2>2, <2>3, <2>4 DEF RequestAsked
<1>4. ASSUME NEW i \in Nat, GetIn(w, i)' PROVE AnswerAsked(w, i)'
  <2>1. AnswerAsked(w, i + e) /\ fromDB'[w][i] = fromDB[w][i + e]
    BY <1>1, <1>4 DEF GetsAskedAt
  <2>2. \A j \in Nat : ~SaveAt(w, j)'
    BY <1>1, <2>1 DEF AnswerAsked
  <2>3. \A j \in Nat : GetIn(w, j)' => j = i
    <3> SUFFICES ASSUME NEW j \in Nat, GetIn(w, j)' PROVE j = i
      OBVIOUS
    <3>1. j + e = i + e
      BY <1>1, <2>1 DEF AnswerAsked
    <3> QED
      BY <3>1
  <2>4. \A j \in DOMAIN fromDB'[w] : fromDB'[w][j].kind = "sync" => j < i
    <3> SUFFICES ASSUME NEW j \in DOMAIN fromDB'[w], fromDB'[w][j].kind = "sync" PROVE j < i
      OBVIOUS
    <3>1. j + e < i + e /\ j \in Nat
      BY <2>1 DEF AnswerAsked, From
    <3> QED
      BY <3>1
  <2> QED
    BY <1>2, <2>1, <2>2, <2>3, <2>4 DEF AnswerAsked
<1> QED
  BY <1>3, <1>4 DEF GetsAskedAt

LEMMA NoGetsAsked == \A w : NoGets(w)' => GetsAskedAt(w)'
  BY DEF NoGets, GetsAskedAt

\* A connection that waits for nothing has no request under way.
LEMMA IdleGets ==
    ASSUME NEW w \in Worlds, GetsAsked, ~Waiting(w)
    PROVE  NoGets(w)
  BY DEF GetsAsked, GetsAskedAt, RequestAsked, AnswerAsked, NoGets

\* No request comes up where none was.
LEMMA NoMoreGets ==
    ASSUME NEW w \in Worlds, NoGets(w), NEW d \in {0, 1}, NEW e \in {0, 1},
           From(toMaster[w], toMaster'[w], {"get"}, d), From(fromDB[w], fromDB'[w], {"get"}, e),
           client'[w].id = client[w].id
    PROVE  NoGets(w)'
  BY DEF NoGets, GetOut, GetIn, From

\* What is in a queue afterwards was there before, but for the packet that is added.
LEMMA Shifts ==
    ASSUME Typed, NEW w \in Worlds
    PROVE  /\ \A kinds : toMaster'[w] = toMaster[w] => From(toMaster[w], toMaster'[w], kinds, 0)
           /\ \A kinds : fromDB'[w] = fromDB[w] => From(fromDB[w], fromDB'[w], kinds, 0)
           /\ \A kinds : \A m \in Request : Send(w, m) /\ m.kind \notin kinds
                            => From(toMaster[w], toMaster'[w], kinds, 0)
           /\ \A kinds : \A m \in Reply : Answer(w, m) /\ m.kind \notin kinds
                            => From(fromDB[w], fromDB'[w], kinds, 0)
           /\ \A kinds : toMaster[w] # <<>> /\ Taken(w) => From(toMaster[w], toMaster'[w], kinds, 1)
           /\ \A kinds : fromDB[w] # <<>> /\ Received(w) => From(fromDB[w], fromDB'[w], kinds, 1)
<1>1. DOMAIN toMaster[w] \subseteq Nat /\ DOMAIN fromDB[w] \subseteq Nat
  BY Queues
<1>2. ASSUME NEW kinds PROVE toMaster'[w] = toMaster[w] => From(toMaster[w], toMaster'[w], kinds, 0)
  BY <1>1, FromFacts
<1>3. ASSUME NEW kinds PROVE fromDB'[w] = fromDB[w] => From(fromDB[w], fromDB'[w], kinds, 0)
  BY <1>1, FromFacts
<1>4. ASSUME NEW kinds, NEW m \in Request, Send(w, m), m.kind \notin kinds
      PROVE  From(toMaster[w], toMaster'[w], kinds, 0)
  BY <1>1, <1>4, FromFacts, SendsLonger
<1>5. ASSUME NEW kinds, NEW m \in Reply, Answer(w, m), m.kind \notin kinds
      PROVE  From(fromDB[w], fromDB'[w], kinds, 0)
  BY <1>1, <1>5, FromFacts, AnswerLonger
<1>6. ASSUME NEW kinds, toMaster[w] # <<>>, Taken(w) PROVE From(toMaster[w], toMaster'[w], kinds, 1)
  BY <1>1, <1>6, FromFacts, TakenShorter
<1>7. ASSUME NEW kinds, fromDB[w] # <<>>, Received(w) PROVE From(fromDB[w], fromDB'[w], kinds, 1)
  BY <1>1, <1>7, FromFacts, ReceivedShorter
<1> QED
  BY <1>2, <1>3, <1>4, <1>5, <1>6, <1>7

\* The packets the handlers make.
LEMMA Packets ==
    ASSUME Typed, NEW w \in Worlds
    PROVE  /\ [kind |-> "authenticate", id |-> client[w].id] \in Request
           /\ [kind |-> "list", id |-> client[w].id] \in Request
           /\ \A c \in Characters : [kind |-> "get", id |-> client[w].id, character |-> c] \in Request
           /\ \A to \in Worlds : [kind |-> "link", to |-> to, id |-> client[to].id,
                                  account |-> client[w].account] \in Request
           /\ toMaster[w] # <<>> =>
                /\ Head(toMaster[w]) \in Request
                /\ [kind |-> "authenticate", id |-> Head(toMaster[w]).id, account |-> db.account] \in Reply
                /\ [kind |-> "list", id |-> Head(toMaster[w]).id] \in Reply
           /\ HeadIs(w, "get") =>
                \A success \in BOOLEAN :
                   [kind |-> "get", id |-> Head(toMaster[w]).id,
                    character |-> Head(toMaster[w]).character, success |-> success,
                    data |-> db.data[Head(toMaster[w]).character], account |-> db.account] \in Reply
           /\ HeadIs(w, "sync") =>
                \A failed \in SUBSET Head(toMaster[w]).mask :
                   [kind |-> "sync", id |-> Head(toMaster[w]).id,
                    character |-> Head(toMaster[w]).character, failed |-> failed] \in Reply
<1>1. \A v \in Worlds : client[v] \in Client
  BY Queues
<1>2. \A v \in Worlds : client[v].id \in Nat /\ client[v].account \in Account
  BY <1>1 DEF Client
<1>3. db.data \in [Characters -> Data] /\ db.account \in Account
  BY DEF Typed, ServersTyped
<1>4. toMaster[w] # <<>> => Head(toMaster[w]) \in Request
  BY HeadTyped DEF Typed
<1>5. /\ [kind |-> "authenticate", id |-> client[w].id] \in Request
      /\ [kind |-> "list", id |-> client[w].id] \in Request
  BY <1>2 DEF Request
<1>6. \A c \in Characters : [kind |-> "get", id |-> client[w].id, character |-> c] \in Request
  BY <1>2 DEF Request
<1>7. \A to \in Worlds : [kind |-> "link", to |-> to, id |-> client[to].id,
                          account |-> client[w].account] \in Request
  BY <1>2 DEF Request
<1>8. ASSUME toMaster[w] # <<>>
      PROVE  /\ [kind |-> "authenticate", id |-> Head(toMaster[w]).id, account |-> db.account] \in Reply
             /\ [kind |-> "list", id |-> Head(toMaster[w]).id] \in Reply
  <2>1. Head(toMaster[w]).id \in Nat
    BY <1>4, <1>8, RequestFacts
  <2> QED
    BY <1>3, <2>1 DEF Reply
<1>9. ASSUME HeadIs(w, "get"), NEW success \in BOOLEAN
      PROVE  [kind |-> "get", id |-> Head(toMaster[w]).id,
              character |-> Head(toMaster[w]).character, success |-> success,
              data |-> db.data[Head(toMaster[w]).character], account |-> db.account] \in Reply
  <2>1. Head(toMaster[w]).id \in Nat /\ Head(toMaster[w]).character \in Characters
    BY <1>4, <1>9, RequestFacts DEF HeadIs
  <2> QED
    BY <1>3, <2>1 DEF Reply
<1>10. ASSUME HeadIs(w, "sync"), NEW failed \in SUBSET Head(toMaster[w]).mask
       PROVE  [kind |-> "sync", id |-> Head(toMaster[w]).id,
               character |-> Head(toMaster[w]).character, failed |-> failed] \in Reply
  <2>1. /\ Head(toMaster[w]).id \in Nat /\ Head(toMaster[w]).character \in Characters
        /\ Head(toMaster[w]).mask \in SUBSET Parts
    BY <1>4, <1>10, RequestFacts DEF HeadIs
  <2> QED
    BY <2>1 DEF Reply
<1> QED
  BY <1>4, <1>5, <1>6, <1>7, <1>8, <1>9, <1>10

\* Requests, answers and links that leave the requests for a character and the saves alone.
LEMMA AsideQueues ==
    ASSUME Typed, NEW w \in Worlds,
           \/ LogIn(w) \/ GetCharacters(w) \/ AddForceGem(w) \/ (\E s \in Sections : Touch(w, s))
           \/ OnAuthenticate(w) \/ OnGetCharacterList(w) \/ OnVerifyLinks(w) \/ OnSync(w) \/ DropAnswer(w)
           \/ Forward(w) \/ DBAuthenticate(w) \/ DBGetCharacterList(w)
    PROVE  \E d, e \in {0, 1} : /\ From(toMaster[w], toMaster'[w], {"get", "sync"}, d)
                                /\ From(fromDB[w], fromDB'[w], {"get", "sync"}, e)
<1> DEFINE kinds == {"get", "sync"}
<1>1. "authenticate" \notin kinds /\ "list" \notin kinds
  OBVIOUS
<1>2. CASE \/ AddForceGem(w) \/ (\E s \in Sections : Touch(w, s)) \/ OnVerifyLinks(w)
  BY <1>2, Shifts, Zenon DEF AddForceGem, Touch, OnVerifyLinks
<1>3. CASE LogIn(w)
  <2> DEFINE m == [kind |-> "authenticate", id |-> client[w].id]
  <2>1. m \in Request /\ m.kind = "authenticate" /\ Send(w, m) /\ UNCHANGED fromDB
    BY <1>3, Packets DEF LogIn
  <2> HIDE DEF kinds, m
  <2>2. From(toMaster[w], toMaster'[w], kinds, 0) /\ From(fromDB[w], fromDB'[w], kinds, 0)
    BY <1>1, <2>1, Shifts
  <2> QED
    BY <2>2 DEF kinds
<1>4. CASE GetCharacters(w)
  <2> DEFINE m == [kind |-> "list", id |-> client[w].id]
  <2>1. m \in Request /\ m.kind = "list" /\ Send(w, m) /\ UNCHANGED fromDB
    BY <1>4, Packets DEF GetCharacters
  <2> HIDE DEF kinds, m
  <2>2. From(toMaster[w], toMaster'[w], kinds, 0) /\ From(fromDB[w], fromDB'[w], kinds, 0)
    BY <1>1, <2>1, Shifts
  <2> QED
    BY <2>2 DEF kinds
<1>5. CASE OnAuthenticate(w) \/ OnGetCharacterList(w) \/ OnSync(w) \/ DropAnswer(w)
  <2>1. UNCHANGED toMaster /\ Received(w) /\ fromDB[w] # <<>>
    BY <1>5 DEF OnAuthenticate, OnGetCharacterList, OnSync, DropAnswer, Addressed
  <2> HIDE DEF kinds
  <2>2. From(toMaster[w], toMaster'[w], kinds, 0) /\ From(fromDB[w], fromDB'[w], kinds, 1)
    BY <2>1, Shifts
  <2> QED
    BY <2>2 DEF kinds
<1>6. CASE Forward(w)
  <2>1. UNCHANGED fromDB /\ Taken(w) /\ toMaster[w] # <<>>
    BY <1>6 DEF Forward, HeadIs
  <2> HIDE DEF kinds
  <2>2. From(toMaster[w], toMaster'[w], kinds, 1) /\ From(fromDB[w], fromDB'[w], kinds, 0)
    BY <2>1, Shifts
  <2> QED
    BY <2>2 DEF kinds
<1>7. CASE DBAuthenticate(w) \/ DBGetCharacterList(w)
  <2>1. Taken(w) /\ toMaster[w] # <<>>
    BY <1>7 DEF DBAuthenticate, DBGetCharacterList, HeadIs
  <2>2. \E m \in Reply : Answer(w, m) /\ m.kind \notin kinds
    BY <1>7, <2>1, Packets DEF DBAuthenticate, DBGetCharacterList
  <2> HIDE DEF kinds
  <2>3. From(toMaster[w], toMaster'[w], kinds, 1) /\ From(fromDB[w], fromDB'[w], kinds, 0)
    BY <2>1, <2>2, Shifts
  <2> QED
    BY <2>3 DEF kinds
<1> QED
  BY <1>2, <1>3, <1>4, <1>5, <1>6, <1>7

-----------------------------------------------------------------------------
(* The steps preserve these parts                                           *)

LEMMA IdsStep ==
    ASSUME Typed, IdsKnown, NEW w \in Worlds, Serve(w) \/ SyncTimer(w) \/ Play(w)
    PROVE  IdsKnown'
<1> DEFINE Known(q, n) == \A i \in DOMAIN q : q[i].kind = "get" => q[i].id \in 1 .. n
<1>1. Untouched(w)
  BY Elsewhere DEF Untouched
<1>2. connections \in Nat /\ connections' \in Nat /\ connections <= connections'
  <2>1. connections \in Nat
    BY Bounds DEF Typed, CountersTyped
  <2>2. connections' = connections \/ connections' = connections + 1
    BY Zenon DEF Serve, Play, SyncTimer, Connect, LogIn, GetCharacters, Deinitialize, Disconnect, AddForceGem,
       VerifyLinks, Initialize, Touch, OnAuthenticate, OnGetCharacterList, OnVerifyLinks, OnGetCharacter,
       OnGetCharacterFailed, OnSync, DropAnswer, Forward, DBAuthenticate, DBGetCharacterList,
       DBGetCharacter, DBSync
  <2> QED
    BY <2>1, <2>2
<1>3. \A q : Known(q, connections) => Known(q, connections')
  BY <1>2
<1>4. Known(toMaster[w], connections) /\ Known(fromDB[w], connections)
  BY DEF IdsKnown
<1>5. ASSUME NEW d \in {0, 1}, From(toMaster[w], toMaster'[w], {"get"}, d)
      PROVE  Known(toMaster'[w], connections')
  BY <1>3, <1>4, <1>5 DEF From
<1>6. ASSUME NEW d \in {0, 1}, From(fromDB[w], fromDB'[w], {"get"}, d)
      PROVE  Known(fromDB'[w], connections')
  BY <1>3, <1>4, <1>6 DEF From
<1> HIDE DEF Known
<1>7. Known(toMaster'[w], connections')
  <2>1. ASSUME NEW m \in Request, Send(w, m), m.kind # "get" PROVE Known(toMaster'[w], connections')
    BY <1>5, <2>1, Shifts
  <2>2. CASE UNCHANGED toMaster
    BY <1>5, <2>2, Shifts
  <2>3. ASSUME toMaster[w] # <<>>, Taken(w) PROVE Known(toMaster'[w], connections')
    BY <1>5, <2>3, Shifts
  <2>4. ASSUME NEW c \in Characters, Initialize(w, c) PROVE Known(toMaster'[w], connections')
    <3> DEFINE m == [kind |-> "get", id |-> client[w].id, character |-> c]
    <3>1. Send(w, m) /\ client[w].id # 0 /\ m.id = client[w].id
      BY <2>4 DEF Initialize
    <3>2. m \in Request
      BY Packets
    <3>3. client[w].id \in 1 .. connections'
      <4>1. client[w].id \in Nat /\ client[w].id <= connections
        BY DEF Typed, CountersTyped, ServersTyped, Client
      <4> QED
        BY <1>2, <3>1, <4>1
    <3> HIDE DEF m
    <3>4. Longer(toMaster[w], toMaster'[w], m)
      BY <3>1, <3>2, SendsLonger
    <3>5. Known(toMaster[w], connections')
      BY <1>3, <1>4
    <3> QED
      BY <3>1, <3>3, <3>4, <3>5 DEF Longer, Known
  <2>5. ASSUME NEW to \in Worlds, VerifyLinks(w, to) PROVE Known(toMaster'[w], connections')
    BY <2>1, <2>5, Packets DEF VerifyLinks
  <2>6. ASSUME LogIn(w) \/ GetCharacters(w) PROVE Known(toMaster'[w], connections')
    BY <2>1, <2>6, Packets DEF LogIn, GetCharacters
  <2>7. ASSUME Character(w).loaded, Send(w, SyncMsg(w, client[w].character))
        PROVE  Known(toMaster'[w], connections')
    <3> DEFINE m == SyncMsg(w, client[w].character)
    <3>1. m \in Request /\ m.kind # "get"
      BY <2>7, LoadedFacts DEF SyncMsg
    <3> HIDE DEF m
    <3> QED
      BY <2>1, <2>7, <3>1 DEF m
  <2>8. ASSUME Serve(w) PROVE Known(toMaster'[w], connections')
    BY <2>2, <2>3, <2>8, Zenon DEF Serve, OnAuthenticate, OnGetCharacterList, OnVerifyLinks, OnGetCharacter,
       OnGetCharacterFailed, OnSync, DropAnswer, Forward, DBAuthenticate, DBGetCharacterList,
       DBGetCharacter, DBSync, HeadIs
  <2>9. ASSUME Disconnect(w) \/ Deinitialize(w) \/ SyncTimer(w) PROVE Known(toMaster'[w], connections')
    BY <2>2, <2>7, <2>9 DEF Disconnect, Deinitialize, SyncTimer, Playing
  <2>10. ASSUME \/ Connect(w) \/ AddForceGem(w) \/ \E s \in Sections : Touch(w, s)
         PROVE  Known(toMaster'[w], connections')
    BY <2>2, <2>10, Zenon DEF Connect, AddForceGem, Touch
  <2> QED
    BY <2>4, <2>5, <2>6, <2>8, <2>9, <2>10 DEF Play
<1>8. Known(fromDB'[w], connections')
  <2>1. CASE UNCHANGED fromDB
    BY <1>6, <2>1, Shifts
  <2>2. ASSUME fromDB[w] # <<>>, Received(w) PROVE Known(fromDB'[w], connections')
    BY <1>6, <2>2, Shifts
  <2>3. ASSUME NEW m \in Reply, Answer(w, m), m.kind # "get" PROVE Known(fromDB'[w], connections')
    BY <1>6, <2>3, Shifts
  <2>4. CASE DBGetCharacter(w)
    <3> DEFINE r == Head(toMaster[w])
    <3>1. HeadIs(w, "get") /\ Taken(w) /\ toMaster[w] # <<>> /\ r.kind = "get"
      BY <2>4 DEF DBGetCharacter, HeadIs
    <3>2. \E m \in Reply : Answer(w, m) /\ m.id = r.id
      BY <2>4, <3>1, Packets DEF DBGetCharacter
    <3>3. r.id \in 1 .. connections'
      <4>1. Shorter(toMaster[w], toMaster'[w])
        BY <3>1, TakenShorter
      <4>2. r.id \in 1 .. connections
        BY <1>4, <3>1, <4>1 DEF Known, Shorter
      <4> QED
        BY <1>2, <4>2
    <3>4. Known(fromDB[w], connections')
      BY <1>3, <1>4
    <3> HIDE DEF r
    <3>5. PICK m \in Reply : Answer(w, m) /\ m.id = r.id
      BY <3>2
    <3>6. Longer(fromDB[w], fromDB'[w], m)
      BY <3>5, AnswerLonger
    <3> QED
      BY <3>3, <3>4, <3>5, <3>6 DEF Longer, Known
  <2>5. CASE DBAuthenticate(w) \/ DBGetCharacterList(w) \/ DBSync(w)
    <3>1. toMaster[w] # <<>>
      BY <2>5 DEF DBAuthenticate, DBGetCharacterList, DBSync, HeadIs
    <3>2. \E m \in Reply : Answer(w, m) /\ m.kind # "get"
      BY <2>5, <3>1, Packets DEF DBAuthenticate, DBGetCharacterList, DBSync
    <3> QED
      BY <2>3, <3>2
  <2>6. CASE \/ OnAuthenticate(w) \/ OnGetCharacterList(w) \/ OnGetCharacter(w)
             \/ OnGetCharacterFailed(w) \/ OnSync(w) \/ DropAnswer(w)
    BY <2>2, <2>6 DEF OnAuthenticate, OnGetCharacterList, OnGetCharacter, OnGetCharacterFailed, OnSync,
       DropAnswer, Addressed
  <2>7. CASE Play(w) \/ SyncTimer(w) \/ OnVerifyLinks(w) \/ Forward(w)
    BY <2>1, <2>7, Zenon DEF Play, SyncTimer, Connect, LogIn, GetCharacters, Deinitialize, Disconnect,
       AddForceGem, VerifyLinks, Initialize, Touch, OnVerifyLinks, Forward
  <2> QED
    BY <2>4, <2>5, <2>6, <2>7 DEF Serve
<1>9. \A v \in Worlds : Known(toMaster'[v], connections') /\ Known(fromDB'[v], connections')
  <2> SUFFICES ASSUME NEW v \in Worlds, v # w
               PROVE  Known(toMaster'[v], connections') /\ Known(fromDB'[v], connections')
    BY <1>7, <1>8
  <2>1. Known(toMaster[v], connections) /\ Known(fromDB[v], connections)
    BY DEF Known, IdsKnown
  <2> QED
    BY <1>1, <1>3, <2>1 DEF Untouched
<1> QED
  BY <1>9 DEF IdsKnown, Known

\* A request goes to a connection that waits: when its answer comes, nothing is loaded.
LEMMA AnswerFacts ==
    ASSUME Typed, GetsAsked, IdsKnown, NEW w \in Worlds, Addressed(w, "get")
    PROVE  /\ GetIn(w, 1) /\ AnswerAsked(w, 1) /\ Head(fromDB[w]) = fromDB[w][1] /\ Head(fromDB[w]) \in Reply
           /\ Head(fromDB[w]).kind = "get" /\ client[w].id # 0
<1>1. fromDB[w] # <<>> /\ Head(fromDB[w]).kind = "get" /\ client[w].id = Head(fromDB[w]).id
  BY DEF Addressed
<1>2. 1 \in DOMAIN fromDB[w] /\ Head(fromDB[w]) = fromDB[w][1] /\ Head(fromDB[w]) \in Reply
  BY <1>1, HeadTaken DEF Typed, QueuesTyped
<1>3. GetIn(w, 1)
  BY <1>1, <1>2 DEF GetIn
<1>4. AnswerAsked(w, 1)
  BY <1>3 DEF GetsAsked, GetsAskedAt
<1>5. client[w].id \in 1 .. connections
  BY <1>1, <1>2 DEF IdsKnown
<1> QED
  BY <1>1, <1>2, <1>3, <1>4, <1>5

LEMMA LoadedLiveElsewhere ==
    ASSUME NEW w \in Worlds, Untouched(w), LoadedLive,
           \A c \in Characters : memory'[w][c].loaded =>
              client'[w].character = c /\ Live(w)' /\ ~client'[w].asked /\ client'[w].id # 0
    PROVE  LoadedLive'
<1> SUFFICES ASSUME NEW v \in Worlds, NEW c \in Characters, memory'[v][c].loaded, v # w
             PROVE  client'[v].character = c /\ Live(v)' /\ ~client'[v].asked /\ client'[v].id # 0
  BY DEF LoadedLive
<1> QED
  BY DEF LoadedLive, Untouched, Live

LEMMA LoadedLiveStep ==
    ASSUME Orderly, Typed, LoadedLive, GetsAsked, IdsKnown,
           NEW w \in Worlds, Serve(w) \/ SyncTimer(w) \/ Play(w)
    PROVE  LoadedLive'
<1>1. Untouched(w)
  BY Elsewhere DEF Untouched
<1>2. ASSUME Held(w) PROVE LoadedLive'
  BY <1>1, <1>2, LoadedLiveElsewhere DEF Held, LoadedLive
<1>3. ASSUME Nothing(w)' PROVE LoadedLive'
  BY <1>1, <1>3, LoadedLiveElsewhere DEF Nothing
<1>4. ASSUME Nothing(w), UNCHANGED memory PROVE LoadedLive'
  BY <1>3, <1>4 DEF Nothing
<1>5. CASE Connect(w)
  <2>1. Nothing(w)
    BY <1>5 DEF Connect, LoadedLive, Nothing
  <2> QED
    BY <1>4, <1>5, <2>1 DEF Connect
<1>6. CASE Disconnect(w)
  <2>1. CASE ~Character(w).loaded
    BY <1>4, <1>6, <2>1, LoadedAt DEF Disconnect
  <2>2. CASE Character(w).loaded
    <3>1. /\ memory' = [memory EXCEPT ![w][client[w].character] = Unloaded]
          /\ client[w].character \in Characters /\ Unloaded.loaded = FALSE
      BY <1>6, <2>2, LoadedFacts DEF Disconnect, Unloaded
    <3>2. \A c \in Characters \ {client[w].character} : ~memory[w][c].loaded
      BY LoadedAt
    <3>3. Nothing(w)'
      BY <3>1, <3>2 DEF Nothing, Typed, ServersTyped
    <3> QED
      BY <1>3, <3>3
  <2> QED
    BY <2>1, <2>2
<1>7. ASSUME NEW to \in Worlds, VerifyLinks(w, to) PROVE LoadedLive'
  BY <1>4, <1>7, LoadedAt DEF VerifyLinks
<1>8. ASSUME NEW c \in Characters, Initialize(w, c) PROVE LoadedLive'
  BY <1>4, <1>8, LoadedAt DEF Initialize
<1>9. CASE OnGetCharacter(w)
  <2> DEFINE m == Head(fromDB[w])
  <2>1. /\ Addressed(w, "get")
        /\ memory' = [memory EXCEPT ![w][m.character] = Loaded(m.data, client[w].account)]
        /\ client' = [client EXCEPT ![w].character = m.character, ![w].account = m.account, ![w].asked = FALSE]
    BY <1>9 DEF OnGetCharacter
  <2>2. Waiting(w) /\ client[w].id # 0 /\ m \in Reply /\ m.kind = "get"
    BY <2>1, AnswerFacts DEF AnswerAsked
  <2>3. m.character \in Characters
    BY <2>2, ReplyFacts
  <2>4. client[w] \in Client /\ w \in DOMAIN client /\ w \in DOMAIN memory /\ DOMAIN memory[w] = Characters
    BY DEF Typed, ServersTyped
  <2> HIDE DEF m
  <2>5. /\ client'[w].character = m.character /\ ~client'[w].asked /\ client'[w].id = client[w].id
        /\ client'[w].verified = client[w].verified /\ client'[w].closing = client[w].closing
    BY <2>1, <2>4 DEF Client
  <2>6. \A c \in Characters \ {m.character} : memory'[w][c] = memory[w][c]
    BY <2>1, <2>3, <2>4
  <2> QED
    BY <1>1, <2>2, <2>5, <2>6, LoadedLiveElsewhere DEF Waiting, Nothing, Live
<1>10. CASE OnGetCharacterFailed(w)
  <2>1. Waiting(w)
    BY <1>10, AnswerFacts DEF OnGetCharacterFailed, AnswerAsked
  <2> QED
    BY <1>4, <1>10, <2>1 DEF OnGetCharacterFailed, Waiting
<1> QED
  BY <1>2, <1>5, <1>6, <1>7, <1>8, <1>9, <1>10, HeldPlay, HeldServe DEF Play, Serve

LEMMA GetsAskedStep ==
    ASSUME Orderly, Typed, Typed', Tokens, LoadedLive, GetsAsked, IdsKnown,
           NEW w \in Worlds, Serve(w) \/ SyncTimer(w) \/ Play(w)
    PROVE  GetsAsked'
<1>1. Untouched(w)
  BY Elsewhere DEF Untouched
<1>2. ASSUME db'.data = db.data, GetsAskedAt(w)' PROVE GetsAsked'
  BY <1>1, <1>2, UntouchedGets DEF GetsAsked
<1>3. ASSUME db'.data = db.data, NoGets(w)' PROVE GetsAsked'
  BY <1>2, <1>3, NoGetsAsked
<1>4. GetsAskedAt(w) /\ DOMAIN toMaster'[w] \subseteq Nat /\ DOMAIN fromDB'[w] \subseteq Nat
  BY LenProperties DEF GetsAsked, Typed, QueuesTyped
<1>5. CASE \/ LogIn(w) \/ GetCharacters(w) \/ AddForceGem(w) \/ (\E s \in Sections : Touch(w, s))
           \/ OnAuthenticate(w) \/ OnGetCharacterList(w) \/ OnVerifyLinks(w) \/ OnSync(w) \/ DropAnswer(w)
           \/ Forward(w) \/ DBAuthenticate(w) \/ DBGetCharacterList(w)
  <2>1. Held(w)
    BY <1>5, HeldPlay, HeldServe
  <2>2. db' = db
    BY <1>5, Zenon DEF LogIn, GetCharacters, AddForceGem, Touch, OnAuthenticate, OnGetCharacterList, OnVerifyLinks,
       OnSync, DropAnswer, Forward, DBAuthenticate, DBGetCharacterList
  <2>3. GetsAskedAt(w)'
    BY <1>4, <1>5, <2>1, <2>2, AsideQueues, FewerGets
  <2> QED
    BY <1>2, <2>2, <2>3
<1>6. CASE Deinitialize(w) \/ SyncTimer(w)
  <2> DEFINE m == SyncMsg(w, client[w].character)
  <2>1. Character(w).loaded
    BY <1>6 DEF Deinitialize, SyncTimer, Playing
  <2>2. m \in Request /\ m.kind = "sync" /\ ~client[w].asked
    BY <2>1, LoadedFacts DEF SyncMsg, LoadedLive
  <2>3. NoGets(w)
    BY <2>2, IdleGets DEF Waiting
  <2>4. UNCHANGED <<db, client, fromDB>> /\ Send(w, m)
    BY <1>6 DEF Deinitialize, SyncTimer
  <2> HIDE DEF m
  <2>5. From(toMaster[w], toMaster'[w], {"get"}, 0) /\ From(fromDB[w], fromDB'[w], {"get"}, 0)
    BY <2>2, <2>4, Shifts
  <2>6. NoGets(w)'
    BY <2>3, <2>4, <2>5, NoMoreGets
  <2> QED
    BY <1>3, <2>4, <2>6
<1>7. CASE Connect(w)
  <2>1. client'[w].id = connections + 1 /\ connections \in Nat
    BY <1>7, Bounds DEF Connect, NoClient, Typed, ServersTyped, CountersTyped
  <2>2. UNCHANGED <<db, toMaster, fromDB>>
    BY <1>7 DEF Connect
  <2>3. connections + 1 \notin 1 .. connections
    BY <2>1
  <2>4. NoGets(w)'
    BY <2>1, <2>2, <2>3 DEF NoGets, GetOut, GetIn, IdsKnown
  <2> QED
    BY <1>3, <2>2, <2>4
<1>8. CASE Disconnect(w)
  <2>1. client'[w].id = 0 /\ UNCHANGED <<db, fromDB>>
    BY <1>8 DEF Disconnect, NoClient, Typed, ServersTyped
  <2>2. IdsKnown'
    BY <1>8, IdsStep DEF Play
  <2>3. connections' \in Nat
    BY Bounds DEF Typed, CountersTyped
  <2>4. 0 \notin 1 .. connections'
    BY <2>3
  <2>5. NoGets(w)'
    BY <2>1, <2>2, <2>4 DEF NoGets, GetOut, GetIn, IdsKnown
  <2> QED
    BY <1>3, <2>1, <2>5
<1>9. ASSUME NEW to \in Worlds, VerifyLinks(w, to) PROVE GetsAsked'
  <2> DEFINE m == [kind |-> "link", to |-> to, id |-> client[to].id, account |-> client[w].account]
  <2>1. m \in Request /\ m.kind = "link" /\ ~client[w].asked
    BY <1>9, Packets DEF VerifyLinks
  <2>2. NoGets(w)
    BY <2>1, IdleGets DEF Waiting
  <2>3. UNCHANGED <<db, fromDB>> /\ Send(w, m) /\ client'[w].id = client[w].id
    BY <1>9 DEF VerifyLinks, Typed, ServersTyped, Client
  <2> HIDE DEF m
  <2>4. From(toMaster[w], toMaster'[w], {"get"}, 0) /\ From(fromDB[w], fromDB'[w], {"get"}, 0)
    BY <2>1, <2>3, Shifts
  <2>5. NoGets(w)'
    BY <2>2, <2>3, <2>4, NoMoreGets
  <2> QED
    BY <1>3, <2>3, <2>5
<1>10. ASSUME NEW c \in Characters, Initialize(w, c) PROVE GetsAsked'
  <2> DEFINE m == [kind |-> "get", id |-> client[w].id, character |-> c]
             n == Len(toMaster[w]) + 1
  <2>1. m \in Request /\ m.kind = "get" /\ Send(w, m) /\ UNCHANGED <<db, memory, fromDB>>
    BY <1>10, Packets DEF Initialize
  <2>2. client[w] \in Client /\ client'[w] = [client[w] EXCEPT !.asked = TRUE]
    BY <1>10 DEF Initialize, Typed, ServersTyped
  <2>3. client'[w].id = client[w].id /\ client'[w].asked /\ Live(w)'
    BY <1>10, <2>2 DEF Initialize, Live, Client
  <2>4. NoGets(w)
    BY <1>10, IdleGets DEF Initialize, Waiting
  <2>5. Waiting(w)'
    BY <1>10, <2>1, <2>3, LoadedAt DEF Initialize, Waiting, Nothing
  <2> HIDE DEF m
  <2>6. Longer(toMaster[w], toMaster'[w], m) /\ n \in Nat
    BY <2>1, SendsLonger DEF Longer
  <2>7. \A j \in Nat : ~GetIn(w, j)'
    BY <2>1, <2>3, <2>4 DEF NoGets, GetIn
  <2>8. \A j \in Nat : GetOut(w, j)' => j = n
    BY <2>3, <2>4, <2>6 DEF NoGets, GetOut, Longer
  <2>9. \A j \in Nat : SaveAt(w, j)' => j < n
    BY <2>1, <2>6 DEF SaveAt, Longer
  <2> HIDE DEF n
  <2>10. GetsAskedAt(w)'
    BY <2>5, <2>7, <2>8, <2>9 DEF GetsAskedAt, RequestAsked
  <2> QED
    BY <1>2, <2>1, <2>10
<1>11. CASE OnGetCharacter(w) \/ OnGetCharacterFailed(w)
  <2>1. Addressed(w, "get") /\ Received(w) /\ UNCHANGED <<db, toMaster>>
    BY <1>11 DEF OnGetCharacter, OnGetCharacterFailed
  <2>2. AnswerAsked(w, 1) /\ GetIn(w, 1)
    BY <2>1, AnswerFacts
  <2>3. client'[w].id = client[w].id
    BY <1>11 DEF OnGetCharacter, OnGetCharacterFailed, Typed, ServersTyped, Client
  <2>4. Shorter(fromDB[w], fromDB'[w])
    BY <2>1, ReceivedShorter DEF Addressed
  <2>5. \A j \in Nat : ~GetOut(w, j)
    BY <2>2 DEF GetsAsked, GetsAskedAt, RequestAsked
  <2>6. ASSUME NEW j \in Nat, GetIn(w, j)' PROVE FALSE
    <3>1. GetIn(w, j + 1) /\ j + 1 \in Nat /\ j # 0
      BY <2>3, <2>4, <2>6 DEF GetIn, Shorter
    <3>2. j + 1 = 1
      BY <2>2, <3>1 DEF AnswerAsked
    <3> QED
      BY <3>1, <3>2
  <2>7. NoGets(w)'
    BY <2>1, <2>3, <2>5, <2>6 DEF NoGets, GetOut
  <2> QED
    BY <1>3, <2>1, <2>7
<1>12. CASE DBGetCharacter(w)
  <2> DEFINE r == Head(toMaster[w])
             n == Len(fromDB[w]) + 1
  <2>1. HeadIs(w, "get") /\ toMaster[w] # <<>> /\ r.kind = "get" /\ Taken(w) /\ UNCHANGED <<db, client, memory>>
    BY <1>12 DEF DBGetCharacter, HeadIs
  <2>2. \E a \in Reply : /\ Answer(w, a) /\ a.kind = "get" /\ a.id = r.id /\ a.character = r.character
                         /\ a.data = db.data[r.character]
    BY <1>12, <2>1, Packets DEF DBGetCharacter
  <2>3. PICK a \in Reply : /\ Answer(w, a) /\ a.kind = "get" /\ a.id = r.id /\ a.character = r.character
                           /\ a.data = db.data[r.character]
    BY <2>2
  <2>4. Longer(fromDB[w], fromDB'[w], a) /\ n \in Nat
    BY <2>3, AnswerLonger DEF Longer
  <2>5. Shorter(toMaster[w], toMaster'[w]) /\ r = toMaster[w][1] /\ 1 \in DOMAIN toMaster[w]
    BY <2>1, TakenShorter DEF Shorter
  <2> HIDE DEF r
  <2>6. \A i \in Nat : /\ GetOut(w, i)' => GetOut(w, i + 1) /\ i + 1 \in Nat /\ i # 0
                       /\ SaveAt(w, i)' => SaveAt(w, i + 1) /\ i + 1 \in Nat /\ i # 0
    BY <2>1, <2>5 DEF GetOut, SaveAt, Shorter
  <2>7. \A i \in Nat : GetIn(w, i)' /\ i # n => GetIn(w, i) /\ fromDB'[w][i] = fromDB[w][i]
    BY <2>1, <2>4 DEF GetIn, Longer
  <2>8. Waiting(w)' <=> Waiting(w)
    BY <2>1 DEF Waiting, Live, Nothing
  <2>9. CASE r.id = client[w].id
    <3>1. GetOut(w, 1)
      BY <2>1, <2>5, <2>9 DEF GetOut
    <3>2. RequestAsked(w, 1)
      BY <1>4, <3>1 DEF GetsAskedAt
    <3>3. \A i \in Nat : ~GetOut(w, i)' /\ ~SaveAt(w, i)'
      <4> SUFFICES ASSUME NEW i \in Nat, GetOut(w, i)' \/ SaveAt(w, i)' PROVE FALSE
        OBVIOUS
      <4>1. i + 1 = 1 \/ i + 1 < 1
        BY <2>6, <3>2 DEF RequestAsked
      <4>2. i # 0
        BY <2>6
      <4> QED
        BY <4>1, <4>2
    <3>4. \A j \in Nat : GetIn(w, j)' => j = n
      BY <2>7, <3>2 DEF RequestAsked
    <3>5. \A j \in DOMAIN fromDB'[w] : fromDB'[w][j].kind = "sync" => j < n
      BY <2>3, <2>4 DEF Longer
    <3>6. fromDB'[w][n].data = db'.data[fromDB'[w][n].character]
      BY <2>1, <2>3, <2>4 DEF Longer
    <3> HIDE DEF n
    <3>7. GetsAskedAt(w)'
      BY <2>8, <3>2, <3>3, <3>4, <3>5, <3>6 DEF GetsAskedAt, AnswerAsked, RequestAsked
    <3> QED
      BY <1>2, <2>1, <3>7
  <2>10. CASE r.id # client[w].id
    <3>1. \A i \in Nat : GetIn(w, i)' => GetIn(w, i) /\ fromDB'[w][i] = fromDB[w][i]
      <4>1. ASSUME NEW i \in Nat, i = n PROVE ~GetIn(w, i)'
        BY <2>1, <2>3, <2>4, <2>10, <4>1 DEF GetIn, Longer
      <4> QED
        BY <2>7, <4>1
    <3>2. ASSUME NEW i \in Nat, GetOut(w, i)' PROVE RequestAsked(w, i)'
      <4>1. RequestAsked(w, i + 1)
        BY <1>4, <2>6, <3>2 DEF GetsAskedAt
      <4>2. \A j \in Nat : SaveAt(w, j)' => j < i
        <5> SUFFICES ASSUME NEW j \in Nat, SaveAt(w, j)' PROVE j < i
          OBVIOUS
        <5>1. j + 1 < i + 1
          BY <2>6, <4>1 DEF RequestAsked
        <5> QED
          BY <5>1
      <4>3. \A j \in Nat : GetOut(w, j)' => j = i
        <5> SUFFICES ASSUME NEW j \in Nat, GetOut(w, j)' PROVE j = i
          OBVIOUS
        <5>1. j + 1 = i + 1
          BY <2>6, <4>1 DEF RequestAsked
        <5> QED
          BY <5>1
      <4> QED
        BY <2>8, <3>1, <4>1, <4>2, <4>3 DEF RequestAsked
    <3>3. ASSUME NEW i \in Nat, GetIn(w, i)' PROVE AnswerAsked(w, i)'
      <4>1. AnswerAsked(w, i) /\ fromDB'[w][i] = fromDB[w][i]
        BY <1>4, <3>1, <3>3 DEF GetsAskedAt
      <4>2. \A j \in DOMAIN fromDB'[w] : fromDB'[w][j].kind = "sync" => j < i
        BY <2>3, <2>4, <4>1 DEF AnswerAsked, Longer
      <4>3. (\A j \in Nat : ~SaveAt(w, j)') /\ (\A j \in Nat : GetIn(w, j)' => j = i)
        BY <2>6, <3>1, <4>1 DEF AnswerAsked
      <4>4. fromDB'[w][i].data = db'.data[fromDB'[w][i].character]
        BY <2>1, <4>1 DEF AnswerAsked
      <4> QED
        BY <2>8, <4>1, <4>2, <4>3, <4>4 DEF AnswerAsked
    <3>4. GetsAskedAt(w)'
      BY <3>2, <3>3 DEF GetsAskedAt
    <3> QED
      BY <1>2, <2>1, <3>4
  <2> QED
    BY <2>9, <2>10
<1>13. CASE DBSync(w)
  <2> DEFINE r == Head(toMaster[w])
  <2>1. HeadIs(w, "sync") /\ toMaster[w] # <<>> /\ r.kind = "sync" /\ Taken(w) /\ UNCHANGED <<client, memory>>
    BY <1>13 DEF DBSync, HeadIs
  <2>2. \E a \in Reply : Answer(w, a) /\ a.kind = "sync"
    BY <1>13, <2>1, Packets DEF DBSync
  <2>3. From(fromDB[w], fromDB'[w], {"get"}, 0)
    BY <2>2, Shifts
  <2>4. Shorter(toMaster[w], toMaster'[w]) /\ SaveAt(w, 1)
    BY <2>1, TakenShorter DEF Shorter, SaveAt
  <2>5. \A v \in Worlds, i \in Nat : ~GetIn(v, i)
    <3> SUFFICES ASSUME NEW v \in Worlds, NEW i \in Nat, GetIn(v, i) PROVE FALSE
      OBVIOUS
    <3>1. Waiting(v) /\ ~SaveAt(v, 1)
      BY DEF GetsAsked, GetsAskedAt, AnswerAsked
    <3>2. TokenAt("client", v, 0)
      BY <3>1 DEF TokenAt, Waiting
    <3> QED
      BY <2>4, <3>1, <3>2 DEF Tokens, SavesFirst, Places
  <2>6. \A i \in Nat : ~GetIn(w, i)'
    BY <2>1, <2>3, <2>5 DEF GetIn, From
  <2>7. \A i \in Nat : /\ GetOut(w, i)' => GetOut(w, i + 1) /\ i + 1 \in Nat
                       /\ SaveAt(w, i)' => SaveAt(w, i + 1) /\ i + 1 \in Nat
    BY <2>1, <2>4 DEF GetOut, SaveAt, Shorter
  <2>8. Waiting(w)' <=> Waiting(w)
    BY <2>1 DEF Waiting, Live, Nothing
  <2>9. ASSUME NEW i \in Nat, GetOut(w, i)' PROVE RequestAsked(w, i)'
    <3>1. RequestAsked(w, i + 1)
      BY <1>4, <2>7, <2>9 DEF GetsAskedAt
    <3>2. \A j \in Nat : SaveAt(w, j)' => j < i
      <4> SUFFICES ASSUME NEW j \in Nat, SaveAt(w, j)' PROVE j < i
        OBVIOUS
      <4>1. j + 1 < i + 1
        BY <2>7, <3>1 DEF RequestAsked
      <4> QED
        BY <4>1
    <3>3. \A j \in Nat : GetOut(w, j)' => j = i
      <4> SUFFICES ASSUME NEW j \in Nat, GetOut(w, j)' PROVE j = i
        OBVIOUS
      <4>1. j + 1 = i + 1
        BY <2>7, <3>1 DEF RequestAsked
      <4> QED
        BY <4>1
    <3> QED
      BY <2>6, <2>8, <3>1, <3>2, <3>3 DEF RequestAsked
  <2>10. GetsAskedAt(w)'
    BY <2>6, <2>9 DEF GetsAskedAt
  <2>11. \A v \in Worlds \ {w} : GetsAskedAt(v)'
    <3> SUFFICES ASSUME NEW v \in Worlds \ {w} PROVE GetsAskedAt(v)'
      OBVIOUS
    <3>1. /\ toMaster'[v] = toMaster[v] /\ fromDB'[v] = fromDB[v]
          /\ client'[v] = client[v] /\ memory'[v] = memory[v]
      BY <1>1 DEF Untouched
    <3>2. GetsAskedAt(v) /\ \A i \in Nat : ~GetIn(v, i)
      BY <2>5 DEF GetsAsked
    <3> QED
      BY <3>1, <3>2 DEF GetsAskedAt, GetOut, GetIn, RequestAsked, Waiting, Live, Nothing, SaveAt
  <2> QED
    BY <2>10, <2>11 DEF GetsAsked
<1> QED
  BY <1>5, <1>6, <1>7, <1>8, <1>9, <1>10, <1>11, <1>12, <1>13 DEF Play, Serve

-----------------------------------------------------------------------------
(* What is in memory, in the database and on the way                         *)

NoticeAt(w, i, c) ==
    i \in DOMAIN fromDB[w] /\ fromDB[w][i].kind = "sync" /\ fromDB[w][i].character = c /\ fromDB[w][i].failed # {}

\* A failure that no connection will hear of any more.
Sure(c) ==
    \/ c \in lost
    \/ \E w \in Worlds : \E i \in Nat :
          NoticeAt(w, i, c) /\ ~(memory[w][c].loaded /\ fromDB[w][i].id = client[w].id)

\* A loaded character is as its last change left it.
LoadedNewest ==
    \A w \in Worlds : \A c \in Characters :
       memory[w][c].loaded => Sure(c) \/ \A s \in Sections : memory[w][c].data[s] = newest[c][s]

\* Where the saves of a character that is not loaded may be, they end with its last change.
SavedNewest ==
    \A c \in Characters :
       (\A w \in Worlds : ~memory[w][c].loaded) =>
          \/ FailureKnown(c)
          \/ \A w \in Worlds :
                (\A v \in Worlds \ {w} : \A j \in Nat : ~SaveAt(v, j)) =>
                   \A s \in Sections : WillHold(w, c, s) = newest[c][s]

\* NoChangeForgotten of every character in memory.
Remembered ==
    \A w \in Worlds : \A c \in Characters :
       memory[w][c].loaded =>
          \A s \in Sections : \/ s \in memory[w][c].dirty
                              \/ memory[w][c].data[s] = WillHold(w, c, s)
                              \/ NoticeDue(w, c, s)

NoticesKept(w) ==
    /\ lost \subseteq lost'
    /\ \A i \in DOMAIN fromDB[w] :
          fromDB[w][i].kind = "sync" => \E j \in DOMAIN fromDB'[w] : fromDB'[w][j] = fromDB[w][i]

SavesKept(w) ==
    /\ \A c \in Characters : \A s \in Sections : WillHold(w, c, s)' = WillHold(w, c, s)
    /\ \A j \in Nat : SaveAt(w, j) => \E i \in Nat : SaveAt(w, i)'

\* A step that leaves what is loaded as it is, or marks more of it.
MemoryKept(w) ==
    \A c \in Characters :
       /\ memory'[w][c].loaded <=> memory[w][c].loaded
       /\ memory[w][c].loaded => /\ memory'[w][c].data = memory[w][c].data
                                 /\ memory[w][c].dirty \subseteq memory'[w][c].dirty
                                 /\ client'[w].id = client[w].id

\* What the notices say stays known, or is marked.
FailuresKept(w) ==
    /\ \A c \in Characters : Sure(c) => Sure(c)'
    /\ \A c \in Characters : \A s \in Sections :
          memory[w][c].loaded /\ NoticeDue(w, c, s) => NoticeDue(w, c, s)' \/ s \in memory'[w][c].dirty

Steady(w) ==
    /\ db'.data = db.data /\ newest' = newest
    /\ FailuresKept(w) /\ SavesKept(w) /\ MemoryKept(w)

LEMMA FailureAt == \A c : FailureKnown(c) <=> c \in lost \/ \E w \in Worlds : \E i : NoticeAt(w, i, c)
  BY DEF FailureKnown, NoticeAt

LEMMA SureFails == \A c : Sure(c) => FailureKnown(c)
  BY FailureAt DEF Sure

\* What was known of a failure stays known.
LEMMA FailureKept ==
    ASSUME Typed', NEW w \in Worlds, Untouched(w), NoticesKept(w), NEW c \in Characters
    PROVE  /\ FailureKnown(c) => FailureKnown(c)'
           /\ Sure(c) /\ (memory'[w][c].loaded => memory[w][c].loaded /\ client'[w].id = client[w].id)
                => Sure(c)'
<1>1. \A v \in Worlds : DOMAIN fromDB'[v] \subseteq Nat
  BY LenProperties DEF Typed, QueuesTyped
<1>2. c \in lost => c \in lost'
  BY DEF NoticesKept
<1>3. ASSUME NEW v \in Worlds, NEW i, NoticeAt(v, i, c)
      PROVE  \E j \in Nat : NoticeAt(v, j, c)' /\ fromDB'[v][j] = fromDB[v][i]
  <2>1. CASE v = w
    BY <1>1, <1>3, <2>1 DEF NoticeAt, NoticesKept
  <2>2. CASE v # w
    BY <1>1, <1>3, <2>2 DEF NoticeAt, Untouched
  <2> QED
    BY <2>1, <2>2
<1>4. FailureKnown(c) => FailureKnown(c)'
  BY <1>2, <1>3 DEF FailureKnown, NoticeAt
<1>5. ASSUME Sure(c), memory'[w][c].loaded => memory[w][c].loaded /\ client'[w].id = client[w].id
      PROVE  Sure(c)'
  <2>1. CASE c \in lost
    BY <1>2, <2>1 DEF Sure
  <2>2. CASE c \notin lost
    <3>1. PICK v \in Worlds, i \in Nat :
             NoticeAt(v, i, c) /\ ~(memory[v][c].loaded /\ fromDB[v][i].id = client[v].id)
      BY <1>5, <2>2 DEF Sure
    <3>2. PICK j \in Nat : NoticeAt(v, j, c)' /\ fromDB'[v][j] = fromDB[v][i]
      BY <1>3, <3>1
    <3>3. ~(memory'[v][c].loaded /\ fromDB'[v][j].id = client'[v].id)
      BY <1>5, <3>1, <3>2 DEF Untouched
    <3> QED
      BY <3>2, <3>3 DEF Sure
  <2> QED
    BY <2>1, <2>2
<1> QED
  BY <1>4, <1>5

LEMMA NoticeDueKept ==
    ASSUME NEW w \in Worlds, NoticesKept(w), client'[w].id = client[w].id
    PROVE  \A c, s : NoticeDue(w, c, s) => NoticeDue(w, c, s)'
  BY DEF NoticeDue, NoticesKept

LEMMA UntouchedHolds ==
    ASSUME NEW w \in Worlds, Untouched(w), db'.data = db.data, NEW v \in Worlds \ {w}
    PROVE  /\ \A c, s : WillHold(v, c, s)' = WillHold(v, c, s)
           /\ \A j : SaveAt(v, j)' = SaveAt(v, j)
           /\ \A c, s : NoticeDue(v, c, s)' = NoticeDue(v, c, s)
<1>1. toMaster'[v] = toMaster[v] /\ fromDB'[v] = fromDB[v] /\ client'[v] = client[v]
  BY DEF Untouched
<1> QED
  BY <1>1 DEF WillHold, SaveAt, NoticeDue

\* SavedNewest of a character that nobody has loaded, before and afterwards.
LEMMA SavedKept ==
    ASSUME Typed, NEW w \in Worlds, Untouched(w), SavedNewest, db'.data = db.data,
           NEW c \in Characters, newest'[c] = newest[c], \A v \in Worlds : ~memory[v][c].loaded,
           Sure(c) => Sure(c)',
           \A s \in Sections : WillHold(w, c, s)' = WillHold(w, c, s),
           \A j \in Nat : SaveAt(w, j) => \E i \in Nat : SaveAt(w, i)'
    PROVE  \/ FailureKnown(c)'
           \/ \A v \in Worlds :
                (\A u \in Worlds \ {v} : \A j \in Nat : ~SaveAt(u, j)') =>
                   \A s \in Sections : WillHold(v, c, s)' = newest'[c][s]
<1> SUFFICES ASSUME ~FailureKnown(c)', NEW v \in Worlds,
                    \A u \in Worlds \ {v} : \A j \in Nat : ~SaveAt(u, j)', NEW s \in Sections
             PROVE  WillHold(v, c, s)' = newest'[c][s]
  OBVIOUS
<1>1. ~FailureKnown(c)
  <2>1. ~Sure(c)
    BY DEF Sure, FailureKnown, NoticeAt
  <2> QED
    BY <2>1, Queues, FailureAt DEF Sure, NoticeAt
<1>2. \A u \in Worlds \ {v} : \A j \in Nat : ~SaveAt(u, j)
  BY UntouchedHolds
<1>3. WillHold(v, c, s) = newest[c][s]
  BY <1>1, <1>2 DEF SavedNewest
<1>4. WillHold(v, c, s)' = WillHold(v, c, s)
  BY UntouchedHolds
<1> QED
  BY <1>3, <1>4

LEMMA SteadyKeeps ==
    ASSUME Typed, NEW w \in Worlds, Untouched(w), Steady(w), LoadedNewest, SavedNewest, Remembered
    PROVE  LoadedNewest' /\ SavedNewest' /\ Remembered'
<1> USE DEF Steady
<1>1. \A v \in Worlds : \A c \in Characters :
         /\ memory'[v][c].loaded <=> memory[v][c].loaded
         /\ memory[v][c].loaded => /\ memory'[v][c].data = memory[v][c].data
                                   /\ memory[v][c].dirty \subseteq memory'[v][c].dirty
                                   /\ client'[v].id = client[v].id
  BY DEF MemoryKept, Untouched
<1>2. LoadedNewest'
  BY <1>1 DEF LoadedNewest, FailuresKept
<1>3. SavedNewest'
  <2> SUFFICES ASSUME NEW c \in Characters, \A v \in Worlds : ~memory'[v][c].loaded
               PROVE  \/ FailureKnown(c)'
                      \/ \A v \in Worlds :
                           (\A u \in Worlds \ {v} : \A j \in Nat : ~SaveAt(u, j)') =>
                              \A s \in Sections : WillHold(v, c, s)' = newest'[c][s]
    BY DEF SavedNewest
  <2> QED
    BY <1>1, SavedKept DEF FailuresKept, SavesKept
<1>4. Remembered'
  <2> SUFFICES ASSUME NEW v \in Worlds, NEW c \in Characters, memory'[v][c].loaded, NEW s \in Sections
               PROVE  \/ s \in memory'[v][c].dirty
                      \/ memory'[v][c].data[s] = WillHold(v, c, s)'
                      \/ NoticeDue(v, c, s)'
    BY DEF Remembered
  <2>1. s \in memory[v][c].dirty \/ memory[v][c].data[s] = WillHold(v, c, s) \/ NoticeDue(v, c, s)
    BY <1>1 DEF Remembered
  <2>2. /\ WillHold(v, c, s)' = WillHold(v, c, s)
        /\ NoticeDue(v, c, s) => NoticeDue(v, c, s)' \/ s \in memory'[v][c].dirty
    <3>1. CASE v = w
      BY <1>1, <3>1 DEF SavesKept, FailuresKept
    <3>2. CASE v # w
      BY <3>2, UntouchedHolds
    <3> QED
      BY <3>1, <3>2
  <2> QED
    BY <1>1, <2>1, <2>2
<1> QED
  BY <1>2, <1>3, <1>4

LEMMA FailuresKeptBy ==
    ASSUME Typed', NEW w \in Worlds, Untouched(w), NoticesKept(w), MemoryKept(w)
    PROVE  FailuresKept(w)
<1>1. \A c \in Characters : Sure(c) => Sure(c)'
  BY FailureKept DEF MemoryKept
<1>2. \A c \in Characters : \A s \in Sections :
         memory[w][c].loaded /\ NoticeDue(w, c, s) => NoticeDue(w, c, s)'
  BY NoticeDueKept DEF MemoryKept
<1> QED
  BY <1>1, <1>2 DEF FailuresKept

\* How a queue may change without a change to what will be saved.
LEMMA SavesKeptBy ==
    ASSUME Typed, NEW w \in Worlds, db'.data = db.data,
           \/ toMaster'[w] = toMaster[w]
           \/ \E m \in Request : Send(w, m) /\ m.kind # "sync"
           \/ toMaster[w] # <<>> /\ Taken(w) /\ Head(toMaster[w]).kind # "sync"
    PROVE  SavesKept(w)
<1>1. toMaster[w] \in Seq(Request) /\ w \in DOMAIN toMaster
  BY Queues DEF Typed, QueuesTyped
<1>2. CASE toMaster'[w] = toMaster[w]
  BY <1>2 DEF SavesKept, WillHold, SaveAt
<1>3. ASSUME NEW m \in Request, Send(w, m), m.kind # "sync" PROVE SavesKept(w)
  <2>1. toMaster'[w] = Append(toMaster[w], m)
    BY <1>1, <1>3 DEF Send
  <2>2. ASSUME NEW c \in Characters, NEW s \in Sections PROVE WillHold(w, c, s)' = WillHold(w, c, s)
    <3>1. ~IsSave(m, c, s)
      BY <1>3 DEF IsSave
    <3>2. HoldsAfter(toMaster'[w], c, s, db'.data[c][s]) = HoldsAfter(toMaster[w], c, s, db.data[c][s])
      BY <1>1, <2>1, <3>1, HoldsAppend
    <3>3. WillHold(w, c, s)' = HoldsAfter(toMaster'[w], c, s, db'.data[c][s])
      BY WillHoldIs
    <3> QED
      BY <3>2, <3>3, WillHoldIs
  <2>3. ASSUME NEW j \in Nat, SaveAt(w, j) PROVE SaveAt(w, j)'
    BY <1>3, <2>3, SendsLonger DEF SaveAt, Longer
  <2> QED
    BY <2>2, <2>3 DEF SavesKept
<1>4. CASE toMaster[w] # <<>> /\ Taken(w) /\ Head(toMaster[w]).kind # "sync"
  <2>1. toMaster'[w] = Tail(toMaster[w])
    BY <1>1, <1>4 DEF Taken
  <2>2. ASSUME NEW c \in Characters, NEW s \in Sections PROVE WillHold(w, c, s)' = WillHold(w, c, s)
    <3>1. ~IsSave(Head(toMaster[w]), c, s)
      BY <1>4 DEF IsSave
    <3>2. HoldsAfter(toMaster'[w], c, s, db'.data[c][s]) = HoldsAfter(toMaster[w], c, s, db.data[c][s])
      BY <1>1, <1>4, <2>1, <3>1, HoldsTail
    <3>3. WillHold(w, c, s)' = HoldsAfter(toMaster'[w], c, s, db'.data[c][s])
      BY WillHoldIs
    <3> QED
      BY <3>2, <3>3, WillHoldIs
  <2>3. ASSUME NEW j \in Nat, SaveAt(w, j) PROVE \E i \in Nat : SaveAt(w, i)'
    <3>1. Shorter(toMaster[w], toMaster'[w])
      BY <1>4, TakenShorter
    <3>2. j # 1 /\ j - 1 \in DOMAIN toMaster'[w] /\ (j - 1) + 1 = j /\ j - 1 \in Nat
      BY <1>4, <2>3, <3>1 DEF SaveAt, Shorter
    <3>3. SaveAt(w, j - 1)'
      BY <2>3, <3>1, <3>2 DEF SaveAt, Shorter
    <3> QED
      BY <3>2, <3>3
  <2> QED
    BY <2>2, <2>3 DEF SavesKept
<1> QED
  BY <1>2, <1>3, <1>4

LEMMA NoticesKeptBy ==
    ASSUME Typed, NEW w \in Worlds, lost \subseteq lost',
           \/ fromDB'[w] = fromDB[w]
           \/ \E m \in Reply : Answer(w, m)
           \/ fromDB[w] # <<>> /\ Received(w) /\ Head(fromDB[w]).kind # "sync"
    PROVE  NoticesKept(w)
<1>1. CASE fromDB'[w] = fromDB[w]
  BY <1>1 DEF NoticesKept
<1>2. ASSUME NEW m \in Reply, Answer(w, m) PROVE NoticesKept(w)
  <2>1. Longer(fromDB[w], fromDB'[w], m)
    BY <1>2, AnswerLonger
  <2>2. \A i \in DOMAIN fromDB[w] : i \in DOMAIN fromDB'[w] /\ fromDB'[w][i] = fromDB[w][i]
    BY <2>1 DEF Longer
  <2> QED
    BY <2>2 DEF NoticesKept
<1>3. CASE fromDB[w] # <<>> /\ Received(w) /\ Head(fromDB[w]).kind # "sync"
  <2>1. Shorter(fromDB[w], fromDB'[w])
    BY <1>3, ReceivedShorter
  <2>2. ASSUME NEW i \in DOMAIN fromDB[w], fromDB[w][i].kind = "sync"
        PROVE  \E j \in DOMAIN fromDB'[w] : fromDB'[w][j] = fromDB[w][i]
    <3>1. i # 1 /\ i - 1 \in DOMAIN fromDB'[w] /\ (i - 1) + 1 = i
      BY <1>3, <2>1, <2>2, SMTT(30) DEF Shorter
    <3>2. fromDB'[w][i - 1] = fromDB[w][i]
      BY <2>1, <3>1 DEF Shorter
    <3> QED
      BY <3>1, <3>2
  <2> QED
    BY <2>2 DEF NoticesKept
<1> QED
  BY <1>1, <1>2, <1>3

\* Connections, requests, answers and the packets that carry them change nothing of it.
LEMMA SteadyPlay ==
    ASSUME Typed, Typed', LoadedLive, NEW w \in Worlds, Untouched(w),
           \/ Connect(w) \/ LogIn(w) \/ GetCharacters(w) \/ AddForceGem(w)
           \/ \E to \in Worlds : VerifyLinks(w, to)
           \/ \E c \in Characters : Initialize(w, c)
           \/ Disconnect(w) /\ ~Character(w).loaded
    PROVE  Steady(w)
<1>1. UNCHANGED <<db, newest, fromDB, lost>>
  BY DEF Connect, LogIn, GetCharacters, AddForceGem, VerifyLinks, Initialize, Disconnect
<1>2. NoticesKept(w)
  BY <1>1, NoticesKeptBy
<1>3. SavesKept(w)
  <2>1. \/ UNCHANGED toMaster
        \/ \E m \in Request : Send(w, m) /\ m.kind # "sync"
    <3>1. CASE Connect(w) \/ AddForceGem(w) \/ (Disconnect(w) /\ ~Character(w).loaded)
      BY <3>1 DEF Connect, AddForceGem, Disconnect
    <3>2. CASE LogIn(w) \/ GetCharacters(w)
      BY <3>2, Packets DEF LogIn, GetCharacters
    <3>3. ASSUME NEW to \in Worlds, VerifyLinks(w, to) PROVE \E m \in Request : Send(w, m) /\ m.kind # "sync"
      BY <3>3, Packets DEF VerifyLinks
    <3>4. ASSUME NEW c \in Characters, Initialize(w, c) PROVE \E m \in Request : Send(w, m) /\ m.kind # "sync"
      BY <3>4, Packets DEF Initialize
    <3> QED
      BY <3>1, <3>2, <3>3, <3>4
  <2> QED
    BY <1>1, <2>1, SavesKeptBy
<1>4. MemoryKept(w)
  <2>1. CASE Nothing(w) /\ UNCHANGED memory
    BY <2>1 DEF MemoryKept, Nothing
  <2>2. CASE UNCHANGED memory /\ client'[w].id = client[w].id
    BY <2>2 DEF MemoryKept
  <2>3. CASE Connect(w)
    BY <2>1, <2>3 DEF Connect, LoadedLive, Nothing
  <2>4. CASE Disconnect(w) /\ ~Character(w).loaded
    BY <2>1, <2>4, LoadedAt DEF Disconnect
  <2>5. CASE AddForceGem(w)
    <3> DEFINE c == client[w].character
    <3>1. Character(w).loaded /\ client' = client
      BY <2>5 DEF AddForceGem, Playing
    <3>2. c \in Characters /\ memory[w][c] \in InMemory
      BY <3>1, LoadedFacts
    <3>3. memory \in [Worlds -> [Characters -> InMemory \union {Unloaded}]]
      BY DEF Typed, ServersTyped
    <3>4. /\ \A d \in Characters \ {c} : memory'[w][d] = memory[w][d]
          /\ memory'[w][c] = [memory[w][c] EXCEPT !.account = @ + 1, !.dirty = @ \union {"account"}]
      BY <2>5, <3>2, <3>3 DEF AddForceGem, InMemory
    <3>5. /\ memory'[w][c].data = memory[w][c].data /\ memory'[w][c].loaded = memory[w][c].loaded
          /\ memory[w][c].dirty \subseteq memory'[w][c].dirty
      BY <3>2, <3>4 DEF InMemory
    <3> QED
      BY <3>1, <3>4, <3>5 DEF MemoryKept
  <2>6. ASSUME NEW to \in Worlds, VerifyLinks(w, to) PROVE MemoryKept(w)
    BY <2>2, <2>6 DEF VerifyLinks, Typed, ServersTyped, Client
  <2>7. ASSUME NEW c \in Characters, Initialize(w, c) PROVE MemoryKept(w)
    BY <2>2, <2>7 DEF Initialize, Typed, ServersTyped, Client
  <2>8. CASE LogIn(w) \/ GetCharacters(w)
    BY <2>2, <2>8 DEF LogIn, GetCharacters
  <2> QED
    BY <2>3, <2>4, <2>5, <2>6, <2>7, <2>8
<1> QED
  BY <1>1, <1>2, <1>3, <1>4, FailuresKeptBy DEF Steady

LEMMA SteadyServe ==
    ASSUME Typed, Typed', NEW w \in Worlds, Untouched(w),
           \/ OnAuthenticate(w) \/ OnGetCharacterList(w) \/ OnVerifyLinks(w) \/ OnGetCharacterFailed(w)
           \/ Forward(w) \/ DBAuthenticate(w) \/ DBGetCharacterList(w) \/ DBGetCharacter(w)
    PROVE  Steady(w)
<1>1. UNCHANGED <<db, newest, lost, memory>>
  BY DEF OnAuthenticate, OnGetCharacterList, OnVerifyLinks, OnGetCharacterFailed, Forward, DBAuthenticate,
     DBGetCharacterList, DBGetCharacter
<1>2. client'[w].id = client[w].id
  <2>1. CASE UNCHANGED client
    BY <2>1
  <2>2. CASE OnAuthenticate(w)
    BY <2>2 DEF OnAuthenticate, Typed, ServersTyped, Client
  <2>3. CASE OnGetCharacterList(w)
    BY <2>3 DEF OnGetCharacterList, Typed, ServersTyped, Client
  <2>4. CASE OnVerifyLinks(w)
    BY <2>4 DEF OnVerifyLinks, Typed, ServersTyped, Client
  <2>5. CASE OnGetCharacterFailed(w)
    BY <2>5 DEF OnGetCharacterFailed, Typed, ServersTyped, Client
  <2> QED
    BY <2>1, <2>2, <2>3, <2>4, <2>5 DEF Forward, DBAuthenticate, DBGetCharacterList, DBGetCharacter
<1>3. MemoryKept(w)
  BY <1>1, <1>2 DEF MemoryKept
<1>4. NoticesKept(w)
  <2>1. \/ UNCHANGED fromDB
        \/ fromDB[w] # <<>> /\ Received(w) /\ Head(fromDB[w]).kind # "sync"
        \/ \E m \in Reply : Answer(w, m)
    <3>1. CASE OnAuthenticate(w) \/ OnGetCharacterList(w) \/ OnGetCharacterFailed(w)
      BY <3>1 DEF OnAuthenticate, OnGetCharacterList, OnGetCharacterFailed, Addressed
    <3>2. CASE OnVerifyLinks(w) \/ Forward(w)
      BY <3>2, Zenon DEF OnVerifyLinks, Forward
    <3>3. CASE DBAuthenticate(w) \/ DBGetCharacterList(w) \/ DBGetCharacter(w)
      <4>1. toMaster[w] # <<>>
        BY <3>3 DEF DBAuthenticate, DBGetCharacterList, DBGetCharacter, HeadIs
      <4> QED
        BY <3>3, <4>1, Packets DEF DBAuthenticate, DBGetCharacterList, DBGetCharacter
    <3> QED
      BY <3>1, <3>2, <3>3
  <2> QED
    BY <1>1, <2>1, NoticesKeptBy
<1>5. SavesKept(w)
  <2>1. \/ UNCHANGED toMaster
        \/ toMaster[w] # <<>> /\ Taken(w) /\ Head(toMaster[w]).kind # "sync"
    BY SMTT(30) DEF OnAuthenticate, OnGetCharacterList, OnVerifyLinks, OnGetCharacterFailed, Forward, DBAuthenticate,
       DBGetCharacterList, DBGetCharacter, HeadIs
  <2> QED
    BY <1>1, <2>1, SavesKeptBy, SMTT(30)
<1> QED
  BY <1>1, <1>3, <1>4, <1>5, FailuresKeptBy, SMTT(30) DEF Steady

\* A change is marked.
LEMMA TouchKeeps ==
    ASSUME Typed, Typed', Tokens, LoadedLive, LoadedNewest, SavedNewest, Remembered,
           NEW w \in Worlds, NEW s \in Sections, Touch(w, s), Untouched(w)
    PROVE  LoadedNewest' /\ SavedNewest' /\ Remembered'
<1>1. Character(w).loaded /\ UNCHANGED <<db, client, toMaster, fromDB, lost>>
  BY DEF Touch, Playing
<1>2. PICK c \in Characters :
          c = client[w].character /\ memory[w][c] \in InMemory /\ memory[w][c].loaded
  BY <1>1, LoadedFacts
<1>3. /\ memory \in [Worlds -> [Characters -> InMemory \union {Unloaded}]]
      /\ newest \in [Characters -> Data]
  BY DEF Typed, ServersTyped
<1>4. /\ \A d \in Characters \ {c} : memory'[w][d] = memory[w][d] /\ newest'[d] = newest[d]
      /\ memory'[w][c] = [memory[w][c] EXCEPT !.data = [@ EXCEPT ![s] = newest[c][s] + 1],
                                             !.dirty = @ \union {s}]
      /\ newest'[c] = [newest[c] EXCEPT ![s] = @ + 1]
  BY <1>2, <1>3, ZenonT(60) DEF Touch, InMemory
<1>5. /\ memory'[w][c].loaded
      /\ \A t \in Sections : memory'[w][c].data[t] = IF t = s THEN newest'[c][s] ELSE memory[w][c].data[t]
      /\ \A t \in Sections \ {s} : newest'[c][t] = newest[c][t]
      /\ memory'[w][c].dirty = memory[w][c].dirty \union {s}
  <2>1. /\ memory[w][c].data \in [Sections -> 0 .. MaxVersion] /\ newest[c] \in [Sections -> 0 .. MaxVersion]
        /\ memory'[w][c].data = [memory[w][c].data EXCEPT ![s] = newest[c][s] + 1]
        /\ memory'[w][c].loaded /\ memory'[w][c].dirty = memory[w][c].dirty \union {s}
    BY <1>2, <1>3, <1>4 DEF InMemory, Data
  <2> QED
    BY <1>4, <2>1
<1>6. \A v \in Worlds : \A d \in Characters : memory'[v][d].loaded => v = w /\ d = c
  <2> SUFFICES ASSUME NEW v \in Worlds, NEW d \in Characters, memory'[v][d].loaded PROVE v = w /\ d = c
    OBVIOUS
  <2>1. memory[v][d].loaded
    BY <1>2, <1>4 DEF Untouched
  <2> QED
    BY <1>2, <2>1, OneLoaded
<1>7. NoticesKept(w) /\ SavesKept(w)
  BY <1>1, NoticesKeptBy, SavesKeptBy
<1>8. Sure(c) => Sure(c)'
  BY <1>1, <1>2, <1>7, FailureKept
<1>9. LoadedNewest'
  <2>1. Sure(c) \/ \A t \in Sections : memory[w][c].data[t] = newest[c][t]
    BY <1>2 DEF LoadedNewest
  <2>2. Sure(c)' \/ \A t \in Sections : memory'[w][c].data[t] = newest'[c][t]
    BY <1>5, <1>8, <2>1
  <2> QED
    BY <1>6, <2>2 DEF LoadedNewest
<1>10. SavedNewest'
  <2> SUFFICES ASSUME NEW d \in Characters, \A v \in Worlds : ~memory'[v][d].loaded
               PROVE  \/ FailureKnown(d)'
                      \/ \A v \in Worlds :
                           (\A u \in Worlds \ {v} : \A j \in Nat : ~SaveAt(u, j)') =>
                              \A t \in Sections : WillHold(v, d, t)' = newest'[d][t]
    BY DEF SavedNewest
  <2>1. d # c
    BY <1>5
  <2>2. newest'[d] = newest[d] /\ \A v \in Worlds : ~memory[v][d].loaded
    BY <1>4, <2>1 DEF Untouched
  <2>3. Sure(d) => Sure(d)'
    BY <1>1, <1>4, <1>7, <2>1, FailureKept
  <2> QED
    BY <1>1, <1>7, <2>2, <2>3, SavedKept DEF SavesKept
<1>11. Remembered'
  <2> SUFFICES ASSUME NEW t \in Sections
               PROVE  \/ t \in memory'[w][c].dirty
                      \/ memory'[w][c].data[t] = WillHold(w, c, t)'
                      \/ NoticeDue(w, c, t)'
    BY <1>6 DEF Remembered
  <2>1. t \in memory[w][c].dirty \/ memory[w][c].data[t] = WillHold(w, c, t) \/ NoticeDue(w, c, t)
    BY <1>2 DEF Remembered
  <2>2. WillHold(w, c, t)' = WillHold(w, c, t) /\ (NoticeDue(w, c, t) => NoticeDue(w, c, t)')
    BY <1>1, <1>2, <1>7, NoticeDueKept DEF SavesKept
  <2> QED
    BY <1>5, <2>1, <2>2
<1> QED
  BY <1>9, <1>10, <1>11

\* A notice is taken from the queue: it is marked, or known for good.
LEMMA NoticeTaken ==
    ASSUME Typed, Typed', NEW w \in Worlds, Untouched(w), MemoryKept(w),
           fromDB[w] # <<>>, Received(w), client' = client, lost \subseteq lost',
           NEW m, m = Head(fromDB[w]),
           m.kind = "sync" /\ m.failed # {} =>
              m.character \in lost' \/ (m.id = client[w].id /\ memory[w][m.character].loaded),
           \A c \in Characters : \A s \in Sections :
              memory[w][c].loaded /\ m.kind = "sync" /\ m.character = c /\ m.id = client[w].id
                 /\ s \in m.failed => s \in memory'[w][c].dirty
    PROVE  FailuresKept(w)
<1>1. Shorter(fromDB[w], fromDB'[w]) /\ m = fromDB[w][1]
  BY ReceivedShorter DEF Shorter
<1>2. ASSUME NEW i \in DOMAIN fromDB[w], i # 1
      PROVE  i - 1 \in Nat /\ i - 1 \in DOMAIN fromDB'[w] /\ fromDB'[w][i - 1] = fromDB[w][i]
  <2>1. i - 1 \in Nat /\ i - 1 \in DOMAIN fromDB'[w] /\ (i - 1) + 1 = i
    BY <1>1, <1>2 DEF Shorter
  <2> QED
    BY <1>1, <2>1 DEF Shorter
<1>3. ASSUME NEW c \in Characters, Sure(c) PROVE Sure(c)'
  <2>1. CASE c \in lost
    BY <2>1 DEF Sure
  <2>2. CASE c \notin lost
    <3>1. PICK v \in Worlds, i \in Nat :
             NoticeAt(v, i, c) /\ ~(memory[v][c].loaded /\ fromDB[v][i].id = client[v].id)
      BY <1>3, <2>2 DEF Sure
    <3>2. CASE v # w
      <4>1. NoticeAt(v, i, c)' /\ ~(memory'[v][c].loaded /\ fromDB'[v][i].id = client'[v].id)
        BY <3>1, <3>2 DEF NoticeAt, Untouched
      <4> QED
        BY <4>1 DEF Sure
    <3>3. CASE v = w /\ i = 1
      <4>1. m.kind = "sync" /\ m.character = c /\ m.failed # {}
            /\ ~(memory[w][c].loaded /\ m.id = client[w].id)
        BY <1>1, <3>1, <3>3 DEF NoticeAt
      <4> QED
        BY <4>1 DEF Sure
    <3>4. CASE v = w /\ i # 1
      <4> DEFINE j == i - 1
      <4>1. i \in DOMAIN fromDB[w]
        BY <3>1, <3>4 DEF NoticeAt
      <4>2. i - 1 \in Nat /\ i - 1 \in DOMAIN fromDB'[w] /\ fromDB'[w][i - 1] = fromDB[w][i]
        BY <1>2, <3>4, <4>1
      <4>3. NoticeAt(w, i - 1, c)'
        BY <3>1, <3>4, <4>2 DEF NoticeAt
      <4>4. ~(memory'[w][c].loaded /\ fromDB'[w][i - 1].id = client'[w].id)
        BY <3>1, <3>4, <4>2 DEF MemoryKept
      <4> QED
        BY <4>2, <4>3, <4>4 DEF Sure
    <3> QED
      BY <3>2, <3>3, <3>4
  <2> QED
    BY <2>1, <2>2
<1>4. ASSUME NEW c \in Characters, NEW s \in Sections, memory[w][c].loaded, NoticeDue(w, c, s)
      PROVE  NoticeDue(w, c, s)' \/ s \in memory'[w][c].dirty
  <2>1. PICK i \in DOMAIN fromDB[w] : /\ fromDB[w][i].kind = "sync"
                                      /\ fromDB[w][i].id = client[w].id
                                      /\ fromDB[w][i].character = c
                                      /\ s \in fromDB[w][i].failed
    BY <1>4 DEF NoticeDue
  <2>2. CASE i = 1
    BY <1>1, <1>4, <2>1, <2>2
  <2>3. CASE i # 1
    BY <1>2, <2>1, <2>3 DEF NoticeDue
  <2> QED
    BY <2>2, <2>3
<1> QED
  BY <1>3, <1>4 DEF FailuresKept

LEMMA NoticesSteady ==
    ASSUME Typed, Typed', LoadedLive, NEW w \in Worlds, Untouched(w), OnSync(w) \/ DropAnswer(w)
    PROVE  Steady(w)
<1>1. PICK m \in Reply : m = Head(fromDB[w]) /\ fromDB[w] # <<>>
  BY HeadTaken DEF OnSync, DropAnswer, Addressed, Typed, QueuesTyped
<1>2. Received(w) /\ UNCHANGED <<db, client, toMaster, newest>> /\ lost \subseteq lost'
  BY DEF OnSync, DropAnswer
<1>3. SavesKept(w)
  BY <1>2, SavesKeptBy
<1>4. CASE DropAnswer(w)
  <2>1. MemoryKept(w)
    BY <1>2, <1>4 DEF DropAnswer, MemoryKept
  <2>2. m.kind = "sync" /\ m.failed # {} => m.character \in lost'
    BY <1>1, <1>4 DEF DropAnswer
  <2>3. m.id # client[w].id
    BY <1>1, <1>4 DEF DropAnswer
  <2>4. m.kind = "sync" /\ m.failed # {} =>
           m.character \in lost' \/ (m.id = client[w].id /\ memory[w][m.character].loaded)
    BY <2>2
  <2>5. \A c \in Characters : \A s \in Sections :
           memory[w][c].loaded /\ m.kind = "sync" /\ m.character = c /\ m.id = client[w].id
              /\ s \in m.failed => s \in memory'[w][c].dirty
    BY <2>3
  <2>6. FailuresKept(w)
    BY <1>1, <1>2, <2>1, <2>4, <2>5, NoticeTaken
  <2> QED
    BY <1>2, <1>3, <2>1, <2>6 DEF Steady
<1>5. CASE OnSync(w)
  <2>1. m.kind = "sync" /\ m.id = client[w].id
    BY <1>1, <1>5 DEF OnSync, Addressed
  <2>2. CASE ~Character(w).loaded
    <3>1. Nothing(w) /\ UNCHANGED memory
      BY <1>5, <2>2, LoadedAt DEF OnSync
    <3>2. MemoryKept(w)
      BY <3>1 DEF MemoryKept, Nothing
    <3>3. m.failed # {} => m.character \in lost'
      BY <1>1, <1>5, <2>2 DEF OnSync
    <3>4. \A c \in Characters : ~memory[w][c].loaded
      BY <3>1 DEF Nothing
    <3>5. m.kind = "sync" /\ m.failed # {} =>
             m.character \in lost' \/ (m.id = client[w].id /\ memory[w][m.character].loaded)
      BY <3>3
    <3>6. \A c \in Characters : \A s \in Sections :
             memory[w][c].loaded /\ m.kind = "sync" /\ m.character = c /\ m.id = client[w].id
                /\ s \in m.failed => s \in memory'[w][c].dirty
      BY <3>4
    <3>7. FailuresKept(w)
      BY <1>1, <1>2, <3>2, <3>5, <3>6, NoticeTaken
    <3> QED
      BY <1>2, <1>3, <3>2, <3>7 DEF Steady
  <2>3. CASE Character(w).loaded
    <3>1. PICK c \in Characters :
             c = client[w].character /\ memory[w][c] \in InMemory /\ memory[w][c].loaded
      BY <2>3, LoadedFacts
    <3>2. memory \in [Worlds -> [Characters -> InMemory \union {Unloaded}]]
      BY DEF Typed, ServersTyped
    <3>3. /\ \A d \in Characters \ {c} : memory'[w][d] = memory[w][d]
          /\ memory'[w][c] = [memory[w][c] EXCEPT !.dirty = @ \union m.failed]
      BY <1>1, <1>5, <2>3, <3>1, <3>2 DEF OnSync, Remark
    <3>4. /\ memory'[w][c].loaded /\ memory'[w][c].data = memory[w][c].data
          /\ memory'[w][c].dirty = memory[w][c].dirty \union m.failed
      BY <3>1, <3>3 DEF InMemory
    <3>5. MemoryKept(w)
      BY <1>2, <3>1, <3>3, <3>4 DEF MemoryKept
    <3>6. m.failed # {} => m.character \in lost' \/ memory[w][m.character].loaded
      BY <1>1, <1>5, <2>3, <3>1 DEF OnSync
    <3>7. \A d \in Characters : memory[w][d].loaded => d = c
      BY <3>1, LoadedAt
    <3>8. \A d \in Characters : \A s \in Sections :
             memory[w][d].loaded /\ s \in m.failed => s \in memory'[w][d].dirty
      BY <3>4, <3>7
    <3>9. m.kind = "sync" /\ m.failed # {} =>
             m.character \in lost' \/ (m.id = client[w].id /\ memory[w][m.character].loaded)
      BY <2>1, <3>6
    <3>10. \A d \in Characters : \A s \in Sections :
              memory[w][d].loaded /\ m.kind = "sync" /\ m.character = d /\ m.id = client[w].id
                 /\ s \in m.failed => s \in memory'[w][d].dirty
      BY <3>8
    <3>11. FailuresKept(w)
      BY <1>1, <1>2, <3>5, <3>9, <3>10, NoticeTaken
    <3> QED
      BY <1>2, <1>3, <3>5, <3>11 DEF Steady
  <2> QED
    BY <2>2, <2>3
<1> QED
  BY <1>4, <1>5

\* A save is sent: what it has marked is what the database will hold.
LEMMA SaveSent ==
    ASSUME Typed, NEW w \in Worlds, NEW c \in Characters, Character(w).loaded, c = client[w].character,
           Send(w, SyncMsg(w, c)), db'.data = db.data
    PROVE  /\ \A d \in Characters : \A s \in Sections :
                WillHold(w, d, s)' = IF d = c /\ s \in memory[w][c].dirty THEN memory[w][c].data[s]
                                     ELSE WillHold(w, d, s)
           /\ \A j \in Nat : SaveAt(w, j) => SaveAt(w, j)'
           /\ \E j \in Nat : SaveAt(w, j)'
<1>1. PICK m \in Request : m = SyncMsg(w, c)
  BY LoadedFacts
<1>2. m.kind = "sync" /\ m.character = c /\ m.mask = memory[w][c].dirty /\ m.data = memory[w][c].data
  BY <1>1 DEF SyncMsg
<1>3. toMaster[w] \in Seq(Request) /\ toMaster'[w] = Append(toMaster[w], m)
  BY <1>1, Queues DEF Send, Typed, QueuesTyped
<1>4. ASSUME NEW d \in Characters, NEW s \in Sections
      PROVE  WillHold(w, d, s)' = IF d = c /\ s \in memory[w][c].dirty THEN memory[w][c].data[s]
                                  ELSE WillHold(w, d, s)
  <2>1. HoldsAfter(toMaster'[w], d, s, db'.data[d][s])
          = IF IsSave(m, d, s) THEN m.data[s] ELSE HoldsAfter(toMaster[w], d, s, db'.data[d][s])
    BY <1>3, HoldsAppend
  <2>2. IsSave(m, d, s) <=> d = c /\ s \in memory[w][c].dirty
    BY <1>2 DEF IsSave
  <2> QED
    BY <1>2, <2>1, <2>2, WillHoldIs
<1>5. Longer(toMaster[w], toMaster'[w], m)
  BY <1>1, SendsLonger
<1>6. \A j \in Nat : SaveAt(w, j) => SaveAt(w, j)'
  BY <1>5 DEF SaveAt, Longer
<1>7. \E j \in Nat : SaveAt(w, j)'
  BY <1>2, <1>5 DEF SaveAt, Longer
<1> QED
  BY <1>4, <1>6, <1>7

LEMMA SyncTimerKeeps ==
    ASSUME Typed, Typed', Tokens, LoadedLive, LoadedNewest, SavedNewest, Remembered,
           NEW w \in Worlds, SyncTimer(w), Untouched(w)
    PROVE  LoadedNewest' /\ SavedNewest' /\ Remembered'
<1>1. Character(w).loaded /\ UNCHANGED <<db, client, fromDB, newest, lost>>
  BY DEF SyncTimer
<1>2. PICK c \in Characters :
         c = client[w].character /\ memory[w][c] \in InMemory /\ memory[w][c].loaded
  BY <1>1, LoadedFacts
<1>3. memory \in [Worlds -> [Characters -> InMemory \union {Unloaded}]]
  BY DEF Typed, ServersTyped
<1>4. /\ \A d \in Characters \ {c} : memory'[w][d] = memory[w][d]
      /\ memory'[w][c] = [memory[w][c] EXCEPT !.dirty = {}]
  BY <1>2, <1>3 DEF SyncTimer
<1>5. memory'[w][c].loaded /\ memory'[w][c].data = memory[w][c].data
  BY <1>2, <1>4 DEF InMemory
<1>6. /\ \A d \in Characters : \A s \in Sections :
           WillHold(w, d, s)' = IF d = c /\ s \in memory[w][c].dirty THEN memory[w][c].data[s]
                                ELSE WillHold(w, d, s)
      /\ \A j \in Nat : SaveAt(w, j) => SaveAt(w, j)'
  <2>1. Send(w, SyncMsg(w, c)) /\ db'.data = db.data
    BY <1>1, <1>2 DEF SyncTimer
  <2> QED
    BY <1>1, <1>2, <2>1, SaveSent
<1>7. \A v \in Worlds : \A d \in Characters : memory'[v][d].loaded => v = w /\ d = c
  <2> SUFFICES ASSUME NEW v \in Worlds, NEW d \in Characters, memory'[v][d].loaded PROVE v = w /\ d = c
    OBVIOUS
  <2>1. memory[v][d].loaded
    BY <1>2, <1>4 DEF Untouched
  <2> QED
    BY <1>2, <2>1, OneLoaded
<1>8. NoticesKept(w)
  BY <1>1, NoticesKeptBy
<1>9. \A d \in Characters : Sure(d) => Sure(d)'
  BY <1>1, <1>2, <1>4, <1>8, FailureKept
<1>10. LoadedNewest'
  <2>1. Sure(c)' \/ \A s \in Sections : memory'[w][c].data[s] = newest'[c][s]
    BY <1>1, <1>2, <1>5, <1>9 DEF LoadedNewest
  <2> QED
    BY <1>7, <2>1 DEF LoadedNewest
<1>11. SavedNewest'
  <2> SUFFICES ASSUME NEW d \in Characters, \A v \in Worlds : ~memory'[v][d].loaded
               PROVE  \/ FailureKnown(d)'
                      \/ \A v \in Worlds :
                           (\A u \in Worlds \ {v} : \A j \in Nat : ~SaveAt(u, j)') =>
                              \A s \in Sections : WillHold(v, d, s)' = newest'[d][s]
    BY DEF SavedNewest
  <2>1. d # c
    BY <1>5
  <2>2. newest'[d] = newest[d] /\ \A v \in Worlds : ~memory[v][d].loaded
    BY <1>1, <1>4, <2>1 DEF Untouched
  <2>3. \A s \in Sections : WillHold(w, d, s)' = WillHold(w, d, s)
    BY <1>6, <2>1
  <2>4. \A j \in Nat : SaveAt(w, j) => \E i \in Nat : SaveAt(w, i)'
    BY <1>6
  <2> QED
    BY <1>1, <1>9, <2>2, <2>3, <2>4, SavedKept
<1>12. Remembered'
  <2> SUFFICES ASSUME NEW s \in Sections
               PROVE  \/ s \in memory'[w][c].dirty
                      \/ memory'[w][c].data[s] = WillHold(w, c, s)'
                      \/ NoticeDue(w, c, s)'
    BY <1>7 DEF Remembered
  <2>1. s \in memory[w][c].dirty \/ memory[w][c].data[s] = WillHold(w, c, s) \/ NoticeDue(w, c, s)
    BY <1>2 DEF Remembered
  <2>2. NoticeDue(w, c, s) => NoticeDue(w, c, s)'
    BY <1>1, <1>8, NoticeDueKept
  <2> QED
    BY <1>5, <1>6, <2>1, <2>2
<1> QED
  BY <1>10, <1>11, <1>12

\* The last save of a character that leaves the memory makes up for its changes.
LEMMA UnloadKeeps ==
    ASSUME Typed, Typed', Tokens, LoadedLive, LoadedNewest, SavedNewest, Remembered,
           NEW w \in Worlds, Untouched(w), Deinitialize(w) \/ (Disconnect(w) /\ Character(w).loaded)
    PROVE  LoadedNewest' /\ SavedNewest' /\ Remembered'
<1>1. Character(w).loaded /\ UNCHANGED <<db, fromDB, newest, lost>>
  BY DEF Deinitialize, Disconnect, Playing
<1>2. PICK c \in Characters :
         c = client[w].character /\ memory[w][c] \in InMemory /\ memory[w][c].loaded
  BY <1>1, LoadedFacts
<1>3. memory \in [Worlds -> [Characters -> InMemory \union {Unloaded}]] /\ Unloaded.loaded = FALSE
  BY DEF Typed, ServersTyped, Unloaded
<1>4. /\ \A d \in Characters \ {c} : memory'[w][d] = memory[w][d]
      /\ memory'[w][c] = Unloaded
  BY <1>1, <1>2, <1>3 DEF Deinitialize, Disconnect
<1>5. /\ \A d \in Characters : \A s \in Sections :
           WillHold(w, d, s)' = IF d = c /\ s \in memory[w][c].dirty THEN memory[w][c].data[s]
                                ELSE WillHold(w, d, s)
      /\ \A j \in Nat : SaveAt(w, j) => SaveAt(w, j)'
      /\ \E j \in Nat : SaveAt(w, j)'
  <2>1. Send(w, SyncMsg(w, c)) /\ db'.data = db.data
    BY <1>1, <1>2 DEF Deinitialize, Disconnect
  <2> QED
    BY <1>1, <1>2, <2>1, SaveSent
<1>6. \A v \in Worlds : \A d \in Characters : ~memory'[v][d].loaded
  <2> SUFFICES ASSUME NEW v \in Worlds, NEW d \in Characters, memory'[v][d].loaded PROVE FALSE
    OBVIOUS
  <2>1. memory[v][d].loaded /\ (v = w => d # c)
    BY <1>2, <1>3, <1>4 DEF Untouched
  <2> QED
    BY <1>2, <2>1, OneLoaded
<1>7. NoticesKept(w)
  BY <1>1, NoticesKeptBy
<1>8. \A d \in Characters : (Sure(d) => Sure(d)') /\ (FailureKnown(d) => FailureKnown(d)')
  BY <1>6, <1>7, FailureKept
<1>9. ASSUME ~FailureKnown(c)', NEW v \in Worlds,
             \A u \in Worlds \ {v} : \A j \in Nat : ~SaveAt(u, j)', NEW s \in Sections
      PROVE  WillHold(v, c, s)' = newest'[c][s]
  <2>1. v = w
    BY <1>5, <1>9
  <2>2. ~FailureKnown(c) /\ ~Sure(c)
    BY <1>8, <1>9, SureFails
  <2>3. memory[w][c].data[s] = newest[c][s]
    BY <1>2, <2>2 DEF LoadedNewest
  <2>4. ~NoticeDue(w, c, s)
    BY <2>2 DEF NoticeDue, FailureKnown
  <2>5. s \in memory[w][c].dirty \/ memory[w][c].data[s] = WillHold(w, c, s)
    BY <1>2, <2>4 DEF Remembered
  <2> QED
    BY <1>1, <1>5, <2>1, <2>3, <2>5
<1>10. SavedNewest'
  <2> SUFFICES ASSUME NEW d \in Characters, d # c
               PROVE  \/ FailureKnown(d)'
                      \/ \A v \in Worlds :
                           (\A u \in Worlds \ {v} : \A j \in Nat : ~SaveAt(u, j)') =>
                              \A s \in Sections : WillHold(v, d, s)' = newest'[d][s]
    BY <1>9 DEF SavedNewest
  <2>1. \A v \in Worlds : ~memory[v][d].loaded
    BY <1>2, OneLoaded
  <2>2. \A s \in Sections : WillHold(w, d, s)' = WillHold(w, d, s)
    BY <1>5
  <2>3. \A j \in Nat : SaveAt(w, j) => \E i \in Nat : SaveAt(w, i)'
    BY <1>5
  <2>4. newest'[d] = newest[d] /\ db'.data = db.data /\ (Sure(d) => Sure(d)')
    BY <1>1, <1>8
  <2> QED
    BY <2>1, <2>2, <2>3, <2>4, SavedKept
<1> QED
  BY <1>6, <1>10 DEF LoadedNewest, Remembered

\* What arrives is what the last change left, if no failure is known.
LEMMA Arrives ==
    ASSUME Typed, Tokens, LoadedLive, GetsAsked, IdsKnown, SavedNewest,
           NEW w \in Worlds, Addressed(w, "get")
    PROVE  /\ Head(fromDB[w]).character \in Characters /\ Head(fromDB[w]).data \in Data
           /\ \A v \in Worlds : \A c \in Characters : ~memory[v][c].loaded
           /\ \A v \in Worlds : \A j \in Nat : ~SaveAt(v, j)
           /\ \A i \in DOMAIN fromDB[w] : fromDB[w][i].kind # "sync"
           /\ \A s \in Sections : \A c \in Characters :
                 c = Head(fromDB[w]).character => Head(fromDB[w]).data[s] = WillHold(w, c, s)
           /\ FailureKnown(Head(fromDB[w]).character)
                \/ Head(fromDB[w]).data = newest[Head(fromDB[w]).character]
<1>1. PICK m \in Reply : m = Head(fromDB[w])
  BY AnswerFacts
<1>2. /\ AnswerAsked(w, 1) /\ m = fromDB[w][1] /\ m.kind = "get"
  BY <1>1, AnswerFacts
<1>3. m.character \in Characters /\ m.data \in Data
  BY <1>2, ReplyFacts
<1>4. TokenAt("client", w, 0) /\ Live(w)
  BY <1>2 DEF AnswerAsked, Waiting, TokenAt
<1>5. \A v \in Worlds : \A c \in Characters : ~memory[v][c].loaded
  <2> SUFFICES ASSUME NEW v \in Worlds, NEW c \in Characters, memory[v][c].loaded PROVE FALSE
    OBVIOUS
  <2>1. TokenAt("client", v, 0)
    BY DEF LoadedLive, TokenAt
  <2>2. v = w
    BY <1>4, <2>1 DEF Tokens, OneToken, Places
  <2> QED
    BY <1>2, <2>2 DEF AnswerAsked, Waiting, Nothing
<1>6. \A v \in Worlds : \A j \in Nat : ~SaveAt(v, j)
  <2> SUFFICES ASSUME NEW v \in Worlds, NEW j \in Nat, SaveAt(v, j) PROVE FALSE
    OBVIOUS
  <2>1. v = w
    BY <1>4 DEF Tokens, SavesFirst, Places
  <2> QED
    BY <1>2, <2>1 DEF AnswerAsked
<1>7. \A i \in DOMAIN fromDB[w] : fromDB[w][i].kind # "sync"
  <2> SUFFICES ASSUME NEW i \in DOMAIN fromDB[w], fromDB[w][i].kind = "sync" PROVE FALSE
    OBVIOUS
  <2>1. i < 1
    BY <1>2 DEF AnswerAsked
  <2>2. i >= 1
    BY Queues, LenProperties
  <2> QED
    BY <2>1, <2>2, Queues
<1>8. \A s \in Sections : WillHold(w, m.character, s) = m.data[s]
  <2> SUFFICES ASSUME NEW s \in Sections PROVE WillHold(w, m.character, s) = m.data[s]
    OBVIOUS
  <2>1. SavesOf(toMaster[w], m.character, s) = {}
    BY <1>6, Queues DEF SavesOf, IsSave, SaveAt
  <2>2. WillHold(w, m.character, s) = db.data[m.character][s]
    BY <2>1, WillHoldIs DEF HoldsAfter
  <2> QED
    BY <1>2, <2>2 DEF AnswerAsked
<1>9. FailureKnown(m.character) \/ \A s \in Sections : m.data[s] = newest[m.character][s]
  BY <1>3, <1>5, <1>6, <1>8 DEF SavedNewest
<1>10. newest[m.character] \in Data
  BY <1>3 DEF Typed, ServersTyped
<1>11. FailureKnown(m.character) \/ m.data = newest[m.character]
  BY <1>3, <1>9, <1>10 DEF Data
<1> QED
  BY <1>1, <1>3, <1>5, <1>6, <1>7, <1>8, <1>11

LEMMA LoadKeeps ==
    ASSUME Typed, Typed', Tokens, LoadedLive, GetsAsked, IdsKnown, LoadedNewest, SavedNewest, Remembered,
           NEW w \in Worlds, OnGetCharacter(w), Untouched(w)
    PROVE  LoadedNewest' /\ SavedNewest' /\ Remembered'
<1>1. /\ Addressed(w, "get") /\ Received(w) /\ UNCHANGED <<db, toMaster, newest, lost>>
      /\ fromDB[w] # <<>> /\ Head(fromDB[w]).kind # "sync"
  BY DEF OnGetCharacter, Addressed
<1>2. PICK m \in Reply : m = Head(fromDB[w])
  BY <1>1, AnswerFacts
<1>3. PICK c \in Characters : c = m.character
  BY <1>1, <1>2, Arrives
<1>4. /\ \A v \in Worlds : \A d \in Characters : ~memory[v][d].loaded
      /\ \A i \in DOMAIN fromDB[w] : fromDB[w][i].kind # "sync"
      /\ \A s \in Sections : m.data[s] = WillHold(w, c, s)
      /\ FailureKnown(c) \/ m.data = newest[c]
  BY <1>1, <1>2, <1>3, Arrives
<1>5. /\ \A d \in Characters \ {c} : memory'[w][d] = memory[w][d]
      /\ memory'[w][c] = Loaded(m.data, client[w].account)
  BY <1>2, <1>3 DEF OnGetCharacter, Typed, ServersTyped
<1>6. memory'[w][c].loaded /\ memory'[w][c].data = m.data
  BY <1>5 DEF Loaded
<1>7. \A v \in Worlds : \A d \in Characters : memory'[v][d].loaded => v = w /\ d = c
  BY <1>4, <1>5 DEF Untouched
<1>8. NoticesKept(w) /\ SavesKept(w)
  BY <1>1, NoticesKeptBy, SavesKeptBy
<1>9. FailureKnown(c) => Sure(c)'
  <2>1. CASE c \in lost
    BY <1>1, <2>1 DEF Sure
  <2>2. ASSUME NEW v \in Worlds, NEW i, NoticeAt(v, i, c) PROVE Sure(c)'
    <3>1. v # w
      BY <1>4, <2>2 DEF NoticeAt
    <3>2. i \in Nat /\ NoticeAt(v, i, c)' /\ ~memory'[v][c].loaded
      BY <1>7, <2>2, <3>1, Queues DEF NoticeAt, Untouched
    <3> QED
      BY <3>2 DEF Sure
  <2> QED
    BY <2>1, <2>2, FailureAt
<1>10. LoadedNewest'
  <2>1. Sure(c)' \/ \A s \in Sections : memory'[w][c].data[s] = newest'[c][s]
    BY <1>1, <1>4, <1>6, <1>9
  <2> QED
    BY <1>7, <2>1 DEF LoadedNewest
<1>11. SavedNewest'
  <2> SUFFICES ASSUME NEW d \in Characters, d # c
               PROVE  \/ FailureKnown(d)'
                      \/ \A v \in Worlds :
                           (\A u \in Worlds \ {v} : \A j \in Nat : ~SaveAt(u, j)') =>
                              \A s \in Sections : WillHold(v, d, s)' = newest'[d][s]
    BY <1>6 DEF SavedNewest
  <2>1. Sure(d) => Sure(d)'
    BY <1>7, <1>8, FailureKept
  <2> QED
    BY <1>1, <1>4, <1>8, <2>1, SavedKept DEF SavesKept
<1>12. Remembered'
  <2>1. \A s \in Sections : memory'[w][c].data[s] = WillHold(w, c, s)'
    BY <1>4, <1>6, <1>8 DEF SavesKept
  <2> QED
    BY <1>7, <2>1 DEF Remembered
<1> QED
  BY <1>10, <1>11, <1>12

\* The database saves what is marked, and says of the rest that it could not.
LEMMA DBSyncKeeps ==
    ASSUME Typed, Typed', Tokens, LoadedLive, LoadedNewest, SavedNewest, Remembered,
           NEW w \in Worlds, DBSync(w), Untouched(w)
    PROVE  LoadedNewest' /\ SavedNewest' /\ Remembered'
<1>1. PICK r \in Request : r = Head(toMaster[w]) /\ r.kind = "sync" /\ toMaster[w] # <<>>
  BY HeadTyped DEF DBSync, HeadIs, Typed
<1>2. Taken(w) /\ HeadIs(w, "sync") /\ UNCHANGED <<client, memory, newest, lost>>
  BY DEF DBSync
<1>3. PICK failed \in SUBSET r.mask :
         /\ db' = Saved(r, r.mask \ failed)
         /\ Answer(w, [kind |-> "sync", id |-> r.id, character |-> r.character, failed |-> failed])
  BY <1>1 DEF DBSync
<1>4. PICK a \in Reply : a = [kind |-> "sync", id |-> r.id, character |-> r.character, failed |-> failed]
  BY <1>1, <1>2, Packets
<1>5. PICK c \in Characters : c = r.character
  BY <1>1, RequestFacts
<1>6. Answer(w, a) /\ a.kind = "sync" /\ a.id = r.id /\ a.character = c /\ a.failed = failed
  BY <1>3, <1>4, <1>5
<1>7. Longer(fromDB[w], fromDB'[w], a)
  BY <1>6, AnswerLonger
<1>8. Shorter(toMaster[w], toMaster'[w]) /\ SaveAt(w, 1) /\ toMaster[w][1] = r
  BY <1>1, <1>2, TakenShorter DEF Shorter, SaveAt
<1>9. \A v \in Worlds \ {w} : \A j \in Nat : ~SaveAt(v, j) /\ ~SaveAt(v, j)'
  <2>1. \A v \in Worlds \ {w} : \A j \in Nat : ~SaveAt(v, j)
    BY <1>8 DEF Tokens, SavesInOne
  <2> QED
    BY <2>1 DEF SaveAt, Untouched
<1>10. /\ db.data \in [Characters -> Data]
       /\ \A d \in Characters \ {c} : db'.data[d] = db.data[d]
       /\ \A s \in Sections : db'.data[c][s] = IF s \in r.mask \ failed THEN r.data[s] ELSE db.data[c][s]
  BY <1>3, <1>5 DEF Saved, Typed, ServersTyped
<1>11. ASSUME NEW d \in Characters, NEW s \in Sections, d = c => s \notin failed
       PROVE  WillHold(w, d, s)' = WillHold(w, d, s)
  <2>1. toMaster[w] \in Seq(Request) /\ toMaster'[w] = Tail(toMaster[w])
    BY <1>2, Queues DEF Taken, Typed, QueuesTyped
  <2>2. HoldsAfter(toMaster[w], d, s, db.data[d][s])
          = HoldsAfter(toMaster'[w], d, s, IF IsSave(r, d, s) THEN r.data[s] ELSE db.data[d][s])
    BY <1>1, <2>1, HoldsTail
  <2>3. IsSave(r, d, s) <=> d = c /\ s \in r.mask
    BY <1>1, <1>5 DEF IsSave
  <2>4. db'.data[d][s] = IF IsSave(r, d, s) THEN r.data[s] ELSE db.data[d][s]
    BY <1>10, <1>11, <2>3
  <2> QED
    BY <2>2, <2>4, WillHoldIs
<1>12. NoticesKept(w)
  BY <1>2, <1>6, NoticesKeptBy
<1>13. \A d \in Characters : (Sure(d) => Sure(d)') /\ (FailureKnown(d) => FailureKnown(d)')
  BY <1>2, <1>12, FailureKept
<1>14. LoadedNewest'
  BY <1>2, <1>13 DEF LoadedNewest
<1>15. SavedNewest'
  <2> SUFFICES ASSUME NEW d \in Characters, \A v \in Worlds : ~memory[v][d].loaded, ~FailureKnown(d)',
                      NEW v \in Worlds, \A u \in Worlds \ {v} : \A j \in Nat : ~SaveAt(u, j)',
                      NEW s \in Sections
               PROVE  WillHold(v, d, s)' = newest'[d][s]
    BY <1>2 DEF SavedNewest
  <2>1. ~FailureKnown(d)
    BY <1>13
  <2>2. d = c => failed = {}
    <3>1. \E i \in DOMAIN fromDB'[w] : fromDB'[w][i] = a
      BY <1>7 DEF Longer
    <3> QED
      BY <1>6, <3>1 DEF FailureKnown
  <2>3. WillHold(w, d, s) = newest[d][s]
    BY <1>9, <2>1 DEF SavedNewest
  <2>4. WillHold(w, d, s)' = newest'[d][s]
    BY <1>2, <1>11, <2>2, <2>3
  <2>5. CASE v # w
    <3>1. \A u \in Worlds : \A j \in Nat : ~SaveAt(u, j)'
      BY <1>9, <2>5
    <3>2. ASSUME NEW u \in Worlds PROVE WillHold(u, d, s)' = db'.data[d][s]
      <4>1. toMaster'[u] \in Seq(Request)
        BY DEF Typed, QueuesTyped
      <4>2. SavesOf(toMaster'[u], d, s) = {}
        BY <3>1, <4>1, LenProperties DEF SavesOf, IsSave, SaveAt
      <4> QED
        BY <4>2, WillHoldIs DEF HoldsAfter
    <3> QED
      BY <2>4, <3>2
  <2> QED
    BY <2>4, <2>5
<1>16. Remembered'
  <2> SUFFICES ASSUME NEW v \in Worlds, NEW d \in Characters, memory[v][d].loaded, NEW s \in Sections
               PROVE  \/ s \in memory[v][d].dirty
                      \/ memory[v][d].data[s] = WillHold(v, d, s)'
                      \/ NoticeDue(v, d, s)'
    BY <1>2 DEF Remembered
  <2>1. TokenAt("client", v, 0)
    BY DEF LoadedLive, TokenAt
  <2>2. v = w /\ r.id = client[w].id
    BY <1>8, <2>1 DEF Tokens, SavesFirst, Places
  <2>3. s \in memory[v][d].dirty \/ memory[v][d].data[s] = WillHold(v, d, s) \/ NoticeDue(v, d, s)
    BY DEF Remembered
  <2>4. CASE d = c /\ s \in failed
    <3>1. \E i \in DOMAIN fromDB'[w] : fromDB'[w][i] = a
      BY <1>7 DEF Longer
    <3> QED
      BY <1>2, <1>6, <2>2, <2>4, <3>1 DEF NoticeDue
  <2>5. CASE ~(d = c /\ s \in failed)
    <3>1. WillHold(w, d, s)' = WillHold(w, d, s)
      BY <1>11, <2>5
    <3>2. NoticeDue(w, d, s) => NoticeDue(w, d, s)'
      BY <1>2, <1>12, NoticeDueKept
    <3> QED
      BY <2>2, <2>3, <3>1, <3>2
  <2> QED
    BY <2>4, <2>5
<1> QED
  BY <1>14, <1>15, <1>16

-----------------------------------------------------------------------------
(* Theorems                                                                 *)

SyncInv ==
    /\ Typed /\ Tokens /\ LoadedLive /\ GetsAsked /\ IdsKnown
    /\ LoadedNewest /\ SavedNewest /\ Remembered

LEMMA InitiallySync == Init => SyncInv
<1> SUFFICES ASSUME Init PROVE SyncInv
  OBVIOUS
<1>1. Typed
  BY InitiallyTyped
<1>2. /\ \A w \in Worlds : /\ client[w] = NoClient
                           /\ \A c \in Characters : memory[w][c] = Unloaded
                           /\ toMaster[w] = <<>> /\ fromDB[w] = <<>> /\ links[w] = <<>>
      /\ \A c \in Characters : \A s \in Sections : db.data[c][s] = 0 /\ newest[c][s] = 0
  BY DEF Init
<1>3. \A w \in Worlds : /\ DOMAIN toMaster[w] = {} /\ DOMAIN fromDB[w] = {} /\ DOMAIN links[w] = {}
                        /\ ~Live(w) /\ \A c \in Characters : ~memory[w][c].loaded
  BY <1>2 DEF Live, NoClient, Unloaded
<1>4. Tokens
  BY <1>3 DEF Tokens, OneToken, SavesFirst, SavesInOne, TokenAt, SaveAt
<1>5. LoadedLive /\ GetsAsked /\ IdsKnown /\ LoadedNewest /\ Remembered
  BY <1>3 DEF LoadedLive, GetsAsked, GetsAskedAt, GetOut, GetIn, IdsKnown, LoadedNewest, Remembered
<1>6. SavedNewest
  <2>1. \A w \in Worlds : \A c \in Characters : \A s \in Sections : WillHold(w, c, s) = newest[c][s]
    BY <1>2, <1>3 DEF WillHold
  <2> QED
    BY <2>1 DEF SavedNewest
<1> QED
  BY <1>1, <1>4, <1>5, <1>6 DEF SyncInv

LEMMA SyncStep ==
    ASSUME Orderly, SyncInv, [Next]_vars
    PROVE  SyncInv'
<1> USE DEF SyncInv
<1>1. Typed'
  BY TypedStep
<1>2. CASE UNCHANGED vars
  <2>1. UNCHANGED <<db, client, memory, toMaster, fromDB, links, connections, newest, lost>>
    BY <1>2 DEF vars
  <2>2. /\ \A w \in Worlds : \A i : SaveAt(w, i)' = SaveAt(w, i) /\ Live(w)' = Live(w)
        /\ \A w \in Worlds : Nothing(w)' = Nothing(w)
        /\ \A w \in Worlds : \A c, s : WillHold(w, c, s)' = WillHold(w, c, s)
        /\ \A w \in Worlds : \A c, s : NoticeDue(w, c, s)' = NoticeDue(w, c, s)
        /\ \A k, w, i : TokenAt(k, w, i)' = TokenAt(k, w, i)
        /\ \A c : Sure(c)' = Sure(c) /\ FailureKnown(c)' = FailureKnown(c)
    BY <2>1 DEF SaveAt, Live, Nothing, WillHold, NoticeDue, TokenAt, Sure, NoticeAt, FailureKnown
  <2>3. Tokens'
    BY <2>1, <2>2 DEF Tokens, OneToken, SavesFirst, SavesInOne
  <2>4. GetsAsked'
    BY <2>1, <2>2 DEF GetsAsked, GetsAskedAt, GetOut, GetIn, RequestAsked, AnswerAsked, Waiting
  <2>5. LoadedLive' /\ IdsKnown'
    BY <2>1, <2>2 DEF LoadedLive, IdsKnown
  <2>6. LoadedNewest' /\ Remembered'
    BY <2>1, <2>2 DEF LoadedNewest, Remembered
  <2>7. SavedNewest'
    BY <2>1, <2>2 DEF SavedNewest
  <2> QED
    BY <1>1, <2>3, <2>4, <2>5, <2>6, <2>7
<1>3. ASSUME NEW w \in Worlds, Serve(w) \/ SyncTimer(w) \/ Play(w) PROVE SyncInv'
  <2>1. Untouched(w)
    BY <1>3, Elsewhere DEF Untouched
  <2>2. Tokens' /\ LoadedLive' /\ GetsAsked' /\ IdsKnown'
    BY <1>1, <1>3, TokensStep, LoadedLiveStep, GetsAskedStep, IdsStep
  <2>3. LoadedNewest' /\ SavedNewest' /\ Remembered'
    <3>1. ASSUME Steady(w) PROVE LoadedNewest' /\ SavedNewest' /\ Remembered'
      BY <2>1, <3>1, SteadyKeeps
    <3>2. ASSUME Serve(w) PROVE LoadedNewest' /\ SavedNewest' /\ Remembered'
      BY <1>1, <2>1, <3>1, <3>2, SteadyServe, NoticesSteady, LoadKeeps, DBSyncKeeps DEF Serve
    <3>3. ASSUME SyncTimer(w) PROVE LoadedNewest' /\ SavedNewest' /\ Remembered'
      BY <1>1, <2>1, <3>3, SyncTimerKeeps
    <3>4. ASSUME Deinitialize(w) \/ (Disconnect(w) /\ Character(w).loaded)
          PROVE  LoadedNewest' /\ SavedNewest' /\ Remembered'
      BY <1>1, <2>1, <3>4, UnloadKeeps
    <3>5. ASSUME NEW s \in Sections, Touch(w, s) PROVE LoadedNewest' /\ SavedNewest' /\ Remembered'
      BY <1>1, <2>1, <3>5, TouchKeeps
    <3>6. ASSUME \/ Connect(w) \/ LogIn(w) \/ GetCharacters(w) \/ AddForceGem(w)
                 \/ \E to \in Worlds : VerifyLinks(w, to)
                 \/ \E c \in Characters : Initialize(w, c)
                 \/ Disconnect(w) /\ ~Character(w).loaded
          PROVE  LoadedNewest' /\ SavedNewest' /\ Remembered'
      BY <1>1, <2>1, <3>1, <3>6, SteadyPlay
    <3> QED
      BY <1>3, <3>2, <3>3, <3>4, <3>5, <3>6 DEF Play
  <2> QED
    BY <1>1, <2>2, <2>3
<1> QED
  BY <1>2, <1>3 DEF Next

\* The inductive invariant, for every behaviour.
LEMMA SyncInvAlways ==
    ASSUME Orderly
    PROVE  Spec => []SyncInv
  BY InitiallySync, SyncStep, PTL DEF Spec

\* However many world servers, characters, connections and failures there are: each section of a
\* loaded character is what the database will hold, is marked, or will be marked by the notice of
\* its failure (ServerSyncDB, OnWorldDBSync.c), if the game client waits for its answers.
THEOREM ChangesRemembered ==
    ASSUME Orderly
    PROVE  Spec => []NoChangeForgotten
<1>1. ASSUME SyncInv PROVE NoChangeForgotten
  <2> SUFFICES ASSUME NEW w \in Worlds, NEW s \in Sections, Character(w).loaded
               PROVE  LET c == client[w].character IN
                      \/ s \in memory[w][c].dirty
                      \/ memory[w][c].data[s] = WillHold(w, c, s)
                      \/ NoticeDue(w, c, s)
    BY DEF NoChangeForgotten
  <2>1. client[w].character \in Characters /\ memory[w][client[w].character].loaded
    BY <1>1, LoadedFacts DEF SyncInv
  <2> QED
    BY <1>1, <2>1 DEF SyncInv, Remembered
<1> QED
  BY <1>1, SyncInvAlways, PTL

\* A character that is loaded again is as it was left, by whichever server and after however many
\* saves that have not been handled yet (OnDeinitialize.c:19, OnGetCharacter), unless a save failed.
THEOREM LoadedAsLeft ==
    ASSUME Orderly
    PROVE  Spec => LoadsNewest
<1> DEFINE Load == \A w \in Worlds, c \in Characters :
                      (/\ ~memory[w][c].loaded /\ memory[w][c]'.loaded
                       /\ ~FailureKnown(c))
                         => memory'[w][c].data = newest[c]
<1>1. ASSUME SyncInv, [Next]_vars PROVE [Load]_vars
  <2> SUFFICES ASSUME NEW w \in Worlds, NEW c \in Characters, ~memory[w][c].loaded, memory'[w][c].loaded,
                      ~FailureKnown(c), ~UNCHANGED vars
               PROVE  memory'[w][c].data = newest[c]
    OBVIOUS
  <2>1. PICK u \in Worlds : Serve(u) \/ SyncTimer(u) \/ Play(u)
    BY <1>1 DEF Next
  <2>2. Untouched(u) /\ Typed
    BY <1>1, <2>1, Elsewhere DEF Untouched, SyncInv
  <2>3. u = w
    BY <2>2 DEF Untouched
  <2>4. ~Held(u)
    BY <2>3 DEF Held
  <2>5. ~UNCHANGED memory
    OBVIOUS
  <2>6. ~Disconnect(u)
    <3> SUFFICES ASSUME Disconnect(u) PROVE FALSE
      OBVIOUS
    <3>1. Character(u).loaded /\ memory' = [memory EXCEPT ![u][client[u].character] = Unloaded]
      BY <2>5 DEF Disconnect
    <3>2. memory \in [Worlds -> [Characters -> InMemory \union {Unloaded}]] /\ Unloaded.loaded = FALSE
      BY <2>2 DEF Typed, ServersTyped, Unloaded
    <3>3. memory'[w][c] = memory[w][c] \/ memory'[w][c] = Unloaded
      BY <2>3, <3>1, <3>2
    <3> QED
      BY <3>2, <3>3
  <2>7. OnGetCharacter(u)
    BY <2>1, <2>2, <2>4, <2>5, <2>6, HeldPlay, HeldServe
       DEF Serve, Play, Connect, VerifyLinks, Initialize, OnGetCharacterFailed
  <2>8. Addressed(w, "get") /\ memory' = [memory EXCEPT ![w][Head(fromDB[w]).character] =
                                            Loaded(Head(fromDB[w]).data, client[w].account)]
    BY <2>3, <2>7 DEF OnGetCharacter
  <2>9. /\ Head(fromDB[w]).character \in Characters
        /\ FailureKnown(Head(fromDB[w]).character)
             \/ Head(fromDB[w]).data = newest[Head(fromDB[w]).character]
    BY <1>1, <2>8, Arrives DEF SyncInv
  <2>10. c = Head(fromDB[w]).character
    BY <2>2, <2>8, <2>9 DEF Typed, ServersTyped
  <2>11. memory'[w][c] = Loaded(Head(fromDB[w]).data, client[w].account)
    BY <2>2, <2>8, <2>10 DEF Typed, ServersTyped
  <2> QED
    BY <2>9, <2>10, <2>11 DEF Loaded
<1>2. Spec => [][Load]_vars
  BY <1>1, SyncInvAlways, PTL DEF Spec
<1> QED
  BY <1>2 DEF LoadsNewest

\* assert(!DictionaryLookup(...)) of RTWorldManagerCreateCharacter holds if the game client waits
\* for the answer to INITIALIZE.
THEOREM CreatedOnceOrderly ==
    ASSUME Orderly
    PROVE  Spec => []CreatedOnce
<1>1. ASSUME SyncInv PROVE CreatedOnce
  <2> SUFFICES ASSUME NEW w \in Worlds, Addressed(w, "get")
               PROVE  ~memory[w][Head(fromDB[w]).character].loaded
    BY DEF CreatedOnce
  <2> QED
    BY <1>1, Arrives DEF SyncInv
<1> QED
  BY <1>1, SyncInvAlways, PTL
=============================================================================
