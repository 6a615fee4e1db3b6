--------------------------- MODULE SessionsProofs ---------------------------
(***************************************************************************)
(* Theorems about the sessions of any number of players, accounts and world  *)
(* servers.  The invariant has three parts.  Core: a session is moved and    *)
(* not copied, for which each packet that hands it on, a token, names a      *)
(* connection that is still without an account and that no other token       *)
(* names.  Counting: an account's connections are what the master server has *)
(* counted and is about to count, and each notice of a connection on its way *)
(* has the connection itself or the notice of its end behind it in the same  *)
(* queue.  Agreed: the last word about an account to the login server is the *)
(* master server's.                                                          *)
(***************************************************************************)
EXTENDS Sessions, SequenceTheorems, FunctionTheorems, FiniteSetTheorems, TLAPS

-----------------------------------------------------------------------------
(* Packets                                                                 *)

Packet ==
    [to : {Master}, type : {"CLIENT_CONNECT", "CLIENT_DISCONNECT"}, account : Accounts]
      \union [to : Worlds, type : {"L2W_VERIFY_LINKS"}, from : Nat, entity : Nat, account : Accounts]
      \union [to : Servers, type : {"REQUEST_VERIFY_LINKS", "WORLD_VERIFY_LINKS"}, node : Worlds,
              from : Nat, entity : Nat, account : Accounts]
      \union [to : {Database}, type : {"W2D_AUTHENTICATE"}, node : Worlds, target : Nat,
              account : Accounts, link : Nat]
      \union [to : Worlds, type : {"D2W_AUTHENTICATE"}, target : Nat, account : Accounts,
              link : Nat, success : BOOLEAN]
      \union [to : {Login}, type : {"W2L_VERIFY_LINKS"}, target : Nat, status : {0, 1}]
      \union [to : Worlds, type : {"RESPONSE_VERIFY_LINKS"}, target : Nat]

Message == Packet \union [type : {"SET_ONLINE"}, account : Accounts, online : BOOLEAN]

\* A token is a packet on which a connection will get the account.
TokenTypes == {"L2W_VERIFY_LINKS", "W2D_AUTHENTICATE", "D2W_AUTHENTICATE",
               "REQUEST_VERIFY_LINKS", "WORLD_VERIFY_LINKS"}

IsToken(m) == m.type \in TokenTypes

Target(m) ==
    IF m.type = "W2D_AUTHENTICATE" THEN <<m.node, m.target>>
    ELSE IF m.type = "D2W_AUTHENTICATE" THEN <<m.to, m.target>> ELSE <<m.to, m.entity>>

\* The login connection the session leaves.
FromLogin(m, i) ==
    \/ m.type = "L2W_VERIFY_LINKS" /\ m.from = i
    \/ m.type \in {"W2D_AUTHENTICATE", "D2W_AUTHENTICATE"} /\ m.link = i

\* All queues.
Boxes == {"up", "down"} \X Nodes
Mail == [b \in Boxes |-> IF b[1] = "up" THEN toMaster[b[2]] ELSE fromMaster[b[2]]]

Up(n)   == <<"up", n>>
Down(n) == <<"down", n>>

\* What is appended to a queue, and what is taken from it.
After(Q, b, r) == [Q EXCEPT ![b] = @ \o r]
Without(Q, b)  == [Q EXCEPT ![b] = Tail(@)]
First(Q, b)    == Head(Q[b])

TokensIn(Q) == {m \in Message : IsToken(m) /\ \E b \in Boxes : \E i \in DOMAIN Q[b] : m = Q[b][i]}

\* Queues with two tokens for the same connection: there are none.
Clashes(Q) ==
    {b \in Boxes : \E c \in Boxes : \E i \in DOMAIN Q[b], j \in DOMAIN Q[c] :
        /\ IsToken(Q[b][i]) /\ IsToken(Q[c][j]) /\ Target(Q[b][i]) = Target(Q[c][j])
        /\ ~(b = c /\ i = j)}

Single(Q) ==
    \A b, c \in Boxes : \A i \in DOMAIN Q[b], j \in DOMAIN Q[c] :
        IsToken(Q[b][i]) /\ IsToken(Q[c][j]) /\ Target(Q[b][i]) = Target(Q[c][j]) => b = c /\ i = j

-----------------------------------------------------------------------------
(* Connections                                                             *)

IsOpen(s, i, p) == i \in DOMAIN conn[s] /\ conn[s][i].state = "open" /\ conn[s][i].player = p

\* The connection a token is for is still to get its account, and its player holds no
\* other but the login connection the token comes from.
Fresh(m) ==
    LET s == Target(m)[1]
        j == Target(m)[2]
    IN  /\ s \in Servers /\ j \in DOMAIN conn[s]
        /\ conn[s][j].account = NoID
        /\ conn[s][j].flags \subseteq {"handed"}
        /\ conn[s][j].state # "gone" => Has(s, j, "handed")
        /\ conn[s][j].state = "open" =>
              \A t \in Servers, i \in Nat :
                  IsOpen(t, i, conn[s][j].player) =>
                     \/ <<t, i>> = <<s, j>>
                     \/ t = Login /\ FromLogin(m, i) /\ Has(Login, i, "verified")

TokensFresh == \A m \in TokensIn(Mail) : Fresh(m)

\* What the flags of a connection say of its account.
Sound(s, c) ==
    /\ c.state = "gone" => c.flags = {} /\ c.account = NoID
    /\ "verified" \in c.flags => c.account # NoID
    /\ c.flags \cap {"authenticated", "normal"} # {} => c.account # NoID
    /\ s \in Worlds /\ c.state # "gone" => "handed" \in c.flags
    /\ s \in Worlds /\ c.account # NoID => "verified" \in c.flags
    /\ s = Login /\ c.state \in {"open", "left"} /\ c.account # NoID => "authenticated" \in c.flags

AllSound == \A s \in Servers : \A i \in DOMAIN conn[s] : Sound(s, conn[s][i])

\* A player holds one connection to a server,
OneEach ==
    \A s \in Servers, p \in Players : \A i, j \in Nat :
        IsOpen(s, i, p) /\ IsOpen(s, j, p) => i = j

\* plays on one world server,
OneVerified ==
    \A w, v \in Worlds, p \in Players : \A i, j \in Nat :
        /\ IsOpen(w, i, p) /\ Has(w, i, "verified")
        /\ IsOpen(v, j, p) /\ Has(v, j, "verified")
        => w = v

\* and is then to return to the login server, or about to leave it.
Answered ==
    {i \in Nat :
        \/ \E w \in Worlds : \E k \in DOMAIN toMaster[w] : toMaster[w][k] = LinkAnswer(i, 1)
        \/ \E k \in DOMAIN fromMaster[Login] : fromMaster[Login][k] = LinkAnswer(i, 1)}

LoginToo ==
    \A w \in Worlds, p \in Players : \A i, j \in Nat :
        IsOpen(w, i, p) /\ Has(w, i, "verified") /\ IsOpen(Login, j, p) =>
           \/ conn[Login][j].flags = {"handed"}
           \/ Has(Login, j, "verified") /\ j \in Answered

-----------------------------------------------------------------------------
(* The invariant                                                           *)

Routed ==
    \A n \in Nodes : \A i \in DOMAIN fromMaster[n] :
        fromMaster[n][i].type # "SET_ONLINE" => fromMaster[n][i].to = n

QueuesTyped ==
    /\ toMaster \in [Nodes -> Seq(Packet)]
    /\ fromMaster \in [Nodes -> Seq(Message)]
    /\ Routed

-----------------------------------------------------------------------------
(* Queues                                                                  *)

LEMMA Put ==
    ASSUME NEW B, NEW S, NEW Q \in [B -> Seq(S)], NEW b \in B, NEW r \in Seq(S),
           NEW R, R = [Q EXCEPT ![b] = @ \o r]
    PROVE  /\ R \in [B -> Seq(S)]
           /\ \A c \in B \ {b} : R[c] = Q[c]
           /\ Len(Q[b]) \in Nat /\ DOMAIN Q[b] = 1 .. Len(Q[b])
           /\ Len(r) \in Nat /\ DOMAIN r = 1 .. Len(r)
           /\ DOMAIN R[b] = 1 .. Len(Q[b]) + Len(r)
           /\ \A i \in DOMAIN Q[b] : R[b][i] = Q[b][i]
           /\ \A i \in DOMAIN r : Len(Q[b]) + i \in DOMAIN R[b] /\ R[b][Len(Q[b]) + i] = r[i]
           /\ \A i \in DOMAIN R[b] : i \in DOMAIN Q[b] \/ i - Len(Q[b]) \in DOMAIN r
<1>1. Len(Q[b]) \in Nat /\ DOMAIN Q[b] = 1 .. Len(Q[b]) /\ Len(r) \in Nat /\ DOMAIN r = 1 .. Len(r)
  BY LenProperties
<1>2. /\ Q[b] \o r \in Seq(S) /\ Len(Q[b] \o r) = Len(Q[b]) + Len(r)
      /\ \A i \in 1 .. Len(Q[b]) + Len(r) :
            (Q[b] \o r)[i] = IF i <= Len(Q[b]) THEN Q[b][i] ELSE r[i - Len(Q[b])]
  BY ConcatProperties
<1>3. R \in [B -> Seq(S)] /\ R[b] = Q[b] \o r /\ \A c \in B \ {b} : R[c] = Q[c]
  BY <1>2
<1>4. DOMAIN R[b] = 1 .. Len(Q[b]) + Len(r)
  BY <1>2, <1>3, LenProperties
<1>5. \A i \in DOMAIN r : /\ Len(Q[b]) + i \in DOMAIN R[b] /\ ~(Len(Q[b]) + i <= Len(Q[b]))
                          /\ (Len(Q[b]) + i) - Len(Q[b]) = i
  BY <1>1, <1>4
<1>6. \A i \in DOMAIN r : R[b][Len(Q[b]) + i] = r[i]
  BY <1>2, <1>3, <1>4, <1>5
<1>7. \A i \in DOMAIN Q[b] : R[b][i] = Q[b][i]
  BY <1>1, <1>2, <1>3
<1>8. \A i \in DOMAIN R[b] : i \in DOMAIN Q[b] \/ i - Len(Q[b]) \in DOMAIN r
  BY <1>1, <1>4
<1> QED
  BY <1>1, <1>3, <1>4, <1>5, <1>6, <1>7, <1>8

LEMMA Take ==
    ASSUME NEW B, NEW S, NEW Q \in [B -> Seq(S)], NEW b \in B, Q[b] # <<>>,
           NEW R, R = [Q EXCEPT ![b] = Tail(@)]
    PROVE  /\ R \in [B -> Seq(S)]
           /\ \A c \in B \ {b} : R[c] = Q[c]
           /\ 1 \in DOMAIN Q[b] /\ Head(Q[b]) = Q[b][1] /\ Head(Q[b]) \in S
           /\ Len(Q[b]) \in Nat /\ DOMAIN Q[b] = 1 .. Len(Q[b])
           /\ DOMAIN R[b] = 1 .. Len(Q[b]) - 1
           /\ \A i \in DOMAIN R[b] : i \in Nat \ {0} /\ i + 1 \in DOMAIN Q[b] /\ R[b][i] = Q[b][i + 1]
           /\ \A i \in DOMAIN Q[b] : i # 1 => i - 1 \in DOMAIN R[b] /\ R[b][i - 1] = Q[b][i]
<1>1. /\ Len(Q[b]) \in Nat \ {0} /\ DOMAIN Q[b] = 1 .. Len(Q[b])
      /\ Head(Q[b]) = Q[b][1] /\ Head(Q[b]) \in S
  BY HeadTailProperties, LenProperties, EmptySeq
<1>2. /\ Tail(Q[b]) \in Seq(S) /\ Len(Tail(Q[b])) = Len(Q[b]) - 1
      /\ \A i \in 1 .. Len(Tail(Q[b])) : Tail(Q[b])[i] = Q[b][i + 1]
  BY HeadTailProperties
<1>3. R[b] = Tail(Q[b]) /\ DOMAIN R[b] = 1 .. Len(Q[b]) - 1
  BY <1>2, LenProperties
<1>4. \A i \in DOMAIN R[b] : i \in Nat \ {0} /\ i + 1 \in DOMAIN Q[b] /\ R[b][i] = Q[b][i + 1]
  BY <1>1, <1>2, <1>3
<1>5. \A i \in DOMAIN Q[b] : i # 1 => i - 1 \in DOMAIN R[b] /\ (i - 1) + 1 = i
  BY <1>1, <1>3
<1>6. \A i \in DOMAIN Q[b] : i # 1 => R[b][i - 1] = Q[b][i]
  BY <1>4, <1>5
<1> QED
  BY <1>1, <1>2, <1>3, <1>4, <1>5, <1>6

LEMMA NoClashes ==
    ASSUME NEW Q
    PROVE  /\ Clashes(Q) = {} => Single(Q)
           /\ Single(Q) => Clashes(Q) = {}
  BY Zenon DEF Clashes, Single

LEMMA PutFacts ==
    ASSUME NEW Q \in [Boxes -> Seq(Message)], NEW b \in Boxes, NEW r \in Seq(Message),
           NEW R, R = [Q EXCEPT ![b] = @ \o r]
    PROVE  \A c \in Boxes : \A i \in DOMAIN R[c] :
              \/ i \in DOMAIN Q[c] /\ R[c][i] = Q[c][i]
              \/ c = b /\ i - Len(Q[b]) \in DOMAIN r /\ R[c][i] = r[i - Len(Q[b])]
                       /\ i \in Nat /\ Len(Q[b]) \in Nat
<1> SUFFICES ASSUME NEW c \in Boxes, NEW i \in DOMAIN R[c]
             PROVE  \/ i \in DOMAIN Q[c] /\ R[c][i] = Q[c][i]
                    \/ c = b /\ i - Len(Q[b]) \in DOMAIN r /\ R[c][i] = r[i - Len(Q[b])]
                             /\ i \in Nat /\ Len(Q[b]) \in Nat
  OBVIOUS
<1>1. CASE c # b
  BY <1>1, Put
<1>2. CASE c = b
  <2>1. /\ Len(Q[b]) \in Nat /\ Len(r) \in Nat /\ DOMAIN R[b] = 1 .. Len(Q[b]) + Len(r)
        /\ \A j \in DOMAIN Q[b] : R[b][j] = Q[b][j]
        /\ \A j \in DOMAIN r : R[b][Len(Q[b]) + j] = r[j]
        /\ \A j \in DOMAIN R[b] : j \in DOMAIN Q[b] \/ j - Len(Q[b]) \in DOMAIN r
    BY Put
  <2>2. i \in Nat /\ Len(Q[b]) + (i - Len(Q[b])) = i
    BY <1>2, <2>1
  <2> QED
    BY <1>2, <2>1, <2>2
<1> QED
  BY <1>1, <1>2

LEMMA PutTokenless ==
    ASSUME NEW Q \in [Boxes -> Seq(Message)], NEW b \in Boxes, NEW r \in Seq(Message),
           \A i \in DOMAIN r : ~IsToken(r[i])
    PROVE  /\ After(Q, b, r) \in [Boxes -> Seq(Message)] /\ TokensIn(After(Q, b, r)) \subseteq TokensIn(Q)
           /\ Clashes(Q) = {} => Clashes(After(Q, b, r)) = {}
<1> DEFINE R == After(Q, b, r)
<1>r. R = [Q EXCEPT ![b] = @ \o r]
  BY DEF After
<1> HIDE DEF R
<1>0. R \in [Boxes -> Seq(Message)]
  BY <1>r, Put
<1>1. \A c \in Boxes : \A i \in DOMAIN R[c] :
         IsToken(R[c][i]) => i \in DOMAIN Q[c] /\ R[c][i] = Q[c][i]
  BY <1>r, PutFacts
<1>2. TokensIn(R) \subseteq TokensIn(Q)
  BY <1>1 DEF TokensIn
<1>3. Single(Q) => Single(R)
  BY <1>1 DEF Single
<1>4. Clashes(Q) = {} => Clashes(R) = {}
  BY <1>3, NoClashes, Zenon
<1> QED
  BY <1>0, <1>2, <1>4 DEF R

LEMMA PutOne ==
    ASSUME NEW Q \in [Boxes -> Seq(Message)], NEW b \in Boxes, NEW m \in Message,
           NEW r, r = <<m>>, NEW R, R = [Q EXCEPT ![b] = @ \o r]
    PROVE  /\ R \in [Boxes -> Seq(Message)]
           /\ \A c \in Boxes : \A i \in DOMAIN R[c] :
                 \/ i \in DOMAIN Q[c] /\ R[c][i] = Q[c][i]
                 \/ c = b /\ i = Len(Q[b]) + 1 /\ R[c][i] = m
<1>0. r \in Seq(Message) /\ DOMAIN r = {1} /\ r[1] = m
  OBVIOUS
<1>2. R \in [Boxes -> Seq(Message)]
  BY <1>0, Put
<1>3. ASSUME NEW c \in Boxes, NEW i \in DOMAIN R[c], ~(i \in DOMAIN Q[c] /\ R[c][i] = Q[c][i])
      PROVE  c = b /\ i = Len(Q[b]) + 1 /\ R[c][i] = m
  <2>1. c = b /\ i - Len(Q[b]) \in DOMAIN r /\ R[c][i] = r[i - Len(Q[b])]
        /\ i \in Nat /\ Len(Q[b]) \in Nat
    BY <1>0, <1>3, PutFacts
  <2>2. i - Len(Q[b]) = 1
    BY <1>0, <2>1
  <2> QED
    BY <1>0, <2>1, <2>2
<1> QED
  BY <1>2, <1>3

LEMMA PutToken ==
    ASSUME NEW Q \in [Boxes -> Seq(Message)], NEW b \in Boxes, NEW m \in Message, IsToken(m),
           \A x \in TokensIn(Q) : Target(x) # Target(m)
    PROVE  /\ After(Q, b, <<m>>) \in [Boxes -> Seq(Message)]
           /\ TokensIn(After(Q, b, <<m>>)) \subseteq TokensIn(Q) \union {m}
           /\ Clashes(Q) = {} => Clashes(After(Q, b, <<m>>)) = {}
<1>r. PICK r : r = <<m>>
  OBVIOUS
<1>1. PICK R : R = [Q EXCEPT ![b] = @ \o r]
  OBVIOUS
<1> DEFINE n == Len(Q[b]) + 1
<1>3. /\ R \in [Boxes -> Seq(Message)]
      /\ \A c \in Boxes : \A i \in DOMAIN R[c] :
            \/ i \in DOMAIN Q[c] /\ R[c][i] = Q[c][i]
            \/ c = b /\ i = n /\ R[c][i] = m
  BY <1>r, <1>1, PutOne
<1> HIDE DEF n
<1>4. \A c \in Boxes : Q[c] \in Seq(Message) /\ \A i \in DOMAIN Q[c] : Q[c][i] \in Message
  BY LenProperties, ElementOfSeq
<1>5. \A c \in Boxes : \A i \in DOMAIN Q[c] :
         IsToken(Q[c][i]) => Target(Q[c][i]) # Target(m)
  BY <1>4 DEF TokensIn
<1>6. TokensIn(R) \subseteq TokensIn(Q) \union {m}
  BY <1>3 DEF TokensIn
<1>7. Single(Q) => Single(R)
  <2> SUFFICES ASSUME Single(Q) PROVE Single(R)
    OBVIOUS
  <2>1. ASSUME NEW c \in Boxes, NEW d \in Boxes, NEW i \in DOMAIN R[c], NEW j \in DOMAIN R[d],
               IsToken(R[c][i]) /\ IsToken(R[d][j]) /\ Target(R[c][i]) = Target(R[d][j])
        PROVE  c = d /\ i = j
    <3>1. CASE i \in DOMAIN Q[c] /\ R[c][i] = Q[c][i] /\ j \in DOMAIN Q[d] /\ R[d][j] = Q[d][j]
      BY <2>1, <3>1 DEF Single
    <3>2. CASE i \in DOMAIN Q[c] /\ R[c][i] = Q[c][i] /\ d = b /\ j = n /\ R[d][j] = m
      BY <1>5, <2>1, <3>2
    <3>3. CASE c = b /\ i = n /\ R[c][i] = m /\ j \in DOMAIN Q[d] /\ R[d][j] = Q[d][j]
      BY <1>5, <2>1, <3>3
    <3>4. CASE c = b /\ i = n /\ d = b /\ j = n
      BY <3>4
    <3> QED
      BY <1>3, <3>1, <3>2, <3>3, <3>4
  <2> QED
    BY <2>1 DEF Single
<1>8. Clashes(Q) = {} => Clashes(R) = {}
  BY <1>7, NoClashes, Zenon
<1> QED
  BY <1>r, <1>1, <1>3, <1>6, <1>8 DEF After

LEMMA TakeOne ==
    ASSUME NEW Q \in [Boxes -> Seq(Message)], NEW b \in Boxes, Q[b] # <<>>
    PROVE  /\ Without(Q, b) \in [Boxes -> Seq(Message)] /\ TokensIn(Without(Q, b)) \subseteq TokensIn(Q)
           /\ Clashes(Q) = {} => Clashes(Without(Q, b)) = {}
           /\ First(Q, b) \in Message
           /\ First(Q, b).type \in TokenTypes => First(Q, b) \in TokensIn(Q)
           /\ Clashes(Q) = {} /\ First(Q, b).type \in TokenTypes =>
                 \A x \in TokensIn(Without(Q, b)) : Target(x) # Target(First(Q, b))
<1> DEFINE R == Without(Q, b)
<1>r. R = [Q EXCEPT ![b] = Tail(@)]
  BY DEF Without
<1> HIDE DEF R
<1> DEFINE up(c, i) == IF c = b THEN i + 1 ELSE i
<1>1. /\ R \in [Boxes -> Seq(Message)]
      /\ 1 \in DOMAIN Q[b] /\ Head(Q[b]) = Q[b][1] /\ Head(Q[b]) \in Message
      /\ \A c \in Boxes \ {b} : R[c] = Q[c]
      /\ \A i \in DOMAIN R[b] : i \in Nat \ {0} /\ i + 1 \in DOMAIN Q[b] /\ R[b][i] = Q[b][i + 1]
  BY <1>r, Take
<1>2. \A c \in Boxes : \A i \in DOMAIN R[c] : up(c, i) \in DOMAIN Q[c] /\ R[c][i] = Q[c][up(c, i)]
  BY <1>1
<1>3. TokensIn(R) \subseteq TokensIn(Q)
  BY <1>2 DEF TokensIn
<1>4. IsToken(Head(Q[b])) => Head(Q[b]) \in TokensIn(Q)
  BY <1>1 DEF TokensIn
<1>5. \A c \in Boxes : \A i, j \in DOMAIN R[c] : up(c, i) = up(c, j) => i = j
  BY <1>1
<1>6. \A i \in DOMAIN R[b] : up(b, i) # 1
  BY <1>1
<1> HIDE DEF up
<1>7. Clashes(Q) = {} => Clashes(R) = {}
  <2>1. Single(Q) => Single(R)
    BY <1>2, <1>5 DEF Single
  <2> QED
    BY <2>1, NoClashes, Zenon
<1>8. ASSUME Clashes(Q) = {}, IsToken(Head(Q[b])), NEW x \in TokensIn(R), Target(x) = Target(Head(Q[b]))
      PROVE  FALSE
  <2>1. PICK c \in Boxes : \E i \in DOMAIN R[c] : x = R[c][i]
    BY DEF TokensIn
  <2>2. PICK i \in DOMAIN R[c] : x = R[c][i]
    BY <2>1
  <2>3. up(c, i) \in DOMAIN Q[c] /\ x = Q[c][up(c, i)] /\ IsToken(x)
    BY <1>2, <2>2 DEF TokensIn
  <2>s. Single(Q)
    BY <1>8, NoClashes, Zenon
  <2>4. c = b /\ up(c, i) = 1
    BY <1>1, <1>8, <2>s, <2>3 DEF Single
  <2> QED
    BY <1>6, <2>2, <2>4
<1> QED
  BY <1>1, <1>3, <1>4, <1>7, <1>8 DEF R, First, IsToken

-----------------------------------------------------------------------------
(* Steps                                                                   *)

LEMMA Constants ==
    ASSUME SessionsAssumption
    PROVE  /\ IsFiniteSet(Players) /\ IsFiniteSet(Accounts) /\ IsFiniteSet(Worlds)
           /\ \A p \in Players : AccountOf[p] \in Accounts
           /\ NoID \notin Accounts /\ NoID \notin [Kinds -> Int]
           /\ Login \in Servers /\ Login \notin Worlds /\ Database \in Nodes /\ Database \notin Servers
           /\ Worlds \subseteq Servers /\ Servers \subseteq Nodes /\ Master \notin Nodes
           /\ \A s \in Servers : s = Login \/ s \in Worlds
  BY DEF SessionsAssumption, Servers, Nodes, Kinds

LEMMA PacketFacts ==
    ASSUME SessionsAssumption, NEW m \in Packet
    PROVE  /\ m.type \in {"CLIENT_CONNECT", "CLIENT_DISCONNECT", "L2W_VERIFY_LINKS", "REQUEST_VERIFY_LINKS",
                          "WORLD_VERIFY_LINKS", "W2D_AUTHENTICATE", "D2W_AUTHENTICATE",
                          "W2L_VERIFY_LINKS", "RESPONSE_VERIFY_LINKS"}
           /\ m.type \in {"CLIENT_CONNECT", "CLIENT_DISCONNECT"} => m.to = Master /\ m.account \in Accounts
           /\ m.type = "L2W_VERIFY_LINKS" =>
                 m.to \in Worlds /\ m.from \in Nat /\ m.entity \in Nat /\ m.account \in Accounts
           /\ m.type \in {"REQUEST_VERIFY_LINKS", "WORLD_VERIFY_LINKS"} =>
                 /\ m.to \in Servers /\ m.node \in Worlds /\ m.from \in Nat /\ m.entity \in Nat
                 /\ m.account \in Accounts
           /\ m.type = "W2D_AUTHENTICATE" =>
                 /\ m.to = Database /\ m.node \in Worlds /\ m.target \in Nat /\ m.account \in Accounts
                 /\ m.link \in Nat
           /\ m.type = "D2W_AUTHENTICATE" =>
                 /\ m.to \in Worlds /\ m.target \in Nat /\ m.account \in Accounts /\ m.link \in Nat
                 /\ m.success \in BOOLEAN
           /\ m.type = "W2L_VERIFY_LINKS" =>
                 m.to = Login /\ m.target \in Nat /\ m.status \in {0, 1} /\ m = LinkAnswer(m.target, m.status)
           /\ m.type = "RESPONSE_VERIFY_LINKS" => m.to \in Worlds /\ m.target \in Nat
           /\ m.type \notin {"CLIENT_CONNECT", "CLIENT_DISCONNECT"} => m.to \in Nodes
<1>1. Worlds \subseteq Servers /\ Servers \subseteq Nodes /\ Database \in Nodes /\ Login \in Nodes
  BY Constants
<1> QED
  BY <1>1 DEF Packet, LinkAnswer

LEMMA MessageFacts ==
    ASSUME SessionsAssumption, NEW m \in Message
    PROVE  /\ m \in Packet \/ m.type = "SET_ONLINE"
           /\ m.type = "SET_ONLINE" => m \notin Packet /\ m.account \in Accounts /\ m.online \in BOOLEAN
<1>1. m \in Packet => m.type # "SET_ONLINE"
  BY PacketFacts
<1> QED
  BY <1>1 DEF Message

LEMMA PacketsMade ==
    ASSUME SessionsAssumption,
           NEW w \in Worlds, NEW s \in Servers, NEW i \in Nat, NEW j \in Nat, NEW a \in Accounts,
           NEW ok \in BOOLEAN, NEW t \in {0, 1}
    PROVE  /\ ConnectNotice(a) \in Packet /\ DisconnectNotice(a) \in Packet
           /\ [to |-> w, type |-> "L2W_VERIFY_LINKS", from |-> i, entity |-> j, account |-> a] \in Packet
           /\ [to |-> s, type |-> "WORLD_VERIFY_LINKS", node |-> w, from |-> i, entity |-> j,
               account |-> a] \in Packet
           /\ [to |-> s, type |-> "REQUEST_VERIFY_LINKS", node |-> w, from |-> i, entity |-> j,
               account |-> a] \in Packet
           /\ [to |-> Database, type |-> "W2D_AUTHENTICATE", node |-> w, target |-> j, account |-> a,
               link |-> i] \in Packet
           /\ [to |-> w, type |-> "D2W_AUTHENTICATE", target |-> j, account |-> a, link |-> i,
               success |-> ok] \in Packet
           /\ LinkAnswer(i, t) \in Packet
           /\ [to |-> w, type |-> "RESPONSE_VERIFY_LINKS", target |-> i] \in Packet
  BY DEF Packet, ConnectNotice, DisconnectNotice, LinkAnswer

\* What is primed is what there is in the mail afterwards.
LEMMA AfterMail ==
    /\ (Clashes(Mail) = {})' <=> Clashes(Mail') = {}
    /\ \A m : m \in TokensIn(Mail)' <=> m \in TokensIn(Mail')
  BY DEF Clashes, TokensIn

LEMMA MailTyped ==
    ASSUME SessionsAssumption, QueuesTyped
    PROVE  /\ Mail \in [Boxes -> Seq(Message)]
           /\ \A n \in Nodes : /\ Up(n) \in Boxes /\ Mail[Up(n)] = toMaster[n]
                               /\ Down(n) \in Boxes /\ Mail[Down(n)] = fromMaster[n]
<1>1. Packet \subseteq Message
  BY DEF Message
<1>2. ASSUME NEW b \in Boxes PROVE (IF b[1] = "up" THEN toMaster[b[2]] ELSE fromMaster[b[2]]) \in Seq(Message)
  <2>1. b[2] \in Nodes
    BY DEF Boxes
  <2>2. toMaster[b[2]] \in Seq(Packet) /\ fromMaster[b[2]] \in Seq(Message)
    BY <2>1 DEF QueuesTyped
  <2> QED
    BY <1>1, <2>2, SeqMonotonic
<1>3. Mail \in [Boxes -> Seq(Message)]
  BY <1>2 DEF Mail
<1> QED
  BY <1>3 DEF Mail, Boxes, Up, Down

\* Nothing sent is nothing appended.
LEMMA NothingSent ==
    ASSUME QueuesTyped, NEW n \in Nodes, toMaster' = toMaster
    PROVE  Post(n, <<>>) /\ <<>> \in Seq(Packet)
<1>1. toMaster \in [Nodes -> Seq(Packet)] /\ toMaster[n] \in Seq(Packet)
  BY DEF QueuesTyped
<1>2. toMaster[n] \o <<>> = toMaster[n]
  BY <1>1, ConcatEmptySeq
<1> QED
  BY <1>1, <1>2, EmptySeq DEF Post

LEMMA MailSends ==
    ASSUME SessionsAssumption, QueuesTyped, NEW n \in Nodes, NEW r \in Seq(Packet), Post(n, r),
           UNCHANGED fromMaster
    PROVE  QueuesTyped' /\ r \in Seq(Message) /\ Mail' = After(Mail, Up(n), r)
<1>1. toMaster' \in [Nodes -> Seq(Packet)]
  BY Put DEF QueuesTyped, Post
<1>2. r \in Seq(Message)
  BY SeqMonotonic DEF Message
<1>3. QueuesTyped'
  BY <1>1 DEF QueuesTyped, Routed
<1>4. Mail' = [Mail EXCEPT ![<<"up", n>>] = @ \o r]
  <2> DEFINE R == [Mail EXCEPT ![<<"up", n>>] = @ \o r]
  <2>1. /\ toMaster'[n] = toMaster[n] \o r /\ \A c \in Nodes \ {n} : toMaster'[c] = toMaster[c]
    BY DEF QueuesTyped, Post
  <2>2. ASSUME NEW b \in Boxes PROVE R[b] = IF b[1] = "up" THEN toMaster'[b[2]] ELSE fromMaster'[b[2]]
    <3>1. b[2] \in Nodes /\ (b = <<"up", n>> <=> b[1] = "up" /\ b[2] = n)
      BY DEF Boxes
    <3>2. R[b] = IF b = <<"up", n>> THEN Mail[b] \o r ELSE Mail[b]
      BY DEF Mail
    <3>3. Mail[b] = IF b[1] = "up" THEN toMaster[b[2]] ELSE fromMaster[b[2]]
      BY DEF Mail
    <3> QED
      BY <2>1, <3>1, <3>2, <3>3
  <2>3. R = [b \in Boxes |-> R[b]]
    BY DEF Mail
  <2> QED
    BY <2>2, <2>3 DEF Mail
<1> QED
  BY <1>2, <1>3, <1>4 DEF After, Up

LEMMA MailHandled ==
    ASSUME SessionsAssumption, QueuesTyped, NEW n \in Nodes, NEW type, Received(n, type),
           NEW r \in Seq(Packet), Post(n, r)
    PROVE  /\ QueuesTyped' /\ r \in Seq(Message)
           /\ Mail[Down(n)] # <<>> /\ First(Mail, Down(n)) = Head(fromMaster[n])
           /\ Mail' = After(Without(Mail, Down(n)), Up(n), r)
           /\ Head(fromMaster[n]) \in Message /\ Head(fromMaster[n]).type = type
           /\ type # "SET_ONLINE" => Head(fromMaster[n]) \in Packet /\ Head(fromMaster[n]).to = n
<1>1. toMaster' \in [Nodes -> Seq(Packet)]
  BY Put DEF QueuesTyped, Post
<1>2. r \in Seq(Message)
  BY SeqMonotonic DEF Message
<1>3. /\ fromMaster' \in [Nodes -> Seq(Message)]
      /\ \A c \in Nodes \ {n} : fromMaster'[c] = fromMaster[c]
      /\ 1 \in DOMAIN fromMaster[n] /\ Head(fromMaster[n]) = fromMaster[n][1]
      /\ Head(fromMaster[n]) \in Message /\ Head(fromMaster[n]).type = type
      /\ \A i \in DOMAIN fromMaster'[n] :
            i + 1 \in DOMAIN fromMaster[n] /\ fromMaster'[n][i] = fromMaster[n][i + 1]
  <2>1. fromMaster \in [Nodes -> Seq(Message)] /\ fromMaster[n] # <<>>
        /\ fromMaster' = [fromMaster EXCEPT ![n] = Tail(@)] /\ Head(fromMaster[n]).type = type
    BY DEF QueuesTyped, Received
  <2> QED
    BY <2>1, Take
<1>4. QueuesTyped'
  <2>1. ASSUME NEW c \in Nodes, NEW i \in DOMAIN fromMaster'[c], fromMaster'[c][i].type # "SET_ONLINE"
        PROVE  fromMaster'[c][i].to = c
    <3>1. \E j \in DOMAIN fromMaster[c] : fromMaster'[c][i] = fromMaster[c][j]
      BY <1>3
    <3> QED
      BY <2>1, <3>1 DEF QueuesTyped, Routed
  <2> QED
    BY <1>1, <1>3, <2>1 DEF QueuesTyped, Routed
<1>5. Mail' = [[Mail EXCEPT ![<<"down", n>>] = Tail(@)] EXCEPT ![<<"up", n>>] = @ \o r]
  <2> DEFINE R == [[Mail EXCEPT ![<<"down", n>>] = Tail(@)] EXCEPT ![<<"up", n>>] = @ \o r]
  <2>1. /\ toMaster'[n] = toMaster[n] \o r /\ \A c \in Nodes \ {n} : toMaster'[c] = toMaster[c]
        /\ fromMaster'[n] = Tail(fromMaster[n]) /\ \A c \in Nodes \ {n} : fromMaster'[c] = fromMaster[c]
    BY DEF QueuesTyped, Post, Received
  <2>2. ASSUME NEW b \in Boxes PROVE R[b] = IF b[1] = "up" THEN toMaster'[b[2]] ELSE fromMaster'[b[2]]
    <3>1. /\ b[2] \in Nodes /\ b[1] \in {"up", "down"} /\ <<"down", n>> # <<"up", n>>
          /\ b = <<"up", n>> <=> b[1] = "up" /\ b[2] = n
          /\ b = <<"down", n>> <=> b[1] = "down" /\ b[2] = n
      BY DEF Boxes
    <3>2. R[b] = IF b = <<"up", n>> THEN Mail[b] \o r
                 ELSE IF b = <<"down", n>> THEN Tail(Mail[b]) ELSE Mail[b]
      BY <3>1 DEF Mail
    <3>3. Mail[b] = IF b[1] = "up" THEN toMaster[b[2]] ELSE fromMaster[b[2]]
      BY DEF Mail
    <3> QED
      BY <2>1, <3>1, <3>2, <3>3
  <2>3. R = [b \in Boxes |-> R[b]]
    BY DEF Mail
  <2> QED
    BY <2>2, <2>3 DEF Mail
<1>6. type # "SET_ONLINE" => Head(fromMaster[n]) \in Packet /\ Head(fromMaster[n]).to = n
  BY <1>3, MessageFacts DEF QueuesTyped, Routed
<1> QED
  BY <1>2, <1>3, <1>4, <1>5, <1>6, MailTyped DEF Received, After, Without, First, Up, Down

Notices == {"CLIENT_CONNECT", "CLIENT_DISCONNECT"}

\* The master server forwards a packet, or counts a notice and tells the login server.
Forwards(n, k, x) ==
    /\ toMaster[n] # <<>> /\ Head(toMaster[n]) \in Packet
    /\ toMaster' = [toMaster EXCEPT ![n] = Tail(@)]
    /\ fromMaster' = [fromMaster EXCEPT ![k] = @ \o <<x>>]
    /\ \/ x = Head(toMaster[n]) /\ x.type \notin Notices /\ k = x.to /\ info' = info
       \/ x.type = "SET_ONLINE" /\ k = Login /\ Head(toMaster[n]).type \in Notices

LEMMA MasterForwards ==
    ASSUME SessionsAssumption, SessionsTypeOK, QueuesTyped, NEW n \in Nodes, MasterStep(n)
    PROVE  \E k \in Nodes, x \in Message : Forwards(n, k, x)
<1> DEFINE m == Head(toMaster[n])
<1>1. m \in Packet /\ toMaster[n] # <<>> /\ toMaster' = [toMaster EXCEPT ![n] = Tail(@)]
  BY Take DEF QueuesTyped, MasterStep
<1>2. Login \in Nodes /\ Packet \subseteq Message
  BY Constants DEF Message
<1>3. \A k \in Nodes : fromMaster[k] \in Seq(Message)
  BY DEF QueuesTyped
<1>4. ASSUME NEW a, NEW b \in BOOLEAN, Announce(a, b), m.type \in Notices, a = m.account
      PROVE  \E k \in Nodes, x \in Message : Forwards(n, k, x)
  <2> DEFINE x == [type |-> "SET_ONLINE", account |-> a, online |-> b]
  <2>1. x \in Message /\ x.type = "SET_ONLINE"
    BY <1>1, <1>4, PacketFacts DEF Message, Notices
  <2>2. Append(fromMaster[Login], x) = fromMaster[Login] \o <<x>>
    BY <1>2, <1>3, <2>1, AppendIsConcat
  <2>3. fromMaster' = [fromMaster EXCEPT ![Login] = @ \o <<x>>]
    BY <1>4, <2>2 DEF Announce
  <2> HIDE DEF x
  <2> QED
    BY <1>1, <1>2, <1>4, <2>1, <2>3 DEF Forwards
<1>5. CASE m.type = "CLIENT_CONNECT" /\ OnClientConnect(n, m.account)
  BY <1>4, <1>5 DEF OnClientConnect, Notices
<1>6. CASE m.type = "CLIENT_DISCONNECT" /\ OnClientDisconnect(n, m.account)
  <2> DEFINE b == info[m.account] # NoID /\ \E k \in Kinds :
                     [Entry(m.account) EXCEPT ![Kind(n)] = @ - 1][k] > 0
  <2>1. b \in BOOLEAN /\ Announce(m.account, b)
    BY <1>6 DEF OnClientDisconnect
  <2> HIDE DEF b
  <2> QED
    BY <1>4, <1>6, <2>1 DEF Notices
<1>7. CASE m.to # Master /\ fromMaster' = [fromMaster EXCEPT ![m.to] = Append(@, m)] /\ info' = info
  <2>1. m.type \notin Notices /\ m.to \in Nodes /\ m \in Message
    BY <1>1, <1>2, <1>7, PacketFacts DEF Notices
  <2>2. Append(fromMaster[m.to], m) = fromMaster[m.to] \o <<m>>
    BY <1>3, <2>1, AppendIsConcat
  <2> QED
    BY <1>1, <1>7, <2>1, <2>2 DEF Forwards
<1> QED
  BY <1>5, <1>6, <1>7 DEF MasterStep

LEMMA MailForwarded ==
    ASSUME SessionsAssumption, QueuesTyped, NEW n \in Nodes, NEW k \in Nodes, NEW x \in Message,
           Forwards(n, k, x)
    PROVE  /\ QueuesTyped'
           /\ Mail[Up(n)] # <<>> /\ First(Mail, Up(n)) = Head(toMaster[n])
           /\ Mail' = After(Without(Mail, Up(n)), Down(k), <<x>>)
<1> DEFINE r == <<x>>
<1>0. r \in Seq(Message) /\ DOMAIN r = {1} /\ r[1] = x
  OBVIOUS
<1>1. /\ toMaster[n] # <<>> /\ toMaster' = [toMaster EXCEPT ![n] = Tail(@)]
      /\ fromMaster' = [fromMaster EXCEPT ![k] = @ \o r]
      /\ x.type # "SET_ONLINE" => x.to = k
  BY DEF Forwards
<1> HIDE DEF r
<1>2. toMaster \in [Nodes -> Seq(Packet)] /\ fromMaster \in [Nodes -> Seq(Message)]
  BY DEF QueuesTyped
<1>3. toMaster' \in [Nodes -> Seq(Packet)]
  BY <1>1, <1>2, Take
<1>4. /\ fromMaster' \in [Nodes -> Seq(Message)]
      /\ \A c \in Nodes \ {k} : fromMaster'[c] = fromMaster[c]
      /\ \A i \in DOMAIN fromMaster[k] : fromMaster'[k][i] = fromMaster[k][i]
      /\ Len(fromMaster[k]) \in Nat /\ DOMAIN r = 1 .. Len(r)
      /\ \A i \in DOMAIN r : fromMaster'[k][Len(fromMaster[k]) + i] = r[i]
      /\ \A i \in DOMAIN fromMaster'[k] : i \in DOMAIN fromMaster[k] \/ i - Len(fromMaster[k]) \in DOMAIN r
      /\ DOMAIN fromMaster'[k] = 1 .. Len(fromMaster[k]) + Len(r) /\ Len(r) \in Nat
  <2>1. fromMaster \in [Nodes -> Seq(Message)] /\ r \in Seq(Message) /\ fromMaster' = [fromMaster EXCEPT ![k] = @ \o r]
    BY <1>0, <1>1, <1>2
  <2> QED
    BY <2>1, Put
<1>5. Routed'
  <2>1. ASSUME NEW c \in Nodes, NEW i \in DOMAIN fromMaster'[c], fromMaster'[c][i].type # "SET_ONLINE"
        PROVE  fromMaster'[c][i].to = c
    <3>1. CASE c # k \/ i \in DOMAIN fromMaster[c]
      <4>1. i \in DOMAIN fromMaster[c] /\ fromMaster'[c][i] = fromMaster[c][i]
        BY <1>4, <3>1
      <4> QED
        BY <2>1, <4>1 DEF QueuesTyped, Routed
    <3>2. CASE c = k /\ i \notin DOMAIN fromMaster[c]
      <4>1. i - Len(fromMaster[k]) = 1 /\ i \in Nat
        BY <1>0, <1>4, <3>2
      <4>2. i = Len(fromMaster[k]) + 1
        BY <1>4, <4>1
      <4> QED
        BY <1>0, <1>1, <1>4, <2>1, <3>2, <4>2
    <3> QED
      BY <3>1, <3>2
  <2> QED
    BY <2>1 DEF Routed
<1>6. Mail' = [[Mail EXCEPT ![<<"up", n>>] = Tail(@)] EXCEPT ![<<"down", k>>] = @ \o r]
  <2> DEFINE R == [[Mail EXCEPT ![<<"up", n>>] = Tail(@)] EXCEPT ![<<"down", k>>] = @ \o r]
  <2>1. /\ toMaster'[n] = Tail(toMaster[n]) /\ \A c \in Nodes \ {n} : toMaster'[c] = toMaster[c]
        /\ fromMaster'[k] = fromMaster[k] \o r /\ \A c \in Nodes \ {k} : fromMaster'[c] = fromMaster[c]
    BY <1>1, <1>2
  <2>2. ASSUME NEW b \in Boxes PROVE R[b] = IF b[1] = "up" THEN toMaster'[b[2]] ELSE fromMaster'[b[2]]
    <3>1. /\ b[2] \in Nodes /\ b[1] \in {"up", "down"} /\ <<"down", k>> # <<"up", n>>
          /\ b = <<"up", n>> <=> b[1] = "up" /\ b[2] = n
          /\ b = <<"down", k>> <=> b[1] = "down" /\ b[2] = k
      BY DEF Boxes
    <3>2. R[b] = IF b = <<"down", k>> THEN Mail[b] \o r
                 ELSE IF b = <<"up", n>> THEN Tail(Mail[b]) ELSE Mail[b]
      BY <3>1 DEF Mail
    <3>3. Mail[b] = IF b[1] = "up" THEN toMaster[b[2]] ELSE fromMaster[b[2]]
      BY DEF Mail
    <3> QED
      BY <2>1, <3>1, <3>2, <3>3
  <2>3. R = [b \in Boxes |-> R[b]]
    BY DEF Mail
  <2> QED
    BY <2>2, <2>3 DEF Mail
<1>7. QueuesTyped'
  BY <1>3, <1>4, <1>5 DEF QueuesTyped
<1> QED
  BY <1>1, <1>6, <1>7, MailTyped DEF r, After, Without, First, Up, Down

-----------------------------------------------------------------------------
(* Tokens on their way                                                     *)

LEMMA SendsTokenless ==
    ASSUME SessionsAssumption, QueuesTyped, NEW n \in Nodes, NEW r \in Seq(Packet), Post(n, r),
           UNCHANGED fromMaster, \A i \in DOMAIN r : ~IsToken(r[i]), Clashes(Mail) = {}
    PROVE  QueuesTyped' /\ TokensIn(Mail') \subseteq TokensIn(Mail) /\ Clashes(Mail') = {}
<1>1. r \in Seq(Message) /\ Mail' = After(Mail, Up(n), r) /\ QueuesTyped'
  BY MailSends
<1>2. Mail \in [Boxes -> Seq(Message)] /\ Up(n) \in Boxes
  BY MailTyped
<1> QED
  BY <1>1, <1>2, PutTokenless

LEMMA SendsToken ==
    ASSUME SessionsAssumption, QueuesTyped, NEW n \in Nodes, NEW m \in Packet, IsToken(m), Post(n, <<m>>),
           UNCHANGED fromMaster, \A x \in TokensIn(Mail) : Target(x) # Target(m), Clashes(Mail) = {}
    PROVE  QueuesTyped' /\ TokensIn(Mail') \subseteq TokensIn(Mail) \union {m} /\ Clashes(Mail') = {}
<1>0. <<m>> \in Seq(Packet) /\ m \in Message
  BY DEF Message
<1>1. Mail' = After(Mail, Up(n), <<m>>) /\ QueuesTyped'
  BY <1>0, MailSends
<1>2. Mail \in [Boxes -> Seq(Message)] /\ Up(n) \in Boxes
  BY MailTyped
<1> QED
  BY <1>0, <1>1, <1>2, PutToken

LEMMA HandlesTokenless ==
    ASSUME SessionsAssumption, QueuesTyped, NEW n \in Nodes, NEW type, Received(n, type),
           NEW r \in Seq(Packet), Post(n, r), \A i \in DOMAIN r : ~IsToken(r[i]), Clashes(Mail) = {}
    PROVE  /\ TokensIn(Mail') \subseteq TokensIn(Mail) /\ Clashes(Mail') = {}
           /\ Head(fromMaster[n]).type \in TokenTypes =>
                 /\ Head(fromMaster[n]) \in TokensIn(Mail)
                 /\ \A x \in TokensIn(Mail') : Target(x) # Target(Head(fromMaster[n]))
<1> DEFINE R == Without(Mail, Down(n))
           m == First(Mail, Down(n))
<1>1. r \in Seq(Message) /\ Mail[Down(n)] # <<>> /\ m = Head(fromMaster[n]) /\ Mail' = After(R, Up(n), r)
  BY MailHandled
<1>2. Mail \in [Boxes -> Seq(Message)] /\ Down(n) \in Boxes /\ Up(n) \in Boxes
  BY MailTyped
<1>3. /\ R \in [Boxes -> Seq(Message)] /\ TokensIn(R) \subseteq TokensIn(Mail) /\ Clashes(R) = {}
      /\ m.type \in TokenTypes =>
            m \in TokensIn(Mail) /\ \A x \in TokensIn(R) : Target(x) # Target(m)
  BY <1>1, <1>2, TakeOne
<1> HIDE DEF R, m
<1>4. TokensIn(Mail') \subseteq TokensIn(R) /\ Clashes(Mail') = {}
  BY <1>1, <1>2, <1>3, PutTokenless
<1> QED
  BY <1>1, <1>3, <1>4

LEMMA HandlesToken ==
    ASSUME SessionsAssumption, QueuesTyped, NEW n \in Nodes, NEW type, Received(n, type),
           Head(fromMaster[n]).type \in TokenTypes, NEW m \in Packet, IsToken(m), Post(n, <<m>>),
           Target(m) = Target(Head(fromMaster[n])), Clashes(Mail) = {}
    PROVE  /\ TokensIn(Mail') \subseteq TokensIn(Mail) \union {m} /\ Clashes(Mail') = {}
           /\ Head(fromMaster[n]) \in TokensIn(Mail)
<1> DEFINE R == Without(Mail, Down(n))
<1>0. <<m>> \in Seq(Packet) /\ m \in Message
  BY DEF Message
<1>1. /\ Mail[Down(n)] # <<>> /\ First(Mail, Down(n)) = Head(fromMaster[n])
      /\ Mail' = After(R, Up(n), <<m>>)
  BY <1>0, MailHandled
<1>2. Mail \in [Boxes -> Seq(Message)] /\ Down(n) \in Boxes /\ Up(n) \in Boxes
  BY MailTyped
<1>3. /\ R \in [Boxes -> Seq(Message)] /\ TokensIn(R) \subseteq TokensIn(Mail) /\ Clashes(R) = {}
      /\ Head(fromMaster[n]) \in TokensIn(Mail)
      /\ \A x \in TokensIn(R) : Target(x) # Target(m)
  BY <1>1, <1>2, TakeOne
<1> HIDE DEF R
<1>4. TokensIn(Mail') \subseteq TokensIn(R) \union {m} /\ Clashes(Mail') = {}
  BY <1>0, <1>1, <1>2, <1>3, PutToken
<1> QED
  BY <1>3, <1>4

LEMMA MasterTokens ==
    ASSUME SessionsAssumption, QueuesTyped, NEW n \in Nodes, NEW k \in Nodes, NEW x \in Message,
           Forwards(n, k, x), Clashes(Mail) = {}
    PROVE  TokensIn(Mail') \subseteq TokensIn(Mail) /\ Clashes(Mail') = {}
<1> DEFINE R == Without(Mail, Up(n))
<1>1. /\ Mail[Up(n)] # <<>> /\ First(Mail, Up(n)) = Head(toMaster[n])
      /\ Mail' = After(R, Down(k), <<x>>)
  BY MailForwarded
<1>2. Mail \in [Boxes -> Seq(Message)] /\ Down(k) \in Boxes /\ Up(n) \in Boxes
  BY MailTyped
<1>3. /\ R \in [Boxes -> Seq(Message)] /\ TokensIn(R) \subseteq TokensIn(Mail) /\ Clashes(R) = {}
      /\ Head(toMaster[n]).type \in TokenTypes =>
            /\ Head(toMaster[n]) \in TokensIn(Mail)
            /\ \A y \in TokensIn(R) : Target(y) # Target(Head(toMaster[n]))
  BY <1>1, <1>2, TakeOne
<1> HIDE DEF R
<1>4. CASE x.type \in TokenTypes
  <2>1. x = Head(toMaster[n]) /\ IsToken(x)
    BY <1>4 DEF Forwards, IsToken, TokenTypes
  <2>3. \A y \in TokensIn(R) : Target(y) # Target(x)
    BY <1>3, <1>4, <2>1
  <2>4. Mail' = After(R, Down(k), <<x>>) /\ Clashes(R) = {} /\ R \in [Boxes -> Seq(Message)]
    BY <1>1, <1>3
  <2>5. IsToken(x)
    BY <2>1
  <2>2. TokensIn(Mail') \subseteq TokensIn(R) \union {x} /\ Clashes(Mail') = {}
    BY <1>2, <2>3, <2>4, <2>5, PutToken
  <2> QED
    BY <1>3, <1>4, <2>1, <2>2
<1>5. CASE x.type \notin TokenTypes
  <2> DEFINE r == <<x>>
  <2>1. r \in Seq(Message) /\ \A i \in DOMAIN r : ~IsToken(r[i])
    BY <1>5 DEF IsToken
  <2>2. Mail' = After(R, Down(k), r)
    BY <1>1
  <2> HIDE DEF r
  <2> QED
    BY <1>2, <1>3, <2>1, <2>2, PutTokenless
<1> QED
  BY <1>4, <1>5

-----------------------------------------------------------------------------
(* Connections                                                             *)

ConnTyped == conn \in [Servers -> Seq(Connection)]

LEMMA HeldIs ==
    ASSUME NEW p, NEW t \in Servers, NEW j
    PROVE  <<t, j>> \in Held(p) <=> IsOpen(t, j, p)
<1>1. ASSUME <<t, j>> \in Held(p) PROVE IsOpen(t, j, p)
  <2>1. PICK u \in Servers : <<t, j>> \in {u} \X DOMAIN conn[u]
    BY <1>1 DEF Held
  <2>2. t = u /\ j \in DOMAIN conn[t]
    BY <2>1
  <2> QED
    BY <1>1, <2>2 DEF Held, IsOpen
<1>2. ASSUME IsOpen(t, j, p) PROVE <<t, j>> \in Held(p)
  <2>1. <<t, j>> \in {t} \X DOMAIN conn[t]
    BY <1>2 DEF IsOpen
  <2> QED
    BY <1>2, <2>1 DEF Held, IsOpen
<1> QED
  BY <1>1, <1>2

LEMMA HeldAre ==
    ASSUME NEW p, NEW c \in Held(p)
    PROVE  c[1] \in Servers /\ c = <<c[1], c[2]>> /\ IsOpen(c[1], c[2], p)
<1>1. PICK t \in Servers : c \in {t} \X DOMAIN conn[t]
  BY DEF Held
<1>2. c[1] = t /\ c = <<c[1], c[2]>> /\ c[2] \in DOMAIN conn[t]
  BY <1>1
<1> QED
  BY <1>2 DEF Held, IsOpen

LEMMA ConnFacts ==
    ASSUME ConnTyped, NEW s \in Servers
    PROVE  /\ conn[s] \in Seq(Connection) /\ Len(conn[s]) \in Nat /\ DOMAIN conn[s] = 1 .. Len(conn[s])
           /\ \A i \in DOMAIN conn[s] :
                 /\ i \in Nat /\ conn[s][i] \in Connection
                 /\ conn[s][i].player \in Players /\ conn[s][i].state \in States
                 /\ conn[s][i].flags \subseteq Flags /\ conn[s][i].account \in Accounts \union {NoID}
<1>1. conn[s] \in Seq(Connection)
  BY DEF ConnTyped
<1>2. /\ Len(conn[s]) \in Nat /\ DOMAIN conn[s] = 1 .. Len(conn[s])
      /\ \A i \in DOMAIN conn[s] : conn[s][i] \in Connection
  BY <1>1, LenProperties, ElementOfSeq
<1>3. \A i \in DOMAIN conn[s] : i \in Nat
  BY <1>2
<1>4. \A c \in Connection : c.player \in Players /\ c.state \in States /\ c.flags \subseteq Flags
                            /\ c.account \in Accounts \union {NoID}
  BY DEF Connection
<1> QED
  BY <1>1, <1>2, <1>3, <1>4

LEMMA Changed ==
    ASSUME ConnTyped, NEW s \in Servers, NEW i \in DOMAIN conn[s], NEW c \in Connection,
           conn' = [conn EXCEPT ![s][i] = c]
    PROVE  /\ ConnTyped'
           /\ \A t \in Servers : DOMAIN conn'[t] = DOMAIN conn[t]
           /\ conn'[s][i] = c
           /\ \A t \in Servers : \A j : (t = s /\ j = i) \/ conn'[t][j] = conn[t][j]
<1>1. /\ conn[s] \in Seq(Connection) /\ DOMAIN conn[s] = 1 .. Len(conn[s])
  BY ConnFacts
<1>2. conn'[s] = [conn[s] EXCEPT ![i] = c] /\ \A t \in Servers \ {s} : conn'[t] = conn[t]
  BY DEF ConnTyped
<1>3. conn'[s] \in Seq(Connection) /\ DOMAIN conn'[s] = DOMAIN conn[s]
  BY <1>1, <1>2, ExceptSeq
<1>4. conn'[s][i] = c /\ \A j : j = i \/ conn'[s][j] = conn[s][j]
  BY <1>2
<1>5. conn' \in [Servers -> Seq(Connection)]
  BY <1>2, <1>3 DEF ConnTyped
<1> QED
  BY <1>2, <1>3, <1>4, <1>5 DEF ConnTyped

LEMMA TargetPair ==
    ASSUME NEW x, NEW y, Target(x)[1] = Target(y)[1], Target(x)[2] = Target(y)[2]
    PROVE  Target(x) = Target(y)
  BY DEF Target

\* A connection that is open stays what it is or opens up no other.
LEMMA Steady ==
    ASSUME ConnTyped, AllSound, OneEach,
           NEW s \in Servers, NEW i \in DOMAIN conn[s], NEW c \in Connection, conn' = [conn EXCEPT ![s][i] = c],
           c.player = conn[s][i].player,
           c.state = "open" => conn[s][i].state = "open" /\ conn[s][i].flags \subseteq c.flags,
           Sound(s, c)
    PROVE  /\ ConnTyped' /\ AllSound' /\ OneEach'
           /\ \A t \in Servers : \A j, p : IsOpen(t, j, p)' =>
                 /\ IsOpen(t, j, p)
                 /\ conn'[t][j] = conn[t][j] \/ (t = s /\ j = i /\ c.state = "open")
           /\ \A x : /\ Fresh(x)
                     /\ Target(x)[1] = s /\ Target(x)[2] = i =>
                           /\ c.account = NoID /\ c.flags \subseteq {"handed"}
                           /\ c.state # "gone" => "handed" \in c.flags
                     => Fresh(x)'
<1>1. /\ ConnTyped'
      /\ \A t \in Servers : DOMAIN conn'[t] = DOMAIN conn[t]
      /\ conn'[s][i] = c
      /\ \A t \in Servers : \A j : (t = s /\ j = i) \/ conn'[t][j] = conn[t][j]
  BY Changed
<1>2. AllSound'
  <2> SUFFICES ASSUME NEW t \in Servers, NEW j \in DOMAIN conn'[t] PROVE Sound(t, conn'[t][j])
    BY DEF AllSound
  <2>1. CASE t = s /\ j = i
    BY <1>1, <2>1
  <2>2. CASE conn'[t][j] = conn[t][j]
    BY <1>1, <2>2 DEF AllSound
  <2> QED
    BY <1>1, <2>1, <2>2
<1>3. \A t \in Servers : \A j, p : IsOpen(t, j, p)' =>
         /\ IsOpen(t, j, p)
         /\ conn'[t][j] = conn[t][j] \/ (t = s /\ j = i /\ c.state = "open")
  <2> SUFFICES ASSUME NEW t \in Servers, NEW j, NEW p,
                      j \in DOMAIN conn'[t] /\ conn'[t][j].state = "open" /\ conn'[t][j].player = p
               PROVE  /\ j \in DOMAIN conn[t] /\ conn[t][j].state = "open" /\ conn[t][j].player = p
                      /\ conn'[t][j] = conn[t][j] \/ (t = s /\ j = i /\ c.state = "open")
    BY DEF IsOpen
  <2>1. CASE t = s /\ j = i
    BY <1>1, <2>1
  <2>2. CASE conn'[t][j] = conn[t][j]
    BY <1>1, <2>2
  <2> QED
    BY <1>1, <2>1, <2>2
<1>4. OneEach'
  BY <1>3 DEF OneEach
<1>5. ASSUME NEW x, Fresh(x),
             Target(x)[1] = s /\ Target(x)[2] = i =>
                /\ c.account = NoID /\ c.flags \subseteq {"handed"}
                /\ c.state # "gone" => "handed" \in c.flags
      PROVE  Fresh(x)'
  <2> DEFINE u == Target(x)[1]
             k == Target(x)[2]
  <2>1. /\ u \in Servers /\ k \in DOMAIN conn[u]
        /\ conn[u][k].account = NoID /\ conn[u][k].flags \subseteq {"handed"}
        /\ conn[u][k].state # "gone" => "handed" \in conn[u][k].flags
    BY <1>5 DEF Fresh, Has
  <2>2. conn[u][k].state = "open" =>
           \A t \in Servers, j \in Nat :
              j \in DOMAIN conn[t] /\ conn[t][j].state = "open" /\ conn[t][j].player = conn[u][k].player =>
                 \/ <<t, j>> = <<u, k>>
                 \/ t = Login /\ FromLogin(x, j) /\ "verified" \in conn[Login][j].flags
    BY <1>5 DEF Fresh, Has, IsOpen
  <2> HIDE DEF u, k
  <2>3. /\ conn'[u][k].account = NoID /\ conn'[u][k].flags \subseteq {"handed"}
        /\ conn'[u][k].state # "gone" => "handed" \in conn'[u][k].flags
        /\ conn'[u][k].player = conn[u][k].player
        /\ conn'[u][k].state = "open" => conn[u][k].state = "open"
    <3>1. CASE u = s /\ k = i
      BY <1>1, <1>5, <3>1 DEF u, k
    <3>2. CASE conn'[u][k] = conn[u][k]
      BY <2>1, <3>2
    <3> QED
      BY <1>1, <2>1, <3>1, <3>2
  <2>4. ASSUME conn'[u][k].state = "open", NEW t \in Servers, NEW j \in Nat,
               j \in DOMAIN conn'[t] /\ conn'[t][j].state = "open" /\ conn'[t][j].player = conn'[u][k].player,
               <<t, j>> # <<u, k>>
        PROVE  t = Login /\ FromLogin(x, j) /\ "verified" \in conn'[Login][j].flags
    <3>1. j \in DOMAIN conn[t] /\ conn[t][j].state = "open" /\ conn[t][j].player = conn[u][k].player
      BY <1>3, <2>4 DEF IsOpen
    <3>2. t = Login /\ FromLogin(x, j) /\ "verified" \in conn[Login][j].flags
      BY <2>2, <2>3, <2>4, <3>1
    <3>3. conn'[t][j] = conn[t][j] \/ (t = s /\ j = i /\ c.state = "open")
      BY <1>3, <2>4 DEF IsOpen
    <3> QED
      BY <1>1, <3>2, <3>3
  <2>5. /\ u \in Servers /\ k \in DOMAIN conn'[u]
        /\ conn'[u][k].state = "open" =>
              \A t \in Servers, j \in Nat :
                 /\ j \in DOMAIN conn'[t] /\ conn'[t][j].state = "open"
                 /\ conn'[t][j].player = conn'[u][k].player
                 =>
                 \/ <<t, j>> = <<u, k>>
                 \/ t = Login /\ FromLogin(x, j) /\ "verified" \in conn'[Login][j].flags
    BY <1>1, <2>1, <2>4
  <2> QED
    BY <2>3, <2>5 DEF Fresh, Has, u, k, IsOpen
<1> QED
  BY <1>1, <1>2, <1>3, <1>4, <1>5

-----------------------------------------------------------------------------
(* Answers on their way                                                    *)

LEMMA AnswersStay ==
    ASSUME SessionsAssumption, QueuesTyped, NEW n \in Nodes, NEW r \in Seq(Packet), Post(n, r),
           \/ fromMaster' = fromMaster
           \/ fromMaster[n] # <<>> /\ fromMaster' = [fromMaster EXCEPT ![n] = Tail(@)],
           NEW j \in Answered,
           n = Login /\ fromMaster' # fromMaster => Head(fromMaster[Login]) # LinkAnswer(j, 1)
    PROVE  j \in Answered'
<1>1. /\ toMaster \in [Nodes -> Seq(Packet)] /\ fromMaster \in [Nodes -> Seq(Message)]
      /\ Worlds \subseteq Nodes /\ Login \in Nodes
  BY Constants DEF QueuesTyped
<1>2. CASE \E w \in Worlds : \E k \in DOMAIN toMaster[w] : toMaster[w][k] = LinkAnswer(j, 1)
  <2>0. PICK w \in Worlds : \E k \in DOMAIN toMaster[w] : toMaster[w][k] = LinkAnswer(j, 1)
    BY <1>2
  <2>1. PICK k \in DOMAIN toMaster[w] : toMaster[w][k] = LinkAnswer(j, 1)
    BY <2>0
  <2>2. toMaster' = [toMaster EXCEPT ![n] = @ \o r]
    BY DEF Post
  <2>3. k \in DOMAIN toMaster'[w] /\ toMaster'[w][k] = toMaster[w][k]
    <3>1. CASE w = n
      <4>1. /\ Len(toMaster[n]) \in Nat /\ DOMAIN toMaster[n] = 1 .. Len(toMaster[n])
            /\ Len(r) \in Nat /\ DOMAIN toMaster'[n] = 1 .. Len(toMaster[n]) + Len(r)
            /\ \A i \in DOMAIN toMaster[n] : toMaster'[n][i] = toMaster[n][i]
        BY <1>1, <2>2, Put
      <4> QED
        BY <3>1, <4>1
    <3>2. CASE w # n
      BY <1>1, <2>2, <3>2
    <3> QED
      BY <3>1, <3>2
  <2> QED
    BY <2>1, <2>3 DEF Answered
<1>3. CASE \E k \in DOMAIN fromMaster[Login] : fromMaster[Login][k] = LinkAnswer(j, 1)
  <2>1. PICK k \in DOMAIN fromMaster[Login] : fromMaster[Login][k] = LinkAnswer(j, 1)
    BY <1>3
  <2>2. CASE fromMaster'[Login] = fromMaster[Login]
    BY <2>1, <2>2 DEF Answered
  <2>3. CASE fromMaster'[Login] # fromMaster[Login]
    <3>1. n = Login /\ fromMaster[n] # <<>> /\ fromMaster' = [fromMaster EXCEPT ![n] = Tail(@)]
      BY <1>1, <2>3
    <3>2. /\ Head(fromMaster[n]) = fromMaster[n][1]
          /\ \A i \in DOMAIN fromMaster[n] :
                i # 1 => i - 1 \in DOMAIN fromMaster'[n] /\ fromMaster'[n][i - 1] = fromMaster[n][i]
      BY <1>1, <3>1, Take
    <3>3. k # 1
      BY <2>1, <2>3, <3>1, <3>2
    <3>4. k - 1 \in DOMAIN fromMaster'[Login] /\ fromMaster'[Login][k - 1] = LinkAnswer(j, 1)
      BY <2>1, <3>1, <3>2, <3>3
    <3> QED
      BY <3>4 DEF Answered
  <2> QED
    BY <2>2, <2>3
<1> QED
  BY <1>2, <1>3 DEF Answered

LEMMA AnswersForwarded ==
    ASSUME SessionsAssumption, QueuesTyped, NEW n \in Nodes, NEW k \in Nodes, NEW x \in Message,
           Forwards(n, k, x), NEW j \in Answered
    PROVE  j \in Answered'
<1>1. /\ toMaster \in [Nodes -> Seq(Packet)] /\ fromMaster \in [Nodes -> Seq(Message)]
      /\ Worlds \subseteq Nodes /\ Login \in Nodes /\ <<x>> \in Seq(Message)
  BY Constants DEF QueuesTyped
<1>2. /\ toMaster[n] # <<>> /\ toMaster' = [toMaster EXCEPT ![n] = Tail(@)]
      /\ fromMaster' = [fromMaster EXCEPT ![k] = @ \o <<x>>]
  BY DEF Forwards
<1>3. /\ Len(fromMaster[k]) \in Nat /\ DOMAIN fromMaster[k] = 1 .. Len(fromMaster[k])
      /\ DOMAIN fromMaster'[k] = 1 .. Len(fromMaster[k]) + Len(<<x>>)
      /\ \A i \in DOMAIN fromMaster[k] : fromMaster'[k][i] = fromMaster[k][i]
      /\ \A i \in DOMAIN <<x>> : Len(fromMaster[k]) + i \in DOMAIN fromMaster'[k]
                                 /\ fromMaster'[k][Len(fromMaster[k]) + i] = <<x>>[i]
  BY <1>1, <1>2, Put
<1>4. \A i \in DOMAIN fromMaster[Login] :
         i \in DOMAIN fromMaster'[Login] /\ fromMaster'[Login][i] = fromMaster[Login][i]
  <2>1. CASE k = Login
    BY <1>3, <2>1
  <2>2. CASE k # Login
    BY <1>1, <1>2, <2>2
  <2> QED
    BY <2>1, <2>2
<1>5. \E i \in DOMAIN fromMaster'[k] : fromMaster'[k][i] = x
  BY <1>3
<1>6. CASE \E i \in DOMAIN fromMaster[Login] : fromMaster[Login][i] = LinkAnswer(j, 1)
  BY <1>4, <1>6 DEF Answered
<1>7. CASE \E w \in Worlds : \E i \in DOMAIN toMaster[w] : toMaster[w][i] = LinkAnswer(j, 1)
  <2>0. PICK w \in Worlds : \E i \in DOMAIN toMaster[w] : toMaster[w][i] = LinkAnswer(j, 1)
    BY <1>7
  <2>1. PICK i \in DOMAIN toMaster[w] : toMaster[w][i] = LinkAnswer(j, 1)
    BY <2>0
  <2>2. CASE w # n
    <3>1. toMaster'[w] = toMaster[w]
      BY <1>1, <1>2, <2>2
    <3> QED
      BY <2>1, <3>1 DEF Answered
  <2>3. CASE w = n
    <3>1. /\ Head(toMaster[n]) = toMaster[n][1]
          /\ \A e \in DOMAIN toMaster[n] :
                e # 1 => e - 1 \in DOMAIN toMaster'[n] /\ toMaster'[n][e - 1] = toMaster[n][e]
      BY <1>1, <1>2, Take
    <3>2. CASE i # 1
      <4>1. i - 1 \in DOMAIN toMaster'[w] /\ toMaster'[w][i - 1] = LinkAnswer(j, 1)
        BY <2>1, <2>3, <3>1, <3>2
      <4> QED
        BY <4>1 DEF Answered
    <3>3. CASE i = 1
      <4>1. Head(toMaster[n]) = LinkAnswer(j, 1)
        BY <2>1, <2>3, <3>1, <3>3
      <4>2. x = LinkAnswer(j, 1) /\ k = Login
        BY <4>1 DEF Forwards, Notices, LinkAnswer
      <4> QED
        BY <1>5, <4>2 DEF Answered
    <3> QED
      BY <3>2, <3>3
  <2> QED
    BY <2>2, <2>3
<1> QED
  BY <1>6, <1>7 DEF Answered

-----------------------------------------------------------------------------
(* Sessions                                                                *)

\* No flag of an open connection changes.
LEMMA Hushed ==
    ASSUME SessionsAssumption, OneVerified, LoginToo,
           \A t \in Servers, j \in Nat, p \in Players : IsOpen(t, j, p)' =>
              IsOpen(t, j, p) /\ conn'[t][j].flags = conn[t][j].flags,
           \A j \in Nat, p \in Players : IsOpen(Login, j, p)' /\ j \in Answered => j \in Answered'
    PROVE  OneVerified' /\ LoginToo'
<1>1. OneVerified'
  BY Constants DEF OneVerified, Has
<1>2. LoginToo'
  <2> SUFFICES ASSUME NEW w \in Worlds, NEW p \in Players, NEW i \in Nat, NEW j \in Nat,
                      IsOpen(w, i, p)', "verified" \in conn'[w][i].flags, IsOpen(Login, j, p)'
               PROVE  \/ conn'[Login][j].flags = {"handed"}
                      \/ "verified" \in conn'[Login][j].flags /\ j \in Answered'
    BY DEF LoginToo, Has
  <2>1. /\ IsOpen(w, i, p) /\ "verified" \in conn[w][i].flags
        /\ IsOpen(Login, j, p) /\ conn'[Login][j].flags = conn[Login][j].flags
    BY Constants
  <2>2. \/ conn[Login][j].flags = {"handed"}
        \/ "verified" \in conn[Login][j].flags /\ j \in Answered
    BY <2>1 DEF LoginToo, Has
  <2> QED
    BY <2>1, <2>2
<1> QED
  BY <1>1, <1>2

\* A connection the flags of which change is the only one of its player.
LEMMA Lone ==
    ASSUME SessionsAssumption, OneVerified, LoginToo, NEW s \in Servers, NEW i \in Nat,
           \A t \in Servers, j \in Nat, p \in Players : IsOpen(t, j, p)' =>
              IsOpen(t, j, p) /\ (conn'[t][j].flags = conn[t][j].flags \/ (t = s /\ j = i)),
           \A t \in Servers, j \in Nat, p \in Players : IsOpen(s, i, p)' /\ IsOpen(t, j, p)' => t = s /\ j = i,
           \A j \in Nat, p \in Players : IsOpen(Login, j, p)' /\ j \in Answered => j \in Answered'
    PROVE  OneVerified' /\ LoginToo'
<1>1. OneVerified'
  <2> SUFFICES ASSUME NEW w \in Worlds, NEW v \in Worlds, NEW p \in Players, NEW k \in Nat, NEW j \in Nat,
                      IsOpen(w, k, p)', "verified" \in conn'[w][k].flags,
                      IsOpen(v, j, p)', "verified" \in conn'[v][j].flags
               PROVE  w = v
    BY DEF OneVerified, Has
  <2>1. CASE (w = s /\ k = i) \/ (v = s /\ j = i)
    BY <2>1, Constants
  <2>2. CASE ~(w = s /\ k = i) /\ ~(v = s /\ j = i)
    BY <2>2, Constants DEF OneVerified, Has
  <2> QED
    BY <2>1, <2>2
<1>2. LoginToo'
  <2> SUFFICES ASSUME NEW w \in Worlds, NEW p \in Players, NEW k \in Nat, NEW j \in Nat,
                      IsOpen(w, k, p)', "verified" \in conn'[w][k].flags, IsOpen(Login, j, p)'
               PROVE  \/ conn'[Login][j].flags = {"handed"}
                      \/ "verified" \in conn'[Login][j].flags /\ j \in Answered'
    BY DEF LoginToo, Has
  <2>0. w \in Servers /\ Login \in Servers /\ w # Login
    BY Constants
  <2>1. /\ IsOpen(w, k, p) /\ "verified" \in conn[w][k].flags
        /\ IsOpen(Login, j, p) /\ conn'[Login][j].flags = conn[Login][j].flags
    BY <2>0
  <2>2. \/ conn[Login][j].flags = {"handed"}
        \/ "verified" \in conn[Login][j].flags /\ j \in Answered
    BY <2>1 DEF LoginToo, Has
  <2> QED
    BY <2>1, <2>2
<1> QED
  BY <1>1, <1>2

\* A connection closes, or is forgotten.
LEMMA Closes ==
    ASSUME SessionsAssumption, ConnTyped, AllSound, OneEach, OneVerified, LoginToo,
           NEW s \in Servers, NEW i \in DOMAIN conn[s], NEW c \in Connection, conn' = [conn EXCEPT ![s][i] = c],
           c.player = conn[s][i].player, c.state # "open",
           \/ /\ c.account = conn[s][i].account /\ c.flags = conn[s][i].flags
              /\ c.state = "left" => conn[s][i].state \in {"open", "left"}
              /\ c.state = "gone" <=> conn[s][i].state = "gone"
           \/ c.state = "gone" /\ c.account = NoID /\ c.flags = {},
           \A j \in Nat, p \in Players : IsOpen(Login, j, p)' /\ j \in Answered => j \in Answered'
    PROVE  /\ ConnTyped' /\ AllSound' /\ OneEach' /\ OneVerified' /\ LoginToo'
           /\ \A x : Fresh(x) => Fresh(x)'
<1>1. Sound(s, conn[s][i])
  BY DEF AllSound
<1>2. Sound(s, c)
  BY <1>1 DEF Sound
<1>3. /\ ConnTyped' /\ AllSound' /\ OneEach'
      /\ \A t \in Servers : \A j, p : IsOpen(t, j, p)' =>
            /\ IsOpen(t, j, p)
            /\ conn'[t][j] = conn[t][j] \/ (t = s /\ j = i /\ c.state = "open")
      /\ \A x : /\ Fresh(x)
                /\ Target(x)[1] = s /\ Target(x)[2] = i =>
                      /\ c.account = NoID /\ c.flags \subseteq {"handed"}
                      /\ c.state # "gone" => "handed" \in c.flags
                => Fresh(x)'
  BY <1>2, Steady
<1>4. ASSUME NEW x, Fresh(x), Target(x)[1] = s /\ Target(x)[2] = i
      PROVE  /\ c.account = NoID /\ c.flags \subseteq {"handed"}
             /\ c.state # "gone" => "handed" \in c.flags
  <2>1. /\ conn[Target(x)[1]][Target(x)[2]].account = NoID
        /\ conn[Target(x)[1]][Target(x)[2]].flags \subseteq {"handed"}
        /\ conn[Target(x)[1]][Target(x)[2]].state # "gone" =>
              "handed" \in conn[Target(x)[1]][Target(x)[2]].flags
    BY <1>4 DEF Fresh, Has
  <2> QED
    BY <1>4, <2>1
<1>5. \A x : Fresh(x) => Fresh(x)'
  BY <1>3, <1>4
<1>6. OneVerified' /\ LoginToo'
  <2>1. \A t \in Servers, j \in Nat, p \in Players : IsOpen(t, j, p)' =>
           IsOpen(t, j, p) /\ conn'[t][j].flags = conn[t][j].flags
    BY <1>3
  <2> QED
    BY <2>1, Hushed
<1> QED
  BY <1>3, <1>5, <1>6

LEMMA DisconnectedFacts ==
    ASSUME NEW c \in Connection
    PROVE  /\ Disconnected(c) \in Connection
           /\ Disconnected(c).player = c.player /\ Disconnected(c).account = c.account
           /\ Disconnected(c).flags = c.flags /\ Disconnected(c).state \in {"closing", "gone"}
           /\ Disconnected(c).state = "gone" <=> c.state = "gone"
  BY DEF Disconnected, Connection, States

\* What is not sent is not there.
LEMMA MailSame ==
    ASSUME QueuesTyped, UNCHANGED <<toMaster, fromMaster>>
    PROVE  QueuesTyped' /\ Mail' = Mail /\ Answered' = Answered
  BY DEF QueuesTyped, Routed, Mail, Answered

LEMMA TokensStayFresh ==
    ASSUME TokensFresh, TokensIn(Mail') \subseteq TokensIn(Mail),
           \A x \in TokensIn(Mail') : Fresh(x) => Fresh(x)'
    PROVE  TokensFresh'
<1> SUFFICES ASSUME NEW x \in TokensIn(Mail)' PROVE Fresh(x)'
  BY DEF TokensFresh
<1>1. x \in TokensIn(Mail')
  BY AfterMail
<1>2. Fresh(x)
  BY <1>1 DEF TokensFresh
<1> QED
  BY <1>1, <1>2

Core == /\ SessionsTypeOK /\ QueuesTyped
        /\ Clashes(Mail) = {} /\ TokensFresh
        /\ AllSound /\ OneEach /\ OneVerified /\ LoginToo

LEMMA CoreLeave ==
    ASSUME SessionsAssumption, Core, NEW s \in Servers, NEW i \in DOMAIN conn[s],
           \/ HangUp(s, i) \/ NoticeEnd(s, i) \/ (s = Login /\ Timeout(i))
    PROVE  Core'
<1>1. ConnTyped /\ QueuesTyped /\ AllSound /\ OneEach /\ OneVerified /\ LoginToo /\ TokensFresh
  BY DEF Core, ConnTyped, SessionsTypeOK
<1>2. conn[s][i] \in Connection
  BY <1>1, ConnFacts
<1>3. PICK c \in Connection :
         /\ conn' = [conn EXCEPT ![s][i] = c] /\ c.player = conn[s][i].player /\ c.state # "open"
         /\ c.account = conn[s][i].account /\ c.flags = conn[s][i].flags
         /\ c.state = "left" => conn[s][i].state \in {"open", "left"}
         /\ c.state = "gone" <=> conn[s][i].state = "gone"
  <2>1. CASE HangUp(s, i)
    <3> DEFINE c == [conn[s][i] EXCEPT !.state = "left"]
    <3>1. /\ c \in Connection /\ c.player = conn[s][i].player /\ c.state = "left"
          /\ c.account = conn[s][i].account /\ c.flags = conn[s][i].flags
      BY <1>2 DEF Connection, States
    <3>2. conn' = [conn EXCEPT ![s][i] = c] /\ conn[s][i].state = "open"
      BY <2>1 DEF HangUp
    <3> HIDE DEF c
    <3> QED
      BY <3>1, <3>2
  <2>2. CASE NoticeEnd(s, i) \/ (s = Login /\ Timeout(i))
    <3>1. conn' = [conn EXCEPT ![s][i] = Disconnected(conn[s][i])]
      BY <2>2 DEF NoticeEnd, Timeout
    <3> QED
      BY <1>2, <3>1, DisconnectedFacts
  <2> QED
    BY <2>1, <2>2
<1>4. UNCHANGED <<toMaster, fromMaster, info, online, mistyped>>
  BY DEF HangUp, NoticeEnd, Timeout
<1>5. QueuesTyped' /\ Mail' = Mail /\ Answered' = Answered
  BY <1>1, <1>4, MailSame
<1>6. /\ ConnTyped' /\ AllSound' /\ OneEach' /\ OneVerified' /\ LoginToo'
      /\ \A x : Fresh(x) => Fresh(x)'
  BY <1>1, <1>3, <1>5, Closes
<1>7. TokensFresh' /\ (Clashes(Mail) = {})'
  BY <1>1, <1>5, <1>6, TokensStayFresh, AfterMail DEF Core
<1>8. SessionsTypeOK'
  BY <1>4, <1>6 DEF Core, SessionsTypeOK, ConnTyped
<1> QED
  BY <1>5, <1>6, <1>7, <1>8 DEF Core

LEMMA CountedNotice ==
    ASSUME SessionsAssumption, NEW a \in Accounts \union {NoID}, NEW m \in Packet, m.type \in Notices
    PROVE  /\ IfCounted(a, m) \in Seq(Packet)
           /\ \A i \in DOMAIN IfCounted(a, m) : ~IsToken(IfCounted(a, m)[i])
           /\ a = NoID => IfCounted(a, m) = <<>>
           /\ a # NoID => IfCounted(a, m) = <<m>>
<1>1. <<m>> \in Seq(Packet) /\ <<>> \in Seq(Packet) /\ DOMAIN <<m>> = {1} /\ <<m>>[1] = m
  OBVIOUS
<1>2. m.type \notin TokenTypes
  BY DEF Notices, TokenTypes
<1>3. \A i \in DOMAIN <<>> : FALSE
  OBVIOUS
<1> QED
  BY <1>1, <1>2, <1>3 DEF IfCounted, IsToken

\* A server sends packets that are no tokens while a connection closes.
LEMMA CoreSent ==
    ASSUME SessionsAssumption, Core, NEW n \in Nodes, NEW r \in Seq(Packet), Post(n, r),
           \A i \in DOMAIN r : ~IsToken(r[i]), UNCHANGED fromMaster,
           ConnTyped' /\ AllSound' /\ OneEach' /\ OneVerified' /\ LoginToo',
           \A x \in TokensIn(Mail) : Fresh(x) => Fresh(x)',
           UNCHANGED <<info, online, mistyped>>
    PROVE  Core'
<1>1. QueuesTyped /\ TokensFresh /\ Clashes(Mail) = {}
  BY DEF Core
<1>2. QueuesTyped' /\ TokensIn(Mail') \subseteq TokensIn(Mail) /\ Clashes(Mail') = {}
  BY <1>1, SendsTokenless
<1>3. TokensFresh'
  BY <1>1, <1>2, TokensStayFresh
<1>4. SessionsTypeOK'
  BY DEF Core, SessionsTypeOK, ConnTyped
<1> QED
  BY <1>2, <1>3, <1>4, AfterMail DEF Core

LEMMA CoreClose ==
    ASSUME SessionsAssumption, Core, NEW s \in Servers, NEW i \in DOMAIN conn[s], Close(s, i)
    PROVE  Core'
<1> DEFINE a == conn[s][i].account
           r == IfCounted(a, DisconnectNotice(a))
           c == [conn[s][i] EXCEPT !.state = "gone", !.flags = {}, !.account = NoID]
<1>1. ConnTyped /\ QueuesTyped /\ AllSound /\ OneEach /\ OneVerified /\ LoginToo
  BY DEF Core, ConnTyped, SessionsTypeOK
<1>2. conn[s][i] \in Connection /\ a \in Accounts \union {NoID}
  BY <1>1, ConnFacts
<1>3. /\ c \in Connection /\ c.player = conn[s][i].player /\ c.state = "gone"
      /\ c.account = NoID /\ c.flags = {}
  BY <1>2 DEF Connection, States
<1>4. conn' = [conn EXCEPT ![s][i] = c] /\ Post(s, r) /\ UNCHANGED <<fromMaster, info, online, mistyped>>
  BY DEF Close
<1> HIDE DEF c
<1>5. s \in Nodes /\ r \in Seq(Packet) /\ \A k \in DOMAIN r : ~IsToken(r[k])
  <2>1. CASE a = NoID
    <3>1. r = <<>>
      BY <2>1 DEF IfCounted
    <3> QED
      BY <3>1, Constants
  <2>2. CASE a # NoID
    <3>1. DisconnectNotice(a) \in Packet /\ DisconnectNotice(a).type \in Notices
      BY <1>2, <2>2 DEF Packet, DisconnectNotice, Notices
    <3> QED
      BY <1>2, <3>1, CountedNotice, Constants
  <2> QED
    BY <2>1, <2>2
<1> HIDE DEF r
<1>6. \A j \in Answered : j \in Answered'
  BY <1>1, <1>4, <1>5, AnswersStay
<1>7. /\ ConnTyped' /\ AllSound' /\ OneEach' /\ OneVerified' /\ LoginToo'
      /\ \A x : Fresh(x) => Fresh(x)'
  BY <1>1, <1>3, <1>4, <1>6, Closes
<1> QED
  BY <1>4, <1>5, <1>7, CoreSent

\* A node handles a packet, and sends none that is a token.
LEMMA CoreHandled ==
    ASSUME SessionsAssumption, Core, NEW n \in Nodes, NEW type, Received(n, type),
           NEW r \in Seq(Packet), Post(n, r), \A i \in DOMAIN r : ~IsToken(r[i]),
           ConnTyped' /\ AllSound' /\ OneEach' /\ OneVerified' /\ LoginToo',
           \A x \in TokensIn(Mail) :
              /\ Fresh(x)
              /\ type \in TokenTypes => Target(x) # Target(Head(fromMaster[n]))
              => Fresh(x)',
           UNCHANGED <<info, mistyped>>, online' \in [Accounts -> BOOLEAN]
    PROVE  Core'
<1>1. QueuesTyped /\ TokensFresh /\ Clashes(Mail) = {}
  BY DEF Core
<1>2. /\ TokensIn(Mail') \subseteq TokensIn(Mail) /\ Clashes(Mail') = {}
      /\ Head(fromMaster[n]).type \in TokenTypes =>
            \A x \in TokensIn(Mail') : Target(x) # Target(Head(fromMaster[n]))
  BY <1>1, HandlesTokenless
<1>3. QueuesTyped' /\ Head(fromMaster[n]).type = type
  BY <1>1, MailHandled
<1>4. \A x \in TokensIn(Mail') : Fresh(x) => Fresh(x)'
  BY <1>2, <1>3
<1>5. TokensFresh'
  BY <1>1, <1>2, <1>4, TokensStayFresh
<1>6. SessionsTypeOK'
  BY DEF Core, SessionsTypeOK, ConnTyped
<1> QED
  BY <1>2, <1>3, <1>5, <1>6, AfterMail DEF Core

LEMMA Unmoved ==
    ASSUME SessionsAssumption, ConnTyped, AllSound, OneEach, OneVerified, LoginToo, conn' = conn,
           \A j \in Answered : j \in Answered'
    PROVE  /\ ConnTyped' /\ AllSound' /\ OneEach' /\ OneVerified' /\ LoginToo'
           /\ \A x : Fresh(x) => Fresh(x)'
<1>1. ConnTyped' /\ AllSound' /\ OneEach'
  BY DEF ConnTyped, AllSound, OneEach, IsOpen
<1>2. \A x : Fresh(x) => Fresh(x)'
  BY DEF Fresh, IsOpen, Has
<1>3. \A t \in Servers, j \in Nat, p \in Players : IsOpen(t, j, p)' =>
         IsOpen(t, j, p) /\ conn'[t][j].flags = conn[t][j].flags
  BY DEF IsOpen
<1>4. OneVerified' /\ LoginToo'
  BY <1>3, Hushed
<1> QED
  BY <1>1, <1>2, <1>4

LEMMA CoreSetOnline ==
    ASSUME SessionsAssumption, Core, OnSetOnline
    PROVE  Core'
<1> DEFINE m == Head(fromMaster[Login])
<1>1. ConnTyped /\ QueuesTyped /\ AllSound /\ OneEach /\ OneVerified /\ LoginToo
  BY DEF Core, ConnTyped, SessionsTypeOK
<1>2. /\ Received(Login, "SET_ONLINE") /\ online' = [online EXCEPT ![m.account] = m.online]
      /\ UNCHANGED <<conn, toMaster, info, mistyped>>
  BY DEF OnSetOnline
<1>3. Login \in Nodes
  BY Constants
<1>4. Post(Login, <<>>) /\ <<>> \in Seq(Packet)
  BY <1>1, <1>2, <1>3, NothingSent
<1>5. m \in Message /\ m.type = "SET_ONLINE"
  BY <1>1, <1>2, <1>3, <1>4, MailHandled
<1>6. online' \in [Accounts -> BOOLEAN]
  BY <1>2, <1>5, MessageFacts DEF Core, SessionsTypeOK
<1>7. \A j \in Answered : j \in Answered'
  <2>1. \A j : m # LinkAnswer(j, 1)
    BY <1>5 DEF LinkAnswer
  <2>2. fromMaster[Login] # <<>> /\ fromMaster' = [fromMaster EXCEPT ![Login] = Tail(@)]
    BY <1>2 DEF Received
  <2> QED
    BY <1>1, <1>3, <1>4, <2>1, <2>2, AnswersStay
<1>8. /\ ConnTyped' /\ AllSound' /\ OneEach' /\ OneVerified' /\ LoginToo'
      /\ \A x : Fresh(x) => Fresh(x)'
  BY <1>1, <1>2, <1>7, Unmoved
<1>9. \A i \in DOMAIN <<>> : ~IsToken(<<>>[i])
  OBVIOUS
<1> QED
  BY <1>2, <1>3, <1>4, <1>6, <1>8, <1>9, CoreHandled

\* A connection ends by a packet.
LEMMA CoreEnded ==
    ASSUME SessionsAssumption, Core, NEW s \in Servers, NEW type,
           type \in {"W2L_VERIFY_LINKS", "RESPONSE_VERIFY_LINKS"}, type = "W2L_VERIFY_LINKS" <=> s = Login,
           Received(s, type),
           conn' = IF Found(s, Head(fromMaster[s]).target)
                   THEN [conn EXCEPT ![s][Head(fromMaster[s]).target] = Disconnected(@)]
                   ELSE conn,
           UNCHANGED <<toMaster, info, online, mistyped>>
    PROVE  Core'
<1> DEFINE m == Head(fromMaster[s])
<1>1. ConnTyped /\ QueuesTyped /\ AllSound /\ OneEach /\ OneVerified /\ LoginToo
  BY DEF Core, ConnTyped, SessionsTypeOK
<1>3. s \in Nodes
  BY Constants
<1>4. Post(s, <<>>) /\ <<>> \in Seq(Packet)
  BY <1>1, <1>3, NothingSent
<1>5. m \in Packet /\ m.type = type
  BY <1>1, <1>3, <1>4, MailHandled
<1>6. online' \in [Accounts -> BOOLEAN]
  BY DEF Core, SessionsTypeOK
<1>7. ASSUME NEW j \in Answered, s = Login => j # m.target
      PROVE  j \in Answered'
  <2>1. s = Login => m # LinkAnswer(j, 1)
    BY <1>7 DEF LinkAnswer
  <2>2. fromMaster[s] # <<>> /\ fromMaster' = [fromMaster EXCEPT ![s] = Tail(@)]
    BY DEF Received
  <2> QED
    BY <1>1, <1>3, <1>4, <2>1, <2>2, AnswersStay
<1> HIDE DEF m
<1>8. /\ ConnTyped' /\ AllSound' /\ OneEach' /\ OneVerified' /\ LoginToo'
      /\ \A x : Fresh(x) => Fresh(x)'
  <2>1. CASE Found(s, m.target)
    <3> DEFINE i == m.target
               c == Disconnected(conn[s][i])
    <3>1. i \in DOMAIN conn[s] /\ conn' = [conn EXCEPT ![s][i] = c]
      BY <2>1 DEF Found, m
    <3>2. conn[s][i] \in Connection
      BY <1>1, <3>1, ConnFacts
    <3>3. /\ c \in Connection /\ c.player = conn[s][i].player /\ c.state # "open"
          /\ c.account = conn[s][i].account /\ c.flags = conn[s][i].flags
          /\ c.state # "left"
          /\ c.state = "gone" <=> conn[s][i].state = "gone"
      BY <3>2, DisconnectedFacts
    <3> HIDE DEF c, i
    <3>4. conn'[s][i] = c
      BY <1>1, <3>1, <3>3, Changed
    <3>5. \A j \in Nat, p \in Players : IsOpen(Login, j, p)' /\ j \in Answered => j \in Answered'
      BY <1>7, <3>3, <3>4 DEF IsOpen, i
    <3> QED
      BY <1>1, <3>1, <3>3, <3>5, Closes
  <2>2. CASE ~Found(s, m.target)
    <3>1. conn' = conn
      BY <2>2 DEF m
    <3>2. \A t \in Servers, j \in Nat, p \in Players : IsOpen(t, j, p)' =>
             IsOpen(t, j, p) /\ conn'[t][j].flags = conn[t][j].flags
      BY <3>1 DEF IsOpen
    <3>3. \A j \in Nat, p \in Players : IsOpen(Login, j, p)' /\ j \in Answered => j \in Answered'
      BY <1>7, <2>2, <3>1 DEF IsOpen, Found
    <3>4. OneVerified' /\ LoginToo'
      BY <1>1, <3>2, <3>3, Hushed
    <3>5. ConnTyped' /\ AllSound' /\ OneEach'
      BY <1>1, <3>1 DEF ConnTyped, AllSound, OneEach, IsOpen
    <3>6. \A x : Fresh(x) => Fresh(x)'
      BY <3>1 DEF Fresh, IsOpen, Has
    <3> QED
      BY <3>4, <3>5, <3>6
  <2> QED
    BY <2>1, <2>2
<1>9. \A i \in DOMAIN <<>> : ~IsToken(<<>>[i])
  OBVIOUS
<1> QED
  BY <1>3, <1>4, <1>6, <1>8, <1>9, CoreHandled

LEMMA CoreEnd ==
    ASSUME SessionsAssumption, Core, OnLinkAnswer \/ \E w \in Worlds : OnWorldResponse(w)
    PROVE  Core'
<1>1. CASE OnLinkAnswer
  BY <1>1, CoreEnded, Constants DEF OnLinkAnswer
<1>2. ASSUME NEW w \in Worlds, OnWorldResponse(w) PROVE Core'
  BY <1>2, CoreEnded, Constants DEF OnWorldResponse
<1> QED
  BY <1>1, <1>2

\* The session a packet stands for goes over to another one.
LEMMA FreshLike ==
    ASSUME NEW x, NEW y, Fresh(x), Target(y) = Target(x), \A i : FromLogin(x, i) => FromLogin(y, i)
    PROVE  Fresh(y)
<1> DEFINE s == Target(x)[1]
           j == Target(x)[2]
<1>1. /\ s \in Servers /\ j \in DOMAIN conn[s]
      /\ conn[s][j].account = NoID
      /\ conn[s][j].flags \subseteq {"handed"}
      /\ conn[s][j].state # "gone" => "handed" \in conn[s][j].flags
      /\ conn[s][j].state = "open" =>
            \A t \in Servers, i \in Nat :
               /\ i \in DOMAIN conn[t] /\ conn[t][i].state = "open"
               /\ conn[t][i].player = conn[s][j].player
               => \/ <<t, i>> = <<s, j>>
                  \/ t = Login /\ FromLogin(x, i) /\ "verified" \in conn[Login][i].flags
  BY DEF Fresh, Has, IsOpen
<1> HIDE DEF s, j
<1>2. conn[s][j].state = "open" =>
            \A t \in Servers, i \in Nat :
               /\ i \in DOMAIN conn[t] /\ conn[t][i].state = "open"
               /\ conn[t][i].player = conn[s][j].player
               => \/ <<t, i>> = <<s, j>>
                  \/ t = Login /\ FromLogin(y, i) /\ "verified" \in conn[Login][i].flags
  BY <1>1
<1> QED
  BY <1>1, <1>2 DEF Fresh, Has, IsOpen, s, j

LEMMA CoreMoved ==
    ASSUME SessionsAssumption, Core, NEW n \in Nodes, NEW type \in TokenTypes, Received(n, type),
           NEW m \in Packet, IsToken(m), Post(n, <<m>>), Target(m) = Target(Head(fromMaster[n])),
           \A i : FromLogin(Head(fromMaster[n]), i) => FromLogin(m, i),
           UNCHANGED <<conn, info, online, mistyped>>
    PROVE  Core'
<1> DEFINE h == Head(fromMaster[n])
<1>1. QueuesTyped /\ TokensFresh /\ Clashes(Mail) = {} /\ ConnTyped /\ AllSound /\ OneEach /\ OneVerified /\ LoginToo
  BY DEF Core, ConnTyped, SessionsTypeOK
<1>2. <<m>> \in Seq(Packet)
  OBVIOUS
<1>3. QueuesTyped' /\ h.type = type
  BY <1>1, <1>2, MailHandled
<1>4. TokensIn(Mail') \subseteq TokensIn(Mail) \union {m} /\ Clashes(Mail') = {} /\ h \in TokensIn(Mail)
  BY <1>1, <1>3, HandlesToken
<1>5. \A j \in Answered : j \in Answered'
  <2>1. \A j : h # LinkAnswer(j, 1)
    BY <1>3 DEF LinkAnswer, TokenTypes
  <2>2. fromMaster[n] # <<>> /\ fromMaster' = [fromMaster EXCEPT ![n] = Tail(@)]
    BY DEF Received
  <2> QED
    BY <1>1, <1>2, <2>1, <2>2, AnswersStay
<1>6. /\ ConnTyped' /\ AllSound' /\ OneEach' /\ OneVerified' /\ LoginToo'
      /\ \A x : Fresh(x) => Fresh(x)'
  BY <1>1, <1>5, Unmoved
<1>7. TokensFresh'
  <2> SUFFICES ASSUME NEW x \in TokensIn(Mail)' PROVE Fresh(x)'
    BY DEF TokensFresh
  <2>1. x \in TokensIn(Mail) \/ x = m
    BY <1>4, AfterMail
  <2>2. CASE x \in TokensIn(Mail)
    BY <1>1, <1>6, <2>2 DEF TokensFresh
  <2>3. CASE x = m
    <3>1. Fresh(h)
      BY <1>1, <1>4 DEF TokensFresh
    <3>2. Fresh(m)
      BY <3>1, FreshLike
    <3> QED
      BY <1>6, <2>3, <3>2
  <2> QED
    BY <2>1, <2>2, <2>3
<1>8. SessionsTypeOK'
  BY <1>6 DEF Core, SessionsTypeOK, ConnTyped
<1> QED
  BY <1>3, <1>4, <1>6, <1>7, <1>8, AfterMail DEF Core

LEMMA CoreLoginLink ==
    ASSUME SessionsAssumption, Core, NEW w \in Worlds, OnLoginLink(w)
    PROVE  Core'
<1> DEFINE m == Head(fromMaster[w])
           x == [to |-> Database, type |-> "W2D_AUTHENTICATE", node |-> w,
                 target |-> m.entity, account |-> m.account, link |-> m.from]
           r == IF Found(w, m.entity) /\ ~Has(w, m.entity, "verified")
                THEN <<x>> ELSE <<LinkAnswer(m.from, 0)>>
<1>0. w \in Nodes /\ w \in Servers
  BY Constants
<1>1. QueuesTyped /\ TokensFresh /\ ConnTyped /\ AllSound /\ OneEach /\ OneVerified /\ LoginToo
  BY DEF Core, ConnTyped, SessionsTypeOK
<1>2. Received(w, "L2W_VERIFY_LINKS") /\ Post(w, r) /\ UNCHANGED <<conn, info, online, mistyped>>
  BY DEF OnLoginLink
<1>3. m \in Packet /\ m.to = w /\ m.type = "L2W_VERIFY_LINKS"
  <2>1. /\ fromMaster[w] # <<>> /\ m.type = "L2W_VERIFY_LINKS"
        /\ fromMaster \in [Nodes -> Seq(Message)] /\ fromMaster' = [fromMaster EXCEPT ![w] = Tail(@)]
    BY <1>1, <1>2 DEF Received, QueuesTyped
  <2>2. m \in Message /\ 1 \in DOMAIN fromMaster[w] /\ m = fromMaster[w][1]
    BY <1>0, <2>1, Take
  <2> QED
    BY <1>0, <1>1, <2>1, <2>2, MessageFacts DEF QueuesTyped, Routed
<1>4. m.from \in Nat /\ m.entity \in Nat /\ m.account \in Accounts
  BY <1>3, PacketFacts
<1>5. CASE Found(w, m.entity) /\ ~Has(w, m.entity, "verified")
  <2>1. x \in Packet /\ IsToken(x) /\ Post(w, <<x>>)
    BY <1>2, <1>4, <1>5, PacketsMade, Constants DEF IsToken, TokenTypes
  <2>2. Target(x) = Target(m)
    BY <1>3 DEF Target
  <2>3. \A i : FromLogin(m, i) => FromLogin(x, i)
    BY <1>3 DEF FromLogin
  <2>4. "L2W_VERIFY_LINKS" \in TokenTypes
    BY DEF TokenTypes
  <2> HIDE DEF x
  <2> QED
    BY <1>0, <1>2, <2>1, <2>2, <2>3, <2>4, CoreMoved
<1>6. CASE ~(Found(w, m.entity) /\ ~Has(w, m.entity, "verified"))
  <2> DEFINE q == <<LinkAnswer(m.from, 0)>>
  <2>1. LinkAnswer(m.from, 0) \in Packet /\ ~IsToken(LinkAnswer(m.from, 0))
    BY <1>4, PacketsMade, Constants DEF IsToken, TokenTypes, LinkAnswer
  <2>2. q \in Seq(Packet) /\ \A i \in DOMAIN q : ~IsToken(q[i])
    BY <2>1
  <2>3. Post(w, q)
    BY <1>2, <1>6
  <2> HIDE DEF q, r, x
  <2>5. \A j \in Answered : j \in Answered'
    <3>1. \A j : m # LinkAnswer(j, 1)
      BY <1>3 DEF LinkAnswer
    <3>2. fromMaster[w] # <<>> /\ fromMaster' = [fromMaster EXCEPT ![w] = Tail(@)]
      BY <1>2 DEF Received
    <3> QED
      BY <1>0, <1>1, <2>2, <2>3, <3>1, <3>2, AnswersStay
  <2>6. /\ ConnTyped' /\ AllSound' /\ OneEach' /\ OneVerified' /\ LoginToo'
        /\ \A y : Fresh(y) => Fresh(y)'
    BY <1>1, <1>2, <2>5, Unmoved
  <2>7. online' \in [Accounts -> BOOLEAN]
    BY <1>2 DEF Core, SessionsTypeOK
  <2> QED
    BY <1>0, <1>2, <2>2, <2>3, <2>6, <2>7, CoreHandled
<1> QED
  BY <1>5, <1>6

LEMMA CoreDatabase ==
    ASSUME SessionsAssumption, Core, NEW success \in BOOLEAN, OnDatabaseAuthenticate(success)
    PROVE  Core'
<1> DEFINE m == Head(fromMaster[Database])
           x == [to |-> m.node, type |-> "D2W_AUTHENTICATE", target |-> m.target,
                 account |-> m.account, link |-> m.link, success |-> success]
<1>0. Database \in Nodes
  BY Constants
<1>1. QueuesTyped
  BY DEF Core
<1>2. Received(Database, "W2D_AUTHENTICATE") /\ Post(Database, <<x>>) /\ UNCHANGED <<conn, info, online, mistyped>>
  BY DEF OnDatabaseAuthenticate
<1>3. m \in Packet /\ m.type = "W2D_AUTHENTICATE"
  <2>1. /\ fromMaster[Database] # <<>> /\ m.type = "W2D_AUTHENTICATE"
        /\ fromMaster \in [Nodes -> Seq(Message)] /\ fromMaster' = [fromMaster EXCEPT ![Database] = Tail(@)]
    BY <1>1, <1>2 DEF Received, QueuesTyped
  <2>2. m \in Message
    BY <1>0, <2>1, Take
  <2> QED
    BY <2>1, <2>2, MessageFacts
<1>4. m.node \in Worlds /\ m.target \in Nat /\ m.account \in Accounts /\ m.link \in Nat
  BY <1>3, PacketFacts
<1>5. x \in Packet /\ IsToken(x)
  BY <1>4, PacketsMade, Constants DEF IsToken, TokenTypes
<1>6. Target(x) = Target(m)
  BY <1>3 DEF Target
<1>7. \A i : FromLogin(m, i) => FromLogin(x, i)
  BY <1>3 DEF FromLogin
<1>8. "W2D_AUTHENTICATE" \in TokenTypes
  BY DEF TokenTypes
<1> HIDE DEF x
<1> QED
  BY <1>0, <1>2, <1>5, <1>6, <1>7, <1>8, CoreMoved

LEMMA EntryTyped ==
    ASSUME SessionsAssumption, SessionsTypeOK, NEW a \in Accounts
    PROVE  /\ Entry(a) \in [Kinds -> Int]
           /\ \A n \in Nodes : /\ Kind(n) \in Kinds
                               /\ [Entry(a) EXCEPT ![Kind(n)] = @ + 1] \in [Kinds -> Int]
                               /\ [Entry(a) EXCEPT ![Kind(n)] = @ - 1] \in [Kinds -> Int]
<1>1. Entry(a) \in [Kinds -> Int]
  BY DEF Entry, NoConnections, SessionsTypeOK
<1>2. \A n \in Nodes : Kind(n) \in Kinds
  BY DEF Kind, Kinds
<1> HIDE DEF Kinds
<1> QED
  BY <1>1, <1>2

LEMMA CoreMaster ==
    ASSUME SessionsAssumption, Core, NEW n \in Nodes, MasterStep(n)
    PROVE  Core'
<1>1. /\ QueuesTyped /\ TokensFresh /\ Clashes(Mail) = {} /\ SessionsTypeOK
      /\ ConnTyped /\ AllSound /\ OneEach /\ OneVerified /\ LoginToo
  BY DEF Core, ConnTyped, SessionsTypeOK
<1>2. PICK k \in Nodes, x \in Message : Forwards(n, k, x)
  BY <1>1, MasterForwards
<1>3. QueuesTyped' /\ TokensIn(Mail') \subseteq TokensIn(Mail) /\ Clashes(Mail') = {}
  BY <1>1, <1>2, MailForwarded, MasterTokens
<1>4. \A j \in Answered : j \in Answered'
  BY <1>1, <1>2, AnswersForwarded
<1>5. UNCHANGED <<conn, online, mistyped>>
  BY DEF MasterStep
<1>6. /\ ConnTyped' /\ AllSound' /\ OneEach' /\ OneVerified' /\ LoginToo'
      /\ \A y : Fresh(y) => Fresh(y)'
  BY <1>1, <1>4, <1>5, Unmoved
<1>7. TokensFresh'
  BY <1>1, <1>3, <1>6, TokensStayFresh
<1>8. info' \in [Accounts -> [Kinds -> Int] \union {NoID}]
  <2> DEFINE m == Head(toMaster[n])
             a == m.account
  <2>0. m \in Packet
    <3>1. toMaster[n] # <<>> /\ toMaster \in [Nodes -> Seq(Packet)] /\ toMaster' = [toMaster EXCEPT ![n] = Tail(@)]
      BY <1>1 DEF MasterStep, QueuesTyped
    <3> QED
      BY <3>1, Take
  <2>1. info \in [Accounts -> [Kinds -> Int] \union {NoID}]
    BY <1>1 DEF SessionsTypeOK
  <2> HIDE DEF Kinds
  <2>2. CASE m.type = "CLIENT_CONNECT" /\ OnClientConnect(n, a)
    <3>1. a \in Accounts
      BY <2>0, <2>2, PacketFacts
    <3>2. [Entry(a) EXCEPT ![Kind(n)] = @ + 1] \in [Kinds -> Int]
      BY <1>1, <3>1, EntryTyped
    <3>3. info' = [info EXCEPT ![a] = [Entry(a) EXCEPT ![Kind(n)] = @ + 1]]
      BY <2>2 DEF OnClientConnect
    <3> QED
      BY <2>1, <3>2, <3>3
  <2>3. CASE m.type = "CLIENT_DISCONNECT" /\ OnClientDisconnect(n, a)
    <3>1. a \in Accounts
      BY <2>0, <2>3, PacketFacts
    <3>2. [Entry(a) EXCEPT ![Kind(n)] = @ - 1] \in [Kinds -> Int]
      BY <1>1, <3>1, EntryTyped
    <3>3. PICK v \in {[Entry(a) EXCEPT ![Kind(n)] = @ - 1], NoID} : info' = [info EXCEPT ![a] = v]
      BY <2>3 DEF OnClientDisconnect
    <3> QED
      BY <2>1, <3>2, <3>3
  <2>4. CASE info' = info
    BY <2>1, <2>4
  <2> QED
    BY <2>2, <2>3, <2>4 DEF MasterStep
<1>9. SessionsTypeOK'
  BY <1>1, <1>5, <1>6, <1>8 DEF SessionsTypeOK, ConnTyped
<1> QED
  BY <1>3, <1>6, <1>7, <1>9, AfterMail DEF Core

-----------------------------------------------------------------------------
(* What players do                                                         *)

\* The connection a token is for is not yet of use.
LEMMA TargetIdle ==
    ASSUME Core, NEW x \in TokensIn(Mail), NEW s \in Servers, NEW i, Target(x)[1] = s, Target(x)[2] = i
    PROVE  /\ i \in DOMAIN conn[s] /\ conn[s][i].account = NoID /\ conn[s][i].flags \subseteq {"handed"}
           /\ conn[s][i].state # "gone" => "handed" \in conn[s][i].flags
           /\ conn[s][i].state = "open" =>
                 \A t \in Servers, j \in Nat :
                    IsOpen(t, j, conn[s][i].player) =>
                       \/ t = s /\ j = i
                       \/ t = Login /\ FromLogin(x, j) /\ "verified" \in conn[Login][j].flags
<1>1. Fresh(x)
  BY DEF Core, TokensFresh
<1>2. /\ conn[Target(x)[1]][Target(x)[2]].account = NoID /\ i \in DOMAIN conn[Target(x)[1]]
      /\ conn[Target(x)[1]][Target(x)[2]].flags \subseteq {"handed"}
      /\ conn[Target(x)[1]][Target(x)[2]].state # "gone" =>
            "handed" \in conn[Target(x)[1]][Target(x)[2]].flags
      /\ conn[Target(x)[1]][Target(x)[2]].state = "open" =>
            \A t \in Servers, j \in Nat :
               /\ j \in DOMAIN conn[t] /\ conn[t][j].state = "open"
               /\ conn[t][j].player = conn[Target(x)[1]][Target(x)[2]].player
               => \/ <<t, j>> = <<Target(x)[1], Target(x)[2]>>
                  \/ t = Login /\ FromLogin(x, j) /\ "verified" \in conn[Login][j].flags
  BY <1>1 DEF Fresh, Has, IsOpen
<1>3. /\ i \in DOMAIN conn[s] /\ conn[s][i].account = NoID /\ conn[s][i].flags \subseteq {"handed"}
      /\ conn[s][i].state # "gone" => "handed" \in conn[s][i].flags
      /\ conn[s][i].state = "open" =>
            \A t \in Servers, j \in Nat :
               /\ j \in DOMAIN conn[t] /\ conn[t][j].state = "open"
               /\ conn[t][j].player = conn[s][i].player
               => \/ t = s /\ j = i
                  \/ t = Login /\ FromLogin(x, j) /\ "verified" \in conn[Login][j].flags
  BY <1>2
<1> QED
  BY <1>3 DEF IsOpen

LEMMA Appended ==
    ASSUME ConnTyped, NEW s \in Servers, NEW c \in Connection, conn' = [conn EXCEPT ![s] = Append(@, c)]
    PROVE  \E n \in Nat \ {0} :
              /\ ConnTyped' /\ n \notin DOMAIN conn[s]
              /\ conn'[s][n] = c /\ n \in DOMAIN conn'[s]
              /\ \A t \in Servers : DOMAIN conn[t] \subseteq DOMAIN conn'[t]
              /\ \A t \in Servers : \A j \in DOMAIN conn[t] : conn'[t][j] = conn[t][j]
              /\ \A t \in Servers : \A j \in DOMAIN conn'[t] :
                    j \in DOMAIN conn[t] \/ (t = s /\ j = n)
<1> DEFINE n == Len(conn[s]) + 1
<1>1. conn[s] \in Seq(Connection) /\ Len(conn[s]) \in Nat /\ DOMAIN conn[s] = 1 .. Len(conn[s])
  BY ConnFacts
<1>2. conn'[s] = Append(conn[s], c) /\ \A t \in Servers \ {s} : conn'[t] = conn[t]
  BY DEF ConnTyped
<1>3. /\ conn'[s] \in Seq(Connection) /\ DOMAIN conn'[s] = 1 .. n
      /\ conn'[s][n] = c /\ \A j \in 1 .. Len(conn[s]) : conn'[s][j] = conn[s][j]
  BY <1>1, <1>2, AppendProperties, LenProperties
<1>4. conn' \in [Servers -> Seq(Connection)]
  BY <1>2, <1>3 DEF ConnTyped
<1>5. n \in Nat \ {0} /\ n \notin DOMAIN conn[s] /\ n \in DOMAIN conn'[s] /\ DOMAIN conn[s] \subseteq DOMAIN conn'[s]
      /\ \A j \in DOMAIN conn'[s] : j \in DOMAIN conn[s] \/ j = n
  BY <1>1, <1>3
<1> HIDE DEF n
<1> QED
  BY <1>1, <1>2, <1>3, <1>4, <1>5 DEF ConnTyped

\* Who opens a connection has at most one, of a session.
LEMMA OpensFrom ==
    ASSUME NEW p \in Players, NEW s \in Servers, MayConnect(p, s)
    PROVE  /\ \A t \in Servers : \A j : IsOpen(t, j, p) =>
                 /\ t # s /\ Held(p) # {}
                 /\ "authenticated" \in conn[t][j].flags \/ "verified" \in conn[t][j].flags
           /\ Held(p) = {} => s = Login
<1>1. CASE Held(p) = {} /\ s = Login
  BY <1>1, HeldIs
<1>2. CASE ~(Held(p) = {} /\ s = Login)
  <2>1. PICK c \in Held(p) :
           /\ Held(p) = {c} /\ c[1] # s
           /\ IF c[1] = Login
              THEN {"authenticated", "normal"} \subseteq conn[c[1]][c[2]].flags
              ELSE "verified" \in conn[c[1]][c[2]].flags
    BY <1>2 DEF MayConnect, Has
  <2>2. \A t \in Servers : \A j : IsOpen(t, j, p) => t = c[1] /\ j = c[2]
    <3> SUFFICES ASSUME NEW t \in Servers, NEW j, IsOpen(t, j, p) PROVE t = c[1] /\ j = c[2]
      OBVIOUS
    <3>1. <<t, j>> = c
      BY <2>1, HeldIs
    <3> QED
      BY <3>1
  <2>3. "authenticated" \in conn[c[1]][c[2]].flags \/ "verified" \in conn[c[1]][c[2]].flags
    BY <2>1
  <2> QED
    BY <2>1, <2>2, <2>3
<1> QED
  BY <1>1, <1>2

LEMMA CoreConnect ==
    ASSUME SessionsAssumption, Core, NEW p \in Players, NEW s \in Servers, Connect(p, s)
    PROVE  Core'
<1> DEFINE c == [player |-> p, state |-> "open", account |-> NoID,
                 flags |-> IF Held(p) = {} THEN {} ELSE {"handed"}]
<1>1. /\ QueuesTyped /\ TokensFresh /\ Clashes(Mail) = {} /\ SessionsTypeOK
      /\ ConnTyped /\ AllSound /\ OneEach /\ OneVerified /\ LoginToo
  BY DEF Core, ConnTyped, SessionsTypeOK
<1>2. /\ MayConnect(p, s) /\ conn' = [conn EXCEPT ![s] = Append(@, c)]
      /\ UNCHANGED <<toMaster, fromMaster, info, online, mistyped>>
  BY DEF Connect
<1>3. /\ c \in Connection /\ c.player = p /\ c.account = NoID /\ c.state = "open"
      /\ c.flags \subseteq {"handed"} /\ (Held(p) # {} => c.flags = {"handed"})
  BY DEF Connection, States, Flags
<1> HIDE DEF c
<1>4. /\ \A t \in Servers : \A j : IsOpen(t, j, p) =>
            /\ t # s /\ Held(p) # {}
            /\ "authenticated" \in conn[t][j].flags \/ "verified" \in conn[t][j].flags
      /\ Held(p) = {} => s = Login
  BY <1>2, OpensFrom
<1>5. PICK n \in Nat \ {0} :
         /\ ConnTyped' /\ n \notin DOMAIN conn[s]
         /\ conn'[s][n] = c /\ n \in DOMAIN conn'[s]
         /\ \A t \in Servers : DOMAIN conn[t] \subseteq DOMAIN conn'[t]
         /\ \A t \in Servers : \A j \in DOMAIN conn[t] : conn'[t][j] = conn[t][j]
         /\ \A t \in Servers : \A j \in DOMAIN conn'[t] : j \in DOMAIN conn[t] \/ (t = s /\ j = n)
  BY <1>1, <1>2, <1>3, Appended
<1>6. \A t \in Servers : \A j, q : IsOpen(t, j, q)' =>
         \/ IsOpen(t, j, q) /\ conn'[t][j] = conn[t][j]
         \/ t = s /\ j = n /\ q = p
  BY <1>3, <1>5 DEF IsOpen
<1>7. AllSound'
  <2> SUFFICES ASSUME NEW t \in Servers, NEW j \in DOMAIN conn'[t] PROVE Sound(t, conn'[t][j])
    BY DEF AllSound
  <2>1. CASE t = s /\ j = n
    <3>1. Sound(s, c)
      BY <1>3, <1>4, Constants DEF Sound
    <3> QED
      BY <1>5, <2>1, <3>1
  <2>2. CASE j \in DOMAIN conn[t]
    BY <1>1, <1>5, <2>2 DEF AllSound
  <2> QED
    BY <1>5, <2>1, <2>2
<1>8. OneEach'
  <2> SUFFICES ASSUME NEW t \in Servers, NEW q \in Players, NEW i \in Nat, NEW j \in Nat,
                      IsOpen(t, i, q)', IsOpen(t, j, q)'
               PROVE  i = j
    BY DEF OneEach
  <2>1. CASE IsOpen(t, i, q) /\ IsOpen(t, j, q)
    BY <1>1, <2>1 DEF OneEach
  <2>2. CASE ~(IsOpen(t, i, q) /\ IsOpen(t, j, q))
    BY <1>4, <1>6, <2>2
  <2> QED
    BY <2>1, <2>2
<1>9. OneVerified'
  <2> SUFFICES ASSUME NEW w \in Worlds, NEW v \in Worlds, NEW q \in Players, NEW i \in Nat, NEW j \in Nat,
                      IsOpen(w, i, q)', "verified" \in conn'[w][i].flags,
                      IsOpen(v, j, q)', "verified" \in conn'[v][j].flags
               PROVE  w = v
    BY DEF OneVerified, Has
  <2>0. w \in Servers /\ v \in Servers
    BY Constants
  <2>1. ~(w = s /\ i = n) /\ ~(v = s /\ j = n)
    BY <1>3, <1>5
  <2>2. IsOpen(w, i, q) /\ "verified" \in conn[w][i].flags /\ IsOpen(v, j, q) /\ "verified" \in conn[v][j].flags
    BY <1>6, <2>0, <2>1
  <2> QED
    BY <1>1, <2>2 DEF OneVerified, Has
<1>10. QueuesTyped' /\ Mail' = Mail /\ Answered' = Answered
  BY <1>1, <1>2, MailSame
<1>11. LoginToo'
  <2> SUFFICES ASSUME NEW w \in Worlds, NEW q \in Players, NEW i \in Nat, NEW j \in Nat,
                      IsOpen(w, i, q)', "verified" \in conn'[w][i].flags, IsOpen(Login, j, q)'
               PROVE  \/ conn'[Login][j].flags = {"handed"}
                      \/ "verified" \in conn'[Login][j].flags /\ j \in Answered'
    BY DEF LoginToo, Has
  <2>0. w \in Servers /\ Login \in Servers
    BY Constants
  <2>1. ~(w = s /\ i = n)
    BY <1>3, <1>5
  <2>2. IsOpen(w, i, q) /\ "verified" \in conn[w][i].flags
    BY <1>6, <2>0, <2>1
  <2>3. CASE Login = s /\ j = n
    <3>1. q = p
      BY <1>3, <1>5, <2>3 DEF IsOpen
    <3> QED
      BY <1>3, <1>4, <1>5, <2>0, <2>2, <2>3, <3>1
  <2>4. CASE ~(Login = s /\ j = n)
    <3>1. IsOpen(Login, j, q) /\ conn'[Login][j] = conn[Login][j]
      BY <1>6, <2>0, <2>4
    <3>2. conn[Login][j].flags = {"handed"} \/ ("verified" \in conn[Login][j].flags /\ j \in Answered)
      BY <1>1, <2>2, <3>1 DEF LoginToo, Has
    <3> QED
      BY <1>10, <3>1, <3>2
  <2> QED
    BY <2>3, <2>4
<1>12. ASSUME NEW x \in TokensIn(Mail)
       PROVE  Fresh(x)'
  <2> DEFINE u == Target(x)[1]
             k == Target(x)[2]
  <2>0. u \in Servers
    BY <1>1 DEF TokensFresh, Fresh
  <2>1. /\ k \in DOMAIN conn[u] /\ conn[u][k].account = NoID /\ conn[u][k].flags \subseteq {"handed"}
        /\ conn[u][k].state # "gone" => "handed" \in conn[u][k].flags
        /\ conn[u][k].state = "open" =>
              \A t \in Servers, j \in Nat :
                 IsOpen(t, j, conn[u][k].player) =>
                    \/ t = u /\ j = k
                    \/ t = Login /\ FromLogin(x, j) /\ "verified" \in conn[Login][j].flags
    BY <2>0, TargetIdle
  <2> HIDE DEF u, k
  <2>2. k \in DOMAIN conn'[u] /\ conn'[u][k] = conn[u][k]
    BY <1>5, <2>0, <2>1
  <2>3. ASSUME conn[u][k].state = "open", NEW t \in Servers, NEW j \in Nat,
               j \in DOMAIN conn'[t] /\ conn'[t][j].state = "open" /\ conn'[t][j].player = conn[u][k].player
        PROVE  \/ <<t, j>> = <<u, k>>
               \/ t = Login /\ FromLogin(x, j) /\ "verified" \in conn'[Login][j].flags
    <3>1. conn[u][k].player # p
      <4>1. ~IsOpen(u, k, p)
        BY <1>4, <2>0, <2>1
      <4> QED
        BY <2>1, <2>3, <4>1 DEF IsOpen
    <3>2. IsOpen(t, j, conn[u][k].player) /\ conn'[t][j] = conn[t][j]
      BY <1>3, <1>5, <2>3, <3>1 DEF IsOpen
    <3>3. \/ t = u /\ j = k
          \/ t = Login /\ FromLogin(x, j) /\ "verified" \in conn[Login][j].flags
      BY <2>1, <2>3, <3>2
    <3> QED
      BY <3>2, <3>3
  <2>4. /\ u \in Servers /\ k \in DOMAIN conn'[u]
        /\ conn'[u][k].account = NoID /\ conn'[u][k].flags \subseteq {"handed"}
        /\ conn'[u][k].state # "gone" => "handed" \in conn'[u][k].flags
        /\ conn'[u][k].state = "open" =>
              \A t \in Servers, j \in Nat :
                 /\ j \in DOMAIN conn'[t] /\ conn'[t][j].state = "open"
                 /\ conn'[t][j].player = conn'[u][k].player
                 => \/ <<t, j>> = <<u, k>>
                    \/ t = Login /\ FromLogin(x, j) /\ "verified" \in conn'[Login][j].flags
    BY <2>0, <2>1, <2>2, <2>3
  <2> QED
    BY <2>4 DEF Fresh, Has, IsOpen, u, k
<1>13. TokensFresh' /\ (Clashes(Mail) = {})'
  BY <1>1, <1>10, <1>12, TokensStayFresh, AfterMail
<1>14. SessionsTypeOK'
  BY <1>1, <1>2, <1>5 DEF SessionsTypeOK, ConnTyped
<1> QED
  BY <1>5, <1>7, <1>8, <1>9, <1>10, <1>11, <1>13, <1>14 DEF Core

LEMMA Alone ==
    ASSUME SessionsAssumption, Core, NEW p \in Players, NEW i \in DOMAIN conn[Login], MayAuthenticate(p, i)
    PROVE  /\ conn[Login][i] \in Connection /\ conn[Login][i].player = p
           /\ conn[Login][i].state = "open" /\ conn[Login][i].flags = {}
           /\ \A t \in Servers : \A j : IsOpen(t, j, p) => t = Login /\ j = i
           /\ \A x \in TokensIn(Mail) : ~(Target(x)[1] = Login /\ Target(x)[2] = i)
<1>0. Login \in Servers /\ ConnTyped
  BY Constants DEF Core, ConnTyped, SessionsTypeOK
<1>1. conn[Login][i].flags = {} /\ Held(p) = {<<Login, i>>}
  BY DEF MayAuthenticate
<1>2. conn[Login][i].player = p /\ conn[Login][i].state = "open"
  <2>1. <<Login, i>> \in Held(p)
    BY <1>1
  <2>2. IsOpen(Login, i, p)
    BY <1>0, <2>1, HeldIs
  <2> QED
    BY <2>2 DEF IsOpen
<1>3. ASSUME NEW t \in Servers, NEW j, IsOpen(t, j, p) PROVE t = Login /\ j = i
  <2>1. <<t, j>> = <<Login, i>>
    BY <1>1, <1>3, HeldIs
  <2> QED
    BY <2>1
<1>4. \A x \in TokensIn(Mail) : ~(Target(x)[1] = Login /\ Target(x)[2] = i)
  BY <1>0, <1>1, <1>2, TargetIdle
<1> QED
  BY <1>0, <1>1, <1>2, <1>3, <1>4, ConnFacts

LEMMA CoreAuthenticate ==
    ASSUME SessionsAssumption, Core, NEW p \in Players, NEW i \in DOMAIN conn[Login], Authenticate(p, i)
    PROVE  Core'
<1> DEFINE a == AccountOf[p]
           c == [conn[Login][i] EXCEPT !.account = a,
                                       !.flags = {"authenticated"} \union
                                                 (IF online[a] THEN {} ELSE {"normal"})]
           r == <<ConnectNotice(a)>>
<1>0. Login \in Servers /\ Login \in Nodes /\ a \in Accounts /\ a # NoID
  BY Constants
<1>1. QueuesTyped /\ ConnTyped /\ AllSound /\ OneEach /\ OneVerified /\ LoginToo
  BY DEF Core, ConnTyped, SessionsTypeOK
<1>2. /\ conn[Login][i] \in Connection /\ conn[Login][i].player = p
      /\ conn[Login][i].state = "open" /\ conn[Login][i].flags = {}
      /\ \A t \in Servers : \A j : IsOpen(t, j, p) => t = Login /\ j = i
      /\ \A x \in TokensIn(Mail) : ~(Target(x)[1] = Login /\ Target(x)[2] = i)
  BY Alone DEF Authenticate
<1>3. /\ conn' = [conn EXCEPT ![Login][i] = c] /\ Post(Login, r)
      /\ UNCHANGED <<fromMaster, info, online, mistyped>>
  BY DEF Authenticate
<1>4. /\ c \in Connection /\ c.player = p /\ c.state = "open" /\ c.account = a
      /\ c.flags \subseteq {"authenticated", "normal"} /\ "authenticated" \in c.flags
  BY <1>0, <1>2 DEF Connection, Flags
<1>5. ConnectNotice(a) \in Packet /\ ~IsToken(ConnectNotice(a))
  BY <1>0 DEF Packet, ConnectNotice, IsToken, TokenTypes
<1>6. r \in Seq(Packet) /\ \A k \in DOMAIN r : ~IsToken(r[k])
  BY <1>5
<1> HIDE DEF c, r
<1>7. Sound(Login, c)
  BY <1>0, <1>4, Constants DEF Sound
<1>8. /\ ConnTyped' /\ AllSound' /\ OneEach'
      /\ \A t \in Servers : \A j, q : IsOpen(t, j, q)' =>
            /\ IsOpen(t, j, q)
            /\ conn'[t][j] = conn[t][j] \/ (t = Login /\ j = i /\ c.state = "open")
      /\ \A x : /\ Fresh(x)
                /\ Target(x)[1] = Login /\ Target(x)[2] = i =>
                      /\ c.account = NoID /\ c.flags \subseteq {"handed"}
                      /\ c.state # "gone" => "handed" \in c.flags
                => Fresh(x)'
  BY <1>0, <1>1, <1>2, <1>3, <1>4, <1>7, Steady
<1>9. \A x \in TokensIn(Mail) : Fresh(x) => Fresh(x)'
  BY <1>2, <1>8
<1>10. \A j \in Answered : j \in Answered'
  BY <1>0, <1>1, <1>3, <1>6, AnswersStay
<1>11. OneVerified' /\ LoginToo'
  <2>1. \A t \in Servers, j \in Nat, q \in Players : IsOpen(t, j, q)' =>
           IsOpen(t, j, q) /\ (conn'[t][j].flags = conn[t][j].flags \/ (t = Login /\ j = i))
    BY <1>8
  <2>2. \A t \in Servers, j \in Nat, q \in Players :
           IsOpen(Login, i, q)' /\ IsOpen(t, j, q)' => t = Login /\ j = i
    <3> SUFFICES ASSUME NEW t \in Servers, NEW j \in Nat, NEW q \in Players,
                        IsOpen(Login, i, q)', IsOpen(t, j, q)'
                 PROVE  t = Login /\ j = i
      OBVIOUS
    <3>1. IsOpen(Login, i, q) /\ IsOpen(t, j, q)
      BY <1>0, <1>8
    <3>2. q = p
      BY <1>2, <3>1 DEF IsOpen
    <3> QED
      BY <1>2, <3>1, <3>2
  <2>3. i \in Nat
    BY <1>0, <1>1, ConnFacts
  <2> QED
    BY <1>0, <1>1, <1>10, <2>1, <2>2, <2>3, Lone
<1> QED
  BY <1>0, <1>3, <1>6, <1>8, <1>9, <1>11, CoreSent

LEMMA CoreMistyped ==
    ASSUME SessionsAssumption, Core, NEW p \in Players, NEW i \in DOMAIN conn[Login], MistypedPassword(p, i)
    PROVE  Core'
<1> DEFINE a == AccountOf[p]
           c == Disconnected([conn[Login][i] EXCEPT !.account = a])
<1>0. Login \in Servers /\ Login \in Nodes /\ a \in Accounts /\ a # NoID
  BY Constants
<1>1. QueuesTyped /\ ConnTyped /\ AllSound /\ OneEach /\ OneVerified /\ LoginToo
  BY DEF Core, ConnTyped, SessionsTypeOK
<1>2. /\ conn[Login][i] \in Connection /\ conn[Login][i].player = p
      /\ conn[Login][i].state = "open" /\ conn[Login][i].flags = {}
      /\ \A x \in TokensIn(Mail) : ~(Target(x)[1] = Login /\ Target(x)[2] = i)
  BY Alone DEF MistypedPassword
<1>3. /\ conn' = [conn EXCEPT ![Login][i] = c] /\ mistyped' = mistyped \union {a}
      /\ UNCHANGED <<toMaster, fromMaster, info, online>>
  BY DEF MistypedPassword
<1>4. c \in Connection /\ c.player = p /\ c.state = "closing" /\ c.account = a /\ c.flags = {}
  BY <1>0, <1>2 DEF Disconnected, Connection, States
<1> HIDE DEF c
<1>7. Sound(Login, c)
  BY <1>0, <1>4, Constants DEF Sound
<1>8. /\ ConnTyped' /\ AllSound' /\ OneEach'
      /\ \A t \in Servers : \A j, q : IsOpen(t, j, q)' =>
            /\ IsOpen(t, j, q)
            /\ conn'[t][j] = conn[t][j] \/ (t = Login /\ j = i /\ c.state = "open")
      /\ \A x : /\ Fresh(x)
                /\ Target(x)[1] = Login /\ Target(x)[2] = i =>
                      /\ c.account = NoID /\ c.flags \subseteq {"handed"}
                      /\ c.state # "gone" => "handed" \in c.flags
                => Fresh(x)'
  BY <1>0, <1>1, <1>2, <1>3, <1>4, <1>7, Steady
<1>9. QueuesTyped' /\ Mail' = Mail /\ Answered' = Answered
  BY <1>1, <1>3, MailSame
<1>10. TokensFresh' /\ (Clashes(Mail) = {})'
  <2>1. \A x \in TokensIn(Mail) : Fresh(x) => Fresh(x)'
    BY <1>2, <1>8
  <2> QED
    BY <1>9, <2>1, TokensStayFresh, AfterMail DEF Core
<1>11. OneVerified' /\ LoginToo'
  <2>1. \A t \in Servers, j \in Nat, q \in Players : IsOpen(t, j, q)' =>
           IsOpen(t, j, q) /\ conn'[t][j].flags = conn[t][j].flags
    BY <1>4, <1>8
  <2> QED
    BY <1>1, <1>9, <2>1, Hushed
<1>12. SessionsTypeOK'
  BY <1>0, <1>3, <1>8 DEF Core, SessionsTypeOK, ConnTyped
<1> QED
  BY <1>8, <1>9, <1>10, <1>11, <1>12 DEF Core


\* A server sends a token.
LEMMA CoreSentToken ==
    ASSUME SessionsAssumption, Core, NEW n \in Nodes, NEW m \in Packet, IsToken(m), Post(n, <<m>>),
           UNCHANGED fromMaster, \A x \in TokensIn(Mail) : Target(x) # Target(m),
           ConnTyped' /\ AllSound' /\ OneEach' /\ OneVerified' /\ LoginToo',
           \A x \in TokensIn(Mail) : Fresh(x) => Fresh(x)', Fresh(m)',
           UNCHANGED <<info, online, mistyped>>
    PROVE  Core'
<1>1. QueuesTyped /\ TokensFresh /\ Clashes(Mail) = {}
  BY DEF Core
<1>2. QueuesTyped' /\ TokensIn(Mail') \subseteq TokensIn(Mail) \union {m} /\ Clashes(Mail') = {}
  BY <1>1, SendsToken
<1>3. TokensFresh'
  <2> SUFFICES ASSUME NEW x \in TokensIn(Mail)' PROVE Fresh(x)'
    BY DEF TokensFresh
  <2>1. x \in TokensIn(Mail) \/ x = m
    BY <1>2, AfterMail
  <2>2. CASE x \in TokensIn(Mail)
    BY <1>1, <2>2 DEF TokensFresh
  <2> QED
    BY <2>1, <2>2
<1>4. SessionsTypeOK'
  BY DEF Core, SessionsTypeOK, ConnTyped
<1> QED
  BY <1>2, <1>3, <1>4, AfterMail DEF Core

LEMMA FreshThen ==
    ASSUME NEW m, NEW s \in Servers, NEW j, Target(m)[1] = s, Target(m)[2] = j,
           j \in DOMAIN conn'[s], conn'[s][j].account = NoID, conn'[s][j].flags \subseteq {"handed"},
           "handed" \in conn'[s][j].flags, NEW p, conn'[s][j].player = p,
           \A t \in Servers, k \in Nat :
              k \in DOMAIN conn'[t] /\ conn'[t][k].state = "open" /\ conn'[t][k].player = p =>
                 \/ t = s /\ k = j
                 \/ t = Login /\ FromLogin(m, k) /\ "verified" \in conn'[Login][k].flags
    PROVE  Fresh(m)'
<1>1. /\ Target(m)[2] \in DOMAIN conn'[Target(m)[1]]
      /\ conn'[Target(m)[1]][Target(m)[2]].account = NoID
      /\ conn'[Target(m)[1]][Target(m)[2]].flags \subseteq {"handed"}
      /\ "handed" \in conn'[Target(m)[1]][Target(m)[2]].flags
      /\ conn'[Target(m)[1]][Target(m)[2]].player = p
  OBVIOUS
<1> QED
  BY <1>1 DEF Fresh, Has, IsOpen

\* The two connections of a player on the way.
LEMMA Pair ==
    ASSUME Core, NEW p \in Players, NEW s \in Servers, NEW i, NEW t \in Servers, NEW j,
           Held(p) = {<<s, i>>, <<t, j>>}
    PROVE  /\ i \in DOMAIN conn[s] /\ i \in Nat /\ conn[s][i] \in Connection
           /\ conn[s][i].player = p /\ conn[s][i].state = "open" /\ Sound(s, conn[s][i])
           /\ j \in DOMAIN conn[t] /\ j \in Nat /\ conn[t][j] \in Connection
           /\ conn[t][j].player = p /\ conn[t][j].state = "open" /\ Sound(t, conn[t][j])
           /\ \A u \in Servers : \A k : IsOpen(u, k, p) => (u = s /\ k = i) \/ (u = t /\ k = j)
<1>1. ConnTyped /\ AllSound
  BY DEF Core, ConnTyped, SessionsTypeOK
<1>2. <<s, i>> \in Held(p) /\ <<t, j>> \in Held(p)
  OBVIOUS
<1>3. IsOpen(s, i, p) /\ IsOpen(t, j, p)
  BY <1>2, HeldIs
<1>4. ASSUME NEW u \in Servers, NEW k, IsOpen(u, k, p) PROVE (u = s /\ k = i) \/ (u = t /\ k = j)
  <2>1. <<u, k>> = <<s, i>> \/ <<u, k>> = <<t, j>>
    BY <1>4, HeldIs
  <2> QED
    BY <2>1
<1>5. /\ i \in DOMAIN conn[s] /\ conn[s][i].player = p /\ conn[s][i].state = "open"
      /\ j \in DOMAIN conn[t] /\ conn[t][j].player = p /\ conn[t][j].state = "open"
  BY <1>3 DEF IsOpen
<1>6. /\ i \in Nat /\ conn[s][i] \in Connection /\ Sound(s, conn[s][i])
      /\ j \in Nat /\ conn[t][j] \in Connection /\ Sound(t, conn[t][j])
  BY <1>1, <1>5, ConnFacts DEF AllSound
<1> QED
  BY <1>4, <1>5, <1>6

\* A connection to which no session was handed yet may get a token for it.
LEMMA Untouched ==
    ASSUME NEW s, NEW c \in Connection, Sound(s, c), c.state = "open",
           \/ s \in Worlds /\ "verified" \notin c.flags
           \/ s = Login /\ c.flags = {"handed"}
    PROVE  c.account = NoID /\ c.flags \subseteq {"handed"} /\ "handed" \in c.flags
BY DEF Sound, Connection, Flags

LEMMA CoreLoginVerifyLinks ==
    ASSUME SessionsAssumption, Core, NEW p \in Players, NEW i \in DOMAIN conn[Login], NEW w \in Worlds,
           NEW j \in DOMAIN conn[w], LoginVerifyLinks(p, i, w, j)
    PROVE  Core'
<1> DEFINE c == Raised(conn[Login][i], {"verified"})
           r == [to |-> w, type |-> "L2W_VERIFY_LINKS", from |-> i, entity |-> j,
                 account |-> conn[Login][i].account]
<1>0. Login \in Servers /\ Login \in Nodes /\ w \in Servers /\ w # Login
  BY Constants
<1>1. QueuesTyped /\ ConnTyped /\ AllSound /\ OneEach /\ OneVerified /\ LoginToo
  BY DEF Core, ConnTyped, SessionsTypeOK
<1>2. /\ i \in Nat /\ conn[Login][i] \in Connection
      /\ conn[Login][i].player = p /\ conn[Login][i].state = "open" /\ Sound(Login, conn[Login][i])
      /\ j \in Nat /\ conn[w][j] \in Connection
      /\ conn[w][j].player = p /\ conn[w][j].state = "open" /\ Sound(w, conn[w][j])
      /\ \A u \in Servers : \A k : IsOpen(u, k, p) => (u = Login /\ k = i) \/ (u = w /\ k = j)
  BY <1>0, Pair DEF LoginVerifyLinks
<1>3. /\ "authenticated" \in conn[Login][i].flags /\ "verified" \notin conn[Login][i].flags
      /\ "verified" \notin conn[w][j].flags
      /\ conn' = [conn EXCEPT ![Login][i] = c] /\ Post(Login, <<r>>)
      /\ UNCHANGED <<fromMaster, info, online, mistyped>>
  <2>1. conn' = [conn EXCEPT ![Login][i] = c] /\ Post(Login, <<r>>)
    BY DEF LoginVerifyLinks
  <2> QED
    BY <2>1 DEF LoginVerifyLinks, Has
<1>4. conn[Login][i].account # NoID /\ conn[Login][i].account \in Accounts
  BY <1>2, <1>3 DEF Sound, Connection
<1>5. /\ c \in Connection /\ c.player = p /\ c.state = "open" /\ c.account # NoID
      /\ c.flags = conn[Login][i].flags \union {"verified"}
  BY <1>2, <1>4 DEF Connection, Flags, Raised
<1>6. PICK m \in Packet : m = r /\ IsToken(m) /\ Target(m)[1] = w /\ Target(m)[2] = j /\ FromLogin(m, i)
  BY <1>2, <1>4, <1>0, PacketsMade DEF IsToken, TokenTypes, Target, FromLogin
<1> HIDE DEF c, r
<1>7. Sound(Login, c)
  BY <1>0, <1>2, <1>3, <1>5 DEF Sound
<1>8. /\ ConnTyped' /\ AllSound' /\ OneEach'
      /\ \A t \in Servers : \A k, q : IsOpen(t, k, q)' =>
            /\ IsOpen(t, k, q)
            /\ conn'[t][k] = conn[t][k] \/ (t = Login /\ k = i /\ c.state = "open")
      /\ \A x : /\ Fresh(x)
                /\ Target(x)[1] = Login /\ Target(x)[2] = i =>
                      /\ c.account = NoID /\ c.flags \subseteq {"handed"}
                      /\ c.state # "gone" => "handed" \in c.flags
                => Fresh(x)'
  BY <1>0, <1>1, <1>2, <1>3, <1>5, <1>7, Steady
<1>9. \A x \in TokensIn(Mail) : ~(Target(x)[1] = Login /\ Target(x)[2] = i)
  BY <1>0, <1>4, TargetIdle
<1>10. \A x \in TokensIn(Mail) : Fresh(x) => Fresh(x)'
  BY <1>8, <1>9
<1>11. \A x \in TokensIn(Mail) : Target(x) # Target(m)
  <2> SUFFICES ASSUME NEW x \in TokensIn(Mail), Target(x) = Target(m) PROVE FALSE
    OBVIOUS
  <2>1. Target(x)[1] = w /\ Target(x)[2] = j
    BY <1>6
  <2>2. IsOpen(Login, i, conn[w][j].player)
    BY <1>2 DEF IsOpen
  <2> QED
    BY <1>0, <1>2, <1>3, <2>1, <2>2, TargetIdle
<1>12. /\ DOMAIN conn'[w] = DOMAIN conn[w] /\ conn'[w][j] = conn[w][j]
       /\ conn'[Login][i] = c
  <2>1. /\ ConnTyped'
        /\ \A t \in Servers : DOMAIN conn'[t] = DOMAIN conn[t]
        /\ conn'[Login][i] = c
        /\ \A t \in Servers : \A k : (t = Login /\ k = i) \/ conn'[t][k] = conn[t][k]
    <3>1. conn'[Login][i] = c
      BY <1>0, <1>1, <1>3 DEF ConnTyped
    <3>2. \A t \in Servers : DOMAIN conn'[t] = DOMAIN conn[t]
      BY <1>0, <1>1, <1>3, <1>5, Changed
    <3>3. \A t \in Servers : \A k : (t = Login /\ k = i) \/ conn'[t][k] = conn[t][k]
      BY <1>0, <1>1, <1>3, <1>5, Changed
    <3> QED
      BY <1>8, <3>1, <3>2, <3>3
  <2> QED
    BY <1>0, <2>1
<1>13. Fresh(m)'
  <2>1. conn[w][j].account = NoID /\ conn[w][j].flags \subseteq {"handed"} /\ "handed" \in conn[w][j].flags
    BY <1>2, <1>3, Untouched
  <2>2. ASSUME NEW t \in Servers, NEW k \in Nat, k \in DOMAIN conn'[t], conn'[t][k].state = "open",
               conn'[t][k].player = p
        PROVE  (t = w /\ k = j) \/ (t = Login /\ k = i)
    <3>1. IsOpen(t, k, p)
      BY <1>8, <2>2 DEF IsOpen
    <3> QED
      BY <1>2, <3>1
  <2>3. conn'[w][j].player = p /\ "verified" \in conn'[Login][i].flags
    BY <1>2, <1>5, <1>12
  <2>4. /\ j \in DOMAIN conn'[w] /\ conn'[w][j].account = NoID /\ conn'[w][j].flags \subseteq {"handed"}
        /\ "handed" \in conn'[w][j].flags
    BY <1>12, <2>1
  <2> QED
    BY <1>0, <1>6, <2>2, <2>3, <2>4, FreshThen
<1>14. \A k \in Answered : k \in Answered'
  <2>1. <<m>> \in Seq(Packet) /\ <<r>> = <<m>>
    BY <1>6
  <2> QED
    BY <1>0, <1>1, <1>3, <2>1, AnswersStay
<1>15. OneVerified'
  <2> SUFFICES ASSUME NEW v \in Worlds, NEW u \in Worlds, NEW q \in Players, NEW k \in Nat, NEW l \in Nat,
                      IsOpen(v, k, q)', "verified" \in conn'[v][k].flags,
                      IsOpen(u, l, q)', "verified" \in conn'[u][l].flags
               PROVE  v = u
    BY DEF OneVerified, Has
  <2>1. v \in Servers /\ u \in Servers /\ v # Login /\ u # Login
    BY Constants
  <2>2. IsOpen(v, k, q) /\ "verified" \in conn[v][k].flags /\ IsOpen(u, l, q) /\ "verified" \in conn[u][l].flags
    BY <1>8, <2>1
  <2> QED
    BY <1>1, <2>2 DEF OneVerified, Has
<1>16. LoginToo'
  <2> SUFFICES ASSUME NEW v \in Worlds, NEW q \in Players, NEW k \in Nat, NEW l \in Nat,
                      IsOpen(v, k, q)', "verified" \in conn'[v][k].flags, IsOpen(Login, l, q)'
               PROVE  \/ conn'[Login][l].flags = {"handed"}
                      \/ "verified" \in conn'[Login][l].flags /\ l \in Answered'
    BY DEF LoginToo, Has
  <2>0. v \in Servers /\ v # Login
    BY Constants
  <2>1. IsOpen(v, k, q) /\ "verified" \in conn[v][k].flags /\ IsOpen(Login, l, q)
    BY <1>0, <1>8, <2>0
  <2>2. l # i
    <3> SUFFICES ASSUME l = i PROVE FALSE
      OBVIOUS
    <3>1. q = p
      BY <1>2, <2>1 DEF IsOpen
    <3>2. v = w /\ k = j
      BY <1>2, <2>0, <2>1, <3>1
    <3> QED
      BY <1>3, <2>1, <3>2
  <2>3. conn'[Login][l] = conn[Login][l]
    BY <1>0, <1>8, <2>2
  <2>4. \/ conn[Login][l].flags = {"handed"}
        \/ "verified" \in conn[Login][l].flags /\ l \in Answered
    BY <1>1, <2>1 DEF LoginToo, Has
  <2> QED
    BY <1>14, <2>3, <2>4
<1> QED
  <2>1. /\ m \in Packet /\ IsToken(m) /\ Post(Login, <<m>>)
        /\ UNCHANGED fromMaster /\ UNCHANGED <<info, online, mistyped>>
    BY <1>3, <1>6
  <2>2. ConnTyped' /\ AllSound' /\ OneEach' /\ OneVerified' /\ LoginToo'
    BY <1>8, <1>15, <1>16
  <2> QED
    BY <1>0, <1>10, <1>11, <1>13, <2>1, <2>2, CoreSentToken

LEMMA CoreWorldVerifyLinks ==
    ASSUME SessionsAssumption, Core, NEW p \in Players, NEW w \in Worlds, NEW s \in Servers,
           NEW i \in DOMAIN conn[w], NEW j \in DOMAIN conn[s], WorldVerifyLinks(p, w, i, s, j)
    PROVE  Core'
<1> DEFINE c == Disconnected(conn[w][i])
           r == [to |-> s,
                 type |-> IF s = Login THEN "WORLD_VERIFY_LINKS" ELSE "REQUEST_VERIFY_LINKS",
                 node |-> w, from |-> i, entity |-> j, account |-> conn[w][i].account]
<1>0. Login \in Servers /\ w \in Nodes /\ w \in Servers /\ w # Login /\ (s = Login \/ s \in Worlds)
  BY Constants
<1>1. QueuesTyped /\ ConnTyped /\ AllSound /\ OneEach /\ OneVerified /\ LoginToo
  BY DEF Core, ConnTyped, SessionsTypeOK
<1>2. /\ i \in Nat /\ conn[w][i] \in Connection
      /\ conn[w][i].player = p /\ conn[w][i].state = "open" /\ Sound(w, conn[w][i])
      /\ j \in Nat /\ conn[s][j] \in Connection
      /\ conn[s][j].player = p /\ conn[s][j].state = "open" /\ Sound(s, conn[s][j])
      /\ \A u \in Servers : \A k : IsOpen(u, k, p) => (u = w /\ k = i) \/ (u = s /\ k = j)
  <2>1. Held(p) = {<<w, i>>, <<s, j>>}
    BY DEF WorldVerifyLinks
  <2> QED
    BY <1>0, <2>1, Pair
<1>3. /\ "verified" \in conn[w][i].flags /\ "verified" \notin conn[s][j].flags /\ w # s
      /\ conn' = [conn EXCEPT ![w][i] = c] /\ Post(w, <<r>>)
      /\ UNCHANGED <<fromMaster, info, online, mistyped>>
  BY DEF WorldVerifyLinks, Has
<1>4. conn[w][i].account # NoID /\ conn[w][i].account \in Accounts
  BY <1>2, <1>3 DEF Sound, Connection
<1>5. /\ c \in Connection /\ c.player = p /\ c.account = conn[w][i].account /\ c.flags = conn[w][i].flags
      /\ c.state \in {"closing", "gone"} /\ (c.state = "gone" <=> conn[w][i].state = "gone")
  BY <1>2, DisconnectedFacts
<1>6. PICK m \in Packet : m = r /\ IsToken(m) /\ Target(m)[1] = s /\ Target(m)[2] = j
  <2>1. r \in Packet
    BY <1>2, <1>4, PacketsMade
  <2>2. r.type \in {"WORLD_VERIFY_LINKS", "REQUEST_VERIFY_LINKS"} /\ r.to = s /\ r.entity = j
    OBVIOUS
  <2> HIDE DEF r
  <2> QED
    BY <2>1, <2>2 DEF IsToken, TokenTypes, Target
<1> HIDE DEF c, r
<1>7. \A k \in Answered : k \in Answered'
  <2>1. <<m>> \in Seq(Packet) /\ <<r>> = <<m>>
    BY <1>6
  <2> QED
    BY <1>0, <1>1, <1>3, <2>1, AnswersStay
<1>8. /\ ConnTyped' /\ AllSound' /\ OneEach' /\ OneVerified' /\ LoginToo'
      /\ \A x : Fresh(x) => Fresh(x)'
  BY <1>0, <1>1, <1>2, <1>3, <1>5, <1>7, Closes
<1>9. \A x \in TokensIn(Mail) : Target(x) # Target(m)
  <2> SUFFICES ASSUME NEW x \in TokensIn(Mail), Target(x) = Target(m) PROVE FALSE
    OBVIOUS
  <2>1. Target(x)[1] = s /\ Target(x)[2] = j
    BY <1>6
  <2>2. IsOpen(w, i, conn[s][j].player)
    BY <1>2 DEF IsOpen
  <2> QED
    BY <1>0, <1>2, <1>3, <2>1, <2>2, TargetIdle
<1>10. /\ \A t \in Servers : DOMAIN conn'[t] = DOMAIN conn[t]
       /\ conn'[w][i] = c
       /\ \A t \in Servers : \A k : (t = w /\ k = i) \/ conn'[t][k] = conn[t][k]
  <2>1. conn'[w][i] = c
    BY <1>0, <1>1, <1>3 DEF ConnTyped
  <2> QED
    BY <1>0, <1>1, <1>3, <1>5, <2>1, Changed
<1>11. conn[s][j].account = NoID /\ conn[s][j].flags \subseteq {"handed"} /\ "handed" \in conn[s][j].flags
  <2>1. s = Login => conn[s][j].flags = {"handed"}
    <3> SUFFICES ASSUME s = Login PROVE conn[Login][j].flags = {"handed"}
      OBVIOUS
    <3>1. IsOpen(w, i, p) /\ IsOpen(Login, j, p)
      BY <1>2 DEF IsOpen
    <3>2. \/ conn[Login][j].flags = {"handed"}
          \/ "verified" \in conn[Login][j].flags /\ j \in Answered
      BY <1>1, <1>2, <1>3, <3>1 DEF LoginToo, Has
    <3> QED
      BY <1>3, <3>2
  <2> QED
    BY <1>0, <1>2, <1>3, <2>1, Untouched
<1>12. Fresh(m)'
  <2>1. ASSUME NEW t \in Servers, NEW k \in Nat, k \in DOMAIN conn'[t], conn'[t][k].state = "open",
               conn'[t][k].player = p
        PROVE  t = s /\ k = j
    <3>1. ~(t = w /\ k = i)
      BY <1>5, <1>10, <2>1
    <3>2. IsOpen(t, k, p)
      BY <1>10, <2>1, <3>1 DEF IsOpen
    <3> QED
      BY <1>2, <3>1, <3>2
  <2>2. conn'[s][j] = conn[s][j] /\ j \in DOMAIN conn'[s]
    BY <1>3, <1>10
  <2>3. /\ conn'[s][j].player = p /\ conn'[s][j].account = NoID
        /\ conn'[s][j].flags \subseteq {"handed"} /\ "handed" \in conn'[s][j].flags
    BY <1>2, <1>11, <2>2
  <2> QED
    BY <1>6, <2>1, <2>2, <2>3, FreshThen
<1> QED
  <2>1. /\ m \in Packet /\ IsToken(m) /\ Post(w, <<m>>)
        /\ UNCHANGED fromMaster /\ UNCHANGED <<info, online, mistyped>>
    BY <1>3, <1>6
  <2>2. ConnTyped' /\ AllSound' /\ OneEach' /\ OneVerified' /\ LoginToo'
    BY <1>8
  <2>3. \A x \in TokensIn(Mail) : Fresh(x) => Fresh(x)'
    BY <1>8
  <2> QED
    BY <1>0, <1>9, <1>12, <2>1, <2>2, <2>3, CoreSentToken

-----------------------------------------------------------------------------
(* A session arrives                                                       *)

\* What two replies make.
LEMMA Replies ==
    ASSUME NEW X \in Seq(Packet), NEW Y \in Seq(Packet),
           \A i \in DOMAIN X : ~IsToken(X[i]), \A i \in DOMAIN Y : ~IsToken(Y[i])
    PROVE  /\ X \o Y \in Seq(Packet) /\ \A i \in DOMAIN (X \o Y) : ~IsToken((X \o Y)[i])
           /\ \A m : X = <<m>> => 1 \in DOMAIN (X \o Y) /\ (X \o Y)[1] = m
<1>1. /\ X \o Y \in Seq(Packet) /\ Len(X) \in Nat /\ Len(Y) \in Nat
      /\ DOMAIN X = 1 .. Len(X) /\ DOMAIN Y = 1 .. Len(Y) /\ DOMAIN (X \o Y) = 1 .. Len(X) + Len(Y)
  OBVIOUS
<1>2. ASSUME NEW i \in DOMAIN (X \o Y) PROVE ~IsToken((X \o Y)[i])
  <2>1. CASE i \in DOMAIN X
    <3>1. (X \o Y)[i] = X[i]
      BY <1>1, <2>1
    <3> QED
      BY <2>1, <3>1
  <2>2. CASE i \notin DOMAIN X
    <3>1. i - Len(X) \in DOMAIN Y /\ (X \o Y)[i] = Y[i - Len(X)]
      BY <1>1, <2>2
    <3> QED
      BY <3>1
  <2> QED
    BY <2>1, <2>2
<1> QED
  BY <1>1, <1>2

LEMMA AnswerSent ==
    ASSUME SessionsAssumption, QueuesTyped, NEW w \in Worlds, NEW r \in Seq(Packet), Post(w, r),
           NEW k \in DOMAIN r, NEW i \in Nat, r[k] = LinkAnswer(i, 1)
    PROVE  i \in Answered'
<1>1. w \in Nodes
  BY Constants
<1>2. toMaster \in [Nodes -> Seq(Packet)] /\ toMaster' = [toMaster EXCEPT ![w] = @ \o r]
  BY DEF QueuesTyped, Post
<1>3. Len(toMaster[w]) + k \in DOMAIN toMaster'[w] /\ toMaster'[w][Len(toMaster[w]) + k] = r[k]
  BY <1>1, <1>2, Put
<1> QED
  BY <1>3 DEF Answered

\* What a node learns of the connection a token is for.
LEMMA Arrives ==
    ASSUME SessionsAssumption, Core, NEW s \in Servers, NEW type \in TokenTypes, Received(s, type),
           NEW i, Target(Head(fromMaster[s]))[1] = s, Target(Head(fromMaster[s]))[2] = i
    PROVE  /\ i \in DOMAIN conn[s] /\ i \in Nat /\ conn[s][i] \in Connection
           /\ conn[s][i].account = NoID /\ conn[s][i].flags \subseteq {"handed"}
           /\ conn[s][i].state # "gone" => "handed" \in conn[s][i].flags
           /\ \A t \in Servers, j \in Nat, q \in Players :
                 IsOpen(s, i, q) /\ IsOpen(t, j, q) =>
                    \/ t = s /\ j = i
                    \/ t = Login /\ FromLogin(Head(fromMaster[s]), j) /\ "verified" \in conn[Login][j].flags
           /\ \A x : Target(x)[1] = s /\ Target(x)[2] = i => Target(x) = Target(Head(fromMaster[s]))
<1> DEFINE h == Head(fromMaster[s])
<1>1. QueuesTyped /\ ConnTyped /\ Clashes(Mail) = {}
  BY DEF Core, ConnTyped, SessionsTypeOK
<1>2. s \in Nodes
  BY Constants
<1>3. h.type = type /\ fromMaster[s] # <<>>
  BY DEF Received
<1>4. h \in TokensIn(Mail)
  <2>1. Mail \in [Boxes -> Seq(Message)] /\ Down(s) \in Boxes /\ Mail[Down(s)] = fromMaster[s]
    BY <1>1, <1>2, MailTyped
  <2>2. First(Mail, Down(s)).type \in TokenTypes => First(Mail, Down(s)) \in TokensIn(Mail)
    BY <1>3, <2>1, TakeOne
  <2>3. First(Mail, Down(s)) = h
    BY <2>1 DEF First
  <2> QED
    BY <1>3, <2>2, <2>3
<1>5. /\ i \in DOMAIN conn[s] /\ conn[s][i].account = NoID /\ conn[s][i].flags \subseteq {"handed"}
      /\ conn[s][i].state # "gone" => "handed" \in conn[s][i].flags
      /\ conn[s][i].state = "open" =>
            \A t \in Servers, j \in Nat :
               IsOpen(t, j, conn[s][i].player) =>
                  \/ t = s /\ j = i
                  \/ t = Login /\ FromLogin(h, j) /\ "verified" \in conn[Login][j].flags
  BY <1>4, TargetIdle
<1>6. \A x : Target(x)[1] = s /\ Target(x)[2] = i => Target(x) = Target(h)
  BY TargetPair
<1>8. i \in Nat /\ conn[s][i] \in Connection
  BY <1>1, <1>5, ConnFacts
<1>9. ASSUME NEW t \in Servers, NEW j \in Nat, NEW q \in Players, IsOpen(s, i, q), IsOpen(t, j, q)
      PROVE  \/ t = s /\ j = i
             \/ t = Login /\ FromLogin(h, j) /\ "verified" \in conn[Login][j].flags
  <2>1. conn[s][i].state = "open" /\ q = conn[s][i].player
    BY <1>9 DEF IsOpen
  <2> QED
    BY <1>5, <1>9, <2>1
<1> QED
  BY <1>5, <1>6, <1>8, <1>9

\* It is no answer.
LEMMA AnswersKept ==
    ASSUME SessionsAssumption, QueuesTyped, NEW s \in Servers, NEW type \in TokenTypes, Received(s, type),
           NEW r \in Seq(Packet), Post(s, r)
    PROVE  \A j \in Answered : j \in Answered'
<1>1. \A j : Head(fromMaster[s]) # LinkAnswer(j, 1)
  BY DEF LinkAnswer, TokenTypes, Received
<1>2. fromMaster[s] # <<>> /\ fromMaster' = [fromMaster EXCEPT ![s] = Tail(@)]
  BY DEF Received
<1>3. s \in Nodes
  BY Constants
<1> QED
  BY <1>1, <1>2, <1>3, AnswersStay

\* The connection gets the account.
LEMMA Arrived ==
    ASSUME NEW c \in Connection, NEW a \in Accounts, NEW flags \in SUBSET (Flags \ {"handed"}),
           NEW s \in Servers, SessionsAssumption,
           c.account = NoID, c.flags = {"handed"}, c.state # "gone",
           (s \in Worlds /\ flags = {"verified"}) \/ (s = Login /\ "authenticated" \in flags)
    PROVE  LET d == Raised([c EXCEPT !.account = a], flags)
           IN  /\ d \in Connection /\ d.player = c.player /\ d.state = c.state /\ d.account = a
               /\ d.flags = c.flags \union flags /\ Sound(s, d)
<1> DEFINE d == Raised([c EXCEPT !.account = a], flags)
<1>1. /\ d \in Connection /\ d.player = c.player /\ d.state = c.state /\ d.account = a
      /\ d.flags = c.flags \union flags
  BY DEF Raised, Connection, Flags
<1>2. a # NoID /\ (s = Login => s \notin Worlds)
  BY Constants
<1> HIDE DEF d
<1>3. Sound(s, d)
  BY <1>1, <1>2 DEF Sound
<1> QED
  BY <1>1, <1>3 DEF d

LEMMA CoreUnmoved ==
    ASSUME SessionsAssumption, Core, NEW n \in Nodes, NEW type \in TokenTypes, Received(n, type),
           NEW r \in Seq(Packet), Post(n, r), \A i \in DOMAIN r : ~IsToken(r[i]),
           \A j \in Answered : j \in Answered', UNCHANGED <<conn, info, online, mistyped>>
    PROVE  Core'
<1>1. ConnTyped /\ AllSound /\ OneEach /\ OneVerified /\ LoginToo /\ online \in [Accounts -> BOOLEAN]
  BY DEF Core, ConnTyped, SessionsTypeOK
<1>2. /\ ConnTyped' /\ AllSound' /\ OneEach' /\ OneVerified' /\ LoginToo'
      /\ \A x : Fresh(x) => Fresh(x)'
  BY <1>1, Unmoved
<1> QED
  BY <1>1, <1>2, CoreHandled

LEMMA CoreAuthenticated ==
    ASSUME SessionsAssumption, Core, NEW w \in Worlds, OnAuthenticate(w)
    PROVE  Core'
<1> DEFINE h == Head(fromMaster[w])
           i == h.target
           c == conn[w][i]
           d == Raised([c EXCEPT !.account = h.account], {"verified"})
           r == IF Found(w, i)
                THEN IF h.success THEN <<LinkAnswer(h.link, 1)>> \o <<ConnectNotice(h.account)>>
                                  ELSE <<LinkAnswer(h.link, 0)>> \o <<>>
                ELSE <<>>
<1>0. w \in Nodes /\ w \in Servers /\ w # Login /\ Login \in Servers /\ "D2W_AUTHENTICATE" \in TokenTypes
  BY Constants DEF TokenTypes
<1>1. QueuesTyped /\ ConnTyped /\ AllSound /\ OneEach /\ OneVerified /\ LoginToo
  BY DEF Core, ConnTyped, SessionsTypeOK
<1>2. Received(w, "D2W_AUTHENTICATE") /\ UNCHANGED <<info, online, mistyped>>
  BY DEF OnAuthenticate
<1>3. /\ h \in Packet /\ h.type = "D2W_AUTHENTICATE" /\ h.to = w
      /\ i \in Nat /\ h.account \in Accounts /\ h.link \in Nat /\ h.success \in BOOLEAN
  <2>1. fromMaster[w] \in Seq(Message) /\ fromMaster[w] # <<>> /\ h.type = "D2W_AUTHENTICATE"
    BY <1>0, <1>1, <1>2 DEF QueuesTyped, Received
  <2>2. h \in Message /\ h = fromMaster[w][1] /\ 1 \in DOMAIN fromMaster[w]
    BY <2>1
  <2>3. h.to = w
    BY <1>0, <1>1, <2>1, <2>2 DEF QueuesTyped, Routed
  <2>4. h \in Packet
    BY <2>1, <2>2, MessageFacts
  <2> QED
    BY <2>1, <2>3, <2>4, PacketFacts
<1>4. Target(h)[1] = w /\ Target(h)[2] = i
  BY <1>3 DEF Target
<1>5. /\ r \in Seq(Packet) /\ \A k \in DOMAIN r : ~IsToken(r[k])
      /\ Found(w, i) /\ h.success => 1 \in DOMAIN r /\ r[1] = LinkAnswer(h.link, 1)
  <2>1. /\ LinkAnswer(h.link, 0) \in Packet /\ LinkAnswer(h.link, 1) \in Packet
        /\ ConnectNotice(h.account) \in Packet
    BY <1>0, <1>3, PacketsMade
  <2>2. ~IsToken(LinkAnswer(h.link, 0)) /\ ~IsToken(LinkAnswer(h.link, 1)) /\ ~IsToken(ConnectNotice(h.account))
    BY DEF LinkAnswer, ConnectNotice, IsToken, TokenTypes
  <2> DEFINE X == <<LinkAnswer(h.link, 1)>>
             Y == <<ConnectNotice(h.account)>>
             Z == <<LinkAnswer(h.link, 0)>>
             E == <<>>
  <2>3. /\ X \in Seq(Packet) /\ Y \in Seq(Packet) /\ Z \in Seq(Packet) /\ E \in Seq(Packet)
        /\ \A k \in DOMAIN X : ~IsToken(X[k])
        /\ \A k \in DOMAIN Y : ~IsToken(Y[k])
        /\ \A k \in DOMAIN Z : ~IsToken(Z[k])
        /\ \A k \in DOMAIN E : ~IsToken(E[k])
    BY <2>1, <2>2
  <2>4. r = IF Found(w, i) THEN IF h.success THEN X \o Y ELSE Z \o E ELSE E
    OBVIOUS
  <2>5. X = <<LinkAnswer(h.link, 1)>>
    OBVIOUS
  <2> HIDE DEF X, Y, Z, E, r
  <2> QED
    BY <2>3, <2>4, <2>5, Replies
<1>6. /\ i \in DOMAIN conn[w] /\ c \in Connection
      /\ c.account = NoID /\ c.flags \subseteq {"handed"}
      /\ c.state # "gone" => "handed" \in c.flags
      /\ \A t \in Servers, j \in Nat, q \in Players :
            IsOpen(w, i, q) /\ IsOpen(t, j, q) =>
               \/ t = w /\ j = i
               \/ t = Login /\ FromLogin(h, j) /\ "verified" \in conn[Login][j].flags
      /\ \A x : Target(x)[1] = w /\ Target(x)[2] = i => Target(x) = Target(h)
  BY <1>0, <1>2, <1>4, Arrives
<1>7. Post(w, r)
  <2>1. CASE ~Found(w, i)
    <3>1. toMaster' = toMaster
      BY <2>1 DEF OnAuthenticate
    <3> QED
      BY <1>0, <1>1, <2>1, <3>1, NothingSent
  <2>2. CASE Found(w, i) /\ h.success
    <3>1. h.account # NoID
      BY <1>3, Constants
    <3> QED
      BY <2>2, <3>1 DEF OnAuthenticate, IfCounted
  <2>3. CASE Found(w, i) /\ ~h.success
    BY <1>6, <2>3 DEF OnAuthenticate, IfCounted
  <2> QED
    BY <2>1, <2>2, <2>3
<1>8. \A j \in Answered : j \in Answered'
  BY <1>0, <1>1, <1>2, <1>5, <1>7, AnswersKept
<1>9. CASE ~Found(w, i) \/ ~h.success
  <2>1. conn' = conn
    <3>1. CASE ~Found(w, i)
      BY <3>1 DEF OnAuthenticate
    <3>2. CASE Found(w, i) /\ ~h.success
      <4>1. conn' = [conn EXCEPT ![w][i] = conn[w][i]]
        BY <3>2 DEF OnAuthenticate
      <4>2. conn[w] = [conn[w] EXCEPT ![i] = conn[w][i]] /\ conn = [conn EXCEPT ![w] = conn[w]]
        BY <1>0, <1>1, ConnFacts DEF ConnTyped
      <4> QED
        BY <4>1, <4>2
    <3> QED
      BY <1>9, <3>1, <3>2
  <2> QED
    BY <1>0, <1>2, <1>5, <1>7, <1>8, <2>1, CoreUnmoved
<1>10. CASE Found(w, i) /\ h.success
  <2>1. conn' = [conn EXCEPT ![w][i] = d]
    BY <1>10 DEF OnAuthenticate
  <2>2. c.state # "gone" /\ c.flags = {"handed"}
    BY <1>6, <1>10 DEF Found
  <2>3. /\ d \in Connection /\ d.player = c.player /\ d.state = c.state
        /\ d.flags = c.flags \union {"verified"} /\ Sound(w, d)
    <3>1. {"verified"} \in SUBSET (Flags \ {"handed"})
      BY DEF Flags
    <3> HIDE DEF c, i, h
    <3> QED
      BY <1>0, <1>3, <1>6, <2>2, <3>1, Arrived
  <2> HIDE DEF d, r
  <2>4. /\ ConnTyped' /\ AllSound' /\ OneEach'
        /\ \A t \in Servers : \A k, q : IsOpen(t, k, q)' =>
              /\ IsOpen(t, k, q)
              /\ conn'[t][k] = conn[t][k] \/ (t = w /\ k = i /\ d.state = "open")
        /\ \A x : /\ Fresh(x)
                  /\ Target(x)[1] = w /\ Target(x)[2] = i =>
                        /\ d.account = NoID /\ d.flags \subseteq {"handed"}
                        /\ d.state # "gone" => "handed" \in d.flags
                  => Fresh(x)'
    BY <1>0, <1>1, <1>6, <2>1, <2>3, Steady
  <2>5. \A x \in TokensIn(Mail) : Fresh(x) /\ Target(x) # Target(h) => Fresh(x)'
    BY <1>6, <2>4
  <2>6. OneVerified'
    <3> SUFFICES ASSUME NEW v \in Worlds, NEW u \in Worlds, NEW q \in Players, NEW k \in Nat, NEW l \in Nat,
                        IsOpen(v, k, q)', "verified" \in conn'[v][k].flags,
                        IsOpen(u, l, q)', "verified" \in conn'[u][l].flags
                 PROVE  v = u
      BY DEF OneVerified, Has
    <3>1. v \in Servers /\ u \in Servers /\ v # Login /\ u # Login
      BY Constants
    <3>2. IsOpen(v, k, q) /\ IsOpen(u, l, q)
      BY <2>4, <3>1
    <3>3. CASE (v = w /\ k = i) \/ (u = w /\ l = i)
      BY <1>6, <3>1, <3>2, <3>3
    <3>4. CASE ~(v = w /\ k = i) /\ ~(u = w /\ l = i)
      <4>1. "verified" \in conn[v][k].flags /\ "verified" \in conn[u][l].flags
        BY <2>4, <3>1, <3>4
      <4> QED
        BY <1>1, <3>2, <4>1 DEF OneVerified, Has
    <3> QED
      BY <3>3, <3>4
  <2>7. LoginToo'
    <3> SUFFICES ASSUME NEW v \in Worlds, NEW q \in Players, NEW k \in Nat, NEW l \in Nat,
                        IsOpen(v, k, q)', "verified" \in conn'[v][k].flags, IsOpen(Login, l, q)'
                 PROVE  \/ conn'[Login][l].flags = {"handed"}
                        \/ "verified" \in conn'[Login][l].flags /\ l \in Answered'
      BY DEF LoginToo, Has
    <3>0. v \in Servers /\ v # Login
      BY Constants
    <3>1. IsOpen(v, k, q) /\ IsOpen(Login, l, q) /\ conn'[Login][l] = conn[Login][l]
      BY <1>0, <2>4, <3>0
    <3>2. CASE v = w /\ k = i
      <4>1. FromLogin(h, l) /\ "verified" \in conn[Login][l].flags
        BY <1>0, <1>6, <3>1, <3>2
      <4>2. l = h.link
        BY <1>3, <4>1 DEF FromLogin
      <4>3. l \in Answered'
        BY <1>1, <1>5, <1>7, <1>10, <4>2, AnswerSent
      <4> QED
        BY <3>1, <4>1, <4>3
    <3>3. CASE ~(v = w /\ k = i)
      <4>1. "verified" \in conn[v][k].flags
        BY <2>4, <3>0, <3>3
      <4>2. \/ conn[Login][l].flags = {"handed"}
            \/ "verified" \in conn[Login][l].flags /\ l \in Answered
        BY <1>1, <3>1, <4>1 DEF LoginToo, Has
      <4> QED
        BY <1>8, <3>1, <4>2
    <3> QED
      BY <3>2, <3>3
  <2>8. online' \in [Accounts -> BOOLEAN] /\ UNCHANGED <<info, mistyped>>
    BY <1>2 DEF Core, SessionsTypeOK
  <2>9. \A x \in TokensIn(Mail) :
           /\ Fresh(x)
           /\ "D2W_AUTHENTICATE" \in TokenTypes => Target(x) # Target(Head(fromMaster[w]))
           => Fresh(x)'
    BY <1>0, <2>5
  <2>10. ConnTyped' /\ AllSound' /\ OneEach' /\ OneVerified' /\ LoginToo'
    BY <2>4, <2>6, <2>7
  <2> QED
    BY <1>0, <1>2, <1>5, <1>7, <2>8, <2>9, <2>10, CoreHandled
<1> QED
  BY <1>3, <1>9, <1>10

\* The packet a node takes next is one for it.
LEMMA Taken ==
    ASSUME SessionsAssumption, QueuesTyped, NEW n \in Nodes, NEW type, Received(n, type), type # "SET_ONLINE"
    PROVE  /\ Head(fromMaster[n]) \in Packet /\ Head(fromMaster[n]).type = type
           /\ Head(fromMaster[n]).to = n
<1> DEFINE h == Head(fromMaster[n])
<1>1. fromMaster[n] \in Seq(Message) /\ fromMaster[n] # <<>> /\ h.type = type
  BY DEF QueuesTyped, Received
<1>2. h \in Message /\ h = fromMaster[n][1] /\ 1 \in DOMAIN fromMaster[n]
  BY <1>1
<1>3. h.to = n
  BY <1>1, <1>2 DEF QueuesTyped, Routed
<1>4. h \in Packet
  BY <1>1, <1>2, MessageFacts
<1> QED
  BY <1>1, <1>3, <1>4

LEMMA CoreTakeOver ==
    ASSUME SessionsAssumption, Core, NEW s \in Servers, NEW type, NEW flags, NEW answers,
           OnTakeOver(s, type, flags, answers),
           \/ s \in Worlds /\ type = "REQUEST_VERIFY_LINKS" /\ flags = {"verified"}
           \/ s = Login /\ type = "WORLD_VERIFY_LINKS" /\ flags = {"authenticated", "normal"}
    PROVE  Core'
<1> DEFINE h == Head(fromMaster[s])
           i == h.entity
           c == conn[s][i]
           d == Raised([c EXCEPT !.account = h.account], flags)
           X == IF Found(s, i) \in answers
                THEN <<[to |-> h.node, type |-> "RESPONSE_VERIFY_LINKS", target |-> h.from]>>
                ELSE <<>>
           Y == IF Found(s, i) THEN <<ConnectNotice(h.account)>> ELSE <<>>
           r == X \o Y
<1>0. s \in Nodes /\ Login \in Servers /\ type \in TokenTypes
  BY Constants DEF TokenTypes
<1>1. QueuesTyped /\ ConnTyped /\ AllSound /\ OneEach /\ OneVerified /\ LoginToo
  BY DEF Core, ConnTyped, SessionsTypeOK
<1>2. Received(s, type) /\ UNCHANGED <<info, online, mistyped>>
  BY DEF OnTakeOver
<1>3. /\ h \in Packet /\ h.type = type /\ h.to = s
      /\ i \in Nat /\ h.account \in Accounts /\ h.node \in Worlds /\ h.from \in Nat
  <2>1. h \in Packet /\ h.type = type /\ h.to = s
    BY <1>0, <1>1, <1>2, Taken
  <2> QED
    BY <2>1, PacketFacts
<1>4. Target(h)[1] = s /\ Target(h)[2] = i /\ \A j : ~FromLogin(h, j)
  BY <1>3 DEF Target, FromLogin
<1>5. r \in Seq(Packet) /\ \A k \in DOMAIN r : ~IsToken(r[k])
  <2>1. /\ [to |-> h.node, type |-> "RESPONSE_VERIFY_LINKS", target |-> h.from] \in Packet
        /\ ConnectNotice(h.account) \in Packet
    BY <1>3, PacketsMade
  <2>2. /\ ~IsToken([to |-> h.node, type |-> "RESPONSE_VERIFY_LINKS", target |-> h.from])
        /\ ~IsToken(ConnectNotice(h.account))
    BY DEF ConnectNotice, IsToken, TokenTypes
  <2>3. X \in Seq(Packet) /\ \A k \in DOMAIN X : ~IsToken(X[k])
    BY <2>1, <2>2
  <2>4. Y \in Seq(Packet) /\ \A k \in DOMAIN Y : ~IsToken(Y[k])
    BY <2>1, <2>2
  <2> HIDE DEF X, Y
  <2> QED
    BY <2>3, <2>4, Replies
<1>6. /\ i \in DOMAIN conn[s] /\ c \in Connection
      /\ c.account = NoID /\ c.flags \subseteq {"handed"}
      /\ c.state # "gone" => "handed" \in c.flags
      /\ \A t \in Servers, j \in Nat, q \in Players :
            IsOpen(s, i, q) /\ IsOpen(t, j, q) => t = s /\ j = i
      /\ \A x : Target(x)[1] = s /\ Target(x)[2] = i => Target(x) = Target(h)
  <2>1. /\ i \in DOMAIN conn[s] /\ c \in Connection
        /\ c.account = NoID /\ c.flags \subseteq {"handed"}
        /\ c.state # "gone" => "handed" \in c.flags
        /\ \A t \in Servers, j \in Nat, q \in Players :
              IsOpen(s, i, q) /\ IsOpen(t, j, q) =>
                 \/ t = s /\ j = i
                 \/ t = Login /\ FromLogin(h, j) /\ "verified" \in conn[Login][j].flags
        /\ \A x : Target(x)[1] = s /\ Target(x)[2] = i => Target(x) = Target(h)
    BY <1>0, <1>2, <1>4, Arrives
  <2> QED
    BY <1>4, <2>1
<1>7. Post(s, r)
  BY <1>3, Constants DEF OnTakeOver, IfCounted
<1>8. \A j \in Answered : j \in Answered'
  BY <1>0, <1>1, <1>2, <1>5, <1>7, AnswersKept
<1>9. CASE ~Found(s, i)
  <2>1. conn' = conn
    BY <1>9 DEF OnTakeOver
  <2> QED
    BY <1>0, <1>2, <1>5, <1>7, <1>8, <2>1, CoreUnmoved
<1>10. CASE Found(s, i)
  <2>1. conn' = [conn EXCEPT ![s][i] = d]
    BY <1>10 DEF OnTakeOver
  <2>2. c.state # "gone" /\ c.flags = {"handed"}
    BY <1>6, <1>10 DEF Found
  <2>3. /\ d \in Connection /\ d.player = c.player /\ d.state = c.state
        /\ d.flags = c.flags \union flags /\ Sound(s, d)
    <3>1. flags \in SUBSET (Flags \ {"handed"})
      BY DEF Flags
    <3> HIDE DEF c, i, h
    <3> QED
      BY <1>0, <1>3, <1>6, <2>2, <3>1, Arrived
  <2> HIDE DEF d, r
  <2>4. /\ ConnTyped' /\ AllSound' /\ OneEach'
        /\ \A t \in Servers : \A k, q : IsOpen(t, k, q)' =>
              /\ IsOpen(t, k, q)
              /\ conn'[t][k] = conn[t][k] \/ (t = s /\ k = i /\ d.state = "open")
        /\ \A x : /\ Fresh(x)
                  /\ Target(x)[1] = s /\ Target(x)[2] = i =>
                        /\ d.account = NoID /\ d.flags \subseteq {"handed"}
                        /\ d.state # "gone" => "handed" \in d.flags
                  => Fresh(x)'
    BY <1>0, <1>1, <1>6, <2>1, <2>3, Steady
  <2>5. \A x \in TokensIn(Mail) : Fresh(x) /\ Target(x) # Target(h) => Fresh(x)'
    BY <1>6, <2>4
  <2>6. OneVerified' /\ LoginToo'
    <3>0. PICK e \in Nat : e = i
      BY <1>3
    <3>1. \A t \in Servers, j \in Nat, q \in Players : IsOpen(t, j, q)' =>
             IsOpen(t, j, q) /\ (conn'[t][j].flags = conn[t][j].flags \/ (t = s /\ j = e))
      BY <2>4, <3>0
    <3>2. \A t \in Servers, j \in Nat, q \in Players : IsOpen(s, e, q)' /\ IsOpen(t, j, q)' => t = s /\ j = e
      <4>1. \A t \in Servers, j \in Nat, q \in Players :
               IsOpen(s, e, q) /\ IsOpen(t, j, q) => t = s /\ j = e
        BY <1>6, <3>0
      <4> HIDE DEF i, h, c
      <4> QED
        BY <3>1, <4>1
    <3> HIDE DEF i, h, c
    <3> QED
      BY <1>1, <1>8, <3>1, <3>2, Lone
  <2>8. online' \in [Accounts -> BOOLEAN] /\ UNCHANGED <<info, mistyped>>
    BY <1>2 DEF Core, SessionsTypeOK
  <2>9. \A x \in TokensIn(Mail) :
           /\ Fresh(x)
           /\ type \in TokenTypes => Target(x) # Target(Head(fromMaster[s]))
           => Fresh(x)'
    BY <1>0, <2>5
  <2>10. ConnTyped' /\ AllSound' /\ OneEach' /\ OneVerified' /\ LoginToo'
    BY <2>4, <2>6
  <2> QED
    BY <1>0, <1>2, <1>5, <1>7, <2>8, <2>9, <2>10, CoreHandled
<1> QED
  BY <1>9, <1>10

LEMMA CoreInit ==
    ASSUME SessionsAssumption, SessionsInit
    PROVE  Core
<1>1. /\ \A s \in Servers : conn[s] = <<>>
      /\ \A n \in Nodes : toMaster[n] = <<>> /\ fromMaster[n] = <<>>
  BY DEF SessionsInit
<1>2. SessionsTypeOK
  BY DEF SessionsInit, SessionsTypeOK
<1>3. QueuesTyped
  BY <1>1 DEF SessionsInit, QueuesTyped, Routed
<1>4. \A b \in Boxes : Mail[b] = <<>>
  BY <1>1 DEF Mail, Boxes
<1>5. Clashes(Mail) = {} /\ TokensFresh
  <2>1. \A b \in Boxes : DOMAIN Mail[b] = {}
    BY <1>4
  <2>2. Clashes(Mail) = {}
    BY <2>1 DEF Clashes
  <2>3. TokensIn(Mail) = {}
    BY <2>1 DEF TokensIn
  <2> QED
    BY <2>2, <2>3 DEF TokensFresh
<1>6. AllSound
  BY <1>1 DEF AllSound
<1>7. \A s \in Servers : \A i, p : ~IsOpen(s, i, p)
  BY <1>1 DEF IsOpen
<1>8. OneEach /\ OneVerified /\ LoginToo
  BY <1>7, Constants DEF OneEach, OneVerified, LoginToo
<1> QED
  BY <1>2, <1>3, <1>5, <1>6, <1>8 DEF Core

LEMMA CoreStep ==
    ASSUME SessionsAssumption, Core, SessionsNext
    PROVE  Core'
<1>0. Login \in Servers /\ Worlds \subseteq Servers
  BY Constants
<1>1. ASSUME NEW p \in Players, PlayerStep(p) PROVE Core'
  <2>1. ASSUME NEW s \in Servers, Connect(p, s) PROVE Core'
    BY <2>1, CoreConnect
  <2>2. ASSUME NEW i \in DOMAIN conn[Login], Authenticate(p, i) \/ MistypedPassword(p, i) PROVE Core'
    BY <2>2, CoreAuthenticate, CoreMistyped
  <2>3. ASSUME NEW i \in DOMAIN conn[Login], NEW w \in Worlds, NEW j \in DOMAIN conn[w],
               LoginVerifyLinks(p, i, w, j)
        PROVE  Core'
    BY <2>3, CoreLoginVerifyLinks
  <2>4. ASSUME NEW w \in Worlds, NEW s \in Servers, NEW i \in DOMAIN conn[w], NEW j \in DOMAIN conn[s],
               WorldVerifyLinks(p, w, i, s, j)
        PROVE  Core'
    BY <2>4, CoreWorldVerifyLinks
  <2> QED
    BY <1>1, <2>1, <2>2, <2>3, <2>4 DEF PlayerStep
<1>2. ASSUME NEW s \in Servers, NEW i \in DOMAIN conn[s], HangUp(s, i) PROVE Core'
  BY <1>2, CoreLeave
<1>3. ASSUME NEW i \in DOMAIN conn[Login], Timeout(i) PROVE Core'
  BY <1>0, <1>3, CoreLeave
<1>4. ASSUME NEW n \in Nodes, MasterStep(n) PROVE Core'
  BY <1>4, CoreMaster
<1>5. ASSUME NEW n \in Nodes, HandlePacket(n) PROVE Core'
  <2>1. CASE OnSetOnline
    BY <2>1, CoreSetOnline
  <2>2. CASE OnLinkAnswer \/ \E w \in Worlds : OnWorldResponse(w)
    BY <2>2, CoreEnd
  <2>3. CASE OnWorldReturn
    BY <1>0, <2>3, CoreTakeOver DEF OnWorldReturn
  <2>4. ASSUME NEW w \in Worlds, OnWorldRequest(w) PROVE Core'
    BY <1>0, <2>4, CoreTakeOver DEF OnWorldRequest
  <2>5. ASSUME NEW w \in Worlds, OnLoginLink(w) PROVE Core'
    BY <2>5, CoreLoginLink
  <2>6. ASSUME NEW w \in Worlds, OnAuthenticate(w) PROVE Core'
    BY <2>6, CoreAuthenticated
  <2>7. ASSUME NEW success \in BOOLEAN, OnDatabaseAuthenticate(success) PROVE Core'
    BY <2>7, CoreDatabase
  <2> QED
    BY <1>5, <2>1, <2>2, <2>3, <2>4, <2>5, <2>6, <2>7 DEF HandlePacket
<1>6. ASSUME NEW s \in Servers, CloseStep(s) PROVE Core'
  <2>1. PICK i \in DOMAIN conn[s] : NoticeEnd(s, i) \/ Close(s, i)
    BY <1>6 DEF CloseStep
  <2> QED
    BY <2>1, CoreLeave, CoreClose
<1> QED
  BY <1>1, <1>2, <1>3, <1>4, <1>5, <1>6 DEF SessionsNext, ServerStep
-----------------------------------------------------------------------------
(* Counting notices                                                        *)

\* Notices and connections are counted by their servers and numbers.
Places(S) == S \X (Nat \ {0})

\* Ways to name for each notice in Q a later one of the same server in D, and for each
\* a connection of that server in C, none of them twice.
Follow(Q, D) == {d \in [Q -> D] : /\ \A x, y \in Q : d[x] = d[y] => x = y
                                  /\ \A x \in Q : d[x][1] = x[1] /\ d[x][2] > x[2]}
Remain(Q, C) == {c \in [Q -> C] : /\ \A x, y \in Q : c[x] = c[y] => x = y
                                  /\ \A x \in Q : c[x][1] = x[1]}

\* Each connect notice on its way is followed by a disconnect notice of the same
\* server, or is about a connection that is there.
Matched(P, D, C) == \E Q \in SUBSET P : Follow(Q, D) # {} /\ Remain(P \ Q, C) # {}

\* What is counted, with the notices on their way, is at most what is there.
Balance(P, D, C, x, exact) ==
    /\ IsFiniteSet(P) /\ IsFiniteSet(D) /\ IsFiniteSet(C)
    /\ Matched(P, D, C)
    /\ x \in Int /\ x + Cardinality(P) - Cardinality(D) <= Cardinality(C)
    /\ exact => x + Cardinality(P) - Cardinality(D) = Cardinality(C)

LEMMA MatchedIs ==
    ASSUME NEW P, NEW D, NEW C, NEW Q \in SUBSET P, NEW d \in Follow(Q, D), NEW c \in Remain(P \ Q, C)
    PROVE  Matched(P, D, C)
  BY DEF Matched

LEMMA FollowFacts ==
    ASSUME NEW Q, NEW D, NEW d \in Follow(Q, D)
    PROVE  /\ d \in [Q -> D]
           /\ \A x, y \in Q : d[x] = d[y] => x = y
           /\ \A x \in Q : d[x][1] = x[1] /\ d[x][2] > x[2]
  BY DEF Follow

LEMMA RemainFacts ==
    ASSUME NEW Q, NEW C, NEW c \in Remain(Q, C)
    PROVE  /\ c \in [Q -> C]
           /\ \A x, y \in Q : c[x] = c[y] => x = y
           /\ \A x \in Q : c[x][1] = x[1]
  BY DEF Remain

\* Fewer connects than disconnects and connections.
LEMMA MatchedCounts ==
    ASSUME NEW P, NEW D, NEW C, IsFiniteSet(P), IsFiniteSet(D), IsFiniteSet(C), Matched(P, D, C)
    PROVE  /\ Cardinality(P) \in Nat /\ Cardinality(D) \in Nat /\ Cardinality(C) \in Nat
           /\ Cardinality(P) <= Cardinality(D) + Cardinality(C)
<1>1. PICK Q \in SUBSET P : Follow(Q, D) # {} /\ Remain(P \ Q, C) # {}
  BY DEF Matched
<1>2. PICK d \in Follow(Q, D), c \in Remain(P \ Q, C) : TRUE
  BY <1>1
<1>3. d \in Injection(Q, D)
  BY <1>2, FollowFacts, Fun_IsInj
<1>4. c \in Injection(P \ Q, C)
  BY <1>2, RemainFacts, Fun_IsInj
<1>5. IsFiniteSet(Q) /\ Cardinality(Q) <= Cardinality(D)
  BY <1>3, FS_Injection
<1>6. IsFiniteSet(P \ Q) /\ Cardinality(P \ Q) <= Cardinality(C)
  BY <1>4, FS_Injection
<1>7. Cardinality(P \ Q) = Cardinality(P) - Cardinality(P \cap Q)
  BY FS_Difference
<1>8. P \cap Q = Q
  OBVIOUS
<1>9. Cardinality(P) \in Nat /\ Cardinality(D) \in Nat /\ Cardinality(C) \in Nat /\ Cardinality(Q) \in Nat
  BY <1>5, FS_CardinalityType
<1> QED
  BY <1>5, <1>6, <1>7, <1>8, <1>9

\* A connection gets the account and is announced.
LEMMA BalConnect ==
    ASSUME NEW P, NEW D, NEW C, NEW x, NEW exact, Balance(P, D, C, x, exact),
           NEW s, NEW n, NEW i, <<s, n>> \notin P, <<s, i>> \notin C
    PROVE  Balance(P \union {<<s, n>>}, D, C \union {<<s, i>>}, x, exact)
<1> DEFINE p == <<s, n>>
           e == <<s, i>>
           PP == P \union {p}
           CC == C \union {e}
<1>0. p \notin P /\ e \notin C /\ p[1] = e[1]
  OBVIOUS
<1> HIDE DEF p, e
<1>1. Matched(P, D, C) /\ IsFiniteSet(P) /\ IsFiniteSet(D) /\ IsFiniteSet(C)
  BY DEF Balance
<1>2. PICK Q \in SUBSET P : Follow(Q, D) # {} /\ Remain(P \ Q, C) # {}
  BY <1>1 DEF Matched
<1>3. PICK d \in Follow(Q, D), c \in Remain(P \ Q, C) : TRUE
  BY <1>2
<1> DEFINE R == PP \ Q
           h == [y \in R |-> IF y = p THEN e ELSE c[y]]
<1>4. \A y \in R : y = p \/ (y # p /\ y \in P \ Q)
  OBVIOUS
<1>5. h \in Remain(R, CC)
  <2>1. /\ c \in [P \ Q -> C]
        /\ \A a, b \in P \ Q : c[a] = c[b] => a = b
        /\ \A a \in P \ Q : c[a][1] = a[1]
    BY <1>3, RemainFacts
  <2>2. \A y \in R : h[y] = IF y = p THEN e ELSE c[y]
    OBVIOUS
  <2>3. h \in [R -> CC]
    BY <1>4, <2>1
  <2>4. \A a, b \in R : h[a] = h[b] => a = b
    BY <1>0, <1>4, <2>1, <2>2
  <2>5. \A a \in R : h[a][1] = a[1]
    BY <1>0, <1>4, <2>1, <2>2
  <2> HIDE DEF h, R
  <2> QED
    BY <2>3, <2>4, <2>5 DEF Remain
<1>6. Matched(PP, D, CC)
  <2>1. Q \in SUBSET PP
    OBVIOUS
  <2> HIDE DEF h, CC
  <2> QED
    BY <1>3, <1>5, <2>1, MatchedIs
<1>7. /\ IsFiniteSet(PP) /\ Cardinality(PP) = Cardinality(P) + 1 /\ Cardinality(P) \in Nat
      /\ IsFiniteSet(CC) /\ Cardinality(CC) = Cardinality(C) + 1 /\ Cardinality(C) \in Nat
      /\ Cardinality(D) \in Nat
  BY <1>0, <1>1, FS_AddElement, FS_CardinalityType
<1>8. /\ x \in Int /\ x + Cardinality(P) - Cardinality(D) <= Cardinality(C)
      /\ exact => x + Cardinality(P) - Cardinality(D) = Cardinality(C)
  BY DEF Balance
<1>9. /\ x + Cardinality(PP) - Cardinality(D) <= Cardinality(CC)
      /\ exact => x + Cardinality(PP) - Cardinality(D) = Cardinality(CC)
  BY <1>7, <1>8
<1> HIDE DEF PP, CC
<1>10. Balance(PP, D, CC, x, exact)
  BY <1>1, <1>6, <1>7, <1>8, <1>9 DEF Balance
<1> QED
  BY <1>10 DEF PP, CC, p, e

\* A connection is forgotten and that is announced.
LEMMA BalDisconnect ==
    ASSUME NEW S, NEW P \in SUBSET Places(S), NEW D, NEW C, NEW x, NEW exact, Balance(P, D, C, x, exact),
           NEW s, NEW n, NEW i, <<s, n>> \notin D, <<s, i>> \in C,
           \A y \in P : y[1] = s => y[2] < n
    PROVE  Balance(P, D \union {<<s, n>>}, C \ {<<s, i>>}, x, exact)
<1> DEFINE p == <<s, n>>
           e == <<s, i>>
           DD == D \union {p}
           CC == C \ {e}
<1>0. p \notin D /\ e \in C /\ p[1] = s /\ p[2] = n /\ e[1] = s
  OBVIOUS
<1> HIDE DEF p, e
<1>1. Matched(P, D, C) /\ IsFiniteSet(P) /\ IsFiniteSet(D) /\ IsFiniteSet(C)
  BY DEF Balance
<1>2. PICK Q \in SUBSET P : Follow(Q, D) # {} /\ Remain(P \ Q, C) # {}
  BY <1>1 DEF Matched
<1>3. PICK d \in Follow(Q, D), c \in Remain(P \ Q, C) : TRUE
  BY <1>2
<1>4. /\ d \in [Q -> D]
      /\ \A a, b \in Q : d[a] = d[b] => a = b
      /\ \A a \in Q : d[a][1] = a[1] /\ d[a][2] > a[2]
  BY <1>3, FollowFacts
<1>5. /\ c \in [P \ Q -> C]
      /\ \A a, b \in P \ Q : c[a] = c[b] => a = b
      /\ \A a \in P \ Q : c[a][1] = a[1]
  BY <1>3, RemainFacts
<1> DEFINE X == {a \in P \ Q : c[a] = e}
           R == Q \union X
           g == [a \in R |-> IF a \in Q THEN d[a] ELSE p]
           h == [a \in P \ R |-> c[a]]
<1>6. R \in SUBSET P /\ \A a \in X : a \in P \ Q /\ c[a] = e /\ \A b \in X : a = b
  BY <1>5
<1>7. g \in Follow(R, DD)
  <2>1. \A a \in R : (a \in Q /\ g[a] = d[a] /\ d[a] \in D) \/ (a \in X /\ a \notin Q /\ g[a] = p)
    BY <1>4
  <2>2. g \in [R -> DD]
    <3>1. \A a \in R : g[a] \in DD
      BY <2>1
    <3> QED
      BY <3>1
  <2>3. \A a, b \in R : g[a] = g[b] => a = b
    <3> HIDE DEF g, R, X
    <3> QED
      BY <1>0, <1>4, <1>6, <2>1
  <2>4. \A a \in R : g[a][1] = a[1] /\ g[a][2] > a[2]
    <3> SUFFICES ASSUME NEW a \in R PROVE g[a][1] = a[1] /\ g[a][2] > a[2]
      OBVIOUS
    <3>1. CASE a \in Q /\ g[a] = d[a]
      BY <1>4, <3>1
    <3>2. CASE a \in X /\ g[a] = p
      <4>1. a[1] = s
        BY <1>0, <1>5, <1>6, <3>2
      <4>2. a[2] < n
        BY <1>6, <3>2, <4>1
      <4> QED
        BY <1>0, <3>2, <4>1, <4>2
    <3> HIDE DEF g, R, X
    <3> QED
      BY <2>1, <3>1, <3>2
  <2> HIDE DEF g, R, DD
  <2> QED
    BY <2>2, <2>3, <2>4 DEF Follow
<1>8. h \in Remain(P \ R, CC)
  <2>1. \A a \in P \ R : a \in P \ Q /\ c[a] \in C /\ c[a] # e /\ h[a] = c[a]
    BY <1>5
  <2>2. h \in [P \ R -> CC]
    BY <2>1
  <2> HIDE DEF h, R, X
  <2>3. \A a, b \in P \ R : h[a] = h[b] => a = b
    BY <1>5, <2>1
  <2>4. \A a \in P \ R : h[a][1] = a[1]
    BY <1>5, <2>1
  <2> QED
    BY <2>2, <2>3, <2>4 DEF Remain
<1>9. Matched(P, DD, CC)
  <2> HIDE DEF g, h, R, DD, CC
  <2> QED
    BY <1>6, <1>7, <1>8, MatchedIs
<1>10. /\ IsFiniteSet(DD) /\ Cardinality(DD) = Cardinality(D) + 1 /\ Cardinality(D) \in Nat
       /\ IsFiniteSet(CC) /\ Cardinality(CC) = Cardinality(C) - 1 /\ Cardinality(C) \in Nat
       /\ Cardinality(P) \in Nat
  BY <1>0, <1>1, FS_AddElement, FS_RemoveElement, FS_CardinalityType
<1>11. /\ x \in Int /\ x + Cardinality(P) - Cardinality(D) <= Cardinality(C)
       /\ exact => x + Cardinality(P) - Cardinality(D) = Cardinality(C)
  BY DEF Balance
<1>12. /\ x + Cardinality(P) - Cardinality(DD) <= Cardinality(CC)
       /\ exact => x + Cardinality(P) - Cardinality(DD) = Cardinality(CC)
  BY <1>10, <1>11
<1> HIDE DEF DD, CC
<1>13. Balance(P, DD, CC, x, exact)
  BY <1>1, <1>9, <1>10, <1>11, <1>12 DEF Balance
<1> QED
  BY <1>13 DEF DD, CC, p, e

\* A connection gets the account and is not announced.
LEMMA BalUncounted ==
    ASSUME NEW P, NEW D, NEW C, NEW x, NEW exact, Balance(P, D, C, x, exact), NEW e, e \notin C
    PROVE  Balance(P, D, C \union {e}, x, FALSE)
<1>1. Matched(P, D, C) /\ IsFiniteSet(P) /\ IsFiniteSet(D) /\ IsFiniteSet(C)
  BY DEF Balance
<1> DEFINE CC == C \union {e}
<1>2. Matched(P, D, CC)
  <2>1. PICK Q \in SUBSET P : Follow(Q, D) # {} /\ Remain(P \ Q, C) # {}
    BY <1>1 DEF Matched
  <2>2. Remain(P \ Q, C) \subseteq Remain(P \ Q, CC)
    BY DEF Remain
  <2> HIDE DEF CC
  <2> QED
    BY <2>1, <2>2 DEF Matched
<1>3. IsFiniteSet(CC) /\ Cardinality(CC) = Cardinality(C) + 1 /\ Cardinality(C) \in Nat
      /\ Cardinality(P) \in Nat /\ Cardinality(D) \in Nat
  BY <1>1, FS_AddElement, FS_CardinalityType
<1>4. x \in Int /\ x + Cardinality(P) - Cardinality(D) <= Cardinality(C)
  BY DEF Balance
<1>5. x + Cardinality(P) - Cardinality(D) <= Cardinality(CC)
  BY <1>3, <1>4
<1> HIDE DEF CC
<1>6. Balance(P, D, CC, x, FALSE)
  BY <1>1, <1>2, <1>3, <1>4, <1>5 DEF Balance
<1> QED
  BY <1>6 DEF CC

\* A count that is not positive may be forgotten.
LEMMA BalReset ==
    ASSUME NEW P, NEW D, NEW C, NEW x, NEW exact, Balance(P, D, C, x, exact), x <= 0
    PROVE  Balance(P, D, C, 0, exact)
<1>1. /\ Matched(P, D, C) /\ IsFiniteSet(P) /\ IsFiniteSet(D) /\ IsFiniteSet(C)
      /\ x \in Int /\ x + Cardinality(P) - Cardinality(D) <= Cardinality(C)
      /\ exact => x + Cardinality(P) - Cardinality(D) = Cardinality(C)
  BY DEF Balance
<1>2. /\ Cardinality(P) \in Nat /\ Cardinality(D) \in Nat /\ Cardinality(C) \in Nat
      /\ Cardinality(P) <= Cardinality(D) + Cardinality(C)
  BY <1>1, MatchedCounts
<1>3. exact => x = 0
  BY <1>1, <1>2
<1>4. 0 + Cardinality(P) - Cardinality(D) <= Cardinality(C)
  BY <1>2
<1>5. exact => 0 + Cardinality(P) - Cardinality(D) = Cardinality(C)
  BY <1>1, <1>3
<1> QED
  BY <1>1, <1>4, <1>5 DEF Balance

\* The head of a queue is taken, and the others move up.
Behind(n, y) == IF y[1] = n THEN <<n, y[2] + 1>> ELSE y
MovedUp(S, n, P) == {y \in Places(S) : Behind(n, y) \in P}

LEMMA BehindFacts ==
    ASSUME NEW S, NEW n \in S, NEW y \in Places(S)
    PROVE  /\ Behind(n, y) \in Places(S) /\ Behind(n, y) # <<n, 1>>
           /\ Behind(n, y)[1] = y[1]
           /\ \A z \in Places(S) : Behind(n, z) = Behind(n, y) => z = y
           /\ \A z \in Places(S) : z[1] = y[1] =>
                 (Behind(n, z)[2] > Behind(n, y)[2] <=> z[2] > y[2])
<1>1. \A z \in Places(S) : z = <<z[1], z[2]>> /\ z[1] \in S /\ z[2] \in Nat \ {0}
  BY DEF Places
<1> QED
  BY <1>1 DEF Behind, Places

LEMMA BehindOf ==
    ASSUME NEW S, NEW n \in S, NEW y \in Places(S), y # <<n, 1>>
    PROVE  \E z \in Places(S) : Behind(n, z) = y
<1>1. y = <<y[1], y[2]>> /\ y[1] \in S /\ y[2] \in Nat \ {0}
  BY DEF Places
<1>2. CASE y[1] = n
  <2>1. y[2] # 1
    BY <1>1, <1>2
  <2>2. <<n, y[2] - 1>> \in Places(S)
    BY <1>1, <2>1 DEF Places
  <2>3. Behind(n, <<n, y[2] - 1>>) = <<n, y[2]>>
    BY <1>1 DEF Behind
  <2> QED
    BY <1>1, <1>2, <2>2, <2>3
<1>3. CASE y[1] # n
  BY <1>3 DEF Behind
<1> QED
  BY <1>2, <1>3

LEMMA MovedCount ==
    ASSUME NEW S, NEW n \in S, NEW P \in SUBSET Places(S), IsFiniteSet(P)
    PROVE  /\ IsFiniteSet(MovedUp(S, n, P)) /\ Cardinality(P) \in Nat
           /\ Cardinality(MovedUp(S, n, P)) =
                 IF <<n, 1>> \in P THEN Cardinality(P) - 1 ELSE Cardinality(P)
<1> DEFINE M == MovedUp(S, n, P)
           T == P \ {<<n, 1>>}
           f == [y \in M |-> Behind(n, y)]
<1>1. f \in Bijection(M, T)
  <2>1. \A y \in M : y \in Places(S) /\ Behind(n, y) \in T
    BY BehindFacts DEF MovedUp
  <2>2. f \in [M -> T]
    BY <2>1
  <2>3. \A y, z \in M : f[y] = f[z] => y = z
    BY <2>1, BehindFacts
  <2>4. \A t \in T : \E y \in M : f[y] = t
    <3> SUFFICES ASSUME NEW t \in T PROVE \E y \in M : f[y] = t
      OBVIOUS
    <3>1. PICK z \in Places(S) : Behind(n, z) = t
      BY BehindOf
    <3>2. z \in M
      BY <3>1 DEF MovedUp
    <3> QED
      BY <3>1, <3>2
  <2> HIDE DEF f, M, T
  <2> QED
    BY <2>2, <2>3, <2>4, Fun_IsBij
<1> HIDE DEF M
<1>2. IsFiniteSet(T) /\ Cardinality(T) = IF <<n, 1>> \in P THEN Cardinality(P) - 1 ELSE Cardinality(P)
  BY FS_RemoveElement
<1> HIDE DEF T
<1>3. ExistsBijection(T, M)
  BY <1>1, Fun_ExistsBijSymmetric DEF ExistsBijection
<1>4. IsFiniteSet(M) /\ Cardinality(M) = Cardinality(T)
  BY <1>2, <1>3, FS_Bijection
<1>5. Cardinality(P) \in Nat
  BY FS_CardinalityType
<1> QED
  BY <1>2, <1>4, <1>5 DEF M

LEMMA MovedMatch ==
    ASSUME NEW S, NEW n \in S, NEW P \in SUBSET Places(S), NEW D \in SUBSET Places(S), NEW C,
           Matched(P, D, C)
    PROVE  Matched(MovedUp(S, n, P), MovedUp(S, n, D), C)
<1> DEFINE PP == MovedUp(S, n, P)
           DD == MovedUp(S, n, D)
<1>1. PICK Q \in SUBSET P : Follow(Q, D) # {} /\ Remain(P \ Q, C) # {}
  BY DEF Matched
<1>2. PICK d \in Follow(Q, D), c \in Remain(P \ Q, C) : TRUE
  BY <1>1
<1>3. /\ d \in [Q -> D]
      /\ \A a, b \in Q : d[a] = d[b] => a = b
      /\ \A a \in Q : d[a][1] = a[1] /\ d[a][2] > a[2]
  BY <1>2, FollowFacts
<1>4. /\ c \in [P \ Q -> C]
      /\ \A a, b \in P \ Q : c[a] = c[b] => a = b
      /\ \A a \in P \ Q : c[a][1] = a[1]
  BY <1>2, RemainFacts
<1> DEFINE R == MovedUp(S, n, Q)
           g == [y \in R |-> CHOOSE z \in DD : Behind(n, z) = d[Behind(n, y)]]
           h == [y \in PP \ R |-> c[Behind(n, y)]]
<1>5. /\ R \in SUBSET PP
      /\ \A y \in R : y \in Places(S) /\ Behind(n, y) \in Q
      /\ \A y \in PP \ R : y \in Places(S) /\ Behind(n, y) \in P \ Q
  BY DEF MovedUp
<1>6. ASSUME NEW y \in R
      PROVE  \E z \in DD : Behind(n, z) = d[Behind(n, y)]
  <2> DEFINE u == Behind(n, y)
  <2>1. u \in Q /\ d[u] \in Places(S) /\ d[u][2] > u[2] /\ u[2] \in Nat \ {0} /\ d[u] \in D
    BY <1>3, <1>5 DEF Places
  <2> HIDE DEF u
  <2>2. d[u] # <<n, 1>>
    BY <2>1
  <2>3. PICK z \in Places(S) : Behind(n, z) = d[u]
    BY <2>1, <2>2, BehindOf
  <2>4. z \in DD
    BY <2>1, <2>3 DEF MovedUp
  <2> QED
    BY <2>3, <2>4 DEF u
<1>7. \A y \in R : g[y] \in DD /\ Behind(n, g[y]) = d[Behind(n, y)]
  BY <1>6
<1>8. DD \subseteq Places(S)
  BY DEF MovedUp
<1>9. g \in Follow(R, DD)
  <2>1. g \in [R -> DD]
    <3>1. g = [y \in R |-> g[y]]
      OBVIOUS
    <3> HIDE DEF g
    <3> QED
      BY <1>7, <3>1
  <2> HIDE DEF g, R, PP, DD
  <2>2. \A a, b \in R : g[a] = g[b] => a = b
    <3> SUFFICES ASSUME NEW a \in R, NEW b \in R, g[a] = g[b] PROVE a = b
      OBVIOUS
    <3>1. d[Behind(n, a)] = d[Behind(n, b)]
      BY <1>7
    <3>2. Behind(n, a) = Behind(n, b)
      BY <1>3, <1>5, <3>1
    <3> QED
      BY <1>5, <3>2, BehindFacts
  <2>3. \A a \in R : g[a][1] = a[1] /\ g[a][2] > a[2]
    <3> SUFFICES ASSUME NEW a \in R PROVE g[a][1] = a[1] /\ g[a][2] > a[2]
      OBVIOUS
    <3>1. g[a] \in Places(S) /\ a \in Places(S) /\ Behind(n, a) \in Q
      BY <1>5, <1>7, <1>8
    <3>2. Behind(n, g[a])[1] = g[a][1] /\ Behind(n, a)[1] = a[1]
      BY <3>1, BehindFacts
    <3>3. Behind(n, g[a]) = d[Behind(n, a)]
      BY <1>7
    <3>4. d[Behind(n, a)][1] = Behind(n, a)[1] /\ d[Behind(n, a)][2] > Behind(n, a)[2]
      BY <1>3, <3>1
    <3>5. g[a][1] = a[1]
      BY <3>2, <3>3, <3>4
    <3>6. Behind(n, g[a])[2] > Behind(n, a)[2]
      BY <3>3, <3>4
    <3> QED
      BY <3>1, <3>5, <3>6, BehindFacts
  <2> QED
    BY <2>1, <2>2, <2>3 DEF Follow
<1>10. h \in Remain(PP \ R, C)
  <2>1. \A a \in PP \ R : h[a] = c[Behind(n, a)] /\ h[a] \in C
    BY <1>4, <1>5
  <2>2. h \in [PP \ R -> C]
    BY <1>4, <1>5
  <2> HIDE DEF h, R, PP, DD
  <2>3. \A a, b \in PP \ R : h[a] = h[b] => a = b
    <3> SUFFICES ASSUME NEW a \in PP \ R, NEW b \in PP \ R, h[a] = h[b] PROVE a = b
      OBVIOUS
    <3>1. Behind(n, a) = Behind(n, b)
      BY <1>4, <1>5, <2>1
    <3> QED
      BY <1>5, <3>1, BehindFacts
  <2>4. \A a \in PP \ R : h[a][1] = a[1]
    <3> SUFFICES ASSUME NEW a \in PP \ R PROVE h[a][1] = a[1]
      OBVIOUS
    <3>1. h[a][1] = Behind(n, a)[1]
      BY <1>4, <1>5, <2>1
    <3> QED
      BY <1>5, <3>1, BehindFacts
  <2> QED
    BY <2>2, <2>3, <2>4 DEF Remain
<1> HIDE DEF PP, DD, R, g, h
<1>11. Matched(PP, DD, C)
  BY <1>5, <1>9, <1>10, MatchedIs
<1> QED
  BY <1>11 DEF PP, DD

LEMMA BalTake ==
    ASSUME NEW S, NEW n \in S, NEW P \in SUBSET Places(S), NEW D \in SUBSET Places(S), NEW C,
           NEW x, NEW exact, Balance(P, D, C, x, exact), NEW y,
           \/ <<n, 1>> \in P /\ <<n, 1>> \notin D /\ y = x + 1
           \/ <<n, 1>> \notin P /\ <<n, 1>> \in D /\ y = x - 1
           \/ <<n, 1>> \notin P /\ <<n, 1>> \notin D /\ y = x
    PROVE  Balance(MovedUp(S, n, P), MovedUp(S, n, D), C, y, exact)
<1>1. /\ Matched(P, D, C) /\ IsFiniteSet(P) /\ IsFiniteSet(D) /\ IsFiniteSet(C)
      /\ x \in Int /\ x + Cardinality(P) - Cardinality(D) <= Cardinality(C)
      /\ exact => x + Cardinality(P) - Cardinality(D) = Cardinality(C)
  BY DEF Balance
<1> DEFINE PP == MovedUp(S, n, P)
           DD == MovedUp(S, n, D)
<1>2. Matched(PP, DD, C)
  BY <1>1, MovedMatch
<1>3. /\ IsFiniteSet(PP) /\ Cardinality(P) \in Nat
      /\ Cardinality(PP) = IF <<n, 1>> \in P THEN Cardinality(P) - 1 ELSE Cardinality(P)
  BY <1>1, MovedCount
<1>4. /\ IsFiniteSet(DD) /\ Cardinality(D) \in Nat
      /\ Cardinality(DD) = IF <<n, 1>> \in D THEN Cardinality(D) - 1 ELSE Cardinality(D)
  BY <1>1, MovedCount
<1>5. Cardinality(C) \in Nat
  BY <1>1, FS_CardinalityType
<1> HIDE DEF PP, DD
<1>6. /\ y \in Int /\ y + Cardinality(PP) - Cardinality(DD) = x + Cardinality(P) - Cardinality(D)
  BY <1>1, <1>3, <1>4
<1>7. Balance(PP, DD, C, y, exact)
  BY <1>1, <1>2, <1>3, <1>4, <1>6 DEF Balance
<1> QED
  BY <1>7 DEF PP, DD

-----------------------------------------------------------------------------
(* What is counted                                                         *)

\* Notices in the queues T, connections in K.
PendingIn(T, a, k, type) ==
    {y \in Places(Servers) : /\ Kind(y[1]) = k /\ y[2] \in DOMAIN T[y[1]]
                             /\ T[y[1]][y[2]].type = type /\ T[y[1]][y[2]].account = a}

CountedIn(K, a, k) ==
    {y \in Places(Servers) : /\ Kind(y[1]) = k /\ y[2] \in DOMAIN K[y[1]]
                             /\ K[y[1]][y[2]].account = a}

LEMMA PendingOf ==
    ASSUME SessionsAssumption, NEW T \in [Nodes -> Seq(Packet)], NEW a, NEW k, NEW type
    PROVE  {x \in UNION {{s} \X DOMAIN T[s] : s \in {s \in Servers : Kind(s) = k}} :
              LET m == T[x[1]][x[2]] IN m.type = type /\ m.account = a} = PendingIn(T, a, k, type)
<1> DEFINE U == UNION {{s} \X DOMAIN T[s] : s \in {s \in Servers : Kind(s) = k}}
<1>1. \A s \in Servers : DOMAIN T[s] \subseteq Nat \ {0}
  <2> SUFFICES ASSUME NEW s \in Servers PROVE DOMAIN T[s] \subseteq Nat \ {0}
    OBVIOUS
  <2>1. T[s] \in Seq(Packet)
    BY Constants
  <2> QED
    BY <2>1
<1>2. \A x : x \in U <=> x \in Places(Servers) /\ Kind(x[1]) = k /\ x[2] \in DOMAIN T[x[1]]
  BY <1>1 DEF Places
<1> HIDE DEF U
<1>3. \A x : x \in U /\ T[x[1]][x[2]].type = type /\ T[x[1]][x[2]].account = a
              <=> x \in PendingIn(T, a, k, type)
  BY <1>2 DEF PendingIn
<1>4. {x \in U : T[x[1]][x[2]].type = type /\ T[x[1]][x[2]].account = a} = PendingIn(T, a, k, type)
  BY <1>3
<1> QED
  BY <1>4 DEF U

LEMMA CountedOf ==
    ASSUME NEW K \in [Servers -> Seq(Connection)], NEW a, NEW k
    PROVE  {c \in UNION {{s} \X DOMAIN K[s] : s \in {s \in Servers : Kind(s) = k}} :
              K[c[1]][c[2]].account = a} = CountedIn(K, a, k)
<1> DEFINE U == UNION {{s} \X DOMAIN K[s] : s \in {s \in Servers : Kind(s) = k}}
<1>1. \A s \in Servers : DOMAIN K[s] \subseteq Nat \ {0}
  OBVIOUS
<1>2. \A x : x \in U <=> x \in Places(Servers) /\ Kind(x[1]) = k /\ x[2] \in DOMAIN K[x[1]]
  BY <1>1 DEF Places
<1> HIDE DEF U
<1>3. \A x : x \in U /\ K[x[1]][x[2]].account = a <=> x \in CountedIn(K, a, k)
  BY <1>2 DEF CountedIn
<1>4. {c \in U : K[c[1]][c[2]].account = a} = CountedIn(K, a, k)
  BY <1>3
<1> QED
  BY <1>4 DEF U

LEMMA PlaceIs ==
    ASSUME NEW S, NEW y \in Places(S)
    PROVE  y = <<y[1], y[2]>> /\ y[1] \in S /\ y[2] \in Nat \ {0}
  BY DEF Places

\* What is appended counts when it is a notice.
LEMMA PendingPut ==
    ASSUME SessionsAssumption, NEW T \in [Nodes -> Seq(Packet)], NEW n \in Nodes, NEW r \in Seq(Packet),
           \A i \in DOMAIN r : r[i].type \notin Notices,
           NEW a, NEW k, NEW type \in Notices
    PROVE  PendingIn(After(T, n, r), a, k, type) = PendingIn(T, a, k, type)
<1> DEFINE R == After(T, n, r)
<1>r. R = [T EXCEPT ![n] = @ \o r]
  BY DEF After
<1> HIDE DEF R
<1>1. /\ \A c \in Nodes \ {n} : R[c] = T[c]
      /\ \A i \in DOMAIN T[n] : i \in DOMAIN R[n] /\ R[n][i] = T[n][i]
      /\ \A i \in DOMAIN R[n] : i \in DOMAIN T[n] \/ R[n][i].type \notin Notices
  <2>1. /\ \A c \in Nodes \ {n} : R[c] = T[c]
        /\ Len(T[n]) \in Nat /\ DOMAIN T[n] = 1 .. Len(T[n])
        /\ Len(r) \in Nat /\ DOMAIN r = 1 .. Len(r)
        /\ DOMAIN R[n] = 1 .. Len(T[n]) + Len(r)
        /\ \A i \in DOMAIN T[n] : R[n][i] = T[n][i]
        /\ \A i \in DOMAIN r : Len(T[n]) + i \in DOMAIN R[n] /\ R[n][Len(T[n]) + i] = r[i]
        /\ \A i \in DOMAIN R[n] : i \in DOMAIN T[n] \/ i - Len(T[n]) \in DOMAIN r
    BY <1>r, Put
  <2>2. ASSUME NEW i \in DOMAIN R[n], i \notin DOMAIN T[n] PROVE R[n][i].type \notin Notices
    <3>1. i - Len(T[n]) \in DOMAIN r /\ i \in Nat
      BY <2>1, <2>2
    <3>2. R[n][i] = r[i - Len(T[n])]
      BY <2>1, <3>1
    <3> QED
      BY <3>1, <3>2
  <2> QED
    BY <2>1, <2>2
<1>2. \A s \in Servers : s \in Nodes
  BY Constants
<1>3. ASSUME NEW s \in Servers, NEW i
      PROVE  i \in DOMAIN R[s] /\ R[s][i].type = type /\ R[s][i].account = a
             <=> i \in DOMAIN T[s] /\ T[s][i].type = type /\ T[s][i].account = a
  BY <1>1, <1>2
<1>4. \A y \in Places(Servers) : y[1] \in Servers
  BY PlaceIs
<1> QED
  BY <1>3, <1>4 DEF PendingIn, R

LEMMA PendingNew ==
    ASSUME SessionsAssumption, NEW T \in [Nodes -> Seq(Packet)], NEW n \in Servers, NEW r \in Seq(Packet),
           NEW q \in DOMAIN r, \A i \in DOMAIN r : i # q => r[i].type \notin Notices, r[q].type \in Notices
    PROVE  \E e \in Nat \ {0} :
              /\ \A i \in DOMAIN T[n] : i < e
              /\ \A a, k : \A type \in Notices :
                    PendingIn(After(T, n, r), a, k, type) =
                       IF a = r[q].account /\ k = Kind(n) /\ type = r[q].type
                       THEN PendingIn(T, a, k, type) \union {<<n, e>>} ELSE PendingIn(T, a, k, type)
<1> DEFINE R == After(T, n, r)
<1>r. R = [T EXCEPT ![n] = @ \o r]
  BY DEF After
<1> HIDE DEF R
<1>1. n \in Nodes /\ \A s \in Servers : s \in Nodes
  BY Constants
<1>2. /\ \A c \in Nodes \ {n} : R[c] = T[c]
      /\ Len(T[n]) \in Nat /\ DOMAIN T[n] = 1 .. Len(T[n])
      /\ Len(r) \in Nat /\ DOMAIN r = 1 .. Len(r)
      /\ DOMAIN R[n] = 1 .. Len(T[n]) + Len(r)
      /\ \A i \in DOMAIN T[n] : R[n][i] = T[n][i]
      /\ \A i \in DOMAIN r : Len(T[n]) + i \in DOMAIN R[n] /\ R[n][Len(T[n]) + i] = r[i]
      /\ \A i \in DOMAIN R[n] : i \in DOMAIN T[n] \/ i - Len(T[n]) \in DOMAIN r
  BY <1>r, <1>1, Put
<1> DEFINE e == Len(T[n]) + q
<1>3. e \in Nat \ {0} /\ e \notin DOMAIN T[n] /\ \A i \in DOMAIN T[n] : i < e
  BY <1>2
<1>4. e \in DOMAIN R[n] /\ R[n][e] = r[q] /\ \A i \in DOMAIN T[n] : i \in DOMAIN R[n]
  BY <1>2
<1>5. \A i \in DOMAIN R[n] : i \in DOMAIN T[n] \/ i = e \/ R[n][i].type \notin Notices
  <2> SUFFICES ASSUME NEW i \in DOMAIN R[n], i \notin DOMAIN T[n], i # e
               PROVE  R[n][i].type \notin Notices
    OBVIOUS
  <2>1. i - Len(T[n]) \in DOMAIN r /\ i \in Int /\ q \in Int /\ i - Len(T[n]) # q
        /\ Len(T[n]) + (i - Len(T[n])) = i
    BY <1>2
  <2>2. R[n][i] = r[i - Len(T[n])]
    BY <1>2, <2>1
  <2> QED
    BY <2>1, <2>2
<1> HIDE DEF e
<1>6. ASSUME NEW a, NEW k, NEW type \in Notices
      PROVE  PendingIn(R, a, k, type) =
                IF a = r[q].account /\ k = Kind(n) /\ type = r[q].type
                THEN PendingIn(T, a, k, type) \union {<<n, e>>} ELSE PendingIn(T, a, k, type)
  <2>1. ASSUME NEW i
        PROVE  i \in DOMAIN R[n] /\ R[n][i].type = type /\ R[n][i].account = a
               <=> \/ i \in DOMAIN T[n] /\ T[n][i].type = type /\ T[n][i].account = a
                   \/ i = e /\ r[q].type = type /\ r[q].account = a
    BY <1>2, <1>3, <1>4, <1>5
  <2>2. \A s \in Servers : s # n => R[s] = T[s]
    BY <1>1, <1>2
  <2>3. <<n, e>> \in Places(Servers) /\ <<n, e>>[1] = n /\ <<n, e>>[2] = e
    BY <1>3 DEF Places
  <2>4. ASSUME NEW y \in Places(Servers)
        PROVE  y \in PendingIn(R, a, k, type) <=>
                  \/ y \in PendingIn(T, a, k, type)
                  \/ y = <<n, e>> /\ Kind(n) = k /\ r[q].type = type /\ r[q].account = a
    <3>1. y = <<y[1], y[2]>> /\ y[1] \in Servers
      BY PlaceIs
    <3>2. CASE y[1] = n
      <4>1. y = <<n, e>> <=> y[2] = e
        BY <3>1, <3>2
      <4> QED
        BY <2>1, <3>2, <4>1 DEF PendingIn
    <3>3. CASE y[1] # n
      <4>1. R[y[1]] = T[y[1]] /\ y # <<n, e>>
        BY <2>2, <2>3, <3>1, <3>3
      <4> QED
        BY <4>1 DEF PendingIn
    <3> QED
      BY <3>2, <3>3
  <2>5. PendingIn(R, a, k, type) \subseteq Places(Servers) /\ PendingIn(T, a, k, type) \subseteq Places(Servers)
    BY DEF PendingIn
  <2> QED
    BY <2>3, <2>4, <2>5
<1> QED
  BY <1>3, <1>6 DEF R

\* The queue of a server moves up.
LEMMA PendingTaken ==
    ASSUME SessionsAssumption, NEW T \in [Nodes -> Seq(Packet)], NEW n \in Nodes, T[n] # <<>>,
           NEW a, NEW k, NEW type
    PROVE  /\ n \notin Servers => PendingIn(Without(T, n), a, k, type) = PendingIn(T, a, k, type)
           /\ n \in Servers =>
                 /\ PendingIn(Without(T, n), a, k, type) = MovedUp(Servers, n, PendingIn(T, a, k, type))
                 /\ <<n, 1>> \in PendingIn(T, a, k, type) <=>
                       Kind(n) = k /\ Head(T[n]).type = type /\ Head(T[n]).account = a
<1> DEFINE R == Without(T, n)
<1>r. R = [T EXCEPT ![n] = Tail(@)]
  BY DEF Without
<1> HIDE DEF R
<1>1. /\ \A c \in Nodes \ {n} : R[c] = T[c]
      /\ 1 \in DOMAIN T[n] /\ Head(T[n]) = T[n][1] /\ Len(T[n]) \in Nat /\ DOMAIN T[n] = 1 .. Len(T[n])
      /\ DOMAIN R[n] = 1 .. Len(T[n]) - 1
      /\ \A i \in DOMAIN R[n] : i \in Nat \ {0} /\ i + 1 \in DOMAIN T[n] /\ R[n][i] = T[n][i + 1]
  BY <1>r, Take
<1>2. \A s \in Servers : s \in Nodes
  BY Constants
<1>3. \A y \in Places(Servers) : y[1] \in Servers /\ y[2] \in Nat \ {0} /\ y = <<y[1], y[2]>>
  BY PlaceIs
<1>4. CASE n \notin Servers
  <2>1. \A s \in Servers : R[s] = T[s]
    BY <1>1, <1>2, <1>4
  <2> QED
    BY <1>3, <1>4, <2>1 DEF PendingIn, R
<1>5. CASE n \in Servers
  <2>1. <<n, 1>> \in PendingIn(T, a, k, type) <=>
           Kind(n) = k /\ Head(T[n]).type = type /\ Head(T[n]).account = a
    BY <1>1, <1>5 DEF PendingIn, Places
  <2>2. ASSUME NEW y \in Places(Servers)
        PROVE  y \in PendingIn(R, a, k, type) <=> Behind(n, y) \in PendingIn(T, a, k, type)
    <3>1. Behind(n, y) \in Places(Servers)
      BY <1>5, BehindFacts
    <3>2. CASE y[1] = n
      <4>1. Behind(n, y)[1] = n /\ Behind(n, y)[2] = y[2] + 1
        BY <3>2 DEF Behind
      <4>2. y[2] \in DOMAIN R[n] <=> y[2] + 1 \in DOMAIN T[n]
        BY <1>1, <1>3
      <4>3. y[2] \in DOMAIN R[n] => R[n][y[2]] = T[n][y[2] + 1]
        BY <1>1
      <4> QED
        BY <3>1, <3>2, <4>1, <4>2, <4>3 DEF PendingIn
    <3>3. CASE y[1] # n
      <4>1. Behind(n, y) = y
        BY <3>3 DEF Behind
      <4>2. R[y[1]] = T[y[1]]
        BY <1>1, <1>2, <1>3, <3>3
      <4> QED
        BY <4>1, <4>2 DEF PendingIn
    <3> QED
      BY <3>2, <3>3
  <2>3. PendingIn(R, a, k, type) \subseteq Places(Servers)
    BY DEF PendingIn
  <2> QED
    BY <1>5, <2>1, <2>2, <2>3 DEF MovedUp, R
<1> QED
  BY <1>4, <1>5 DEF R

\* A connection is another one, or has another account.
Instead(K, s, i, c) == [K EXCEPT ![s][i] = c]

LEMMA CountedPut ==
    ASSUME ConnTyped, NEW s \in Servers, NEW i \in DOMAIN conn[s], NEW c, NEW a, NEW k
    PROVE  /\ <<s, i>> \in CountedIn(conn, a, k) <=> Kind(s) = k /\ conn[s][i].account = a
           /\ Kind(s) = k /\ c.account = a =>
                CountedIn(Instead(conn, s, i, c), a, k) = CountedIn(conn, a, k) \union {<<s, i>>}
           /\ ~(Kind(s) = k /\ c.account = a) =>
                CountedIn(Instead(conn, s, i, c), a, k) = CountedIn(conn, a, k) \ {<<s, i>>}
<1> DEFINE R == Instead(conn, s, i, c)
<1>r. R = [conn EXCEPT ![s][i] = c]
  BY DEF Instead
<1> HIDE DEF R
<1>0. conn \in [Servers -> Seq(Connection)]
  BY DEF ConnTyped
<1>1. conn[s] \in Seq(Connection) /\ i \in Nat \ {0}
  BY <1>0
<1>2. R[s] = [conn[s] EXCEPT ![i] = c] /\ \A t \in Servers \ {s} : R[t] = conn[t]
  BY <1>0, <1>r
<1>3. /\ \A t \in Servers : DOMAIN R[t] = DOMAIN conn[t]
      /\ R[s][i] = c
      /\ \A t \in Servers : \A j \in DOMAIN conn[t] : (t = s /\ j = i) \/ R[t][j] = conn[t][j]
  BY <1>1, <1>2
<1>4. \A y \in Places(Servers) : y[1] \in Servers /\ y[2] \in Nat \ {0} /\ y = <<y[1], y[2]>>
  BY PlaceIs
<1>5. <<s, i>> \in Places(Servers)
  BY <1>1 DEF Places
<1>6. \A y \in Places(Servers) : y # <<s, i>> => (y \in CountedIn(R, a, k) <=> y \in CountedIn(conn, a, k))
  BY <1>3, <1>4 DEF CountedIn
<1>7. /\ <<s, i>> \in CountedIn(conn, a, k) <=> Kind(s) = k /\ conn[s][i].account = a
      /\ <<s, i>> \in CountedIn(R, a, k) <=> Kind(s) = k /\ c.account = a
  BY <1>3, <1>5 DEF CountedIn
<1>8. PICK X, Y : X = CountedIn(conn, a, k) /\ Y = CountedIn(R, a, k)
  OBVIOUS
<1>9. X \subseteq Places(Servers) /\ Y \subseteq Places(Servers)
  BY <1>8 DEF CountedIn
<1>10. \A y \in Places(Servers) : y # <<s, i>> => (y \in Y <=> y \in X)
  BY <1>6, <1>8
<1>11. <<s, i>> \in Y => Y = X \union {<<s, i>>}
  BY <1>5, <1>9, <1>10
<1>12. <<s, i>> \notin Y => Y = X \ {<<s, i>>}
  BY <1>5, <1>9, <1>10
<1> QED
  BY <1>7, <1>8, <1>11, <1>12 DEF R

LEMMA CountedSame ==
    ASSUME ConnTyped, NEW s \in Servers, NEW i \in DOMAIN conn[s], NEW c, NEW a, NEW k,
           k # Kind(s) \/ (a # c.account /\ a # conn[s][i].account) \/ (a = c.account /\ a = conn[s][i].account)
    PROVE  CountedIn(Instead(conn, s, i, c), a, k) = CountedIn(conn, a, k)
<1>1. /\ <<s, i>> \in CountedIn(conn, a, k) <=> Kind(s) = k /\ conn[s][i].account = a
      /\ Kind(s) = k /\ c.account = a =>
           CountedIn(Instead(conn, s, i, c), a, k) = CountedIn(conn, a, k) \union {<<s, i>>}
      /\ ~(Kind(s) = k /\ c.account = a) =>
           CountedIn(Instead(conn, s, i, c), a, k) = CountedIn(conn, a, k) \ {<<s, i>>}
  BY CountedPut
<1>2. PICK X, Y : X = CountedIn(conn, a, k) /\ Y = CountedIn(Instead(conn, s, i, c), a, k)
  OBVIOUS
<1>3. Y = X
  BY <1>1, <1>2
<1> QED
  BY <1>2, <1>3

LEMMA CountedMore ==
    ASSUME ConnTyped, NEW s \in Servers, NEW i \in DOMAIN conn[s], NEW c, NEW a, NEW k,
           k = Kind(s) /\ a = c.account /\ a # conn[s][i].account
    PROVE  /\ CountedIn(Instead(conn, s, i, c), a, k) = CountedIn(conn, a, k) \union {<<s, i>>}
           /\ <<s, i>> \notin CountedIn(conn, a, k)
<1>1. /\ <<s, i>> \in CountedIn(conn, a, k) <=> Kind(s) = k /\ conn[s][i].account = a
      /\ Kind(s) = k /\ c.account = a =>
           CountedIn(Instead(conn, s, i, c), a, k) = CountedIn(conn, a, k) \union {<<s, i>>}
      /\ ~(Kind(s) = k /\ c.account = a) =>
           CountedIn(Instead(conn, s, i, c), a, k) = CountedIn(conn, a, k) \ {<<s, i>>}
  BY CountedPut
<1>2. PICK X, Y : X = CountedIn(conn, a, k) /\ Y = CountedIn(Instead(conn, s, i, c), a, k)
  OBVIOUS
<1>3. Y = X \union {<<s, i>>} /\ <<s, i>> \notin X
  BY <1>1, <1>2
<1> QED
  BY <1>2, <1>3

LEMMA CountedLess ==
    ASSUME ConnTyped, NEW s \in Servers, NEW i \in DOMAIN conn[s], NEW c, NEW a, NEW k,
           k = Kind(s) /\ a # c.account /\ a = conn[s][i].account
    PROVE  /\ CountedIn(Instead(conn, s, i, c), a, k) = CountedIn(conn, a, k) \ {<<s, i>>}
           /\ <<s, i>> \in CountedIn(conn, a, k)
<1>1. /\ <<s, i>> \in CountedIn(conn, a, k) <=> Kind(s) = k /\ conn[s][i].account = a
      /\ Kind(s) = k /\ c.account = a =>
           CountedIn(Instead(conn, s, i, c), a, k) = CountedIn(conn, a, k) \union {<<s, i>>}
      /\ ~(Kind(s) = k /\ c.account = a) =>
           CountedIn(Instead(conn, s, i, c), a, k) = CountedIn(conn, a, k) \ {<<s, i>>}
  BY CountedPut
<1>2. PICK X, Y : X = CountedIn(conn, a, k) /\ Y = CountedIn(Instead(conn, s, i, c), a, k)
  OBVIOUS
<1>3. Y = X \ {<<s, i>>} /\ <<s, i>> \in X
  BY <1>1, <1>2
<1> QED
  BY <1>2, <1>3

LEMMA CountedAppend ==
    ASSUME ConnTyped, NEW s \in Servers, NEW c \in Connection, conn' = [conn EXCEPT ![s] = Append(@, c)],
           NEW a, a # c.account, NEW k
    PROVE  CountedIn(conn', a, k) = CountedIn(conn, a, k)
<1>1. conn[s] \in Seq(Connection) /\ conn'[s] = Append(conn[s], c) /\ \A t \in Servers \ {s} : conn'[t] = conn[t]
  BY DEF ConnTyped
<1>2. /\ \A j \in DOMAIN conn[s] : j \in DOMAIN conn'[s] /\ conn'[s][j] = conn[s][j]
      /\ \A j \in DOMAIN conn'[s] : j \in DOMAIN conn[s] \/ conn'[s][j] = c
  BY <1>1
<1>3. \A y \in Places(Servers) : y[1] \in Servers
  BY PlaceIs
<1>4. \A t \in Servers : \A j : j \in DOMAIN conn'[t] /\ conn'[t][j].account = a <=> j \in DOMAIN conn[t] /\ conn[t][j].account = a
  BY <1>1, <1>2
<1> QED
  BY <1>3, <1>4 DEF CountedIn

-----------------------------------------------------------------------------
(* The count of the master server                                          *)

BalancedAt(T, K, a, k, x, exact) ==
    Balance(PendingIn(T, a, k, "CLIENT_CONNECT"), PendingIn(T, a, k, "CLIENT_DISCONNECT"),
            CountedIn(K, a, k), x, exact)

Balanced ==
    \A a \in Accounts, k \in Kinds : BalancedAt(toMaster, conn, a, k, Entry(a)[k], a \notin mistyped)

\* The database agent has nothing to announce.
DatabaseQuiet == \A i \in DOMAIN toMaster[Database] : toMaster[Database][i].type \notin Notices

\* An account that is online has a connection by the count.
Positive == \A a \in Accounts : info[a] # NoID => \E k \in Kinds : info[a][k] > 0

Counting == Balanced /\ DatabaseQuiet /\ Positive

\* The places of the notices and of the connections.
LEMMA PlacesOf ==
    ASSUME NEW T, NEW K, NEW a, NEW k, NEW type
    PROVE  /\ PendingIn(T, a, k, type) \in SUBSET Places(Servers)
           /\ CountedIn(K, a, k) \in SUBSET Places(Servers)
  BY DEF PendingIn, CountedIn

LEMMA QuietDatabase ==
    ASSUME SessionsAssumption, QueuesTyped, DatabaseQuiet, NEW n \in Nodes, NEW r \in Seq(Packet), Post(n, r),
           n \in Servers \/ \A i \in DOMAIN r : r[i].type \notin Notices
    PROVE  DatabaseQuiet'
<1>1. toMaster \in [Nodes -> Seq(Packet)] /\ toMaster' = [toMaster EXCEPT ![n] = @ \o r]
  BY DEF QueuesTyped, Post
<1>2. Database \in Nodes /\ Database \notin Servers
  BY Constants
<1>3. CASE n # Database
  BY <1>1, <1>2, <1>3 DEF DatabaseQuiet
<1>4. CASE n = Database
  <2> SUFFICES ASSUME NEW i \in DOMAIN toMaster'[n] PROVE toMaster'[n][i].type \notin Notices
    BY <1>4 DEF DatabaseQuiet
  <2>1. /\ Len(toMaster[n]) \in Nat /\ DOMAIN toMaster[n] = 1 .. Len(toMaster[n])
        /\ DOMAIN toMaster'[n] = 1 .. Len(toMaster[n]) + Len(r)
        /\ \A j \in DOMAIN toMaster[n] : toMaster'[n][j] = toMaster[n][j]
        /\ \A j \in DOMAIN r : toMaster'[n][Len(toMaster[n]) + j] = r[j]
        /\ \A j \in DOMAIN toMaster'[n] : j \in DOMAIN toMaster[n] \/ j - Len(toMaster[n]) \in DOMAIN r
    BY <1>1, Put
  <2>2. CASE i \in DOMAIN toMaster[n]
    BY <1>4, <2>1, <2>2 DEF DatabaseQuiet
  <2>3. CASE i - Len(toMaster[n]) \in DOMAIN r
    <3>1. i \in Int /\ Len(r) \in Nat
      BY <2>1
    <3>2. toMaster'[n][i] = r[i - Len(toMaster[n])]
      BY <2>1, <2>3, <3>1
    <3> QED
      BY <1>2, <1>4, <2>3, <3>2
  <2> QED
    BY <2>1, <2>2, <2>3
<1> QED
  BY <1>3, <1>4

\* No notice is sent, no connection gets or loses an account.
LEMMA CountingKept ==
    ASSUME SessionsAssumption, QueuesTyped, Counting, NEW n \in Nodes, NEW r \in Seq(Packet), Post(n, r),
           \A i \in DOMAIN r : r[i].type \notin Notices,
           \A a \in Accounts, k \in Kinds : CountedIn(conn', a, k) = CountedIn(conn, a, k),
           UNCHANGED <<info, mistyped>>
    PROVE  Counting'
<1>1. toMaster \in [Nodes -> Seq(Packet)] /\ toMaster' = After(toMaster, n, r)
  BY DEF QueuesTyped, Post, After
<1>2. ASSUME NEW a \in Accounts, NEW k \in Kinds
      PROVE  BalancedAt(toMaster', conn', a, k, Entry(a)'[k], a \notin mistyped')
  <2>1. BalancedAt(toMaster, conn, a, k, Entry(a)[k], a \notin mistyped)
    BY DEF Counting, Balanced
  <2>2. /\ PendingIn(toMaster', a, k, "CLIENT_CONNECT") = PendingIn(toMaster, a, k, "CLIENT_CONNECT")
        /\ PendingIn(toMaster', a, k, "CLIENT_DISCONNECT") = PendingIn(toMaster, a, k, "CLIENT_DISCONNECT")
    <3>1. "CLIENT_CONNECT" \in Notices /\ "CLIENT_DISCONNECT" \in Notices
      BY DEF Notices
    <3> QED
      BY <1>1, <3>1, PendingPut
  <2>3. CountedIn(conn', a, k) = CountedIn(conn, a, k)
    OBVIOUS
  <2>4. Entry(a)' = Entry(a) /\ mistyped' = mistyped
    BY DEF Entry
  <2> QED
    BY <2>1, <2>2, <2>3, <2>4, Zenon DEF BalancedAt
<1>3. Balanced'
  BY <1>2 DEF Balanced
<1>4. DatabaseQuiet'
  BY QuietDatabase DEF Counting
<1>5. Positive'
  BY DEF Counting, Positive
<1> QED
  BY <1>3, <1>4, <1>5 DEF Counting

\* A connection gets an account and is announced.
LEMMA CountingOpened ==
    ASSUME SessionsAssumption, QueuesTyped, ConnTyped, Counting, NEW s \in Servers, NEW a \in Accounts,
           NEW r \in Seq(Packet), Post(s, r),
           NEW q \in DOMAIN r, r[q] = ConnectNotice(a), \A i \in DOMAIN r : i # q => r[i].type \notin Notices,
           NEW i \in DOMAIN conn[s], conn[s][i].account = NoID,
           NEW c \in Connection, c.account = a, conn' = Instead(conn, s, i, c),
           UNCHANGED <<info, mistyped>>
    PROVE  Counting'
<1>0. s \in Nodes /\ NoID \notin Accounts
  BY Constants
<1>1. toMaster \in [Nodes -> Seq(Packet)] /\ toMaster' = After(toMaster, s, r)
  BY DEF QueuesTyped, Post, After
<1>2. r[q].type = "CLIENT_CONNECT" /\ r[q].account = a /\ r[q].type \in Notices
  BY DEF ConnectNotice, Notices
<1>3. PICK e \in Nat \ {0} :
         /\ \A j \in DOMAIN toMaster[s] : j < e
         /\ \A b, k : \A type \in Notices :
               PendingIn(toMaster', b, k, type) =
                  IF b = r[q].account /\ k = Kind(s) /\ type = r[q].type
                  THEN PendingIn(toMaster, b, k, type) \union {<<s, e>>} ELSE PendingIn(toMaster, b, k, type)
  BY <1>1, <1>2, PendingNew
<1>4. ASSUME NEW b \in Accounts, NEW k \in Kinds
      PROVE  BalancedAt(toMaster', conn', b, k, Entry(b)'[k], b \notin mistyped')
  <2>1. BalancedAt(toMaster, conn, b, k, Entry(b)[k], b \notin mistyped)
    BY DEF Counting, Balanced
  <2>2. "CLIENT_CONNECT" \in Notices /\ "CLIENT_DISCONNECT" \in Notices
    BY DEF Notices
  <2>3. PendingIn(toMaster', b, k, "CLIENT_DISCONNECT") = PendingIn(toMaster, b, k, "CLIENT_DISCONNECT")
    BY <1>2, <1>3, <2>2
  <2>4. Entry(b)' = Entry(b) /\ mistyped' = mistyped
    BY DEF Entry
  <2>5. b # conn[s][i].account
    BY <1>0 DEF ConnTyped
  <2>6. CASE b = a /\ k = Kind(s)
    <3>1. PendingIn(toMaster', b, k, "CLIENT_CONNECT") =
             PendingIn(toMaster, b, k, "CLIENT_CONNECT") \union {<<s, e>>}
      BY <1>2, <1>3, <2>2, <2>6
    <3>2. /\ CountedIn(conn', b, k) = CountedIn(conn, b, k) \union {<<s, i>>}
          /\ <<s, i>> \notin CountedIn(conn, b, k)
      <4>1. k = Kind(s) /\ b = c.account /\ b # conn[s][i].account
        BY <2>5, <2>6
      <4> QED
        BY <4>1, CountedMore
    <3>3. <<s, e>> \notin PendingIn(toMaster, b, k, "CLIENT_CONNECT")
      BY <1>3 DEF PendingIn
    <3>4. Balance(PendingIn(toMaster, b, k, "CLIENT_CONNECT") \union {<<s, e>>},
                  PendingIn(toMaster, b, k, "CLIENT_DISCONNECT"),
                  CountedIn(conn, b, k) \union {<<s, i>>}, Entry(b)[k], b \notin mistyped)
      BY <2>1, <3>2, <3>3, BalConnect, Zenon DEF BalancedAt
    <3> QED
      BY <2>3, <2>4, <3>1, <3>2, <3>4, Zenon DEF BalancedAt
  <2>7. CASE ~(b = a /\ k = Kind(s))
    <3>1. PendingIn(toMaster', b, k, "CLIENT_CONNECT") = PendingIn(toMaster, b, k, "CLIENT_CONNECT")
      BY <1>2, <1>3, <2>2, <2>7
    <3>2. CountedIn(conn', b, k) = CountedIn(conn, b, k)
      <4>1. \/ k # Kind(s)
            \/ b # c.account /\ b # conn[s][i].account
            \/ b = c.account /\ b = conn[s][i].account
        BY <2>5, <2>7
      <4> QED
        BY <4>1, CountedSame
    <3> QED
      BY <2>1, <2>3, <2>4, <3>1, <3>2, Zenon DEF BalancedAt
  <2> QED
    BY <2>6, <2>7
<1>5. Balanced'
  BY <1>4 DEF Balanced
<1>6. DatabaseQuiet'
  BY <1>0, QuietDatabase DEF Counting
<1>7. Positive'
  BY DEF Counting, Positive
<1> QED
  BY <1>5, <1>6, <1>7 DEF Counting

\* A connection loses its account and that is announced.
LEMMA CountingClosed ==
    ASSUME SessionsAssumption, QueuesTyped, ConnTyped, Counting, NEW s \in Servers, NEW a \in Accounts,
           NEW r \in Seq(Packet), Post(s, r),
           NEW q \in DOMAIN r, r[q] = DisconnectNotice(a), \A j \in DOMAIN r : j # q => r[j].type \notin Notices,
           NEW i \in DOMAIN conn[s], conn[s][i].account = a,
           NEW c \in Connection, c.account = NoID, conn' = Instead(conn, s, i, c),
           UNCHANGED <<info, mistyped>>
    PROVE  Counting'
<1>0. s \in Nodes /\ NoID \notin Accounts
  BY Constants
<1>1. toMaster \in [Nodes -> Seq(Packet)] /\ toMaster' = After(toMaster, s, r)
  BY DEF QueuesTyped, Post, After
<1>q. r[q].type = "CLIENT_DISCONNECT" /\ r[q].account = a /\ r[q].type \in Notices
  BY DEF DisconnectNotice, Notices
<1>3. PICK e \in Nat \ {0} :
         /\ \A j \in DOMAIN toMaster[s] : j < e
         /\ \A b, k : \A type \in Notices :
               PendingIn(toMaster', b, k, type) =
                  IF b = r[q].account /\ k = Kind(s) /\ type = r[q].type
                  THEN PendingIn(toMaster, b, k, type) \union {<<s, e>>} ELSE PendingIn(toMaster, b, k, type)
  BY <1>1, <1>q, PendingNew
<1>4. ASSUME NEW b \in Accounts, NEW k \in Kinds
      PROVE  BalancedAt(toMaster', conn', b, k, Entry(b)'[k], b \notin mistyped')
  <2>1. BalancedAt(toMaster, conn, b, k, Entry(b)[k], b \notin mistyped)
    BY DEF Counting, Balanced
  <2>2. "CLIENT_CONNECT" \in Notices /\ "CLIENT_DISCONNECT" \in Notices
    BY DEF Notices
  <2>3. PendingIn(toMaster', b, k, "CLIENT_CONNECT") = PendingIn(toMaster, b, k, "CLIENT_CONNECT")
    BY <1>1, <1>q, <1>3, <2>2
  <2>4. Entry(b)' = Entry(b) /\ mistyped' = mistyped
    BY DEF Entry
  <2>5. b # c.account
    BY <1>0
  <2>6. CASE b = a /\ k = Kind(s)
    <3>1. PendingIn(toMaster', b, k, "CLIENT_DISCONNECT") =
             PendingIn(toMaster, b, k, "CLIENT_DISCONNECT") \union {<<s, e>>}
      BY <1>1, <1>q, <1>3, <2>2, <2>6
    <3>2. /\ CountedIn(conn', b, k) = CountedIn(conn, b, k) \ {<<s, i>>}
          /\ <<s, i>> \in CountedIn(conn, b, k)
      <4>1. k = Kind(s) /\ b # c.account /\ b = conn[s][i].account
        BY <2>5, <2>6
      <4> QED
        BY <4>1, CountedLess
    <3>3. <<s, e>> \notin PendingIn(toMaster, b, k, "CLIENT_DISCONNECT")
      BY <1>3 DEF PendingIn
    <3>4. \A y \in PendingIn(toMaster, b, k, "CLIENT_CONNECT") : y[1] = s => y[2] < e
      BY <1>3 DEF PendingIn
    <3>5. PendingIn(toMaster, b, k, "CLIENT_CONNECT") \in SUBSET Places(Servers)
      BY PlacesOf
    <3>6. Balance(PendingIn(toMaster, b, k, "CLIENT_CONNECT"),
                  PendingIn(toMaster, b, k, "CLIENT_DISCONNECT") \union {<<s, e>>},
                  CountedIn(conn, b, k) \ {<<s, i>>}, Entry(b)[k], b \notin mistyped)
      BY <2>1, <3>2, <3>3, <3>4, <3>5, BalDisconnect, Zenon DEF BalancedAt
    <3> QED
      BY <2>3, <2>4, <3>1, <3>2, <3>6, Zenon DEF BalancedAt
  <2>7. CASE ~(b = a /\ k = Kind(s))
    <3>1. PendingIn(toMaster', b, k, "CLIENT_DISCONNECT") = PendingIn(toMaster, b, k, "CLIENT_DISCONNECT")
      BY <1>1, <1>q, <1>3, <2>2, <2>7
    <3>2. CountedIn(conn', b, k) = CountedIn(conn, b, k)
      <4>1. \/ k # Kind(s)
            \/ b # c.account /\ b # conn[s][i].account
            \/ b = c.account /\ b = conn[s][i].account
        BY <2>5, <2>7
      <4> QED
        BY <4>1, CountedSame
    <3> QED
      BY <2>1, <2>3, <2>4, <3>1, <3>2, Zenon DEF BalancedAt
  <2> QED
    BY <2>6, <2>7
<1>5. Balanced'
  BY <1>4 DEF Balanced
<1>6. DatabaseQuiet'
  BY <1>0, QuietDatabase DEF Counting
<1>7. Positive'
  BY DEF Counting, Positive
<1> QED
  BY <1>5, <1>6, <1>7 DEF Counting

\* A connection gets an account and nobody is told: a password was mistyped.
LEMMA CountingMistyped ==
    ASSUME SessionsAssumption, QueuesTyped, ConnTyped, Counting, NEW s \in Servers, NEW a \in Accounts,
           NEW i \in DOMAIN conn[s], conn[s][i].account = NoID,
           NEW c \in Connection, c.account = a, conn' = Instead(conn, s, i, c),
           mistyped' = mistyped \union {a}, UNCHANGED <<toMaster, info>>
    PROVE  Counting'
<1>0. NoID \notin Accounts
  BY Constants
<1>4. ASSUME NEW b \in Accounts, NEW k \in Kinds
      PROVE  BalancedAt(toMaster', conn', b, k, Entry(b)'[k], b \notin mistyped')
  <2>1. BalancedAt(toMaster, conn, b, k, Entry(b)[k], b \notin mistyped)
    BY DEF Counting, Balanced
  <2>4. Entry(b)' = Entry(b)
    BY DEF Entry
  <2>5. b # conn[s][i].account
    BY <1>0 DEF ConnTyped
  <2>6. CASE b = a /\ k = Kind(s)
    <3>2. /\ CountedIn(conn', b, k) = CountedIn(conn, b, k) \union {<<s, i>>}
          /\ <<s, i>> \notin CountedIn(conn, b, k)
      <4>1. k = Kind(s) /\ b = c.account /\ b # conn[s][i].account
        BY <2>5, <2>6
      <4> QED
        BY <4>1, CountedMore
    <3>3. (b \notin mistyped') = FALSE
      BY <2>6
    <3>4. Balance(PendingIn(toMaster, b, k, "CLIENT_CONNECT"),
                  PendingIn(toMaster, b, k, "CLIENT_DISCONNECT"),
                  CountedIn(conn, b, k) \union {<<s, i>>}, Entry(b)[k], FALSE)
      BY <2>1, <3>2, BalUncounted, Zenon DEF BalancedAt
    <3> QED
      BY <2>4, <3>2, <3>3, <3>4, Zenon DEF BalancedAt
  <2>7. CASE b = a /\ k # Kind(s)
    <3>2. CountedIn(conn', b, k) = CountedIn(conn, b, k)
      <4>1. \/ k # Kind(s)
            \/ b # c.account /\ b # conn[s][i].account
            \/ b = c.account /\ b = conn[s][i].account
        BY <2>5, <2>7
      <4> QED
        BY <4>1, CountedSame
    <3>3. (b \notin mistyped') = FALSE
      BY <2>7
    <3>4. Balance(PendingIn(toMaster, b, k, "CLIENT_CONNECT"),
                  PendingIn(toMaster, b, k, "CLIENT_DISCONNECT"),
                  CountedIn(conn, b, k), Entry(b)[k], FALSE)
      BY <2>1 DEF BalancedAt, Balance
    <3> QED
      BY <2>4, <3>2, <3>3, <3>4, Zenon DEF BalancedAt
  <2>8. CASE b # a
    <3>1. CountedIn(conn', b, k) = CountedIn(conn, b, k)
      <4>1. \/ k # Kind(s)
            \/ b # c.account /\ b # conn[s][i].account
            \/ b = c.account /\ b = conn[s][i].account
        BY <2>5, <2>8
      <4> QED
        BY <4>1, CountedSame
    <3>2. (b \notin mistyped') = (b \notin mistyped)
      BY <2>8
    <3> QED
      BY <2>1, <2>4, <3>1, <3>2, Zenon DEF BalancedAt
  <2> QED
    BY <2>6, <2>7, <2>8
<1>5. Balanced'
  BY <1>4 DEF Balanced
<1>6. DatabaseQuiet' /\ Positive'
  BY DEF Counting, DatabaseQuiet, Positive
<1> QED
  BY <1>5, <1>6 DEF Counting


-----------------------------------------------------------------------------
(* The master server counts                                                *)

\* What the count of a kind for an account is once the packet m of node n is handled.
Becomes(m, n, a, k, x, y) ==
    \/ Kind(n) = k /\ m.type = "CLIENT_CONNECT" /\ m.account = a /\ y = x + 1
    \/ Kind(n) = k /\ m.type = "CLIENT_DISCONNECT" /\ m.account = a /\ y = x - 1
    \/ ~(Kind(n) = k /\ m.type \in Notices /\ m.account = a) /\ y = x

LEMMA BalancedTaken ==
    ASSUME SessionsAssumption, QueuesTyped, Counting, NEW n \in Nodes, toMaster[n] # <<>>,
           toMaster' = Without(toMaster, n), UNCHANGED <<conn, mistyped>>,
           NEW a \in Accounts, NEW k \in Kinds, NEW y, Becomes(Head(toMaster[n]), n, a, k, Entry(a)[k], y)
    PROVE  BalancedAt(toMaster', conn', a, k, y, a \notin mistyped')
<1> PICK T : T = toMaster
  OBVIOUS
<1>1. T \in [Nodes -> Seq(Packet)] /\ T[n] # <<>>
  BY DEF QueuesTyped
<1>2. BalancedAt(T, conn, a, k, Entry(a)[k], a \notin mistyped)
  BY DEF Counting, Balanced
<1>3. PICK m, x : m = Head(T[n]) /\ x = Entry(a)[k]
  OBVIOUS
<1>4. Becomes(m, n, a, k, x, y)
  BY <1>3
<1> DEFINE P == PendingIn(T, a, k, "CLIENT_CONNECT")
           D == PendingIn(T, a, k, "CLIENT_DISCONNECT")
           PP == PendingIn(Without(T, n), a, k, "CLIENT_CONNECT")
           DD == PendingIn(Without(T, n), a, k, "CLIENT_DISCONNECT")
<1>5. Balance(P, D, CountedIn(conn, a, k), x, a \notin mistyped)
  BY <1>2, <1>3 DEF BalancedAt
<1>6. CASE n \notin Servers
  <2>1. PP = P /\ DD = D
    <3>1. \A s \in Servers : Without(T, n)[s] = T[s]
      BY <1>1, <1>6, Constants DEF Without
    <3>2. \A z \in Places(Servers) : z[1] \in Servers
      BY PlaceIs
    <3> QED
      BY <3>1, <3>2 DEF PendingIn
  <2>2. m.type \notin Notices
    <3>1. n = Database
      BY <1>6 DEF Nodes
    <3>2. m = T[n][1] /\ 1 \in DOMAIN T[n]
      BY <1>1, <1>3, Take
    <3> QED
      BY <3>1, <3>2 DEF Counting, DatabaseQuiet
  <2>3. y = x
    BY <1>4, <2>2 DEF Becomes, Notices
  <2> HIDE DEF P, D, PP, DD
  <2>4. Balance(PP, DD, CountedIn(conn, a, k), y, a \notin mistyped)
    BY <1>5, <2>1, <2>3, Zenon
  <2> QED
    BY <2>4, Zenon DEF BalancedAt, PP, DD
<1>7. CASE n \in Servers
  <2>1. PP = MovedUp(Servers, n, P)
        /\ (<<n, 1>> \in P <=> Kind(n) = k /\ m.type = "CLIENT_CONNECT" /\ m.account = a)
    BY <1>1, <1>3, <1>7, PendingTaken
  <2>2. DD = MovedUp(Servers, n, D)
        /\ (<<n, 1>> \in D <=> Kind(n) = k /\ m.type = "CLIENT_DISCONNECT" /\ m.account = a)
    BY <1>1, <1>3, <1>7, PendingTaken
  <2>3. P \in SUBSET Places(Servers) /\ D \in SUBSET Places(Servers)
    BY PlacesOf
  <2> HIDE DEF P, D, PP, DD
  <2>4. \/ <<n, 1>> \in P /\ <<n, 1>> \notin D /\ y = x + 1
        \/ <<n, 1>> \notin P /\ <<n, 1>> \in D /\ y = x - 1
        \/ <<n, 1>> \notin P /\ <<n, 1>> \notin D /\ y = x
    BY <1>4, <2>1, <2>2 DEF Becomes, Notices
  <2>5. Balance(MovedUp(Servers, n, P), MovedUp(Servers, n, D), CountedIn(conn, a, k), y, a \notin mistyped)
    BY <1>5, <1>7, <2>3, <2>4, BalTake, Zenon
  <2>6. Balance(PP, DD, CountedIn(conn, a, k), y, a \notin mistyped)
    BY <2>1, <2>2, <2>5, Zenon
  <2> QED
    BY <2>6, Zenon DEF BalancedAt, PP, DD
<1> QED
  BY <1>6, <1>7

LEMMA CountingMaster ==
    ASSUME SessionsAssumption, SessionsTypeOK, QueuesTyped, Counting, NEW n \in Nodes, MasterStep(n)
    PROVE  Counting'
<1>1. /\ toMaster \in [Nodes -> Seq(Packet)] /\ toMaster[n] # <<>> /\ toMaster' = Without(toMaster, n)
      /\ UNCHANGED <<conn, mistyped>>
      /\ info \in [Accounts -> [Kinds -> Int] \union {NoID}]
  BY DEF QueuesTyped, MasterStep, Without, SessionsTypeOK
<1>2. PICK m \in Packet : m = Head(toMaster[n])
  BY <1>1, Take
<1>3. DatabaseQuiet'
  <2>1. Database \in Nodes
    BY Constants
  <2>2. CASE n # Database
    BY <1>1, <2>1, <2>2 DEF Counting, DatabaseQuiet, Without
  <2>3. CASE n = Database
    <3>1. \A i \in DOMAIN toMaster'[n] : i + 1 \in DOMAIN toMaster[n] /\ toMaster'[n][i] = toMaster[n][i + 1]
      BY <1>1, Take DEF Without
    <3> QED
      BY <2>3, <3>1 DEF Counting, DatabaseQuiet
  <2> QED
    BY <2>2, <2>3
<1>4. ASSUME NEW a \in Accounts, NEW k \in Kinds, NEW y, Becomes(m, n, a, k, Entry(a)[k], y)
      PROVE  BalancedAt(toMaster', conn', a, k, y, a \notin mistyped')
  BY <1>1, <1>2, <1>4, BalancedTaken
<1>5. ASSUME NEW a \in Accounts, info'[a] = info[a], m.type \notin Notices \/ m.account # a
      PROVE  \A k \in Kinds : BalancedAt(toMaster', conn', a, k, Entry(a)'[k], a \notin mistyped')
  <2> SUFFICES ASSUME NEW k \in Kinds
               PROVE  BalancedAt(toMaster', conn', a, k, Entry(a)'[k], a \notin mistyped')
    OBVIOUS
  <2>1. Entry(a)' = Entry(a)
    BY <1>5 DEF Entry
  <2>2. Becomes(m, n, a, k, Entry(a)[k], Entry(a)[k])
    BY <1>5 DEF Becomes, Notices
  <2> QED
    BY <1>4, <2>1, <2>2, Zenon
<1>6. CASE m.type = "CLIENT_CONNECT" /\ OnClientConnect(n, m.account)
  <2>1. PICK b \in Accounts : b = m.account
    BY <1>6, PacketFacts
  <2>2. /\ Entry(b) \in [Kinds -> Int] /\ Kind(n) \in Kinds
        /\ [Entry(b) EXCEPT ![Kind(n)] = @ + 1] \in [Kinds -> Int]
    BY EntryTyped
  <2>3. PICK e : e = [Entry(b) EXCEPT ![Kind(n)] = @ + 1]
    OBVIOUS
  <2>4. info' = [info EXCEPT ![b] = e]
    BY <1>6, <2>1, <2>3 DEF OnClientConnect
  <2>5. \A a \in Accounts : a # b => info'[a] = info[a]
    BY <1>1, <2>4
  <2>6. info'[b] = e /\ e # NoID
    BY <1>1, <2>2, <2>3, <2>4, Constants
  <2>7. Entry(b)' = e
    BY <2>6 DEF Entry
  <2>8. ASSUME NEW k \in Kinds PROVE BalancedAt(toMaster', conn', b, k, Entry(b)'[k], b \notin mistyped')
    <3>1. k = Kind(n) => e[k] = Entry(b)[k] + 1
      BY <2>2, <2>3
    <3>2. k # Kind(n) => e[k] = Entry(b)[k]
      BY <2>2, <2>3
    <3>3. Becomes(m, n, b, k, Entry(b)[k], e[k])
      BY <1>6, <2>1, <3>1, <3>2 DEF Becomes
    <3> QED
      BY <1>4, <2>7, <3>3, Zenon
  <2>9. Balanced'
    BY <1>5, <2>1, <2>5, <2>8, Zenon DEF Balanced
  <2>10. Positive'
    <3>1. ASSUME info[b] # NoID PROVE \E k \in Kinds : e[k] > 0
      <4>1. PICK k \in Kinds : info[b][k] > 0
        BY <3>1 DEF Counting, Positive
      <4>2. Entry(b)[k] > 0 /\ Entry(b)[k] \in Int
        BY <2>2, <3>1, <4>1 DEF Entry
      <4>3. e[k] = Entry(b)[k] + 1 \/ e[k] = Entry(b)[k]
        BY <2>2, <2>3
      <4> QED
        BY <4>2, <4>3
    <3>2. ASSUME info[b] = NoID PROVE e[Kind(n)] > 0
      <4>1. Entry(b)[Kind(n)] = 0
        BY <2>2, <3>2 DEF Entry, NoConnections
      <4> QED
        BY <2>2, <2>3, <4>1
    <3>3. \E k \in Kinds : info'[b][k] > 0
      BY <2>2, <2>6, <3>1, <3>2
    <3> QED
      BY <2>5, <3>3 DEF Counting, Positive
  <2> QED
    BY <1>3, <2>9, <2>10 DEF Counting
<1>7. CASE m.type = "CLIENT_DISCONNECT" /\ OnClientDisconnect(n, m.account)
  <2>1. PICK b \in Accounts : b = m.account
    BY <1>7, PacketFacts
  <2>2. /\ Entry(b) \in [Kinds -> Int] /\ Kind(n) \in Kinds
        /\ [Entry(b) EXCEPT ![Kind(n)] = @ - 1] \in [Kinds -> Int]
    BY EntryTyped
  <2>3. PICK e : e = [Entry(b) EXCEPT ![Kind(n)] = @ - 1]
    OBVIOUS
  <2>4. info' = [info EXCEPT ![b] = IF info[b] # NoID /\ \E k \in Kinds : e[k] > 0 THEN e ELSE NoID]
    BY <1>7, <2>1, <2>3 DEF OnClientDisconnect
  <2>5. \A a \in Accounts : a # b => info'[a] = info[a]
    BY <1>1, <2>4
  <2>6. e \in [Kinds -> Int] /\ e # NoID
    BY <2>2, <2>3, Constants
  <2>7. ASSUME NEW k \in Kinds
        PROVE  BalancedAt(toMaster', conn', b, k, e[k], b \notin mistyped') /\ e[k] \in Int
    <3>1. k = Kind(n) => e[k] = Entry(b)[k] - 1
      BY <2>2, <2>3
    <3>2. k # Kind(n) => e[k] = Entry(b)[k]
      BY <2>2, <2>3
    <3>3. Becomes(m, n, b, k, Entry(b)[k], e[k])
      BY <1>7, <2>1, <3>1, <3>2 DEF Becomes
    <3>4. BalancedAt(toMaster', conn', b, k, e[k], b \notin mistyped')
      BY <1>4, <3>3, Zenon
    <3> QED
      BY <2>6, <3>4
  <2>8. CASE info[b] # NoID /\ \E k \in Kinds : e[k] > 0
    <3>1. info'[b] = e
      BY <1>1, <2>4, <2>8
    <3>2. Entry(b)' = e
      BY <2>6, <3>1 DEF Entry
    <3>3. Balanced'
      <4>1. \A k \in Kinds : BalancedAt(toMaster', conn', b, k, Entry(b)'[k], b \notin mistyped')
        BY <2>7, <3>2, Zenon
      <4> QED
        BY <1>5, <2>1, <2>5, <4>1, Zenon DEF Balanced
    <3>4. Positive'
      BY <2>5, <2>8, <3>1 DEF Counting, Positive
    <3> QED
      BY <1>3, <3>3, <3>4 DEF Counting
  <2>9. CASE ~(info[b] # NoID /\ \E k \in Kinds : e[k] > 0)
    <3>1. info'[b] = NoID
      BY <1>1, <2>4, <2>9
    <3>2. \A k \in Kinds : Entry(b)'[k] = 0
      BY <3>1 DEF Entry, NoConnections
    <3>3. ASSUME NEW k \in Kinds PROVE e[k] <= 0
      <4>1. CASE info[b] # NoID
        BY <2>6, <2>9, <4>1
      <4>2. CASE info[b] = NoID
        <5>1. Entry(b)[k] = 0
          BY <4>2 DEF Entry, NoConnections
        <5>2. e[k] = Entry(b)[k] - 1 \/ e[k] = Entry(b)[k]
          BY <2>2, <2>3
        <5> QED
          BY <5>1, <5>2
      <4> QED
        BY <4>1, <4>2
    <3>4. ASSUME NEW k \in Kinds PROVE BalancedAt(toMaster', conn', b, k, Entry(b)'[k], b \notin mistyped')
      <4>1. BalancedAt(toMaster', conn', b, k, e[k], b \notin mistyped') /\ e[k] <= 0
        BY <2>7, <3>3
      <4>2. BalancedAt(toMaster', conn', b, k, 0, b \notin mistyped')
        BY <4>1, BalReset, Zenon DEF BalancedAt
      <4> QED
        BY <3>2, <4>2, Zenon
    <3>5. Balanced'
      BY <1>5, <2>1, <2>5, <3>4, Zenon DEF Balanced
    <3>6. Positive'
      BY <2>5, <3>1 DEF Counting, Positive
    <3> QED
      BY <1>3, <3>5, <3>6 DEF Counting
  <2> QED
    BY <2>8, <2>9
<1>8. CASE m.to # Master /\ info' = info
  <2>1. m.type \notin Notices
    BY <1>8, PacketFacts DEF Notices
  <2>2. Balanced'
    BY <1>5, <1>8, <2>1, Zenon DEF Balanced
  <2>3. Positive'
    BY <1>8 DEF Counting, Positive
  <2> QED
    BY <1>3, <2>2, <2>3 DEF Counting
<1> QED
  BY <1>2, <1>6, <1>7, <1>8 DEF MasterStep

-----------------------------------------------------------------------------
(* Nothing else changes the count                                          *)

\* Node n sends no notice; it sends one, which is m.
SaysNothing(n) ==
    \E r \in Seq(Packet) : Post(n, r) /\ \A i \in DOMAIN r : r[i].type \notin Notices

Says(n, m) ==
    \E r \in Seq(Packet) : \E q \in DOMAIN r :
        Post(n, r) /\ r[q] = m /\ \A i \in DOMAIN r : i # q => r[i].type \notin Notices

LEMMA SaysIdle ==
    ASSUME QueuesTyped, NEW n \in Nodes, toMaster' = toMaster
    PROVE  SaysNothing(n)
<1>1. Post(n, <<>>) /\ <<>> \in Seq(Packet)
  BY NothingSent
<1>2. \A i \in DOMAIN <<>> : FALSE
  OBVIOUS
<1> QED
  BY <1>1, <1>2, Zenon DEF SaysNothing

LEMMA SaysOne ==
    ASSUME NEW n, NEW m \in Packet, Post(n, <<m>>)
    PROVE  /\ m.type \notin Notices => SaysNothing(n)
           /\ Says(n, m)
<1>1. PICK r : r = <<m>>
  OBVIOUS
<1>2. r \in Seq(Packet) /\ DOMAIN r = {1} /\ r[1] = m
  BY <1>1
<1>3. Post(n, r)
  BY <1>1
<1>4. m.type \notin Notices => SaysNothing(n)
  BY <1>2, <1>3 DEF SaysNothing
<1>5. Says(n, m)
  BY <1>2, <1>3 DEF Says
<1> QED
  BY <1>4, <1>5

\* A reply and what is said of the account.
LEMMA SaysAfter ==
    ASSUME NEW n, NEW X \in Seq(Packet), \A i \in DOMAIN X : X[i].type \notin Notices,
           NEW m \in Packet, Post(n, X \o <<m>>)
    PROVE  Says(n, m)
<1>1. PICK Y : Y = <<m>>
  OBVIOUS
<1>2. Y \in Seq(Packet) /\ Len(Y) = 1 /\ Y[1] = m
  BY <1>1
<1>3. PICK r : r = X \o Y
  OBVIOUS
<1>4. /\ r \in Seq(Packet) /\ Len(X) \in Nat /\ DOMAIN X = 1 .. Len(X)
      /\ DOMAIN r = 1 .. Len(X) + 1
      /\ \A i \in 1 .. Len(X) + 1 : r[i] = IF i <= Len(X) THEN X[i] ELSE Y[i - Len(X)]
  <2>1. /\ X \o Y \in Seq(Packet) /\ Len(X \o Y) = Len(X) + Len(Y)
        /\ \A i \in 1 .. Len(X) + Len(Y) : (X \o Y)[i] = IF i <= Len(X) THEN X[i] ELSE Y[i - Len(X)]
    BY <1>2, ConcatProperties
  <2>2. Len(X) \in Nat /\ DOMAIN X = 1 .. Len(X) /\ DOMAIN (X \o Y) = 1 .. Len(X \o Y)
    BY <2>1, LenProperties
  <2> QED
    BY <1>2, <1>3, <2>1, <2>2
<1>5. PICK q \in Nat : q = Len(X) + 1
  BY <1>4
<1>6. q \in DOMAIN r /\ r[q] = m
  BY <1>2, <1>4, <1>5
<1>7. \A i \in DOMAIN r : i # q => r[i].type \notin Notices
  <2> SUFFICES ASSUME NEW i \in DOMAIN r, i # q PROVE r[i].type \notin Notices
    OBVIOUS
  <2>1. i \in DOMAIN X /\ r[i] = X[i]
    BY <1>4, <1>5
  <2> QED
    BY <2>1
<1>8. Post(n, r)
  BY <1>1, <1>3
<1> QED
  BY <1>4, <1>6, <1>7, <1>8 DEF Says

LEMMA CountingMoves ==
    ASSUME SessionsAssumption, QueuesTyped, ConnTyped, Counting, NEW n \in Nodes, SaysNothing(n),
           UNCHANGED <<info, mistyped>>,
           \/ conn' = conn
           \/ \E s \in Servers : \E i \in DOMAIN conn[s] : \E c \in Connection :
                 c.account = conn[s][i].account /\ conn' = Instead(conn, s, i, c)
    PROVE  Counting'
<1>1. PICK r \in Seq(Packet) : Post(n, r) /\ \A i \in DOMAIN r : r[i].type \notin Notices
  BY DEF SaysNothing
<1>2. ASSUME NEW a \in Accounts, NEW k \in Kinds
      PROVE  CountedIn(conn', a, k) = CountedIn(conn, a, k)
  <2>1. CASE conn' = conn
    BY <2>1
  <2>2. ASSUME NEW s \in Servers, NEW i \in DOMAIN conn[s], NEW c \in Connection,
               c.account = conn[s][i].account, conn' = Instead(conn, s, i, c)
        PROVE  CountedIn(conn', a, k) = CountedIn(conn, a, k)
    <3>1. CountedIn(Instead(conn, s, i, c), a, k) = CountedIn(conn, a, k)
      <4>1. (a # c.account /\ a # conn[s][i].account) \/ (a = c.account /\ a = conn[s][i].account)
        BY <2>2
      <4> QED
        BY <4>1, CountedSame
    <3> QED
      BY <2>2, <3>1
  <2> QED
    BY <2>1, <2>2
<1> QED
  BY <1>1, <1>2, CountingKept

LEMMA CountingSaid ==
    ASSUME SessionsAssumption, QueuesTyped, ConnTyped, Counting, NEW s \in Servers, NEW a \in Accounts,
           NEW i \in DOMAIN conn[s], NEW c \in Connection, conn' = Instead(conn, s, i, c),
           \/ Says(s, ConnectNotice(a)) /\ conn[s][i].account = NoID /\ c.account = a
           \/ Says(s, DisconnectNotice(a)) /\ conn[s][i].account = a /\ c.account = NoID,
           UNCHANGED <<info, mistyped>>
    PROVE  Counting'
<1>1. CASE Says(s, ConnectNotice(a)) /\ conn[s][i].account = NoID /\ c.account = a
  <2>1. PICK r \in Seq(Packet) : \E q \in DOMAIN r :
           /\ Post(s, r) /\ r[q] = ConnectNotice(a)
           /\ \A j \in DOMAIN r : j # q => r[j].type \notin Notices
    BY <1>1 DEF Says
  <2>2. PICK q \in DOMAIN r :
           /\ Post(s, r) /\ r[q] = ConnectNotice(a)
           /\ \A j \in DOMAIN r : j # q => r[j].type \notin Notices
    BY <2>1
  <2> QED
    BY <1>1, <2>2, CountingOpened
<1>2. CASE Says(s, DisconnectNotice(a)) /\ conn[s][i].account = a /\ c.account = NoID
  <2>1. PICK r \in Seq(Packet) : \E q \in DOMAIN r :
           /\ Post(s, r) /\ r[q] = DisconnectNotice(a)
           /\ \A j \in DOMAIN r : j # q => r[j].type \notin Notices
    BY <1>2 DEF Says
  <2>2. PICK q \in DOMAIN r :
           /\ Post(s, r) /\ r[q] = DisconnectNotice(a)
           /\ \A j \in DOMAIN r : j # q => r[j].type \notin Notices
    BY <2>1
  <2> QED
    BY <1>2, <2>2, CountingClosed
<1> QED
  BY <1>1, <1>2

LEMMA CountingConnect ==
    ASSUME SessionsAssumption, Core, Counting, NEW p \in Players, NEW s \in Servers, Connect(p, s)
    PROVE  Counting'
<1>1. QueuesTyped /\ ConnTyped /\ Login \in Nodes
  BY Constants DEF Core, ConnTyped, SessionsTypeOK
<1>2. PICK c \in Connection : c.account = NoID /\ conn' = [conn EXCEPT ![s] = Append(@, c)]
  <2> DEFINE c == [player |-> p, state |-> "open", account |-> NoID,
                   flags |-> IF Held(p) = {} THEN {} ELSE {"handed"}]
  <2>1. c \in Connection /\ c.account = NoID
    BY DEF Connection, States, Flags
  <2>2. conn' = [conn EXCEPT ![s] = Append(@, c)]
    BY DEF Connect
  <2> HIDE DEF c
  <2> QED
    BY <2>1, <2>2
<1>3. UNCHANGED <<toMaster, info, mistyped>>
  BY DEF Connect
<1>4. \A a \in Accounts : a # c.account
  BY <1>2, Constants
<1>5. \A a \in Accounts, k \in Kinds : CountedIn(conn', a, k) = CountedIn(conn, a, k)
  BY <1>1, <1>2, <1>4, CountedAppend
<1>6. PICK r \in Seq(Packet) : Post(Login, r) /\ \A i \in DOMAIN r : r[i].type \notin Notices
  BY <1>1, <1>3, SaysIdle DEF SaysNothing
<1> QED
  BY <1>1, <1>3, <1>5, <1>6, CountingKept

LEMMA CountingAuthenticate ==
    ASSUME SessionsAssumption, Core, Counting, NEW p \in Players, NEW i \in DOMAIN conn[Login],
           Authenticate(p, i)
    PROVE  Counting'
<1> DEFINE a == AccountOf[p]
           c == [conn[Login][i] EXCEPT !.account = a,
                                       !.flags = {"authenticated"} \union
                                                 (IF online[a] THEN {} ELSE {"normal"})]
<1>0. Login \in Servers /\ Login \in Nodes /\ a \in Accounts /\ a # NoID
  BY Constants
<1>1. QueuesTyped /\ ConnTyped /\ AllSound
  BY DEF Core, ConnTyped, SessionsTypeOK
<1>2. /\ conn[Login][i] \in Connection /\ conn[Login][i].flags = {} /\ conn[Login][i].state = "open"
  BY Alone DEF Authenticate
<1>3. conn[Login][i].account = NoID
  <2>1. Sound(Login, conn[Login][i])
    BY <1>0, <1>1 DEF AllSound
  <2> QED
    BY <1>2, <2>1 DEF Sound
<1>4. conn' = Instead(conn, Login, i, c) /\ Post(Login, <<ConnectNotice(a)>>) /\ UNCHANGED <<info, mistyped>>
  BY DEF Authenticate, Instead
<1>5. c \in Connection /\ c.account = a
  BY <1>0, <1>2 DEF Connection, Flags
<1>6. Says(Login, ConnectNotice(a))
  <2>1. ConnectNotice(a) \in Packet
    BY <1>0 DEF Packet, ConnectNotice
  <2> QED
    BY <1>4, <2>1, SaysOne
<1> HIDE DEF c, a
<1> QED
  BY <1>0, <1>1, <1>3, <1>4, <1>5, <1>6, CountingSaid

LEMMA CountingMistypes ==
    ASSUME SessionsAssumption, Core, Counting, NEW p \in Players, NEW i \in DOMAIN conn[Login],
           MistypedPassword(p, i)
    PROVE  Counting'
<1> DEFINE a == AccountOf[p]
           c == Disconnected([conn[Login][i] EXCEPT !.account = a])
<1>0. Login \in Servers /\ Login \in Nodes /\ a \in Accounts /\ a # NoID
  BY Constants
<1>1. QueuesTyped /\ ConnTyped /\ AllSound
  BY DEF Core, ConnTyped, SessionsTypeOK
<1>2. /\ conn[Login][i] \in Connection /\ conn[Login][i].flags = {} /\ conn[Login][i].state = "open"
  BY Alone DEF MistypedPassword
<1>3. conn[Login][i].account = NoID
  <2>1. Sound(Login, conn[Login][i])
    BY <1>0, <1>1 DEF AllSound
  <2> QED
    BY <1>2, <2>1 DEF Sound
<1>4. /\ conn' = Instead(conn, Login, i, c) /\ mistyped' = mistyped \union {a}
      /\ UNCHANGED <<toMaster, info>>
  BY DEF MistypedPassword, Instead
<1>5. c \in Connection /\ c.account = a
  BY <1>0, <1>2 DEF Disconnected, Connection, States
<1> HIDE DEF c, a
<1> QED
  BY <1>0, <1>1, <1>3, <1>4, <1>5, CountingMistyped

\* A connection is ended, and nothing is said.
LEMMA CountingEnd ==
    ASSUME SessionsAssumption, Core, Counting, NEW n \in Nodes, SaysNothing(n), NEW s \in Servers,
           NEW i \in DOMAIN conn[s], conn' = [conn EXCEPT ![s][i] = Disconnected(@)],
           UNCHANGED <<info, mistyped>>
    PROVE  Counting'
<1>1. QueuesTyped /\ ConnTyped
  BY DEF Core, ConnTyped, SessionsTypeOK
<1>2. conn[s][i] \in Connection
  BY <1>1, ConnFacts
<1>3. PICK c : c = Disconnected(conn[s][i])
  OBVIOUS
<1>4. c \in Connection /\ c.account = conn[s][i].account
  BY <1>2, <1>3, DisconnectedFacts
<1>5. conn' = Instead(conn, s, i, c)
  BY <1>3 DEF Instead
<1> QED
  BY <1>1, <1>4, <1>5, CountingMoves

LEMMA CountingLeave ==
    ASSUME SessionsAssumption, Core, Counting, NEW s \in Servers, NEW i \in DOMAIN conn[s],
           \/ HangUp(s, i) \/ NoticeEnd(s, i) \/ (s = Login /\ Timeout(i))
    PROVE  Counting'
<1>1. QueuesTyped /\ ConnTyped /\ Login \in Nodes
  BY Constants DEF Core, ConnTyped, SessionsTypeOK
<1>2. UNCHANGED <<toMaster, info, mistyped>> /\ SaysNothing(Login)
  BY <1>1, SaysIdle DEF HangUp, NoticeEnd, Timeout
<1>3. CASE HangUp(s, i)
  <2> DEFINE c == [conn[s][i] EXCEPT !.state = "left"]
  <2>1. conn[s][i] \in Connection
    BY <1>1, ConnFacts
  <2>2. c \in Connection /\ c.account = conn[s][i].account
    BY <2>1 DEF Connection, States
  <2>3. conn' = Instead(conn, s, i, c)
    BY <1>3 DEF HangUp, Instead
  <2> HIDE DEF c
  <2> QED
    BY <1>1, <1>2, <2>2, <2>3, CountingMoves
<1>4. CASE NoticeEnd(s, i) \/ (s = Login /\ Timeout(i))
  <2>1. conn' = [conn EXCEPT ![s][i] = Disconnected(@)]
    BY <1>4 DEF NoticeEnd, Timeout
  <2> QED
    BY <1>1, <1>2, <2>1, CountingEnd
<1> QED
  BY <1>3, <1>4

LEMMA CountingClose ==
    ASSUME SessionsAssumption, Core, Counting, NEW s \in Servers, NEW i \in DOMAIN conn[s], Close(s, i)
    PROVE  Counting'
<1> DEFINE a == conn[s][i].account
           c == [conn[s][i] EXCEPT !.state = "gone", !.flags = {}, !.account = NoID]
<1>1. QueuesTyped /\ ConnTyped /\ s \in Nodes
  BY Constants DEF Core, ConnTyped, SessionsTypeOK
<1>2. conn[s][i] \in Connection /\ a \in Accounts \union {NoID}
  BY <1>1, ConnFacts
<1>3. c \in Connection /\ c.account = NoID
  BY <1>2 DEF Connection, States
<1>4. /\ conn' = Instead(conn, s, i, c) /\ UNCHANGED <<info, mistyped>>
      /\ Post(s, IfCounted(a, DisconnectNotice(a)))
  BY DEF Close, Instead
<1> HIDE DEF c
<1>5. CASE a = NoID
  <2>1. Post(s, <<>>)
    BY <1>4, <1>5 DEF IfCounted
  <2>2. <<>> \in Seq(Packet) /\ \A j \in DOMAIN <<>> : FALSE
    OBVIOUS
  <2>3. SaysNothing(s)
    BY <2>1, <2>2, Zenon DEF SaysNothing
  <2> QED
    BY <1>1, <1>3, <1>4, <1>5, <2>3, CountingMoves
<1>6. CASE a # NoID
  <2>1. a \in Accounts /\ Post(s, <<DisconnectNotice(a)>>)
    BY <1>2, <1>4, <1>6 DEF IfCounted
  <2>2. DisconnectNotice(a) \in Packet
    BY <2>1 DEF Packet, DisconnectNotice
  <2>3. Says(s, DisconnectNotice(a))
    BY <2>1, <2>2, SaysOne
  <2>4. PICK b \in Accounts : b = a
    BY <2>1
  <2> QED
    BY <1>1, <1>3, <1>4, <2>3, <2>4, CountingSaid
<1> QED
  BY <1>5, <1>6


LEMMA CountingLoginVerifyLinks ==
    ASSUME SessionsAssumption, Core, Counting, NEW p \in Players, NEW i \in DOMAIN conn[Login], NEW w \in Worlds,
           NEW j \in DOMAIN conn[w], LoginVerifyLinks(p, i, w, j)
    PROVE  Counting'
<1> DEFINE c == Raised(conn[Login][i], {"verified"})
           m == [to |-> w, type |-> "L2W_VERIFY_LINKS", from |-> i, entity |-> j,
                 account |-> conn[Login][i].account]
<1>0. Login \in Servers /\ Login \in Nodes /\ w \in Servers
  BY Constants
<1>1. QueuesTyped /\ ConnTyped /\ AllSound
  BY DEF Core, ConnTyped, SessionsTypeOK
<1>2. /\ i \in Nat /\ j \in Nat /\ conn[Login][i] \in Connection /\ Sound(Login, conn[Login][i])
  BY <1>0, <1>1, ConnFacts DEF AllSound
<1>3. /\ "authenticated" \in conn[Login][i].flags /\ conn' = Instead(conn, Login, i, c)
      /\ Post(Login, <<m>>) /\ UNCHANGED <<info, mistyped>>
  BY DEF LoginVerifyLinks, Has, Instead
<1>4. conn[Login][i].account \in Accounts
  BY <1>2, <1>3 DEF Sound, Connection
<1>5. c \in Connection /\ c.account = conn[Login][i].account
  BY <1>2 DEF Connection, Flags, Raised
<1>6. m \in Packet /\ m.type \notin Notices
  BY <1>2, <1>4 DEF Packet, Notices
<1> HIDE DEF c, m
<1>7. SaysNothing(Login)
  BY <1>3, <1>6, SaysOne
<1> QED
  BY <1>0, <1>1, <1>3, <1>5, <1>7, CountingMoves

LEMMA CountingWorldVerifyLinks ==
    ASSUME SessionsAssumption, Core, Counting, NEW p \in Players, NEW w \in Worlds, NEW s \in Servers,
           NEW i \in DOMAIN conn[w], NEW j \in DOMAIN conn[s], WorldVerifyLinks(p, w, i, s, j)
    PROVE  Counting'
<1> DEFINE m == [to |-> s,
                 type |-> IF s = Login THEN "WORLD_VERIFY_LINKS" ELSE "REQUEST_VERIFY_LINKS",
                 node |-> w, from |-> i, entity |-> j, account |-> conn[w][i].account]
<1>0. w \in Nodes /\ w \in Servers
  BY Constants
<1>1. QueuesTyped /\ ConnTyped /\ AllSound
  BY DEF Core, ConnTyped, SessionsTypeOK
<1>2. /\ i \in Nat /\ j \in Nat /\ conn[w][i] \in Connection /\ Sound(w, conn[w][i])
  BY <1>0, <1>1, ConnFacts DEF AllSound
<1>3. /\ "verified" \in conn[w][i].flags /\ conn' = [conn EXCEPT ![w][i] = Disconnected(@)]
      /\ Post(w, <<m>>) /\ UNCHANGED <<info, mistyped>>
  BY DEF WorldVerifyLinks, Has
<1>4. conn[w][i].account \in Accounts
  BY <1>2, <1>3 DEF Sound, Connection
<1>6. m \in Packet /\ m.type \notin Notices
  BY <1>2, <1>4, PacketsMade DEF Notices
<1> HIDE DEF m
<1>7. SaysNothing(w)
  BY <1>3, <1>6, SaysOne
<1> QED
  BY <1>0, <1>3, <1>7, CountingEnd

LEMMA CountingSetOnline ==
    ASSUME SessionsAssumption, Core, Counting, OnSetOnline
    PROVE  Counting'
<1>1. QueuesTyped /\ ConnTyped /\ Login \in Nodes
  BY Constants DEF Core, ConnTyped, SessionsTypeOK
<1>2. UNCHANGED <<conn, toMaster, info, mistyped>>
  BY DEF OnSetOnline
<1>3. SaysNothing(Login)
  BY <1>1, <1>2, SaysIdle
<1> QED
  BY <1>1, <1>2, <1>3, CountingMoves

LEMMA CountingEnded ==
    ASSUME SessionsAssumption, Core, Counting, OnLinkAnswer \/ \E w \in Worlds : OnWorldResponse(w)
    PROVE  Counting'
<1>1. QueuesTyped /\ ConnTyped /\ Login \in Nodes
  BY Constants DEF Core, ConnTyped, SessionsTypeOK
<1>2. PICK s \in Servers : \E i :
         /\ conn' = IF Found(s, i) THEN [conn EXCEPT ![s][i] = Disconnected(@)] ELSE conn
         /\ UNCHANGED <<toMaster, info, mistyped>>
  <2>1. Login \in Servers /\ Worlds \subseteq Servers
    BY Constants
  <2> QED
    BY <2>1 DEF OnLinkAnswer, OnWorldResponse
<1>3. PICK i :
         /\ conn' = IF Found(s, i) THEN [conn EXCEPT ![s][i] = Disconnected(@)] ELSE conn
         /\ UNCHANGED <<toMaster, info, mistyped>>
  BY <1>2
<1>6. SaysNothing(Login)
  BY <1>1, <1>3, SaysIdle
<1>4. CASE Found(s, i)
  <2>1. i \in DOMAIN conn[s] /\ conn' = [conn EXCEPT ![s][i] = Disconnected(@)]
    BY <1>3, <1>4 DEF Found
  <2> QED
    BY <1>1, <1>3, <1>6, <2>1, CountingEnd
<1>5. CASE ~Found(s, i)
  <2>1. conn' = conn
    BY <1>3, <1>5
  <2> QED
    BY <1>1, <1>3, <1>6, <2>1, CountingMoves
<1> QED
  BY <1>4, <1>5

LEMMA CountingLoginLink ==
    ASSUME SessionsAssumption, Core, Counting, NEW w \in Worlds, OnLoginLink(w)
    PROVE  Counting'
<1> DEFINE h == Head(fromMaster[w])
           x == [to |-> Database, type |-> "W2D_AUTHENTICATE", node |-> w,
                 target |-> h.entity, account |-> h.account, link |-> h.from]
           m == IF Found(w, h.entity) /\ ~Has(w, h.entity, "verified") THEN x ELSE LinkAnswer(h.from, 0)
<1>1. QueuesTyped /\ ConnTyped /\ w \in Nodes
  BY Constants DEF Core, ConnTyped, SessionsTypeOK
<1>2. Received(w, "L2W_VERIFY_LINKS") /\ UNCHANGED <<conn, info, mistyped>>
  BY DEF OnLoginLink
<1>3. h.from \in Nat /\ h.entity \in Nat /\ h.account \in Accounts
  <2>1. h \in Packet /\ h.type = "L2W_VERIFY_LINKS"
    BY <1>1, <1>2, Taken
  <2> QED
    BY <2>1, PacketFacts
<1>4. m \in Packet /\ m.type \notin Notices
  <2>1. x \in Packet /\ LinkAnswer(h.from, 0) \in Packet
    BY <1>3, PacketsMade, Constants
  <2>2. x.type \notin Notices /\ LinkAnswer(h.from, 0).type \notin Notices
    BY DEF Notices, LinkAnswer
  <2> QED
    BY <2>1, <2>2
<1>5. Post(w, <<m>>)
  BY DEF OnLoginLink
<1> HIDE DEF m
<1>6. SaysNothing(w)
  BY <1>4, <1>5, SaysOne
<1> QED
  BY <1>1, <1>2, <1>6, CountingMoves

LEMMA CountingDatabase ==
    ASSUME SessionsAssumption, Core, Counting, NEW success \in BOOLEAN, OnDatabaseAuthenticate(success)
    PROVE  Counting'
<1> DEFINE h == Head(fromMaster[Database])
           m == [to |-> h.node, type |-> "D2W_AUTHENTICATE", target |-> h.target,
                 account |-> h.account, link |-> h.link, success |-> success]
<1>1. QueuesTyped /\ ConnTyped /\ Database \in Nodes
  BY Constants DEF Core, ConnTyped, SessionsTypeOK
<1>2. Received(Database, "W2D_AUTHENTICATE") /\ Post(Database, <<m>>) /\ UNCHANGED <<conn, info, mistyped>>
  BY DEF OnDatabaseAuthenticate
<1>3. h.node \in Worlds /\ h.target \in Nat /\ h.account \in Accounts /\ h.link \in Nat
  <2>1. h \in Packet /\ h.type = "W2D_AUTHENTICATE"
    BY <1>1, <1>2, Taken
  <2> QED
    BY <2>1, PacketFacts
<1>4. m \in Packet /\ m.type \notin Notices
  BY <1>3, PacketsMade, Constants DEF Notices
<1> HIDE DEF m
<1>6. SaysNothing(Database)
  BY <1>2, <1>4, SaysOne
<1> QED
  BY <1>1, <1>2, <1>6, CountingMoves

LEMMA CountingAuthenticated ==
    ASSUME SessionsAssumption, Core, Counting, NEW w \in Worlds, OnAuthenticate(w)
    PROVE  Counting'
<1> DEFINE h == Head(fromMaster[w])
           i == h.target
           c == conn[w][i]
           d == Raised([c EXCEPT !.account = h.account], {"verified"})
<1>0. w \in Nodes /\ w \in Servers /\ "D2W_AUTHENTICATE" \in TokenTypes
  BY Constants DEF TokenTypes
<1>1. QueuesTyped /\ ConnTyped
  BY DEF Core, ConnTyped, SessionsTypeOK
<1>2. Received(w, "D2W_AUTHENTICATE") /\ UNCHANGED <<info, mistyped>>
  BY DEF OnAuthenticate
<1>3. /\ h.type = "D2W_AUTHENTICATE" /\ h.to = w /\ h.account \in Accounts /\ h.account # NoID
      /\ h.link \in Nat /\ h.success \in BOOLEAN
  <2>1. h \in Packet /\ h.type = "D2W_AUTHENTICATE" /\ h.to = w
    BY <1>0, <1>1, <1>2, Taken
  <2> QED
    BY <2>1, PacketFacts, Constants
<1>4. Target(h)[1] = w /\ Target(h)[2] = i
  BY <1>3 DEF Target
<1>5. i \in DOMAIN conn[w] /\ c \in Connection /\ c.account = NoID
  BY <1>0, <1>2, <1>4, Arrives
<1>6. CASE ~Found(w, i)
  <2>1. conn' = conn /\ toMaster' = toMaster
    BY <1>6 DEF OnAuthenticate
  <2>2. SaysNothing(w)
    BY <1>0, <1>1, <2>1, SaysIdle
  <2> QED
    BY <1>0, <1>1, <1>2, <2>1, <2>2, CountingMoves
<1>7. CASE Found(w, i) /\ ~h.success
  <2>1. /\ conn' = [conn EXCEPT ![w][i] = c]
        /\ Post(w, <<LinkAnswer(h.link, 0)>> \o <<>>)
    BY <1>5, <1>7 DEF OnAuthenticate, IfCounted
  <2>2. LinkAnswer(h.link, 0) \in Packet /\ LinkAnswer(h.link, 0).type \notin Notices
    BY <1>3 DEF Packet, LinkAnswer, Notices
  <2>3. <<LinkAnswer(h.link, 0)>> \o <<>> = <<LinkAnswer(h.link, 0)>>
    <3>1. <<LinkAnswer(h.link, 0)>> \in Seq(Packet)
      BY <2>2
    <3> QED
      BY <3>1, ConcatEmptySeq
  <2>4. SaysNothing(w)
    BY <2>1, <2>2, <2>3, SaysOne
  <2>5. conn' = Instead(conn, w, i, c)
    BY <2>1 DEF Instead
  <2> HIDE DEF c, i
  <2> QED
    BY <1>0, <1>1, <1>2, <1>5, <2>4, <2>5, CountingMoves DEF c
<1>8. CASE Found(w, i) /\ h.success
  <2>1. /\ conn' = [conn EXCEPT ![w][i] = d]
        /\ Post(w, <<LinkAnswer(h.link, 1)>> \o <<ConnectNotice(h.account)>>)
    BY <1>3, <1>8 DEF OnAuthenticate, IfCounted
  <2>2. LinkAnswer(h.link, 1) \in Packet /\ LinkAnswer(h.link, 1).type \notin Notices
    BY <1>3 DEF Packet, LinkAnswer, Notices
  <2>3. PICK X : X = <<LinkAnswer(h.link, 1)>>
    OBVIOUS
  <2>4. X \in Seq(Packet) /\ \A k \in DOMAIN X : X[k].type \notin Notices
    BY <2>2, <2>3
  <2>5. ConnectNotice(h.account) \in Packet
    BY <1>3 DEF Packet, ConnectNotice
  <2>6. Says(w, ConnectNotice(h.account))
    BY <2>1, <2>3, <2>4, <2>5, SaysAfter
  <2>7. d \in Connection /\ d.account = h.account
    BY <1>3, <1>5 DEF Connection, Flags, Raised
  <2>8. conn' = Instead(conn, w, i, d)
    BY <2>1 DEF Instead
  <2> HIDE DEF d
  <2> QED
    BY <1>0, <1>1, <1>2, <1>3, <1>5, <2>6, <2>7, <2>8, CountingSaid
<1> QED
  BY <1>3, <1>6, <1>7, <1>8

LEMMA CountingTakeOver ==
    ASSUME SessionsAssumption, Core, Counting, NEW s \in Servers, NEW type, NEW flags, NEW answers,
           OnTakeOver(s, type, flags, answers),
           \/ s \in Worlds /\ type = "REQUEST_VERIFY_LINKS" /\ flags = {"verified"}
           \/ s = Login /\ type = "WORLD_VERIFY_LINKS" /\ flags = {"authenticated", "normal"}
    PROVE  Counting'
<1> DEFINE h == Head(fromMaster[s])
           i == h.entity
           c == conn[s][i]
           d == Raised([c EXCEPT !.account = h.account], flags)
           a == [to |-> h.node, type |-> "RESPONSE_VERIFY_LINKS", target |-> h.from]
           X == IF Found(s, i) \in answers THEN <<a>> ELSE <<>>
<1>0. s \in Nodes /\ type \in TokenTypes
  BY Constants DEF TokenTypes
<1>1. QueuesTyped /\ ConnTyped
  BY DEF Core, ConnTyped, SessionsTypeOK
<1>2. Received(s, type) /\ UNCHANGED <<info, mistyped>>
  BY DEF OnTakeOver
<1>3. /\ h.type = type /\ h.to = s /\ h.account \in Accounts /\ h.account # NoID
      /\ h.node \in Worlds /\ h.from \in Nat
  <2>1. h \in Packet /\ h.type = type /\ h.to = s
    BY <1>0, <1>1, <1>2, Taken
  <2> QED
    BY <2>1, PacketFacts, Constants
<1>4. Target(h)[1] = s /\ Target(h)[2] = i
  BY <1>3 DEF Target
<1>5. i \in DOMAIN conn[s] /\ c \in Connection /\ c.account = NoID
  BY <1>0, <1>2, <1>4, Arrives
<1>6. X \in Seq(Packet) /\ \A k \in DOMAIN X : X[k].type \notin Notices
  <2>1. a \in Packet /\ a.type \notin Notices
    BY <1>3 DEF Packet, Notices
  <2> HIDE DEF a
  <2> QED
    BY <2>1
<1>7. CASE ~Found(s, i)
  <2>1. conn' = conn /\ Post(s, X \o <<>>)
    BY <1>7 DEF OnTakeOver
  <2> HIDE DEF X
  <2>2. X \o <<>> = X
    BY <1>6, ConcatEmptySeq
  <2>3. SaysNothing(s)
    BY <1>6, <2>1, <2>2 DEF SaysNothing
  <2> QED
    BY <1>0, <1>1, <1>2, <2>1, <2>3, CountingMoves
<1>8. CASE Found(s, i)
  <2>1. conn' = [conn EXCEPT ![s][i] = d] /\ Post(s, X \o <<ConnectNotice(h.account)>>)
    BY <1>3, <1>8 DEF OnTakeOver, IfCounted
  <2>5. ConnectNotice(h.account) \in Packet
    BY <1>3 DEF Packet, ConnectNotice
  <2>6. Says(s, ConnectNotice(h.account))
    <3> HIDE DEF X
    <3> QED
      BY <1>6, <2>1, <2>5, SaysAfter
  <2>7. d \in Connection /\ d.account = h.account
    BY <1>3, <1>5 DEF Connection, Flags, Raised
  <2>8. conn' = Instead(conn, s, i, d)
    BY <2>1 DEF Instead
  <2> HIDE DEF d
  <2> QED
    BY <1>0, <1>1, <1>2, <1>3, <1>5, <2>6, <2>7, <2>8, CountingSaid
<1> QED
  BY <1>7, <1>8

LEMMA CountingInit ==
    ASSUME SessionsAssumption, SessionsInit
    PROVE  Counting
<1>1. \A n \in Nodes : toMaster[n] = <<>>
  BY DEF SessionsInit
<1>2. \A s \in Servers : conn[s] = <<>> /\ s \in Nodes
  BY Constants DEF SessionsInit
<1>3. \A a, k, type : PendingIn(toMaster, a, k, type) = {} /\ CountedIn(conn, a, k) = {}
  <2>1. \A s \in Servers : DOMAIN toMaster[s] = {} /\ DOMAIN conn[s] = {}
    BY <1>1, <1>2
  <2> QED
    BY <2>1, PlaceIs DEF PendingIn, CountedIn
<1>4. ASSUME NEW a \in Accounts, NEW k \in Kinds
      PROVE  BalancedAt(toMaster, conn, a, k, Entry(a)[k], a \notin mistyped)
  <2>1. Entry(a)[k] = 0
    BY <1>4 DEF Entry, SessionsInit, NoConnections
  <2>2. Matched({}, {}, {})
    <3>1. {} \in SUBSET {} /\ {} \ {} = {}
      OBVIOUS
    <3>2. [x \in {} |-> x] \in Follow({}, {}) /\ [x \in {} |-> x] \in Remain({}, {})
      BY DEF Follow, Remain
    <3> QED
      BY <3>1, <3>2 DEF Matched
  <2>3. IsFiniteSet({}) /\ Cardinality({}) = 0
    BY FS_EmptySet
  <2>4. Balance({}, {}, {}, 0, a \notin mistyped)
    BY <2>2, <2>3 DEF Balance
  <2> QED
    BY <1>3, <2>1, <2>4, Zenon DEF BalancedAt
<1>5. Balanced
  BY <1>4 DEF Balanced
<1>6. DatabaseQuiet /\ Positive
  BY <1>1, Constants DEF DatabaseQuiet, Positive, SessionsInit
<1> QED
  BY <1>5, <1>6 DEF Counting

LEMMA CountingStep ==
    ASSUME SessionsAssumption, Core, Counting, SessionsNext
    PROVE  Counting'
<1>0. Login \in Servers /\ Worlds \subseteq Servers
  BY Constants
<1>1. ASSUME NEW p \in Players, PlayerStep(p) PROVE Counting'
  <2>1. ASSUME NEW s \in Servers, Connect(p, s) PROVE Counting'
    BY <2>1, CountingConnect
  <2>2. ASSUME NEW i \in DOMAIN conn[Login], Authenticate(p, i) \/ MistypedPassword(p, i) PROVE Counting'
    BY <2>2, CountingAuthenticate, CountingMistypes
  <2>3. ASSUME NEW i \in DOMAIN conn[Login], NEW w \in Worlds, NEW j \in DOMAIN conn[w],
               LoginVerifyLinks(p, i, w, j)
        PROVE  Counting'
    BY <2>3, CountingLoginVerifyLinks
  <2>4. ASSUME NEW w \in Worlds, NEW s \in Servers, NEW i \in DOMAIN conn[w], NEW j \in DOMAIN conn[s],
               WorldVerifyLinks(p, w, i, s, j)
        PROVE  Counting'
    BY <2>4, CountingWorldVerifyLinks
  <2> QED
    BY <1>1, <2>1, <2>2, <2>3, <2>4 DEF PlayerStep
<1>2. ASSUME NEW s \in Servers, NEW i \in DOMAIN conn[s], HangUp(s, i) PROVE Counting'
  BY <1>2, CountingLeave
<1>3. ASSUME NEW i \in DOMAIN conn[Login], Timeout(i) PROVE Counting'
  BY <1>0, <1>3, CountingLeave
<1>4. ASSUME NEW n \in Nodes, MasterStep(n) PROVE Counting'
  BY <1>4, CountingMaster DEF Core
<1>5. ASSUME NEW n \in Nodes, HandlePacket(n) PROVE Counting'
  <2>1. CASE OnSetOnline
    BY <2>1, CountingSetOnline
  <2>2. CASE OnLinkAnswer \/ \E w \in Worlds : OnWorldResponse(w)
    BY <2>2, CountingEnded
  <2>3. CASE OnWorldReturn
    BY <1>0, <2>3, CountingTakeOver DEF OnWorldReturn
  <2>4. ASSUME NEW w \in Worlds, OnWorldRequest(w) PROVE Counting'
    BY <1>0, <2>4, CountingTakeOver DEF OnWorldRequest
  <2>5. ASSUME NEW w \in Worlds, OnLoginLink(w) PROVE Counting'
    BY <2>5, CountingLoginLink
  <2>6. ASSUME NEW w \in Worlds, OnAuthenticate(w) PROVE Counting'
    BY <2>6, CountingAuthenticated
  <2>7. ASSUME NEW success \in BOOLEAN, OnDatabaseAuthenticate(success) PROVE Counting'
    BY <2>7, CountingDatabase
  <2> QED
    BY <1>5, <2>1, <2>2, <2>3, <2>4, <2>5, <2>6, <2>7 DEF HandlePacket
<1>6. ASSUME NEW s \in Servers, CloseStep(s) PROVE Counting'
  <2>1. PICK i \in DOMAIN conn[s] : NoticeEnd(s, i) \/ Close(s, i)
    BY <1>6 DEF CloseStep
  <2> QED
    BY <2>1, CountingLeave, CountingClose
<1> QED
  BY <1>1, <1>2, <1>3, <1>4, <1>5, <1>6 DEF SessionsNext, ServerStep
-----------------------------------------------------------------------------
(* What the login server is told                                           *)

\* Packet m says whether account a is online.
Word(m, a) == m.type = "SET_ONLINE" /\ m.account = a

\* The last word about account a in queue q is v, or there is none and u is v.
LastWord(q, a, u, v) ==
    \/ u = v /\ \A i \in DOMAIN q : ~Word(q[i], a)
    \/ \E i \in DOMAIN q : /\ Word(q[i], a) /\ q[i].online = v
                           /\ \A j \in DOMAIN q : Word(q[j], a) => j <= i

\* The login server's database has, or will have, what the master server knows.
Agreed == \A a \in Accounts : LastWord(fromMaster[Login], a, online[a], info[a] # NoID)

LEMMA WordOther ==
    ASSUME NEW q \in Seq(Message), NEW m \in Message, NEW a, ~Word(m, a), NEW u, NEW v, LastWord(q, a, u, v)
    PROVE  LastWord(Append(q, m), a, u, v)
<1>1. PICK R : R = Append(q, m)
  OBVIOUS
<1>2. /\ Len(q) \in Nat /\ DOMAIN q = 1 .. Len(q) /\ DOMAIN R = 1 .. Len(q) + 1
      /\ \A i \in DOMAIN q : i \in DOMAIN R /\ R[i] = q[i]
      /\ R[Len(q) + 1] = m
  BY <1>1
<1>3. \A i \in DOMAIN R : Word(R[i], a) => i \in DOMAIN q /\ R[i] = q[i]
  BY <1>2
<1>4. CASE u = v /\ \A i \in DOMAIN q : ~Word(q[i], a)
  <2>1. \A i \in DOMAIN R : ~Word(R[i], a)
    BY <1>3, <1>4 DEF Word
  <2> QED
    BY <1>1, <1>4, <2>1 DEF LastWord
<1>5. ASSUME NEW i \in DOMAIN q, Word(q[i], a) /\ q[i].online = v, \A j \in DOMAIN q : Word(q[j], a) => j <= i
      PROVE  LastWord(R, a, u, v)
  <2>1. i \in DOMAIN R /\ Word(R[i], a) /\ R[i].online = v
    BY <1>2, <1>5 DEF Word
  <2>2. \A j \in DOMAIN R : Word(R[j], a) => j <= i
    BY <1>3, <1>5 DEF Word
  <2> QED
    BY <2>1, <2>2, Zenon DEF LastWord
<1> QED
  BY <1>1, <1>4, <1>5, Zenon DEF LastWord

LEMMA WordOwn ==
    ASSUME NEW q \in Seq(Message), NEW m \in Message, NEW a, Word(m, a), NEW u
    PROVE  LastWord(Append(q, m), a, u, m.online)
<1>1. PICK R : R = Append(q, m)
  OBVIOUS
<1>2. PICK n \in Nat : n = Len(q) + 1
  OBVIOUS
<1>3. n \in DOMAIN R /\ R[n] = m /\ \A j \in DOMAIN R : j <= n
  BY <1>1, <1>2
<1>4. Word(R[n], a) /\ R[n].online = m.online
  BY <1>3
<1>5. LastWord(R, a, u, m.online)
  BY <1>3, <1>4, Zenon DEF LastWord
<1> QED
  BY <1>1, <1>5

LEMMA WordTaken ==
    ASSUME NEW q \in Seq(Message), q # <<>>, NEW a, NEW u, NEW v, LastWord(q, a, u, v)
    PROVE  LastWord(Tail(q), a, IF Word(Head(q), a) THEN Head(q).online ELSE u, v)
<1>1. PICK R : R = Tail(q)
  OBVIOUS
<1>2. PICK w : w = IF Word(Head(q), a) THEN Head(q).online ELSE u
  OBVIOUS
<1>3. /\ Len(q) \in Nat /\ DOMAIN q = 1 .. Len(q) /\ DOMAIN R = 1 .. Len(q) - 1
      /\ 1 \in DOMAIN q /\ Head(q) = q[1]
      /\ \A i \in DOMAIN R : i \in Nat \ {0} /\ i + 1 \in DOMAIN q /\ R[i] = q[i + 1]
      /\ \A i \in DOMAIN q : i # 1 => i \in Nat /\ i - 1 \in DOMAIN R /\ R[i - 1] = q[i]
  <2>1. /\ Len(q) \in Nat \ {0} /\ DOMAIN q = 1 .. Len(q) /\ Head(q) = q[1]
    BY LenProperties, HeadTailProperties, EmptySeq
  <2>2. R \in Seq(Message) /\ Len(R) = Len(q) - 1 /\ \A i \in 1 .. Len(R) : R[i] = q[i + 1]
    BY <1>1, HeadTailProperties
  <2>3. DOMAIN R = 1 .. Len(q) - 1
    BY <2>2, LenProperties
  <2>4. \A i \in DOMAIN R : i \in Nat \ {0} /\ i + 1 \in DOMAIN q /\ R[i] = q[i + 1]
    BY <2>1, <2>2, <2>3
  <2>5. \A i \in DOMAIN q : i # 1 => i \in Nat /\ i - 1 \in DOMAIN R /\ (i - 1) + 1 = i
    BY <2>1, <2>3
  <2>6. \A i \in DOMAIN q : i # 1 => R[i - 1] = q[i]
    BY <2>4, <2>5
  <2> QED
    BY <2>1, <2>3, <2>4, <2>5, <2>6
<1>4. CASE u = v /\ \A i \in DOMAIN q : ~Word(q[i], a)
  <2>1. \A i \in DOMAIN R : ~Word(R[i], a)
    BY <1>3, <1>4 DEF Word
  <2>2. w = u
    BY <1>2, <1>3, <1>4
  <2> QED
    BY <1>1, <1>2, <1>4, <2>1, <2>2 DEF LastWord
<1>5. ASSUME NEW i \in DOMAIN q, Word(q[i], a) /\ q[i].online = v, \A j \in DOMAIN q : Word(q[j], a) => j <= i
      PROVE  LastWord(R, a, w, v)
  <2>1. CASE i = 1
    <3>1. w = v
      BY <1>2, <1>3, <1>5, <2>1
    <3>2. \A j \in DOMAIN R : ~Word(R[j], a)
      <4> SUFFICES ASSUME NEW j \in DOMAIN R, Word(R[j], a) PROVE FALSE
        OBVIOUS
      <4>1. j \in Nat \ {0} /\ j + 1 \in DOMAIN q /\ Word(q[j + 1], a)
        BY <1>3
      <4>2. j + 1 <= 1
        BY <1>5, <2>1, <4>1
      <4> QED
        BY <4>1, <4>2
    <3> QED
      BY <3>1, <3>2, Zenon DEF LastWord
  <2>2. CASE i # 1
    <3>1. PICK k \in DOMAIN R : k = i - 1
      BY <1>3, <2>2
    <3>2. R[k] = q[i] /\ i \in Nat
      BY <1>3, <2>2, <3>1
    <3>3. \A j \in DOMAIN R : Word(R[j], a) => j <= k
      <4> SUFFICES ASSUME NEW j \in DOMAIN R, Word(R[j], a) PROVE j <= k
        OBVIOUS
      <4>1. j \in Nat \ {0} /\ j + 1 \in DOMAIN q /\ Word(q[j + 1], a)
        BY <1>3
      <4>2. j + 1 <= i
        BY <1>5, <4>1
      <4> QED
        BY <3>1, <3>2, <4>1, <4>2
    <3>4. Word(R[k], a) /\ R[k].online = v
      BY <1>5, <3>2
    <3> QED
      BY <3>3, <3>4, Zenon DEF LastWord
  <2> QED
    BY <2>1, <2>2
<1>6. LastWord(R, a, w, v)
  BY <1>1, <1>2, <1>4, <1>5, Zenon DEF LastWord
<1> QED
  BY <1>1, <1>2, <1>6

\* An account whose word the login server is not told keeps its verdict.
LEMMA AgreedQuiet ==
    ASSUME Agreed, fromMaster'[Login] = fromMaster[Login], UNCHANGED <<info, online>>
    PROVE  Agreed'
<1> SUFFICES ASSUME NEW a \in Accounts
             PROVE  LastWord(fromMaster'[Login], a, online'[a], info'[a] # NoID)
  BY DEF Agreed
<1>1. LastWord(fromMaster[Login], a, online[a], info[a] # NoID)
  BY DEF Agreed
<1>2. PICK q, u, v : q = fromMaster[Login] /\ u = online[a] /\ v = info[a]
  OBVIOUS
<1>3. fromMaster'[Login] = q /\ online'[a] = u /\ info'[a] = v
  BY <1>2
<1> QED
  BY <1>1, <1>2, <1>3, Zenon

LEMMA AgreedUnheard ==
    ASSUME SessionsAssumption, QueuesTyped, Agreed, UNCHANGED <<fromMaster, info, online>>
    PROVE  Agreed'
  BY AgreedQuiet

\* A handler takes a packet that is not a verdict.
LEMMA AgreedReceived ==
    ASSUME SessionsAssumption, QueuesTyped, Agreed, NEW n \in Nodes, NEW type, type # "SET_ONLINE",
           Received(n, type), UNCHANGED <<info, online>>
    PROVE  Agreed'
<1>1. /\ fromMaster \in [Nodes -> Seq(Message)] /\ Login \in Nodes
      /\ fromMaster[n] # <<>> /\ Head(fromMaster[n]).type = type
      /\ fromMaster' = [fromMaster EXCEPT ![n] = Tail(@)]
  BY Constants DEF QueuesTyped, Received
<1>2. CASE n # Login
  <2>1. fromMaster'[Login] = fromMaster[Login]
    BY <1>1, <1>2
  <2> QED
    BY <2>1, AgreedQuiet
<1>3. CASE n = Login
  <2> SUFFICES ASSUME NEW a \in Accounts
               PROVE  LastWord(fromMaster'[Login], a, online'[a], info'[a] # NoID)
    BY DEF Agreed
  <2>1. PICK q \in Seq(Message) : q = fromMaster[Login]
    BY <1>1
  <2>2. PICK u, v : u = online[a] /\ v = (info[a] # NoID)
    OBVIOUS
  <2>3. q # <<>> /\ ~Word(Head(q), a) /\ LastWord(q, a, u, v)
    BY <1>1, <1>3, <2>1, <2>2 DEF Agreed, Word
  <2>4. LastWord(Tail(q), a, u, v)
    BY <2>3, WordTaken
  <2>5. fromMaster'[Login] = Tail(q) /\ online'[a] = u /\ info'[a] = info[a]
    BY <1>1, <1>3, <2>1, <2>2
  <2> QED
    BY <2>2, <2>4, <2>5
<1> QED
  BY <1>2, <1>3

\* The login server sets what it was told.
LEMMA AgreedSetOnline ==
    ASSUME SessionsAssumption, Core, Agreed, OnSetOnline
    PROVE  Agreed'
<1>1. /\ fromMaster \in [Nodes -> Seq(Message)] /\ Login \in Nodes
      /\ fromMaster[Login] # <<>> /\ Head(fromMaster[Login]).type = "SET_ONLINE"
      /\ fromMaster' = [fromMaster EXCEPT ![Login] = Tail(@)]
      /\ info' = info /\ online \in [Accounts -> BOOLEAN]
      /\ online' = [online EXCEPT ![Head(fromMaster[Login]).account] = Head(fromMaster[Login]).online]
  BY Constants DEF Core, QueuesTyped, SessionsTypeOK, Received, OnSetOnline
<1> SUFFICES ASSUME NEW a \in Accounts
             PROVE  LastWord(fromMaster'[Login], a, online'[a], info'[a] # NoID)
  BY DEF Agreed
<1>2. PICK q \in Seq(Message) : q = fromMaster[Login]
  BY <1>1
<1>3. PICK m : m = Head(q)
  OBVIOUS
<1>4. m.type = "SET_ONLINE" /\ q # <<>> /\ online' = [online EXCEPT ![m.account] = m.online]
  BY <1>1, <1>2, <1>3
<1>5. PICK u, v, w : u = online[a] /\ v = (info[a] # NoID) /\ w = IF Word(m, a) THEN m.online ELSE u
  OBVIOUS
<1>6. LastWord(q, a, u, v)
  BY <1>2, <1>5 DEF Agreed
<1>7. LastWord(Tail(q), a, w, v)
  BY <1>3, <1>4, <1>5, <1>6, WordTaken
<1>8. online'[a] = w
  BY <1>1, <1>4, <1>5 DEF Word
<1>9. fromMaster'[Login] = Tail(q) /\ info'[a] = info[a]
  BY <1>1, <1>2
<1> QED
  BY <1>5, <1>7, <1>8, <1>9

\* The master server tells the login server of one account, and changes no other.
LEMMA AgreedAnnounced ==
    ASSUME SessionsAssumption, QueuesTyped, Agreed, NEW b \in Accounts, NEW v \in BOOLEAN, Announce(b, v),
           v = (info'[b] # NoID), \A a \in Accounts : a # b => info'[a] = info[a], online' = online
    PROVE  Agreed'
<1>1. fromMaster \in [Nodes -> Seq(Message)] /\ Login \in Nodes
  BY Constants DEF QueuesTyped
<1>2. PICK q \in Seq(Message) : q = fromMaster[Login]
  BY <1>1
<1>3. PICK m \in Message : m = [type |-> "SET_ONLINE", account |-> b, online |-> v]
  BY DEF Message
<1>4. fromMaster'[Login] = Append(q, m)
  BY <1>1, <1>2, <1>3 DEF Announce
<1> SUFFICES ASSUME NEW a \in Accounts
             PROVE  LastWord(fromMaster'[Login], a, online'[a], info'[a] # NoID)
  BY DEF Agreed
<1>5. PICK u : u = online[a]
  OBVIOUS
<1>6. CASE a = b
  <2>1. Word(m, a) /\ m.online = v
    BY <1>3, <1>6 DEF Word
  <2>2. LastWord(Append(q, m), a, u, v)
    BY <2>1, WordOwn
  <2> QED
    BY <1>4, <1>5, <1>6, <2>2
<1>7. CASE a # b
  <2>1. ~Word(m, a)
    BY <1>3, <1>7 DEF Word
  <2>2. PICK x : x = (info[a] # NoID)
    OBVIOUS
  <2>3. LastWord(q, a, u, x)
    BY <1>2, <1>5, <2>2 DEF Agreed
  <2>4. LastWord(Append(q, m), a, u, x)
    BY <2>1, <2>3, WordOther
  <2>5. (info'[a] # NoID) = x
    BY <1>7, <2>2
  <2> QED
    BY <1>4, <1>5, <2>4, <2>5
<1> QED
  BY <1>6, <1>7

LEMMA AgreedMaster ==
    ASSUME SessionsAssumption, Core, Agreed, NEW n \in Nodes, MasterStep(n)
    PROVE  Agreed'
<1>1. /\ toMaster \in [Nodes -> Seq(Packet)] /\ toMaster[n] # <<>> /\ QueuesTyped
      /\ fromMaster \in [Nodes -> Seq(Message)] /\ Login \in Nodes
      /\ info \in [Accounts -> [Kinds -> Int] \union {NoID}] /\ online' = online
      /\ SessionsTypeOK
  BY Constants DEF Core, QueuesTyped, SessionsTypeOK, MasterStep
<1>2. PICK m \in Packet : m = Head(toMaster[n])
  BY <1>1, Take
<1>3. CASE m.type = "CLIENT_CONNECT" /\ OnClientConnect(n, m.account)
  <2>1. PICK b \in Accounts : b = m.account
    BY <1>3, PacketFacts
  <2>2. PICK e \in [Kinds -> Int] : e = [Entry(b) EXCEPT ![Kind(n)] = @ + 1]
    <3>1. [Entry(b) EXCEPT ![Kind(n)] = @ + 1] \in [Kinds -> Int]
      BY <1>1, EntryTyped
    <3> QED
      BY <3>1
  <2>3. info' = [info EXCEPT ![b] = e] /\ Announce(b, TRUE)
    BY <1>3, <2>1, <2>2 DEF OnClientConnect
  <2>4. info'[b] # NoID /\ \A a \in Accounts : a # b => info'[a] = info[a]
    BY <1>1, <2>3, Constants
  <2> QED
    BY <1>1, <2>3, <2>4, AgreedAnnounced
<1>4. CASE m.type = "CLIENT_DISCONNECT" /\ OnClientDisconnect(n, m.account)
  <2>1. PICK b \in Accounts : b = m.account
    BY <1>4, PacketFacts
  <2>2. PICK e \in [Kinds -> Int] : e = [Entry(b) EXCEPT ![Kind(n)] = @ - 1]
    <3>1. [Entry(b) EXCEPT ![Kind(n)] = @ - 1] \in [Kinds -> Int]
      BY <1>1, EntryTyped
    <3> QED
      BY <3>1
  <2>3. PICK v \in BOOLEAN : v = (info[b] # NoID /\ \E k \in Kinds : e[k] > 0)
    OBVIOUS
  <2>4. info' = [info EXCEPT ![b] = IF v THEN e ELSE NoID] /\ Announce(b, v)
    BY <1>4, <2>1, <2>2, <2>3 DEF OnClientDisconnect
  <2>5. v = (info'[b] # NoID) /\ \A a \in Accounts : a # b => info'[a] = info[a]
    BY <1>1, <2>4, Constants
  <2> QED
    BY <1>1, <2>4, <2>5, AgreedAnnounced
<1>5. CASE m.to # Master /\ fromMaster' = [fromMaster EXCEPT ![m.to] = Append(@, m)] /\ info' = info
  <2>1. m.to \in Nodes /\ m \in Message /\ m.type # "SET_ONLINE"
    BY <1>2, <1>5, PacketFacts DEF Message
  <2>2. CASE m.to # Login
    <3>1. fromMaster'[Login] = fromMaster[Login]
      BY <1>1, <1>5, <2>2
    <3> QED
      BY <1>1, <1>5, <3>1, AgreedQuiet
  <2>3. CASE m.to = Login
    <3> SUFFICES ASSUME NEW a \in Accounts
                 PROVE  LastWord(fromMaster'[Login], a, online'[a], info'[a] # NoID)
      BY DEF Agreed
    <3>1. PICK q \in Seq(Message) : q = fromMaster[Login]
      BY <1>1
    <3>2. PICK u, v : u = online[a] /\ v = (info[a] # NoID)
      OBVIOUS
    <3>3. LastWord(q, a, u, v) /\ ~Word(m, a)
      BY <2>1, <3>1, <3>2 DEF Agreed, Word
    <3>4. LastWord(Append(q, m), a, u, v)
      BY <2>1, <3>3, WordOther
    <3>5. fromMaster'[Login] = Append(q, m) /\ online'[a] = u /\ info'[a] = info[a]
      BY <1>1, <1>5, <2>3, <3>1, <3>2
    <3> QED
      BY <3>2, <3>4, <3>5
  <2> QED
    BY <2>2, <2>3
<1> QED
  BY <1>2, <1>3, <1>4, <1>5 DEF MasterStep

LEMMA AgreedInit ==
    ASSUME SessionsAssumption, SessionsInit
    PROVE  Agreed
<1>1. fromMaster[Login] = <<>> /\ \A a \in Accounts : info[a] = NoID /\ online[a] = FALSE
  BY Constants DEF SessionsInit
<1> SUFFICES ASSUME NEW a \in Accounts
             PROVE  LastWord(fromMaster[Login], a, online[a], info[a] # NoID)
  BY DEF Agreed
<1>2. PICK v : v = (info[a] # NoID)
  OBVIOUS
<1>3. v = FALSE /\ online[a] = FALSE
  BY <1>1, <1>2, Zenon
<1>4. DOMAIN fromMaster[Login] = {}
  BY <1>1
<1> QED
  BY <1>2, <1>3, <1>4 DEF LastWord

LEMMA AgreedStep ==
    ASSUME SessionsAssumption, Core, Agreed, SessionsNext
    PROVE  Agreed'
<1>0. QueuesTyped /\ Login \in Nodes /\ Database \in Nodes /\ Worlds \subseteq Nodes
  BY Constants DEF Core
<1>1. ASSUME NEW p \in Players, PlayerStep(p) PROVE Agreed'
  <2>1. UNCHANGED <<fromMaster, info, online>>
    BY <1>1 DEF PlayerStep, Connect, Authenticate, MistypedPassword, LoginVerifyLinks,
       WorldVerifyLinks
  <2> QED
    BY <1>0, <2>1, AgreedUnheard
<1>2. ASSUME NEW s \in Servers, NEW i \in DOMAIN conn[s], HangUp(s, i) PROVE Agreed'
  BY <1>0, <1>2, AgreedUnheard DEF HangUp
<1>3. ASSUME NEW i \in DOMAIN conn[Login], Timeout(i) PROVE Agreed'
  BY <1>0, <1>3, AgreedUnheard DEF Timeout
<1>4. ASSUME NEW n \in Nodes, MasterStep(n) PROVE Agreed'
  BY <1>4, AgreedMaster
<1>5. ASSUME NEW n \in Nodes, HandlePacket(n) PROVE Agreed'
  <2>1. CASE OnSetOnline
    BY <2>1, AgreedSetOnline
  <2>2. ASSUME NEW k \in Nodes, NEW type, type # "SET_ONLINE", Received(k, type), UNCHANGED <<info, online>>
        PROVE  Agreed'
    BY <1>0, <2>2, AgreedReceived
  <2>3. CASE OnLinkAnswer
    BY <1>0, <2>2, <2>3 DEF OnLinkAnswer
  <2>4. CASE OnWorldReturn
    BY <1>0, <2>2, <2>4 DEF OnWorldReturn, OnTakeOver
  <2>5. ASSUME NEW w \in Worlds, OnWorldResponse(w) PROVE Agreed'
    BY <1>0, <2>2, <2>5 DEF OnWorldResponse
  <2>6. ASSUME NEW w \in Worlds, OnWorldRequest(w) PROVE Agreed'
    BY <1>0, <2>2, <2>6 DEF OnWorldRequest, OnTakeOver
  <2>7. ASSUME NEW w \in Worlds, OnLoginLink(w) PROVE Agreed'
    BY <1>0, <2>2, <2>7 DEF OnLoginLink
  <2>8. ASSUME NEW w \in Worlds, OnAuthenticate(w) PROVE Agreed'
    BY <1>0, <2>2, <2>8 DEF OnAuthenticate
  <2>9. ASSUME NEW success \in BOOLEAN, OnDatabaseAuthenticate(success) PROVE Agreed'
    BY <1>0, <2>2, <2>9 DEF OnDatabaseAuthenticate
  <2> QED
    BY <1>5, <2>1, <2>3, <2>4, <2>5, <2>6, <2>7, <2>8, <2>9 DEF HandlePacket
<1>6. ASSUME NEW s \in Servers, CloseStep(s) PROVE Agreed'
  <2>1. PICK i \in DOMAIN conn[s] : NoticeEnd(s, i) \/ Close(s, i)
    BY <1>6 DEF CloseStep
  <2>2. UNCHANGED <<fromMaster, info, online>>
    BY <2>1 DEF NoticeEnd, Close
  <2> QED
    BY <1>0, <2>2, AgreedUnheard
<1> QED
  BY <1>1, <1>2, <1>3, <1>4, <1>5, <1>6 DEF SessionsNext, ServerStep
-----------------------------------------------------------------------------
(* What follows                                                            *)

\* The inductive invariant.
Inv == Core /\ Counting /\ Agreed

LEMMA CountsFollow ==
    ASSUME SessionsAssumption, Core, Counting, NEW a \in Accounts, a \notin mistyped
    PROVE  CountsAgree(a)
<1> SUFFICES ASSUME NEW k \in Kinds
             PROVE  Entry(a)[k] + Cardinality(Pending(a, k, "CLIENT_CONNECT"))
                       - Cardinality(Pending(a, k, "CLIENT_DISCONNECT")) = Cardinality(Counted(a, k))
  BY DEF CountsAgree
<1>1. toMaster \in [Nodes -> Seq(Packet)] /\ conn \in [Servers -> Seq(Connection)]
  BY DEF Core, QueuesTyped, SessionsTypeOK
<1>2. \A type : Pending(a, k, type) = PendingIn(toMaster, a, k, type)
  BY <1>1, PendingOf, Zenon DEF Pending
<1>3. Counted(a, k) = CountedIn(conn, a, k)
  BY <1>1, CountedOf, Zenon DEF Counted
<1>4. BalancedAt(toMaster, conn, a, k, Entry(a)[k], a \notin mistyped)
  BY DEF Counting, Balanced
<1>5. PICK P, D, C : /\ P = PendingIn(toMaster, a, k, "CLIENT_CONNECT")
                      /\ D = PendingIn(toMaster, a, k, "CLIENT_DISCONNECT")
                      /\ C = CountedIn(conn, a, k)
  OBVIOUS
<1>6. Balance(P, D, C, Entry(a)[k], a \notin mistyped)
  BY <1>4, <1>5, Zenon DEF BalancedAt
<1>7. Entry(a)[k] + Cardinality(P) - Cardinality(D) = Cardinality(C)
  BY <1>6, Zenon DEF Balance
<1> QED
  BY <1>2, <1>3, <1>5, <1>7

LEMMA VerdictFollows ==
    ASSUME Agreed, NEW a \in Accounts
    PROVE  VerdictAgrees(a)
<1>1. PICK q : q = fromMaster[Login]
  OBVIOUS
<1>2. PICK u, v : u = online[a] /\ v = (info[a] # NoID)
  OBVIOUS
<1>3. LastWord(q, a, u, v)
  BY <1>1, <1>2 DEF Agreed
<1>4. Verdicts(a) = {i \in DOMAIN q : Word(q[i], a)}
  BY <1>1 DEF Verdicts, Word
<1>5. CASE Verdicts(a) = {}
  <2>1. u = v
    BY <1>3, <1>4, <1>5 DEF LastWord
  <2> QED
    BY <1>2, <1>5, <2>1 DEF VerdictAgrees
<1>6. CASE Verdicts(a) # {}
  <2>1. PICK i \in DOMAIN q : /\ Word(q[i], a) /\ q[i].online = v
                              /\ \A j \in DOMAIN q : Word(q[j], a) => j <= i
    BY <1>3, <1>4, <1>6 DEF LastWord
  <2>2. i \in Verdicts(a) /\ \A j \in Verdicts(a) : j <= i
    BY <1>4, <2>1
  <2>3. fromMaster[Login][i].online = (info[a] # NoID)
    BY <1>1, <1>2, <2>1
  <2> QED
    BY <1>6, <2>2, <2>3, Zenon DEF VerdictAgrees
<1> QED
  BY <1>5, <1>6

LEMMA MovesFollow ==
    ASSUME SessionsAssumption, Core, NEW p \in Players
    PROVE  Moves(p)
<1>0. AllSound /\ OneEach /\ OneVerified /\ LoginToo /\ ConnTyped
  BY DEF Core, ConnTyped, SessionsTypeOK
<1>1. ASSUME NEW w \in Worlds, NEW i, NEW j, IsOpen(w, i, p), IsOpen(Login, j, p),
             conn[w][i].account # NoID, conn[Login][j].account # NoID
      PROVE  j \in DOMAIN conn[Login] /\ \E v \in Worlds :
                LinkAnswer(j, 1) \in Range(toMaster[v]) \union Range(fromMaster[Login])
  <2>1. i \in DOMAIN conn[w] /\ j \in DOMAIN conn[Login] /\ i \in Nat /\ j \in Nat /\ w \in Servers /\ Login \in Servers
    BY <1>0, <1>1, ConnFacts, Constants DEF IsOpen
  <2>2. Sound(w, conn[w][i]) /\ Sound(Login, conn[Login][j])
    BY <1>0, <2>1 DEF AllSound
  <2>3. Has(w, i, "verified") /\ "authenticated" \in conn[Login][j].flags
    BY <1>1, <2>2 DEF Sound, Has, IsOpen
  <2>4. j \in Answered
    BY <1>0, <1>1, <2>1, <2>3 DEF LoginToo
  <2> QED
    BY <1>1, <2>1, <2>4 DEF Answered, Range
<1> SUFFICES ASSUME NEW c \in Held(p), NEW d \in Held(p), c # d,
                    conn[c[1]][c[2]].account # NoID, conn[d[1]][d[2]].account # NoID
             PROVE  \E i \in DOMAIN conn[Login], w \in Worlds :
                       /\ <<Login, i>> \in {c, d}
                       /\ LinkAnswer(i, 1) \in Range(toMaster[w]) \union Range(fromMaster[Login])
  BY Zenon DEF Moves
<1>2. PICK s, i : s = c[1] /\ i = c[2]
  OBVIOUS
<1>3. PICK t, j : t = d[1] /\ j = d[2]
  OBVIOUS
<1>4. s \in Servers /\ t \in Servers /\ c = <<s, i>> /\ d = <<t, j>> /\ IsOpen(s, i, p) /\ IsOpen(t, j, p)
  BY <1>2, <1>3, HeldAre
<1>5. conn[s][i].account # NoID /\ conn[t][j].account # NoID
  BY <1>2, <1>3
<1>6. i \in Nat /\ j \in Nat /\ i \in DOMAIN conn[s] /\ j \in DOMAIN conn[t]
  BY <1>0, <1>4, ConnFacts DEF IsOpen
<1>7. s # t
  BY <1>0, <1>4, <1>6 DEF OneEach
<1>8. ~(s \in Worlds /\ t \in Worlds)
  <2> SUFFICES ASSUME s \in Worlds, t \in Worlds PROVE FALSE
    OBVIOUS
  <2>1. Sound(s, conn[s][i]) /\ Sound(t, conn[t][j])
    BY <1>0, <1>4, <1>6 DEF AllSound
  <2>2. Has(s, i, "verified") /\ Has(t, j, "verified")
    BY <1>5, <2>1 DEF Sound, Has
  <2> QED
    BY <1>0, <1>4, <1>6, <1>7, <2>2 DEF OneVerified
<1>9. CASE s = Login
  <2>1. t \in Worlds
    BY <1>4, <1>7, <1>9, Constants
  <2>2. i \in DOMAIN conn[Login] /\ \E v \in Worlds :
           LinkAnswer(i, 1) \in Range(toMaster[v]) \union Range(fromMaster[Login])
    BY <1>1, <1>4, <1>5, <1>9, <2>1
  <2> QED
    BY <1>4, <1>9, <2>2
<1>10. CASE t = Login
  <2>1. s \in Worlds
    BY <1>4, <1>7, <1>10, Constants
  <2>2. j \in DOMAIN conn[Login] /\ \E v \in Worlds :
           LinkAnswer(j, 1) \in Range(toMaster[v]) \union Range(fromMaster[Login])
    BY <1>1, <1>4, <1>5, <1>10, <2>1
  <2> QED
    BY <1>4, <1>10, <2>2
<1> QED
  BY <1>4, <1>8, <1>9, <1>10, Constants

LEMMA LockedOutFollows ==
    ASSUME SessionsAssumption, Core, Counting, Agreed
    PROVE  NobodyLockedOut
<1> SUFFICES ASSUME Quiet, NEW a \in Accounts, \A k \in Kinds : Counted(a, k) = {}
             PROVE  ~online[a]
  BY DEF NobodyLockedOut
<1>1. /\ conn \in [Servers -> Seq(Connection)] /\ info \in [Accounts -> [Kinds -> Int] \union {NoID}]
      /\ SessionsTypeOK
  BY DEF Core, SessionsTypeOK
<1>2. \A n \in Nodes : toMaster[n] = <<>> /\ fromMaster[n] = <<>>
  BY DEF Quiet
<1>3. ASSUME NEW k \in Kinds PROVE Entry(a)[k] <= 0
  <2>1. \A type : PendingIn(toMaster, a, k, type) = {}
    <3>1. \A s \in Servers : DOMAIN toMaster[s] = {}
      BY <1>2, Constants
    <3> QED
      BY <3>1, PlaceIs DEF PendingIn
  <2>2. CountedIn(conn, a, k) = {}
    <3>1. Counted(a, k) = CountedIn(conn, a, k)
      BY <1>1, CountedOf, Zenon DEF Counted
    <3> QED
      BY <3>1
  <2>3. PICK x : x = Entry(a)[k]
    OBVIOUS
  <2>4. BalancedAt(toMaster, conn, a, k, x, a \notin mistyped)
    BY <2>3 DEF Counting, Balanced
  <2>5. Balance({}, {}, {}, x, a \notin mistyped)
    BY <2>1, <2>2, <2>4, Zenon DEF BalancedAt
  <2>6. x \in Int /\ x + Cardinality({}) - Cardinality({}) <= Cardinality({})
    BY <2>5, Zenon DEF Balance
  <2>7. Cardinality({}) = 0
    BY FS_EmptySet
  <2> QED
    BY <2>3, <2>6, <2>7
<1>4. info[a] = NoID
  <2> SUFFICES ASSUME info[a] # NoID PROVE FALSE
    OBVIOUS
  <2>1. PICK k \in Kinds : info[a][k] > 0
    BY DEF Counting, Positive
  <2>2. Entry(a)[k] = info[a][k] /\ info[a][k] \in Int
    BY <1>1 DEF Entry
  <2> QED
    BY <1>3, <2>1, <2>2
<1>5. PICK u, v : u = online[a] /\ v = (info[a] # NoID)
  OBVIOUS
<1>6. DOMAIN fromMaster[Login] = {}
  BY <1>2, Constants
<1>7. u = v
  BY <1>5, <1>6 DEF Agreed, LastWord
<1> QED
  BY <1>4, <1>5, <1>7

-----------------------------------------------------------------------------
(* The theorems                                                            *)

LEMMA InvStep ==
    ASSUME SessionsAssumption, Inv, [SessionsNext]_sessionVars
    PROVE  Inv'
<1>1. CASE SessionsNext
  BY <1>1, CoreStep, CountingStep, AgreedStep DEF Inv
<1>2. CASE UNCHANGED sessionVars
  <2>1. UNCHANGED <<conn, toMaster, fromMaster, info, online, mistyped>>
    BY <1>2 DEF sessionVars
  <2>2. Core'
    <3>1. /\ SessionsTypeOK /\ ConnTyped /\ QueuesTyped /\ Clashes(Mail) = {} /\ TokensFresh
          /\ AllSound /\ OneEach /\ OneVerified /\ LoginToo
      BY DEF Inv, Core, ConnTyped, SessionsTypeOK
    <3>2. QueuesTyped' /\ Mail' = Mail /\ Answered' = Answered
      BY <2>1, <3>1, MailSame
    <3>3. AllSound' /\ OneEach' /\ OneVerified' /\ LoginToo' /\ \A x : Fresh(x) => Fresh(x)'
      BY <2>1, <3>1, <3>2, Unmoved
    <3>4. TokensFresh'
      <4>1. TokensIn(Mail') \subseteq TokensIn(Mail)
        BY <3>2
      <4> QED
        BY <3>1, <3>3, <4>1, TokensStayFresh
    <3>5. (Clashes(Mail) = {})'
      BY <3>1, <3>2, AfterMail
    <3>6. SessionsTypeOK'
      BY <2>1, <3>1 DEF SessionsTypeOK
    <3> QED
      BY <3>2, <3>3, <3>4, <3>5, <3>6 DEF Core
  <2>3. Counting'
    BY <1>2 DEF sessionVars, Inv, Counting, Balanced, Entry, DatabaseQuiet, Positive
  <2>4. Agreed'
    BY <1>2 DEF sessionVars, Inv, Agreed
  <2> QED
    BY <2>2, <2>3, <2>4 DEF Inv
<1> QED
  BY <1>1, <1>2

\* Sessions, what is counted of them and what is told of them stay in step, whatever
\* players, servers and the master server do in whatever order.
THEOREM SessionsInvariant ==
    ASSUME SessionsAssumption
    PROVE  SessionsSpec => []Inv
<1>1. SessionsInit => Inv
  BY CoreInit, CountingInit, AgreedInit DEF Inv
<1>2. Inv /\ [SessionsNext]_sessionVars => Inv'
  BY InvStep
<1> QED
  BY <1>1, <1>2, PTL DEF SessionsSpec

\* The connections, what the master server counts of them and what the database is told
\* keep their types, however players, servers and packets take their turns.
THEOREM SessionsTyped ==
    ASSUME SessionsAssumption
    PROVE  SessionsSpec => []SessionsTypeOK
<1>1. Inv => SessionsTypeOK
  BY DEF Inv, Core
<1> QED
  BY <1>1, SessionsInvariant, PTL

\* Of every account with which no password was mistyped, the count of the master server
\* and the notices on their way add up to the connections there are, and the last word
\* to the database is the master server's; and no session is on two connections but for
\* the login connection that an answer on its way ends.
THEOREM AccountedAlways ==
    ASSUME SessionsAssumption
    PROVE  SessionsSpec => []SessionsAccounted
<1>1. Inv => SessionsAccounted
  BY CountsFollow, VerdictFollows, MovesFollow, Zenon DEF Inv, SessionsAccounted
<1> QED
  BY <1>1, SessionsInvariant, PTL

\* When every packet is handled, an account without a connection is offline in the
\* database, also after mistyped passwords, refusals and lost connections.
THEOREM NobodyLockedOutEver ==
    ASSUME SessionsAssumption
    PROVE  SessionsSpec => []NobodyLockedOut
<1>1. Inv => NobodyLockedOut
  BY LockedOutFollows DEF Inv
<1> QED
  BY <1>1, SessionsInvariant, PTL
=============================================================================
