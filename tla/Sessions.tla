------------------------------ MODULE Sessions ------------------------------
(***************************************************************************)
(* The session of an account: its way from the login server to a world     *)
(* server, between world servers and back, the connections the master      *)
(* server counts for it, and the flag Online of the database, which makes  *)
(* the login server refuse a second login.                                 *)
(*                                                                         *)
(* Every server is a node of the master server, which forwards the packets *)
(* of one sender in order.  A game client opens the connection its session *)
(* moves to and then sends VERIFY_LINKS on the one it leaves, with the     *)
(* number and the key it was told; keys are those of a connection, so that *)
(* a number stands for both.  Numbers are given once by each server.       *)
(***************************************************************************)
EXTENDS Integers, Sequences, FiniteSets, SequencesExt

CONSTANTS
    Players,        \* persons, each with a game client
    Accounts,
    AccountOf,      \* [Players -> Accounts]: the account a person logs in with
    Login,          \* the login server
    Worlds,         \* world servers
    Database,       \* the database agent
    Master,         \* the master server
    NoID,           \* Client->AccountID = -1; no entry of ClientInfoTable
    Mistypes,       \* do persons mistype their passwords?
    MaxConnections  \* bound: [server -> connections it accepts in a behaviour]

Servers == Worlds \union {Login}
Nodes   == Servers \union {Database}

\* What the constants are (assumed where they are given values, and by the theorems).
SessionsAssumption ==
    /\ IsFiniteSet(Players) /\ IsFiniteSet(Accounts) /\ IsFiniteSet(Worlds)
    /\ \A p \in Players : AccountOf[p] \in Accounts
    /\ NoID \notin Accounts \union [{"login", "world"} -> Int]
    /\ Login # Database /\ {Login, Database} \cap Worlds = {}
    /\ Master \notin Nodes
    /\ Mistypes \in BOOLEAN
    /\ MaxConnections \in [Servers -> Nat]

VARIABLES
    conn,        \* connections of each server, by number
    toMaster,    \* packets of each node to the master server, in order
    fromMaster,  \* packets of the master server to each node, in order
    info,        \* ClientInfoTable: connections counted, by kind of node
    online,      \* Sessions.Online of the authentication database
    mistyped     \* history: accounts with which a password was mistyped

sessionVars == <<conn, toMaster, fromMaster, info, online, mistyped>>

\* "left": the game client is gone and the server has not noticed.
\* "closing": SocketDisconnect was called and _OnClose was not.
States == {"open", "left", "closing", "gone"}

\* "normal" is AccountStatus; "handed" is known to the game client alone: it
\* opened the connection for a session that it has.
Flags == {"authenticated", "normal", "verified", "handed"}

Connection == [player : Players, state : States, flags : SUBSET Flags,
               account : Accounts \union {NoID}]

Kind(n) == IF n \in Worlds THEN "world" ELSE "login"
Kinds   == {"login", "world"}

Has(s, i, f) == f \in conn[s][i].flags

\* SocketGetConnection, ServerGetClientByAuthKey: a connection that is closing
\* is still found.
Found(s, i) == i \in DOMAIN conn[s] /\ conn[s][i].state # "gone"

\* The connections a person's game client holds.
Held(p) == {c \in UNION {{s} \X DOMAIN conn[s] : s \in Servers} :
               /\ conn[c[1]][c[2]].player = p
               /\ conn[c[1]][c[2]].state = "open"}

\* SocketDisconnect
Disconnected(c) ==
    [c EXCEPT !.state = IF @ \in {"open", "left"} THEN "closing" ELSE @]

\* Flags of a connection are set.
Raised(c, flags) == [c EXCEPT !.flags = @ \union flags]

ConnectNotice(a)    == [to |-> Master, type |-> "CLIENT_CONNECT", account |-> a]
DisconnectNotice(a) == [to |-> Master, type |-> "CLIENT_DISCONNECT", account |-> a]

\* What a handler sends when the connection has an account.
IfCounted(a, m) == IF a = NoID THEN <<>> ELSE <<m>>

Post(n, ms) == toMaster' = [toMaster EXCEPT ![n] = @ \o ms]

-----------------------------------------------------------------------------
(* What game clients do                                                    *)

\* A person logs in, goes on to a world server after a login that was not
\* refused, to another world server, or back to the login server.
MayConnect(p, s) ==
    \/ Held(p) = {} /\ s = Login
    \/ \E c \in Held(p) :
          /\ Held(p) = {c} /\ c[1] # s
          /\ IF c[1] = Login
             THEN {"authenticated", "normal"} \subseteq conn[c[1]][c[2]].flags
             ELSE Has(c[1], c[2], "verified")

Connect(p, s) ==
    /\ Len(conn[s]) < MaxConnections[s]
    /\ MayConnect(p, s)
    /\ conn' = [conn EXCEPT ![s] = Append(@,
                   [player |-> p, state |-> "open", account |-> NoID,
                    flags |-> IF Held(p) = {} THEN {} ELSE {"handed"}])]
    /\ UNCHANGED <<toMaster, fromMaster, info, online, mistyped>>

MayAuthenticate(p, i) ==
    /\ Held(p) = {<<Login, i>>}
    /\ conn[Login][i].flags = {}

\* AUTHENTICATE with the right password: an account that is online is refused by
\* its status alone, which the game client obeys.
Authenticate(p, i) ==
    LET a == AccountOf[p]
    IN  /\ MayAuthenticate(p, i)
        /\ conn' = [conn EXCEPT ![Login][i] =
                       [@ EXCEPT !.account = a,
                                 !.flags = {"authenticated"} \union
                                           (IF online[a] THEN {} ELSE {"normal"})]]
        /\ Post(Login, <<ConnectNotice(a)>>)
        /\ UNCHANGED <<fromMaster, info, online, mistyped>>

\* AUTHENTICATE with a wrong password: the procedure has found the account.
MistypedPassword(p, i) ==
    LET a == AccountOf[p]
    IN  /\ Mistypes
        /\ MayAuthenticate(p, i)
        /\ conn' = [conn EXCEPT ![Login][i] = Disconnected([@ EXCEPT !.account = a])]
        /\ mistyped' = mistyped \union {a}
        /\ UNCHANGED <<toMaster, fromMaster, info, online>>

\* C2S VERIFY_LINKS on a login connection: it stays until the world server answers.
LoginVerifyLinks(p, i, w, j) ==
    /\ Held(p) = {<<Login, i>>, <<w, j>>}
    /\ Has(Login, i, "authenticated") /\ ~Has(Login, i, "verified")
    /\ ~Has(w, j, "verified")
    /\ conn' = [conn EXCEPT ![Login][i] = Raised(@, {"verified"})]
    /\ Post(Login, <<[to |-> w, type |-> "L2W_VERIFY_LINKS", from |-> i, entity |-> j,
                      account |-> conn[Login][i].account]>>)
    /\ UNCHANGED <<fromMaster, info, online, mistyped>>

\* C2S VERIFY_LINKS on a connection to a world server: it is closed at once.
WorldVerifyLinks(p, w, i, s, j) ==
    /\ w # s /\ Held(p) = {<<w, i>>, <<s, j>>}
    /\ Has(w, i, "verified") /\ ~Has(s, j, "verified")
    /\ Post(w, <<[to |-> s,
                  type |-> IF s = Login THEN "WORLD_VERIFY_LINKS" ELSE "REQUEST_VERIFY_LINKS",
                  node |-> w, from |-> i, entity |-> j,
                  account |-> conn[w][i].account]>>)
    /\ conn' = [conn EXCEPT ![w][i] = Disconnected(@)]
    /\ UNCHANGED <<fromMaster, info, online, mistyped>>

\* The game client ends a connection, or ends.
HangUp(s, i) ==
    /\ conn[s][i].state = "open"
    /\ conn' = [conn EXCEPT ![s][i] = [@ EXCEPT !.state = "left"]]
    /\ UNCHANGED <<toMaster, fromMaster, info, online, mistyped>>

-----------------------------------------------------------------------------
(* Connections                                                             *)

\* _OnRead: the end of the stream.
NoticeEnd(s, i) ==
    /\ conn[s][i].state = "left"
    /\ conn' = [conn EXCEPT ![s][i] = Disconnected(@)]
    /\ UNCHANGED <<toMaster, fromMaster, info, online, mistyped>>

\* The disconnect timer of the login server, which AUTH_ACCOUNT has started.
Timeout(i) ==
    /\ conn[Login][i].state \in {"open", "left"}
    /\ conn' = [conn EXCEPT ![Login][i] = Disconnected(@)]
    /\ UNCHANGED <<toMaster, fromMaster, info, online, mistyped>>

\* _OnClose and ClientSocketOnDisconnect.
Close(s, i) ==
    LET a == conn[s][i].account
    IN  /\ conn[s][i].state = "closing"
        /\ Post(s, IfCounted(a, DisconnectNotice(a)))
        /\ conn' = [conn EXCEPT ![s][i] = [@ EXCEPT !.state = "gone", !.flags = {},
                                                    !.account = NoID]]
        /\ UNCHANGED <<fromMaster, info, online, mistyped>>

-----------------------------------------------------------------------------
(* The master server                                                       *)

NoConnections == [k \in Kinds |-> 0]

Entry(a) == IF info[a] = NoID THEN NoConnections ELSE info[a]

\* M2N CLIENT_CONNECT and CLIENT_DISCONNECT; the handlers of the other nodes are
\* empty.
Announce(a, isOnline) ==
    fromMaster' = [fromMaster EXCEPT ![Login] =
                      Append(@, [type |-> "SET_ONLINE", account |-> a, online |-> isOnline])]

OnClientConnect(n, a) ==
    /\ info' = [info EXCEPT ![a] = [Entry(a) EXCEPT ![Kind(n)] = @ + 1]]
    /\ Announce(a, TRUE)

\* Fault: the entry is looked at before the connection is uncounted.
OnClientDisconnectStale(n, a) ==
    LET left     == [Entry(a) EXCEPT ![Kind(n)] = @ - 1]
        isOnline == info[a] # NoID /\ \E k \in Kinds : Entry(a)[k] > 0
    IN  /\ info' = [info EXCEPT ![a] = IF isOnline THEN left ELSE NoID]
        /\ Announce(a, isOnline)

OnClientDisconnect(n, a) ==
    LET left     == [Entry(a) EXCEPT ![Kind(n)] = @ - 1]
        isOnline == info[a] # NoID /\ \E k \in Kinds : left[k] > 0
    IN  /\ info' = [info EXCEPT ![a] = IF isOnline THEN left ELSE NoID]
        /\ Announce(a, isOnline)

\* The master server takes the next packet of a node: one of its own, or one to
\* be forwarded.
MasterStep(n) ==
    /\ toMaster[n] # <<>>
    /\ LET m == Head(toMaster[n])
       IN  \/ m.type = "CLIENT_CONNECT" /\ OnClientConnect(n, m.account)
           \/ m.type = "CLIENT_DISCONNECT" /\ OnClientDisconnect(n, m.account)
           \/ /\ m.to # Master
              /\ fromMaster' = [fromMaster EXCEPT ![m.to] = Append(@, m)]
              /\ UNCHANGED info
    /\ toMaster' = [toMaster EXCEPT ![n] = Tail(@)]
    /\ UNCHANGED <<conn, online, mistyped>>

-----------------------------------------------------------------------------
(* What the other nodes do with a packet                                   *)

Received(n, type) ==
    /\ fromMaster[n] # <<>>
    /\ Head(fromMaster[n]).type = type
    /\ fromMaster' = [fromMaster EXCEPT ![n] = Tail(@)]

\* The answer W2L VERIFY_LINKS to the login connection i.
LinkAnswer(i, status) ==
    [to |-> Login, type |-> "W2L_VERIFY_LINKS", target |-> i, status |-> status]

\* SetSessionOnline
OnSetOnline ==
    LET m == Head(fromMaster[Login])
    IN  /\ Received(Login, "SET_ONLINE")
        /\ online' = [online EXCEPT ![m.account] = m.online]
        /\ UNCHANGED <<conn, toMaster, info, mistyped>>

\* L2W VERIFY_LINKS: the database agent is asked for the account.
OnLoginLink(w) ==
    LET m == Head(fromMaster[w])
    IN  /\ Received(w, "L2W_VERIFY_LINKS")
        /\ Post(w, IF Found(w, m.entity) /\ ~Has(w, m.entity, "verified")
                   THEN <<[to |-> Database, type |-> "W2D_AUTHENTICATE", node |-> w,
                           target |-> m.entity, account |-> m.account, link |-> m.from]>>
                   ELSE <<LinkAnswer(m.from, 0)>>)
        /\ UNCHANGED <<conn, info, online, mistyped>>

\* W2D AUTHENTICATE: the procedure succeeds or the call fails.
OnDatabaseAuthenticate(success) ==
    LET m == Head(fromMaster[Database])
    IN  /\ Received(Database, "W2D_AUTHENTICATE")
        /\ Post(Database, <<[to |-> m.node, type |-> "D2W_AUTHENTICATE", target |-> m.target,
                             account |-> m.account, link |-> m.link, success |-> success]>>)
        /\ UNCHANGED <<conn, info, online, mistyped>>

\* Fault: a connection that is closing gets the account and is not counted.
OnAuthenticateUncounted(w) ==
    LET m == Head(fromMaster[w])
        c == conn[w][m.target]
        a == IF m.success THEN m.account ELSE c.account
    IN  /\ Received(w, "D2W_AUTHENTICATE")
        /\ IF Found(w, m.target)
           THEN /\ conn' = [conn EXCEPT ![w][m.target].account = a]
                /\ Post(w, <<LinkAnswer(m.link, IF m.success THEN 1 ELSE 0)>>
                              \o IfCounted(IF c.state = "closing" THEN NoID ELSE a, ConnectNotice(a)))
           ELSE UNCHANGED <<conn, toMaster>>
        /\ UNCHANGED <<info, online, mistyped>>

\* D2W AUTHENTICATE: dropped without an answer when the connection is gone.
OnAuthenticate(w) ==
    LET m == Head(fromMaster[w])
        c == conn[w][m.target]
        a == IF m.success THEN m.account ELSE c.account
    IN  /\ Received(w, "D2W_AUTHENTICATE")
        /\ IF Found(w, m.target)
           THEN /\ conn' = [conn EXCEPT ![w][m.target] =
                               IF m.success THEN Raised([@ EXCEPT !.account = a], {"verified"})
                                            ELSE @]
                /\ Post(w, <<LinkAnswer(m.link, IF m.success THEN 1 ELSE 0)>>
                              \o IfCounted(a, ConnectNotice(a)))
           ELSE UNCHANGED <<conn, toMaster>>
        /\ UNCHANGED <<info, online, mistyped>>

\* W2L VERIFY_LINKS: the login connection ends, whatever the answer.
OnLinkAnswer ==
    LET m == Head(fromMaster[Login])
    IN  /\ Received(Login, "W2L_VERIFY_LINKS")
        /\ conn' = IF Found(Login, m.target)
                   THEN [conn EXCEPT ![Login][m.target] = Disconnected(@)]
                   ELSE conn
        /\ UNCHANGED <<toMaster, info, online, mistyped>>

\* W2W REQUEST_VERIFY_LINKS and W2L WORLD_VERIFY_LINKS: the session is taken over by
\* the connection named; an answer is sent, but for the session a login server takes.
OnTakeOver(s, type, flags, answers) ==
    LET m  == Head(fromMaster[s])
        ok == Found(s, m.entity)
    IN  /\ Received(s, type)
        /\ conn' = IF ok
                   THEN [conn EXCEPT ![s][m.entity] =
                            Raised([@ EXCEPT !.account = m.account], flags)]
                   ELSE conn
        /\ Post(s, (IF ok \in answers
                    THEN <<[to |-> m.node, type |-> "RESPONSE_VERIFY_LINKS", target |-> m.from]>>
                    ELSE <<>>)
                   \o (IF ok THEN IfCounted(m.account, ConnectNotice(m.account)) ELSE <<>>))
        /\ UNCHANGED <<info, online, mistyped>>

OnWorldRequest(w) == OnTakeOver(w, "REQUEST_VERIFY_LINKS", {"verified"}, BOOLEAN)

OnWorldReturn ==
    OnTakeOver(Login, "WORLD_VERIFY_LINKS", {"authenticated", "normal"}, {FALSE})

\* W2W RESPONSE_VERIFY_LINKS and L2W WORLD_VERIFY_LINKS
OnWorldResponse(w) ==
    LET m == Head(fromMaster[w])
    IN  /\ Received(w, "RESPONSE_VERIFY_LINKS")
        /\ conn' = IF Found(w, m.target)
                   THEN [conn EXCEPT ![w][m.target] = Disconnected(@)]
                   ELSE conn
        /\ UNCHANGED <<toMaster, info, online, mistyped>>

HandlePacket(n) ==
    \/ n = Login /\ (OnSetOnline \/ OnLinkAnswer \/ OnWorldReturn)
    \/ n \in Worlds /\ (OnLoginLink(n) \/ OnAuthenticate(n) \/ OnWorldRequest(n)
                        \/ OnWorldResponse(n))
    \/ n = Database /\ \E success \in BOOLEAN : OnDatabaseAuthenticate(success)

-----------------------------------------------------------------------------
SessionsInit ==
    /\ conn = [s \in Servers |-> <<>>]
    /\ toMaster = [n \in Nodes |-> <<>>]
    /\ fromMaster = [n \in Nodes |-> <<>>]
    /\ info = [a \in Accounts |-> NoID]
    /\ online = [a \in Accounts |-> FALSE]
    /\ mistyped = {}

PlayerStep(p) ==
    \/ \E s \in Servers : Connect(p, s)
    \/ \E i \in DOMAIN conn[Login] : Authenticate(p, i) \/ MistypedPassword(p, i)
    \/ \E i \in DOMAIN conn[Login], w \in Worlds :
          \E j \in DOMAIN conn[w] : LoginVerifyLinks(p, i, w, j)
    \/ \E w \in Worlds, s \in Servers :
          \E i \in DOMAIN conn[w], j \in DOMAIN conn[s] : WorldVerifyLinks(p, w, i, s, j)

CloseStep(s) == \E i \in DOMAIN conn[s] : NoticeEnd(s, i) \/ Close(s, i)

ServerStep ==
    \/ \E n \in Nodes : MasterStep(n) \/ HandlePacket(n)
    \/ \E s \in Servers : CloseStep(s)

SessionsNext ==
    \/ \E p \in Players : PlayerStep(p)
    \/ \E s \in Servers : \E i \in DOMAIN conn[s] : HangUp(s, i)
    \/ \E i \in DOMAIN conn[Login] : Timeout(i)
    \/ ServerStep

SessionsSpec == SessionsInit /\ [][SessionsNext]_sessionVars

-----------------------------------------------------------------------------
(* Properties                                                              *)

\* The types of the connections and of what is counted of them.
SessionsTypeOK ==
    /\ conn \in [Servers -> Seq(Connection)]
    /\ info \in [Accounts -> [Kinds -> Int] \union {NoID}]
    /\ online \in [Accounts -> BOOLEAN]
    /\ mistyped \subseteq Accounts

\* The connections of servers of kind k that have account a.
Counted(a, k) ==
    {c \in UNION {{s} \X DOMAIN conn[s] : s \in {s \in Servers : Kind(s) = k}} :
        conn[c[1]][c[2]].account = a}

\* Notices about account a on their way from servers of kind k.
Pending(a, k, type) ==
    {x \in UNION {{s} \X DOMAIN toMaster[s] : s \in {s \in Servers : Kind(s) = k}} :
        LET m == toMaster[x[1]][x[2]] IN m.type = type /\ m.account = a}

\* What the master server has counted and is about to count is what there is.
CountsAgree(a) ==
    \A k \in Kinds :
        Entry(a)[k] + Cardinality(Pending(a, k, "CLIENT_CONNECT"))
                   - Cardinality(Pending(a, k, "CLIENT_DISCONNECT"))
          = Cardinality(Counted(a, k))

\* The last word the login server has or will have is the master server's.
Verdicts(a) ==
    {i \in DOMAIN fromMaster[Login] :
        fromMaster[Login][i].type = "SET_ONLINE" /\ fromMaster[Login][i].account = a}

VerdictAgrees(a) ==
    IF Verdicts(a) = {} THEN online[a] = (info[a] # NoID)
    ELSE \E i \in Verdicts(a) : /\ \A j \in Verdicts(a) : j <= i
                                /\ fromMaster[Login][i].online = (info[a] # NoID)

\* Of two connections a game client holds with the account, one is a login
\* connection that an answer on its way will end.
Moves(p) ==
    \A c, d \in Held(p) :
        c # d /\ conn[c[1]][c[2]].account # NoID /\ conn[d[1]][d[2]].account # NoID
        => \E i \in DOMAIN conn[Login], w \in Worlds :
              /\ <<Login, i>> \in {c, d}
              /\ LinkAnswer(i, 1) \in Range(toMaster[w]) \union Range(fromMaster[Login])

\* However connections are opened, handed over, refused, dropped and closed, the
\* master server counts what is there and the database is told of it, and a session
\* is moved, not copied.  So an account is refused or admitted wrongly only while a
\* notice is on its way.  A mistyped password breaks the count: its connection is
\* uncounted without having been counted.
SessionsAccounted ==
    /\ \A a \in Accounts \ mistyped : CountsAgree(a) /\ VerdictAgrees(a)
    /\ \A p \in Players : Moves(p)

\* Nobody is locked out: when all packets are handled, an account no connection of
\* which is left is offline, whatever was mistyped, refused or lost on the way.
Quiet == \A n \in Nodes : toMaster[n] = <<>> /\ fromMaster[n] = <<>>

NobodyLockedOut ==
    Quiet => \A a \in Accounts :
                (\A k \in Kinds : Counted(a, k) = {}) => ~online[a]
=============================================================================
