--------------------------- MODULE CharacterSync ---------------------------
(***************************************************************************)
(* How the world servers load a character from the database agent, keep it *)
(* in memory while it is played, save it a part at a time and hand its     *)
(* player over to each other.                                              *)
(*                                                                         *)
(* One account plays: its game client has at most one connection to each   *)
(* world server.  The sections of a character's data are version numbers;  *)
(* SyncMask is the set of parts that changed since the last save, a part   *)
(* being a section or the account's own record.  Every packet travels      *)
(* through the master server, which handles the packets of one sender in   *)
(* order; the database agent calls its procedures synchronously, so that   *)
(* handling the head of a world server's queue stands for forwarding the   *)
(* packet and for the agent's handler.                                     *)
(***************************************************************************)
EXTENDS Naturals, Sequences, FiniteSets

CONSTANTS
    Worlds,          \* world servers
    Characters,      \* the account's characters
    Sections,        \* parts of a character's data that are saved apart
    NoCharacter,     \* Client->CharacterIndex = 0
    Orderly,         \* does the game client wait for the answer to INITIALIZE,
                     \* and return to the character list before a hand-over?
    MaxVersion,      \* bound: changes of one section
    MaxGems,         \* bound: changes of the account's record
    MaxConnections,  \* bound: connections opened in a behaviour
    MaxRequests,     \* bound: requests of a client that are under way
    MaxFailures      \* bound: calls of the database that fail

ASSUME SyncAssumption ==
    /\ IsFiniteSet(Worlds) /\ IsFiniteSet(Characters) /\ IsFiniteSet(Sections)
    /\ NoCharacter \notin Characters
    /\ "account" \notin Sections
    /\ Orderly \in BOOLEAN
    /\ {MaxVersion, MaxGems, MaxConnections, MaxRequests, MaxFailures} \subseteq Nat

VARIABLES
    db,          \* the database: data of each character, the account's record
    client,      \* ClientContext of the connection to each world server
    memory,      \* the characters each world server has loaded
    toMaster,    \* packets of each world server, in order
    fromDB,      \* packets of the database agent to each world server
    links,       \* REQUEST_VERIFY_LINKS on their way to each world server
    connections, \* connections opened so far: the last connection ID
    failures,    \* calls of the database that failed
    newest,      \* history: last version of each section of each character
    lost         \* history: characters a save of which failed after unloading

vars == <<db, client, memory, toMaster, fromDB, links, connections, failures,
          newest, lost>>

Parts == Sections \union {"account"}

\* The account's record, of which only the gems change here.
Account == 0 .. MaxGems

Data == [Sections -> 0 .. MaxVersion]

\* No connection: the slot of a connection that was released.
NoClient == [id |-> 0, closing |-> FALSE, verified |-> FALSE, listed |-> FALSE,
             asked |-> FALSE, account |-> 0,
             character |-> NoCharacter]

Unloaded == [loaded |-> FALSE]

Loaded(data, account) ==
    [loaded |-> TRUE, data |-> data, account |-> account, dirty |-> {}]

Character(w) ==
    IF client[w].character = NoCharacter THEN Unloaded
                                         ELSE memory[w][client[w].character]

Send(w, m) == toMaster' = [toMaster EXCEPT ![w] = Append(@, m)]

\* The connection the head of the agent's packets names, if it is still there.
Addressed(w, kind) ==
    /\ fromDB[w] # <<>>
    /\ Head(fromDB[w]).kind = kind
    /\ client[w].id = Head(fromDB[w]).id

Received(w) == fromDB' = [fromDB EXCEPT ![w] = Tail(@)]

-----------------------------------------------------------------------------
(* Login, character list, hand-over                                        *)

Connect(w) ==
    /\ client[w].id = 0
    /\ connections < MaxConnections
    /\ connections' = connections + 1
    /\ client' = [client EXCEPT ![w] = [NoClient EXCEPT !.id = connections + 1]]
    /\ UNCHANGED <<db, memory, toMaster, fromDB, links, failures, newest, lost>>

\* No connection of the account is known to a server or about to be, and
\* nothing of an earlier one is on its way.
Quiet == \A w \in Worlds : /\ ~client[w].verified
                           /\ toMaster[w] = <<>>
                           /\ fromDB[w] = <<>>
                           /\ links[w] = <<>>

\* L2W VERIFY_LINKS.  The player logs in when no earlier session is left.
LogIn(w) ==
    /\ client[w].id # 0 /\ ~client[w].closing /\ ~client[w].verified
    /\ Quiet
    /\ Send(w, [kind |-> "authenticate", id |-> client[w].id])
    /\ UNCHANGED <<db, client, memory, fromDB, links, connections, failures,
                   newest, lost>>

OnAuthenticate(w) ==
    /\ Addressed(w, "authenticate")
    /\ client' = [client EXCEPT ![w].verified = TRUE,
                                ![w].account = Head(fromDB[w]).account]
    /\ Received(w)
    /\ UNCHANGED <<db, memory, toMaster, links, connections, failures, newest,
                   lost>>

\* Bound: the client has few requests under way.
Unhurried(w) == Len(toMaster[w]) + Len(fromDB[w]) < MaxRequests

GetCharacters(w) ==
    /\ client[w].verified /\ ~client[w].closing /\ ~client[w].listed
    /\ Unhurried(w)
    /\ Send(w, [kind |-> "list", id |-> client[w].id])
    /\ UNCHANGED <<db, client, memory, fromDB, links, connections, failures,
                   newest, lost>>

OnGetCharacterList(w) ==
    /\ Addressed(w, "list")
    /\ client' = [client EXCEPT ![w].listed = client[w].verified \/ @]
    /\ Received(w)
    /\ UNCHANGED <<db, memory, toMaster, links, connections, failures, newest,
                   lost>>

\* C2S VERIFY_LINKS: the player's new connection is at the world server "to";
\* the old one is closed before the answer.
VerifyLinks(w, to) ==
    /\ client[w].verified /\ ~client[w].closing
    /\ Orderly => ~Character(w).loaded /\ ~client[w].asked
    /\ to # w /\ client[to].id # 0
    /\ Send(w, [kind |-> "link", to |-> to, id |-> client[to].id,
                account |-> client[w].account])
    /\ client' = [client EXCEPT ![w].closing = TRUE]
    /\ UNCHANGED <<db, memory, fromDB, links, connections, failures, newest,
                   lost>>

\* W2W REQUEST_VERIFY_LINKS; a request for a connection that is gone is refused.
OnVerifyLinks(w) ==
    LET m == Head(links[w]) IN
    /\ links[w] # <<>>
    /\ links' = [links EXCEPT ![w] = Tail(@)]
    /\ client' =
         IF client[w].id = m.id
           THEN [client EXCEPT ![w].verified = TRUE, ![w].listed = TRUE,
                               ![w].account = m.account]
           ELSE client
    /\ UNCHANGED <<db, memory, toMaster, fromDB, connections, failures, newest,
                   lost>>

-----------------------------------------------------------------------------
(* Loading, playing, saving                                                *)

Initialize(w, c) ==
    /\ client[w].id # 0 /\ ~client[w].closing
    /\ client[w].listed /\ client[w].verified
    /\ ~Character(w).loaded
    /\ Orderly => ~client[w].asked
    /\ Unhurried(w)
    /\ client' = [client EXCEPT ![w].asked = TRUE]
    /\ Send(w, [kind |-> "get", id |-> client[w].id, character |-> c])
    /\ UNCHANGED <<db, memory, fromDB, links, connections, failures, newest,
                   lost>>

\* D2W GET_CHARACTER.  The character starts from the account record of the
\* connection, which is brought up to date afterwards (OnInitialize.c:103, 333).
OnGetCharacter(w) ==
    LET m == Head(fromDB[w])
        c == m.character
    IN
    /\ Addressed(w, "get")
    /\ m.success
    /\ ~memory[w][c].loaded         \* asserted by RTWorldManagerCreateCharacter
    /\ memory' = [memory EXCEPT ![w][c] = Loaded(m.data, client[w].account)]
    /\ client' = [client EXCEPT ![w].character = c,
                                ![w].account = m.account,
                                ![w].asked = FALSE]
    /\ Received(w)
    /\ UNCHANGED <<db, toMaster, links, connections, failures, newest, lost>>

OnGetCharacterFailed(w) ==
    /\ Addressed(w, "get")
    /\ ~Head(fromDB[w]).success
    /\ client' = [client EXCEPT ![w].closing = TRUE]
    /\ Received(w)
    /\ UNCHANGED <<db, memory, toMaster, links, connections, failures, newest,
                   lost>>

Playing(w) == Character(w).loaded /\ ~client[w].closing

\* Any handler that changes a section of the character and marks it.
Touch(w, s) ==
    LET c == client[w].character IN
    /\ Playing(w)
    /\ newest[c][s] < MaxVersion
    /\ newest' = [newest EXCEPT ![c][s] = @ + 1]
    /\ memory' = [memory EXCEPT ![w][c].data[s] = newest[c][s] + 1,
                                ![w][c].dirty = @ \union {s}]
    /\ UNCHANGED <<db, client, toMaster, fromDB, links, connections, failures,
                   lost>>

\* RTCharacterAddForceGem
AddForceGem(w) ==
    LET c == client[w].character IN
    /\ Playing(w)
    /\ memory[w][c].account < MaxGems
    /\ memory' = [memory EXCEPT ![w][c].account = @ + 1,
                                ![w][c].dirty = @ \union {"account"}]
    /\ UNCHANGED <<db, client, toMaster, fromDB, links, connections, failures,
                   newest, lost>>

\* What ServerSyncCharacter sends.
SyncMsg(w, c) ==
    [kind |-> "sync", id |-> client[w].id, character |-> c,
     mask |-> memory[w][c].dirty, data |-> memory[w][c].data,
     account |-> memory[w][c].account]

\* ServerSyncDB, when the timer of a changed character is due.
SyncTimer(w) ==
    LET c == client[w].character IN
    /\ Character(w).loaded
    /\ memory[w][c].dirty # {}
    /\ Send(w, SyncMsg(w, c))
    /\ memory' = [memory EXCEPT ![w][c].dirty = {}]
    /\ UNCHANGED <<db, client, fromDB, links, connections, failures, newest,
                   lost>>

\* Fault: what failed is not marked again.
RemarkNever(dirty, failed) == dirty

\* Fault: the bit of no part is marked.
RemarkOther(dirty, failed) ==
    IF failed = {} THEN dirty ELSE dirty \union {"failed"}

\* Fault: the failed parts replace those marked since.
RemarkReplacing(dirty, failed) == IF failed = {} THEN dirty ELSE failed

\* D2W DBSYNC: what could not be saved is marked again, on whichever character
\* the connection has by now.
Remark(dirty, failed) == dirty \union failed

OnSync(w) ==
    LET m == Head(fromDB[w])
        c == client[w].character
    IN
    /\ Addressed(w, "sync")
    /\ Received(w)
    /\ IF Character(w).loaded
         THEN memory' = [memory EXCEPT ![w][c].dirty = Remark(@, m.failed)]
         ELSE UNCHANGED memory
    /\ lost' = IF m.failed # {} /\ ~(Character(w).loaded /\ c = m.character)
                 THEN lost \union {m.character} ELSE lost
    /\ UNCHANGED <<db, client, toMaster, links, connections, failures, newest>>

\* Fault: the character is not saved on its way back to the list.
DeinitializeUnsaved(w) ==
    LET c == client[w].character IN
    /\ Playing(w)
    /\ memory' = [memory EXCEPT ![w][c] = Unloaded]
    /\ UNCHANGED <<db, client, toMaster, fromDB, links, connections, failures,
                   newest, lost>>

\* C2S DEINITIALIZE, back to the character list.  CharacterIndex is kept.
Deinitialize(w) ==
    LET c == client[w].character IN
    /\ Playing(w)
    /\ Send(w, SyncMsg(w, c))
    /\ memory' = [memory EXCEPT ![w][c] = Unloaded]
    /\ UNCHANGED <<db, client, fromDB, links, connections, failures, newest,
                   lost>>

\* The connection is closed: by the client, or after SocketDisconnect.
Disconnect(w) ==
    LET c == client[w].character IN
    /\ client[w].id # 0
    /\ client' = [client EXCEPT ![w] = NoClient]
    /\ IF Character(w).loaded
         THEN /\ Send(w, SyncMsg(w, c))
              /\ memory' = [memory EXCEPT ![w][c] = Unloaded]
         ELSE UNCHANGED <<toMaster, memory>>
    /\ UNCHANGED <<db, fromDB, links, connections, failures, newest, lost>>

\* The answer to a connection that is gone.
DropAnswer(w) ==
    LET m == Head(fromDB[w]) IN
    /\ fromDB[w] # <<>>
    /\ m.id # client[w].id
    /\ Received(w)
    /\ lost' = IF m.kind = "sync" /\ m.failed # {}
                 THEN lost \union {m.character} ELSE lost
    /\ UNCHANGED <<db, client, memory, toMaster, links, connections, failures,
                   newest>>

-----------------------------------------------------------------------------
(* The master server and the database agent                                *)

HeadIs(w, kind) == toMaster[w] # <<>> /\ Head(toMaster[w]).kind = kind

Taken(w) == toMaster' = [toMaster EXCEPT ![w] = Tail(@)]

Answer(w, m) == fromDB' = [fromDB EXCEPT ![w] = Append(@, m)]

\* The master server forwards W2W REQUEST_VERIFY_LINKS.
Forward(w) ==
    LET m == Head(toMaster[w]) IN
    /\ HeadIs(w, "link")
    /\ Taken(w)
    /\ links' = [links EXCEPT ![m.to] =
                   Append(@, [id |-> m.id, account |-> m.account])]
    /\ UNCHANGED <<db, client, memory, fromDB, connections, failures, newest,
                   lost>>

\* W2D AUTHENTICATE
DBAuthenticate(w) ==
    /\ HeadIs(w, "authenticate")
    /\ Taken(w)
    /\ Answer(w, [kind |-> "authenticate", id |-> Head(toMaster[w]).id,
                  account |-> db.account])
    /\ UNCHANGED <<db, client, memory, links, connections, failures, newest,
                   lost>>

\* W2D GET_CHARACTER_LIST
DBGetCharacterList(w) ==
    /\ HeadIs(w, "list")
    /\ Taken(w)
    /\ Answer(w, [kind |-> "list", id |-> Head(toMaster[w]).id])
    /\ UNCHANGED <<db, client, memory, links, connections, failures, newest,
                   lost>>

\* W2D GET_CHARACTER
DBGetCharacter(w) ==
    LET m == Head(toMaster[w]) IN
    /\ HeadIs(w, "get")
    /\ Taken(w)
    /\ \E success \in BOOLEAN :
         /\ ~success => failures < MaxFailures
         /\ failures' = IF success THEN failures ELSE failures + 1
         /\ Answer(w, [kind |-> "get", id |-> m.id, character |-> m.character,
                       success |-> success, data |-> db.data[m.character],
                       account |-> db.account])
    /\ UNCHANGED <<db, client, memory, links, connections, newest, lost>>

\* What the procedures of the parts in "saved" leave in the database.
Saved(m, saved) ==
    [data |-> [db.data EXCEPT ![m.character] =
                 [s \in Sections |-> IF s \in saved THEN m.data[s] ELSE @[s]]],
     account |-> IF "account" \in saved THEN m.account ELSE db.account]

\* W2D DBSYNC: a procedure for each part that is marked; each may fail.
\* IsTransaction is never set by a world server.
DBSync(w) ==
    LET m == Head(toMaster[w]) IN
    /\ HeadIs(w, "sync")
    /\ Taken(w)
    /\ \E failed \in SUBSET m.mask :
         /\ failed # {} => failures < MaxFailures
         /\ failures' = IF failed = {} THEN failures ELSE failures + 1
         /\ db' = Saved(m, m.mask \ failed)
         /\ Answer(w, [kind |-> "sync", id |-> m.id, character |-> m.character,
                       failed |-> failed])
    /\ UNCHANGED <<client, memory, links, connections, newest, lost>>

-----------------------------------------------------------------------------
Init ==
    /\ db = [data    |-> [c \in Characters |-> [s \in Sections |-> 0]],
             account |-> 0]
    /\ client = [w \in Worlds |-> NoClient]
    /\ memory = [w \in Worlds |-> [c \in Characters |-> Unloaded]]
    /\ toMaster = [w \in Worlds |-> <<>>]
    /\ fromDB = [w \in Worlds |-> <<>>]
    /\ links = [w \in Worlds |-> <<>>]
    /\ connections = 0
    /\ failures = 0
    /\ newest = [c \in Characters |-> [s \in Sections |-> 0]]
    /\ lost = {}

\* What the servers do by themselves, and what players do.
Serve(w) ==
    \/ OnAuthenticate(w) \/ OnGetCharacterList(w) \/ OnVerifyLinks(w)
    \/ OnGetCharacter(w) \/ OnGetCharacterFailed(w) \/ OnSync(w) \/ DropAnswer(w)
    \/ Forward(w) \/ DBAuthenticate(w) \/ DBGetCharacterList(w)
    \/ DBGetCharacter(w) \/ DBSync(w)

Play(w) ==
    \/ Connect(w) \/ LogIn(w) \/ GetCharacters(w)
    \/ Deinitialize(w) \/ Disconnect(w) \/ AddForceGem(w)
    \/ \E to \in Worlds : VerifyLinks(w, to)
    \/ \E c \in Characters : Initialize(w, c)
    \/ \E s \in Sections : Touch(w, s)

Next == \E w \in Worlds : Serve(w) \/ SyncTimer(w) \/ Play(w)

Spec == Init /\ [][Next]_vars

\* The loops of the servers handle what has arrived, the timer of a changed
\* character comes due, and a connection being closed is closed.
Fairness ==
    \A w \in Worlds :
        /\ WF_vars(Serve(w))
        /\ WF_vars(SyncTimer(w))
        /\ WF_vars(client[w].closing /\ Disconnect(w))

FairSpec == Spec /\ Fairness

-----------------------------------------------------------------------------
(* Properties                                                              *)

\* Types of the state.
SyncTypeOK ==
    /\ db.account \in Account
    /\ \A c \in Characters : db.data[c] \in Data /\ newest[c] \in Data
    /\ \A w \in Worlds :
         /\ client[w] \in [id : 0 .. MaxConnections, closing : BOOLEAN,
                           verified : BOOLEAN, listed : BOOLEAN,
                           asked : BOOLEAN, account : Account,
                           character : Characters \union {NoCharacter}]
         /\ \A c \in Characters :
              \/ memory[w][c] = Unloaded
              \/ /\ memory[w][c].data \in Data
                 /\ memory[w][c].account \in Account
                 /\ memory[w][c].dirty \subseteq Parts
    /\ lost \subseteq Characters
    /\ connections \in 0 .. MaxConnections /\ failures \in 0 .. MaxFailures

\* What the database will hold when it has handled the queue of a world server
\* and no call fails: the last save that has the section marked.
WillHold(w, c, s) ==
    LET saves == {i \in DOMAIN toMaster[w] :
                    /\ toMaster[w][i].kind = "sync"
                    /\ toMaster[w][i].character = c
                    /\ s \in toMaster[w][i].mask}
    IN IF saves = {} THEN db.data[c][s]
       ELSE toMaster[w][CHOOSE i \in saves : \A j \in saves : j <= i].data[s]

\* Is the notice that a section could not be saved on its way to the character?
NoticeDue(w, c, s) ==
    \E i \in DOMAIN fromDB[w] :
        /\ fromDB[w][i].kind = "sync"
        /\ fromDB[w][i].id = client[w].id
        /\ fromDB[w][i].character = c
        /\ s \in fromDB[w][i].failed

\* A change of a loaded character is never forgotten: each section of it is
\* what the database will hold, is marked, or will be marked by the notice of
\* its failure.  SyncMask is cleared before the answer (OnWorldDBSync.c:291)
\* and more changes, saves and failures come in between.
NoChangeForgotten ==
    \A w \in Worlds, s \in Sections :
            LET c == client[w].character IN
            Character(w).loaded =>
                \/ s \in memory[w][c].dirty
                \/ memory[w][c].data[s] = WillHold(w, c, s)
                \/ NoticeDue(w, c, s)

FailureKnown(c) ==
    \/ c \in lost
    \/ \E w \in Worlds : \E i \in DOMAIN fromDB[w] :
         /\ fromDB[w][i].kind = "sync"
         /\ fromDB[w][i].character = c
         /\ fromDB[w][i].failed # {}

\* A character that is loaded again, by the same world server or by the one
\* its player was handed to from the character list, is as it was left, if
\* its last saves succeeded: the request must not overtake the save, which is
\* sent without waiting for an answer (OnDeinitialize.c:19, ClientSocket.c:36).
LoadsNewest ==
    [][\A w \in Worlds, c \in Characters :
          (/\ ~memory[w][c].loaded /\ memory[w][c]'.loaded
           /\ ~FailureKnown(c))
             => memory'[w][c].data = newest[c]]_vars

\* Every change reaches the database in the end, although calls fail now and
\* then, unless the character was gone when a save failed.
ChangesSaved ==
    \A c \in Characters, s \in Sections, v \in 1 .. MaxVersion :
        newest[c][s] = v ~> (db.data[c][s] >= v \/ c \in lost)

\* assert(!DictionaryLookup(...)) of RTWorldManagerCreateCharacter: the
\* character whose data arrive is not loaded yet.
CreatedOnce ==
    \A w \in Worlds :
        Addressed(w, "get") /\ Head(fromDB[w]).success =>
            ~memory[w][Head(fromDB[w]).character].loaded
=============================================================================
