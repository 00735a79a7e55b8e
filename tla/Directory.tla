----------------------------- MODULE Directory ------------------------------
(***************************************************************************)
(* Games, players and access: the administration the manager performs on   *)
(* the database (usecase.GameManagement, PlayerManagement and              *)
(* AccessManagement) while the server handles commands, which check access *)
(* first and insert an interaction later.                                  *)
(*                                                                         *)
(* Ids are rowids without AUTOINCREMENT: a new row gets the largest id in  *)
(* the table plus one, so the id of a deleted row can come back.  Foreign  *)
(* keys are declared but off, since SQLite enforces them only on           *)
(* connections that ask for it and neither main function does: nothing     *)
(* cascades and nothing is required to exist.                              *)
(*                                                                         *)
(* Abstractions: names and passwords, hence the operations that only       *)
(* change them; an interaction's action and time, hence whether the        *)
(* trigger lets it through (GameLog), which is left open here.             *)
(***************************************************************************)
EXTENDS Integers, Sequences, FiniteSets

CONSTANTS
    Nil,
    Usernames,
    Requests,   \* requests the server handles at a time
    MaxGame,    \* bound: the largest game id
    MaxPlayer,  \* bound: the largest player id
    MaxRows     \* bound: interactions stored

ASSUME DirectoryAssumption ==
    /\ Nil \notin Usernames \cup Int
    /\ MaxGame \in Nat
    /\ MaxPlayer \in Nat
    /\ MaxRows \in Nat

GameIds == 1..MaxGame
PlayerIds == 1..MaxPlayer

VARIABLES
    games,          \* the ids in table games
    players,        \* table players: the username of each id, or Nil
    access,         \* table access
    interactions,   \* table interactions
    sessions,       \* the player ids unexpired session tokens carry
    request         \* per request: the handler's place in the code

vars == <<games, players, access, interactions, sessions, request>>

(***************************************************************************)
(* Rows.  via tells the server's rows from the manager's.  Two fields are  *)
(* history: the player had access at some moment of the request; the game  *)
(* existed when the row was stored.                                        *)
(***************************************************************************)
Row == [game : GameIds, player : PlayerIds, via : {"http", "manager"},
        entitled : BOOLEAN, gameExisted : BOOLEAN]

Idle == [pc |-> "idle", game |-> 0, player |-> 0, entitled |-> FALSE]

Registered == {p \in PlayerIds : players[p] # Nil}

\* SQLite's choice of the rowid for a new row: the largest plus one.
IsNextId(id, ids) ==
    /\ \A other \in ids : other < id
    /\ id = 1 \/ id - 1 \in ids

(***************************************************************************)
(* usecase.GameManagement.                                                 *)
(***************************************************************************)
AddGame ==
    /\ \E g \in GameIds :
        /\ IsNextId(g, games)
        /\ games' = games \cup {g}
    /\ UNCHANGED <<players, access, interactions, sessions, request>>

\* DELETE of an id that is not there is no error.
DeleteGame(g) ==
    /\ games' = games \ {g}
    /\ UNCHANGED <<players, access, interactions, sessions, request>>

(***************************************************************************)
(* usecase.PlayerManagement.                                               *)
(***************************************************************************)

\* The INSERT fails on the UNIQUE username otherwise.
AddPlayer(u) ==
    /\ \A p \in PlayerIds : players[p] # u
    /\ \E p \in PlayerIds :
        /\ IsNextId(p, Registered)
        /\ players' = [players EXCEPT ![p] = u]
    /\ UNCHANGED <<games, access, interactions, sessions, request>>

DeletePlayer(p) ==
    /\ players' = [players EXCEPT ![p] = Nil]
    /\ UNCHANGED <<games, access, interactions, sessions, request>>

(***************************************************************************)
(* usecase.AccessManagement.                                               *)
(***************************************************************************)

\* Mutant: the two columns are swapped.
MutGrantPlayerAccess(g, p) ==
    /\ <<p, g>> \notin access
    /\ access' = access \cup {<<p, g>>}
    /\ UNCHANGED <<games, players, interactions, sessions, request>>

\* The INSERT fails on the primary key otherwise.  Neither the game nor the
\* player needs to exist.
GrantPlayerAccess(g, p) ==
    /\ <<g, p>> \notin access
    /\ access' = access \cup {<<g, p>>}
    /\ request' = [r \in Requests |->
                    IF request[r].game = g /\ request[r].player = p
                    THEN [request[r] EXCEPT !.entitled = TRUE] ELSE request[r]]
    /\ UNCHANGED <<games, players, interactions, sessions>>

RevokePlayerAccess(g, p) ==
    /\ access' = access \ {<<g, p>>}
    /\ UNCHANGED <<games, players, interactions, sessions, request>>

(***************************************************************************)
(* Sessions.  A token carries the player's id and is not looked up again.  *)
(***************************************************************************)

\* The password is checked in Accounts; by the time the token of the player
\* found is out, that player may have been deleted.
LoginPlayer(p) ==
    /\ sessions' = sessions \cup {p}
    /\ UNCHANGED <<games, players, access, interactions, request>>

TokenExpires(p) ==
    /\ sessions' = sessions \ {p}
    /\ UNCHANGED <<games, players, access, interactions, request>>

(***************************************************************************)
(* A command over HTTP: accessChecked reads the access table, then the use *)
(* case inserts the row; nothing holds the two together.                   *)
(***************************************************************************)
Receive(r, g, p) ==
    /\ request[r].pc = "idle"
    /\ p \in sessions
    /\ request' = [request EXCEPT ![r] = [pc |-> "check", game |-> g, player |-> p,
                                          entitled |-> <<g, p>> \in access]]
    /\ UNCHANGED <<games, players, access, interactions, sessions>>

\* Mutant: access of any player to the game will do.
MutCheckPlayerAccess(g, p) == \E q \in PlayerIds : <<g, q>> \in access

\* The SELECT EXISTS on table access alone: neither game nor player is joined.
CheckPlayerAccess(g, p) == <<g, p>> \in access

AccessChecked(r) ==
    /\ request[r].pc = "check"
    /\ request' = [request EXCEPT ![r] =
                    IF CheckPlayerAccess(@.game, @.player)
                    THEN [@ EXCEPT !.pc = "insert"] ELSE Idle]
    /\ UNCHANGED <<games, players, access, interactions, sessions>>

Store(g, p, via, entitled) ==
    /\ Len(interactions) < MaxRows
    /\ interactions' = Append(interactions, [game |-> g, player |-> p, via |-> via,
                    entitled |-> entitled, gameExisted |-> g \in games])

CommandStored(r) ==
    /\ request[r].pc = "insert"
    /\ Store(request[r].game, request[r].player, "http", request[r].entitled)
    /\ request' = [request EXCEPT ![r] = Idle]
    /\ UNCHANGED <<games, players, access, sessions>>

\* The request ends without a row: an error of the query or the insert, a
\* command the trigger refuses, a crash.
RequestFails(r) ==
    /\ request[r].pc # "idle"
    /\ request' = [request EXCEPT ![r] = Idle]
    /\ UNCHANGED <<games, players, access, interactions, sessions>>

\* "manager command save ...": no access check.
RunCommand(g, p) ==
    /\ Store(g, p, "manager", <<g, p>> \in access)
    /\ UNCHANGED <<games, players, access, sessions, request>>

Init ==
    /\ games = {}
    /\ players = [p \in PlayerIds |-> Nil]
    /\ access = {}
    /\ interactions = << >>
    /\ sessions = {}
    /\ request = [r \in Requests |-> Idle]

Administration ==
    \/ AddGame
    \/ \E g \in GameIds : DeleteGame(g)
    \/ \E u \in Usernames : AddPlayer(u)
    \/ \E p \in PlayerIds : DeletePlayer(p)
    \/ \E g \in GameIds, p \in PlayerIds :
        \/ GrantPlayerAccess(g, p)
        \/ RevokePlayerAccess(g, p)
        \/ RunCommand(g, p)

Service ==
    \/ \E p \in PlayerIds : LoginPlayer(p) \/ TokenExpires(p)
    \/ \E r \in Requests :
        \/ \E g \in GameIds, p \in PlayerIds : Receive(r, g, p)
        \/ AccessChecked(r)
        \/ CommandStored(r)
        \/ RequestFails(r)

Next == Administration \/ Service

Spec == Init /\ [][Next]_vars

(***************************************************************************)
(* Properties.                                                             *)
(***************************************************************************)

\* Type correctness of the tables, the sessions and the requests.
TypeOK ==
    /\ games \subseteq GameIds
    /\ players \in [PlayerIds -> Usernames \cup {Nil}]
    /\ access \subseteq GameIds \X PlayerIds
    /\ interactions \in Seq(Row)
    /\ sessions \subseteq PlayerIds
    /\ request \in [Requests ->
                        [pc : {"idle", "check", "insert"}, game : 0..MaxGame,
                         player : 0..MaxPlayer, entitled : BOOLEAN]]

\* Access can be revoked between a request's check and its insert, and ids
\* come back, yet no row is stored over HTTP unless its player had access to
\* its game at some moment of the request: a revocation stops every request
\* that arrives after it.
StoredOnlyIfEntitled ==
    \A i \in 1..Len(interactions) :
        interactions[i].via = "http" => interactions[i].entitled

\* A game that was just added is "not_started": no interaction that another
\* game, deleted by now, received in its time is counted as its own.
NewGameStartsEmpty ==
    [][\A g \in games' \ games :
        \A i \in 1..Len(interactions) :
            interactions[i].gameExisted => interactions[i].game # g]_vars
=============================================================================
