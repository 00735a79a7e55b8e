--------------------------- MODULE DirectoryProofs --------------------------
(***************************************************************************)
(* Proofs about Directory and, on top of it, Accounts: the types; that     *)
(* access is never bypassed; that passwords guard accounts; for any number *)
(* of players, games, requests and callers.                                *)
(***************************************************************************)
EXTENDS Accounts, TLAPS

(***************************************************************************)
(* The strengthening: what is known of a request between its steps.        *)
(***************************************************************************)

\* A request under way names a game and a player.
Addressed ==
    \A r \in Requests : request[r].pc # "idle" =>
        request[r].game \in GameIds /\ request[r].player \in PlayerIds

\* A request that has access now, or has passed its check, is entitled.
CheckedIsEntitled ==
    \A r \in Requests :
        /\ request[r].pc = "insert" => request[r].entitled
        /\ request[r].pc = "check"
                /\ <<request[r].game, request[r].player>> \in access
            => request[r].entitled

\* The parts of a request's history that rows inherit are safe.
IInv == TypeOK /\ Addressed /\ CheckedIsEntitled /\ StoredOnlyIfEntitled

(***************************************************************************)
(* Types.                                                                  *)
(***************************************************************************)

\* Every step keeps the types; the ids of a new row are in range because the
\* request it comes from is addressed.
LEMMA TypeStep == TypeOK /\ Addressed /\ [Next]_vars => TypeOK'
<1> SUFFICES ASSUME TypeOK, Addressed, [Next]_vars PROVE TypeOK'
  OBVIOUS
<1> USE DirectoryAssumption DEF DirectoryAssumption, TypeOK, GameIds, PlayerIds
<1>1. CASE AddGame
  BY <1>1 DEF AddGame
<1>2. ASSUME NEW g \in GameIds, DeleteGame(g) PROVE TypeOK'
  BY <1>2 DEF DeleteGame
<1>3. ASSUME NEW u \in Usernames, AddPlayer(u) PROVE TypeOK'
  BY <1>3 DEF AddPlayer
<1>4. ASSUME NEW p \in PlayerIds, DeletePlayer(p) PROVE TypeOK'
  BY <1>4 DEF DeletePlayer
<1>5. ASSUME NEW g \in GameIds, NEW p \in PlayerIds, GrantPlayerAccess(g, p)
      PROVE TypeOK'
  <2>1. access' \subseteq GameIds \X PlayerIds
    BY <1>5 DEF GrantPlayerAccess
  <2>2. request' \in [Requests ->
                        [pc : {"idle", "check", "insert"}, game : 0..MaxGame,
                         player : 0..MaxPlayer, entitled : BOOLEAN]]
    BY <1>5 DEF GrantPlayerAccess
  <2> QED
    BY <1>5, <2>1, <2>2 DEF GrantPlayerAccess
<1>6. ASSUME NEW g \in GameIds, NEW p \in PlayerIds, RevokePlayerAccess(g, p)
      PROVE TypeOK'
  BY <1>6 DEF RevokePlayerAccess
<1>7. ASSUME NEW g \in GameIds, NEW p \in PlayerIds, RunCommand(g, p)
      PROVE TypeOK'
  BY <1>7 DEF RunCommand, Store, Row
<1>8. ASSUME NEW p \in PlayerIds, LoginPlayer(p) PROVE TypeOK'
  BY <1>8 DEF LoginPlayer
<1>9. ASSUME NEW p \in PlayerIds, TokenExpires(p) PROVE TypeOK'
  BY <1>9 DEF TokenExpires
<1>10. ASSUME NEW r \in Requests, NEW g \in GameIds, NEW p \in PlayerIds,
              Receive(r, g, p)
       PROVE TypeOK'
  BY <1>10 DEF Receive
<1>11. ASSUME NEW r \in Requests, AccessChecked(r) PROVE TypeOK'
  BY <1>11 DEF AccessChecked, CheckPlayerAccess, Idle
<1>12. ASSUME NEW r \in Requests, CommandStored(r) PROVE TypeOK'
  <2>1. request[r].game \in GameIds /\ request[r].player \in PlayerIds
    BY <1>12 DEF CommandStored, Addressed
  <2> QED
    BY <1>12, <2>1 DEF CommandStored, Store, Row, Idle
<1>13. ASSUME NEW r \in Requests, RequestFails(r) PROVE TypeOK'
  BY <1>13 DEF RequestFails, Idle
<1>14. CASE UNCHANGED vars
  BY <1>14 DEF vars
<1> QED
  BY <1>1, <1>2, <1>3, <1>4, <1>5, <1>6, <1>7, <1>8, <1>9, <1>10, <1>11, <1>12,
     <1>13, <1>14
  DEF Next, Administration, Service

\* Requests stay addressed: only Receive fills in a game and a player.
LEMMA AddressedStep == TypeOK /\ Addressed /\ [Next]_vars => Addressed'
<1> SUFFICES ASSUME TypeOK, Addressed, [Next]_vars PROVE Addressed'
  OBVIOUS
<1> USE DEF TypeOK, Addressed, Idle
<1>1. CASE UNCHANGED request
  BY <1>1
<1>2. ASSUME NEW g \in GameIds, NEW p \in PlayerIds, GrantPlayerAccess(g, p)
      PROVE Addressed'
  BY <1>2 DEF GrantPlayerAccess
<1>3. ASSUME NEW r \in Requests, NEW g \in GameIds, NEW p \in PlayerIds,
             Receive(r, g, p)
      PROVE Addressed'
  BY <1>3 DEF Receive
<1>4. ASSUME NEW r \in Requests, AccessChecked(r) PROVE Addressed'
  BY <1>4 DEF AccessChecked
<1>5. ASSUME NEW r \in Requests, CommandStored(r) \/ RequestFails(r) PROVE Addressed'
  BY <1>5 DEF CommandStored, RequestFails
<1> QED
  BY <1>1, <1>2, <1>3, <1>4, <1>5
  DEF Next, Administration, Service, vars, AddGame, DeleteGame, AddPlayer,
      DeletePlayer, RevokePlayerAccess, RunCommand, LoginPlayer, TokenExpires

(***************************************************************************)
(* Access.                                                                 *)
(***************************************************************************)

\* A grant makes the requests it concerns entitled, and only a grant adds
\* access; a check passes only requests that have access.
LEMMA CheckedStep == IInv /\ [Next]_vars => CheckedIsEntitled'
<1> SUFFICES ASSUME IInv, [Next]_vars PROVE CheckedIsEntitled'
  OBVIOUS
<1> USE DEF IInv, TypeOK, CheckedIsEntitled, Idle
<1>1. CASE UNCHANGED request /\ UNCHANGED access
  BY <1>1
<1>2. ASSUME NEW g \in GameIds, NEW p \in PlayerIds, GrantPlayerAccess(g, p)
      PROVE CheckedIsEntitled'
  BY <1>2 DEF GrantPlayerAccess
<1>3. ASSUME NEW g \in GameIds, NEW p \in PlayerIds, RevokePlayerAccess(g, p)
      PROVE CheckedIsEntitled'
  BY <1>3 DEF RevokePlayerAccess
<1>4. ASSUME NEW r \in Requests, NEW g \in GameIds, NEW p \in PlayerIds,
             Receive(r, g, p)
      PROVE CheckedIsEntitled'
  BY <1>4 DEF Receive
<1>5. ASSUME NEW r \in Requests, AccessChecked(r) PROVE CheckedIsEntitled'
  BY <1>5 DEF AccessChecked, CheckPlayerAccess
<1>6. ASSUME NEW r \in Requests, CommandStored(r) \/ RequestFails(r)
      PROVE CheckedIsEntitled'
  <2>1. request' = [request EXCEPT ![r] = Idle] /\ access' = access
    BY <1>6 DEF CommandStored, RequestFails
  <2>2. request'[r].pc = "idle"
    BY <2>1
  <2>3. \A q \in Requests \ {r} : request'[q] = request[q]
    BY <2>1
  <2> QED
    BY <2>1, <2>2, <2>3
<1> QED
  BY <1>1, <1>2, <1>3, <1>4, <1>5, <1>6
  DEF Next, Administration, Service, vars, AddGame, DeleteGame, AddPlayer,
      DeletePlayer, RunCommand, LoginPlayer, TokenExpires

\* The server stores a row only for a request that has passed its check.
LEMMA StoredStep == IInv /\ [Next]_vars => StoredOnlyIfEntitled'
<1> SUFFICES ASSUME IInv, [Next]_vars PROVE StoredOnlyIfEntitled'
  OBVIOUS
<1> USE DEF IInv, TypeOK, StoredOnlyIfEntitled
<1>1. CASE UNCHANGED interactions
  BY <1>1
<1>2. ASSUME NEW g \in GameIds, NEW p \in PlayerIds, RunCommand(g, p)
      PROVE StoredOnlyIfEntitled'
  BY <1>2 DEF RunCommand, Store
<1>3. ASSUME NEW r \in Requests, CommandStored(r) PROVE StoredOnlyIfEntitled'
  <2> DEFINE row == [game |-> request[r].game, player |-> request[r].player,
                     via |-> "http", entitled |-> request[r].entitled,
                     gameExisted |-> request[r].game \in games]
  <2>1. interactions' = Append(interactions, row)
    BY <1>3 DEF CommandStored, Store
  <2>2. row.entitled = TRUE
    BY <1>3 DEF CommandStored, CheckedIsEntitled
  <2> HIDE DEF row
  <2>3. ASSUME NEW i \in 1..Len(interactions'), interactions'[i].via = "http"
        PROVE interactions'[i].entitled
    <3>1. CASE i \in 1..Len(interactions)
      <4>1. interactions'[i] = interactions[i]
        BY <2>1, <3>1
      <4> QED
        BY <3>1, <4>1, <2>3
    <3>2. CASE i = Len(interactions) + 1
      <4>1. interactions'[i] = row
        BY <2>1, <3>2
      <4> QED
        BY <4>1, <2>2
    <3> QED
      BY <2>1, <3>1, <3>2
  <2> QED
    BY <2>3
<1> QED
  BY <1>1, <1>2, <1>3
  DEF Next, Administration, Service, vars, AddGame, DeleteGame, AddPlayer,
      DeletePlayer, GrantPlayerAccess, RevokePlayerAccess, LoginPlayer,
      TokenExpires, Receive, AccessChecked, RequestFails

LEMMA InitInv == Init => IInv
  BY DirectoryAssumption
  DEF DirectoryAssumption, Init, IInv, TypeOK, Addressed, CheckedIsEntitled,
      StoredOnlyIfEntitled, Idle, GameIds, PlayerIds

LEMMA InvStep == IInv /\ [Next]_vars => IInv'
  BY TypeStep, AddressedStep, CheckedStep, StoredStep DEF IInv

LEMMA InvAlways == Spec => []IInv
  BY InitInv, InvStep, PTL DEF Spec

\* The tables, sessions and requests of Directory have their types in every
\* reachable state, however many players, games and requests there are.
THEOREM DirectoryTypeCorrect == Spec => []TypeOK
<1>1. IInv => TypeOK
  BY DEF IInv
<1> QED
  BY InvAlways, <1>1, PTL

\* The check-then-insert of accessChecked and the commands never stores a row
\* for a player who had no access to the game at any moment of the request.
THEOREM AccessNeverBypassed == Spec => []StoredOnlyIfEntitled
<1>1. IInv => StoredOnlyIfEntitled
  BY DEF IInv
<1> QED
  BY InvAlways, <1>1, PTL

(***************************************************************************)
(* Accounts: what is known of a call between its lookup and its end.       *)
(***************************************************************************)

\* A call under way has found a player; one that updates has a new password.
CallsFound ==
    \A c \in Callers : caller[c].op # "idle" =>
        /\ caller[c].id \in PlayerIds
        /\ caller[c].username \in Usernames
        /\ caller[c].op = "update" => caller[c].new \in Passwords

\* What entitles a call to its second step.
Entitled(call) ==
    \/ call.op = "token" /\ call.by = "password"
    \/ call.op = "update" /\ call.by \in {"password", "force"}

\* A call under way is entitled, and the id it holds is its player's until
\* that account is deleted.
CallsEntitled ==
    \A c \in Callers : caller[c].op # "idle" =>
        /\ Entitled(caller[c])
        /\ players[caller[c].id] = caller[c].username \/ caller[c].gone

AccountsIInv == AccountsTypeOK /\ CallsFound /\ CallsEntitled

\* Every step of Accounts is a step of Directory or leaves its tables alone.
LEMMA AccountsStepMaps ==
    AccountsTypeOK /\ CallsFound /\ [AccountsNext]_accountVars => [Next]_vars
<1> SUFFICES ASSUME AccountsTypeOK, CallsFound, [AccountsNext]_accountVars
             PROVE [Next]_vars
  OBVIOUS
<1>1. ASSUME NEW u \in Usernames, NEW pw \in Passwords, AddAccount(u, pw)
      PROVE Next
  BY <1>1 DEF AddAccount, Next, Administration
<1>2. ASSUME NEW p \in PlayerIds, DeleteAccount(p) PROVE Next
  BY <1>2 DEF DeleteAccount, Next, Administration
<1>3. ASSUME NEW c \in Callers, IssueToken(c) PROVE Next
  <2>1. caller[c].id \in PlayerIds
    BY <1>3 DEF IssueToken, CallsFound
  <2>2. LoginPlayer(caller[c].id)
    BY <1>3 DEF IssueToken, LoginPlayer
  <2> QED
    BY <2>1, <2>2 DEF Next, Service
<1>4. ASSUME NEW t \in Tokens, Expire(t) PROVE [Next]_vars
  <2>1. t[1] \in PlayerIds
    BY DEF Tokens
  <2>2. sessions' = {s[1] : s \in tokens \ {t}} /\ sessions = {s[1] : s \in tokens}
    BY <1>4 DEF Expire, AccountsTypeOK
  <2>3. sessions' = sessions \/ sessions' = sessions \ {t[1]}
    BY <2>2
  <2>4. UNCHANGED <<games, players, access, interactions, request>>
    BY <1>4 DEF Expire
  <2> QED
    BY <2>1, <2>3, <2>4 DEF TokenExpires, Next, Service, vars
<1>5. ASSUME NEW c \in Callers, CallerStep(c), ~ IssueToken(c) PROVE UNCHANGED vars
  BY <1>5 DEF CallerStep, LogIn, ChangePassword, ForcePassword, Proceed,
              UpdatePassword, GiveUp
<1>6. CASE DirectoryStep
  BY <1>6 DEF DirectoryStep, Next, Administration, Service
<1>7. CASE UNCHANGED accountVars
  BY <1>7 DEF accountVars
<1> QED
  BY <1>1, <1>2, <1>3, <1>4, <1>5, <1>6, <1>7 DEF AccountsNext

\* The tables of Directory keep their types, so do accounts, tokens and calls.
LEMMA AccountsTypeStep ==
    AccountsIInv /\ TypeOK' /\ [AccountsNext]_accountVars => AccountsTypeOK'
<1> SUFFICES ASSUME AccountsIInv, TypeOK', [AccountsNext]_accountVars
             PROVE AccountsTypeOK'
  OBVIOUS
<1> USE DirectoryAssumption, AccountsAssumption
    DEF DirectoryAssumption, AccountsAssumption, AccountsIInv, AccountsTypeOK
<1>a. players \in [PlayerIds -> Usernames \cup {Nil}]
      /\ players' \in [PlayerIds -> Usernames \cup {Nil}]
  BY DEF TypeOK
<1>b. NoCall \in Call
  BY DEF NoCall, Call
<1>1. ASSUME NEW u \in Usernames, NEW pw \in Passwords, AddAccount(u, pw)
      PROVE AccountsTypeOK'
  <2>1. PICK p \in PlayerIds : players' = [players EXCEPT ![p] = u]
    BY <1>1 DEF AddAccount, AddPlayer
  <2>2. \A q \in PlayerIds : password'[q] = Nil <=> players'[q] = Nil
    BY <1>1, <1>a, <2>1 DEF AddAccount
  <2>3. password' \in [PlayerIds -> Passwords \cup {Nil}]
    BY <1>1 DEF AddAccount
  <2> QED
    BY <1>1, <2>2, <2>3 DEF AddAccount, AddPlayer
<1>2. ASSUME NEW p \in PlayerIds, DeleteAccount(p) PROVE AccountsTypeOK'
  <2>1. password' \in [PlayerIds -> Passwords \cup {Nil}]
        /\ \A q \in PlayerIds : password'[q] = Nil <=> players'[q] = Nil
    BY <1>2, <1>a DEF DeleteAccount, DeletePlayer
  <2>2. caller' \in [Callers -> Call]
    <3>1. caller \in [Callers -> Call]
      OBVIOUS
    <3>2. caller' = [c \in Callers |->
                        [caller[c] EXCEPT !.gone = @ \/ (caller[c].id = p /\ players[p] # Nil)]]
      BY ONLY <1>2 DEF DeleteAccount
    <3>3. ASSUME NEW call \in Call, NEW b \in BOOLEAN
          PROVE  [call EXCEPT !.gone = @ \/ b] \in Call
      BY ONLY <3>3 DEF Call
    <3> QED
      BY ONLY <3>1, <3>2, <3>3
  <2>3. tokens' = tokens /\ sessions' = sessions
    BY <1>2 DEF DeleteAccount, DeletePlayer
  <2>4. tokens' \subseteq Tokens /\ sessions' = {t[1] : t \in tokens'}
    BY <2>3
  <2> QED
    BY ONLY TypeOK', <2>1, <2>2, <2>4 DEF AccountsTypeOK
<1>3. ASSUME NEW c \in Callers, NEW op \in {"token", "update"}, NEW p \in PlayerIds,
             NEW new \in Passwords \cup {Nil}, NEW by \in {"password", "force", "nothing"},
             Proceed(c, op, p, new, by)
      PROVE AccountsTypeOK'
  <2>1. [op |-> op, id |-> p, username |-> players[p], new |-> new, by |-> by,
         gone |-> FALSE] \in Call
    BY <1>a DEF Call, PlayerIds
  <2>2. caller' \in [Callers -> Call]
    BY <1>3, <2>1 DEF Proceed
  <2> QED
    BY <1>3, <2>2 DEF Proceed, vars
<1>4. ASSUME NEW c \in Callers, IssueToken(c) PROVE AccountsTypeOK'
  <2> DEFINE t == <<caller[c].id, caller[c].username>>
  <2>1. t \in Tokens
    BY <1>4 DEF IssueToken, CallsFound, Tokens
  <2>2. tokens' = tokens \cup {t} /\ sessions' = sessions \cup {caller[c].id}
    BY <1>4 DEF IssueToken
  <2>3. sessions' = {s[1] : s \in tokens'}
    <3>1. t[1] = caller[c].id
      OBVIOUS
    <3>2. sessions = {s[1] : s \in tokens}
      OBVIOUS
    <3> HIDE DEF t
    <3> QED
      BY <2>2, <3>1, <3>2
  <2>4. caller' \in [Callers -> Call]
    BY <1>4, <1>b DEF IssueToken, Hang
  <2> QED
    BY <1>4, <2>1, <2>2, <2>3, <2>4 DEF IssueToken
<1>5. ASSUME NEW c \in Callers, UpdatePassword(c) PROVE AccountsTypeOK'
  <2>1. caller[c].new \in Passwords
    BY <1>5 DEF UpdatePassword, CallsFound
  <2>2. password' \in [PlayerIds -> Passwords \cup {Nil}]
        /\ \A q \in PlayerIds : password'[q] = Nil <=> players[q] = Nil
    BY <1>5, <2>1 DEF UpdatePassword
  <2>3. caller' \in [Callers -> Call]
    BY <1>5, <1>b DEF UpdatePassword, Hang
  <2> QED
    BY <1>5, <2>2, <2>3 DEF UpdatePassword, vars
<1>6. ASSUME NEW c \in Callers, GiveUp(c) PROVE AccountsTypeOK'
  BY <1>6, <1>b DEF GiveUp, Hang, vars
<1>7. ASSUME NEW t \in Tokens, Expire(t) PROVE AccountsTypeOK'
  BY <1>7 DEF Expire
<1>8. CASE DirectoryStep
  <2>1. UNCHANGED <<password, tokens, caller, players, sessions>>
    BY <1>8 DEF DirectoryStep, AddGame, DeleteGame, GrantPlayerAccess,
                RevokePlayerAccess, RunCommand, Receive, AccessChecked,
                CommandStored, RequestFails
  <2> QED
    BY <2>1
<1>9. CASE UNCHANGED accountVars
  BY <1>9 DEF accountVars, vars
<1> QED
  BY <1>1, <1>2, <1>3, <1>4, <1>5, <1>6, <1>7, <1>8, <1>9
  DEF AccountsNext, CallerStep, LogIn, ChangePassword, ForcePassword, Shown

\* A lookup fills in a call from a row that is there.
LEMMA CallsFoundStep ==
    AccountsIInv /\ [AccountsNext]_accountVars => CallsFound'
<1> SUFFICES ASSUME AccountsIInv, [AccountsNext]_accountVars PROVE CallsFound'
  OBVIOUS
<1> USE DirectoryAssumption DEF DirectoryAssumption, AccountsIInv, AccountsTypeOK, CallsFound
<1>a. players \in [PlayerIds -> Usernames \cup {Nil}]
  BY DEF TypeOK
<1>1. ASSUME NEW p \in PlayerIds, DeleteAccount(p) PROVE CallsFound'
  BY <1>1 DEF DeleteAccount, Call
<1>2. ASSUME NEW c \in Callers, NEW p \in PlayerIds, players[p] \in Usernames,
             NEW by,
             \/ Proceed(c, "token", p, Nil, by)
             \/ \E new \in Passwords : Proceed(c, "update", p, new, by)
      PROVE CallsFound'
  BY <1>2 DEF Proceed
<1>3. ASSUME NEW c \in Callers, Hang(c) PROVE CallsFound'
  BY <1>3 DEF Hang, NoCall
<1>4. CASE UNCHANGED caller
  BY <1>4
<1> QED
  BY <1>1, <1>2, <1>3, <1>4
  DEF AccountsNext, CallerStep, LogIn, ChangePassword, ForcePassword, IssueToken,
      CheckPlayerPassword, UpdatePassword, GiveUp, AddAccount, Expire, DirectoryStep,
      accountVars

\* Only a deletion takes a username away from its id: a new account takes an
\* id that nobody has.
LEMMA UsernamesStay ==
    ASSUME AccountsIInv, [AccountsNext]_accountVars,
           NEW p \in PlayerIds, players[p] # Nil, players'[p] # players[p]
    PROVE  DeleteAccount(p)
<1> USE DirectoryAssumption DEF DirectoryAssumption, AccountsIInv, AccountsTypeOK
<1>a. players \in [PlayerIds -> Usernames \cup {Nil}]
  BY DEF TypeOK
<1>1. ASSUME NEW u \in Usernames, NEW pw \in Passwords, AddAccount(u, pw) PROVE FALSE
  <2>1. PICK q \in PlayerIds : /\ IsNextId(q, Registered)
                              /\ players' = [players EXCEPT ![q] = u]
    BY <1>1 DEF AddAccount, AddPlayer
  <2>2. players[q] = Nil
    BY <2>1 DEF IsNextId, Registered, PlayerIds
  <2> QED
    BY <1>a, <2>1, <2>2
<1>2. ASSUME NEW q \in PlayerIds, DeleteAccount(q) PROVE DeleteAccount(p)
  BY <1>2, <1>a DEF DeleteAccount, DeletePlayer
<1>3. UNCHANGED players => FALSE
  OBVIOUS
<1>4. CASE DirectoryStep
  BY <1>4, <1>3 DEF DirectoryStep, AddGame, DeleteGame, GrantPlayerAccess,
                    RevokePlayerAccess, RunCommand, Receive, AccessChecked,
                    CommandStored, RequestFails
<1> QED
  BY <1>1, <1>2, <1>3, <1>4
  DEF AccountsNext, CallerStep, LogIn, ChangePassword, ForcePassword, Proceed,
      IssueToken, UpdatePassword, GiveUp, Expire, accountVars, vars

\* A lookup records a player that is there and what was shown for it; until
\* that account is deleted its id keeps its username.
LEMMA CallsEntitledStep ==
    AccountsIInv /\ [AccountsNext]_accountVars => CallsEntitled'
<1> SUFFICES ASSUME AccountsIInv, [AccountsNext]_accountVars PROVE CallsEntitled'
  OBVIOUS
<1> USE DirectoryAssumption
    DEF DirectoryAssumption, AccountsIInv, AccountsTypeOK, CallsFound, CallsEntitled
<1>a. players \in [PlayerIds -> Usernames \cup {Nil}]
  BY DEF TypeOK
<1>b. \A p \in PlayerIds :
        players[p] # Nil /\ players'[p] # players[p] => DeleteAccount(p)
  BY UsernamesStay
<1>1. ASSUME NEW p \in PlayerIds, DeleteAccount(p), NEW c \in Callers,
             caller'[c].op # "idle"
      PROVE /\ Entitled(caller'[c])
            /\ players'[caller'[c].id] = caller'[c].username \/ caller'[c].gone
  <2>1. /\ caller'[c].op = caller[c].op
        /\ caller'[c].id = caller[c].id
        /\ caller'[c].username = caller[c].username
        /\ caller'[c].by = caller[c].by
        /\ caller'[c].gone = (caller[c].gone \/ (caller[c].id = p /\ players[p] # Nil))
    BY <1>1 DEF DeleteAccount, Call
  <2>2. Entitled(caller[c]) /\ caller[c].id \in PlayerIds /\ caller[c].username \in Usernames
    BY <1>1, <2>1
  <2>3. CASE caller[c].gone
    BY <2>1, <2>2, <2>3 DEF Entitled
  <2>4. CASE ~ caller[c].gone
    <3>1. players[caller[c].id] = caller[c].username
      BY <1>1, <2>1, <2>4
    <3>2. caller[c].id # p => players'[caller[c].id] = players[caller[c].id]
      BY <1>1, <1>a, <2>2 DEF DeleteAccount, DeletePlayer
    <3> QED
      BY <2>1, <2>2, <3>1, <3>2 DEF Entitled
  <2> QED
    BY <2>3, <2>4
<1>2. ASSUME NEW c \in Callers, NEW op, NEW p \in PlayerIds, NEW new, NEW by,
             Proceed(c, op, p, new, by),
             \/ op = "token" /\ by = "password"
             \/ op = "update" /\ by \in {"password", "force"}
      PROVE CallsEntitled'
  <2>1. \A d \in Callers : d # c => caller'[d] = caller[d]
    BY <1>2 DEF Proceed
  <2>2. caller'[c] = [op |-> op, id |-> p, username |-> players[p], new |-> new,
                      by |-> by, gone |-> FALSE]
    BY <1>2 DEF Proceed
  <2>3. players' = players
    BY <1>2 DEF Proceed, vars
  <2>4. Entitled(caller'[c]) /\ players'[caller'[c].id] = caller'[c].username
    BY <1>2, <2>2, <2>3 DEF Entitled
  <2> QED
    BY <2>1, <2>3, <2>4
<1>3. ASSUME NEW c \in Callers, Hang(c), UNCHANGED players PROVE CallsEntitled'
  BY <1>3 DEF Hang, NoCall
<1>4. ASSUME UNCHANGED caller, ~ \E p \in PlayerIds : DeleteAccount(p)
      PROVE CallsEntitled'
  BY <1>4, <1>b
<1>5. ASSUME NEW c \in Callers, CallerStep(c) PROVE CallsEntitled'
  <2>1. ASSUME NEW u \in Usernames, NEW pw \in Passwords, LogIn(c, u, pw)
        PROVE CallsEntitled'
    BY <2>1, <1>2 DEF LogIn, CheckPlayerPassword, Shown
  <2>2. ASSUME NEW u \in Usernames, NEW pw \in Passwords, NEW new \in Passwords,
               ChangePassword(c, u, pw, new)
        PROVE CallsEntitled'
    BY <2>2, <1>2 DEF ChangePassword, CheckPlayerPassword, Shown
  <2>3. ASSUME NEW u \in Usernames, NEW new \in Passwords, ForcePassword(c, u, new)
        PROVE CallsEntitled'
    BY <2>3, <1>2 DEF ForcePassword
  <2>4. IssueToken(c) \/ UpdatePassword(c) \/ GiveUp(c) => CallsEntitled'
    BY <1>3 DEF IssueToken, UpdatePassword, GiveUp, vars
  <2> QED
    BY <1>5, <2>1, <2>2, <2>3, <2>4 DEF CallerStep
<1>6. CASE \E p \in PlayerIds : DeleteAccount(p)
  BY <1>1, <1>6
<1> QED
  BY <1>4, <1>5, <1>6 DEF AccountsNext, AddAccount, Expire, DirectoryStep, accountVars

LEMMA AccountsInitInv == AccountsInit => AccountsIInv /\ IInv
<1> SUFFICES ASSUME AccountsInit PROVE AccountsIInv /\ IInv
  OBVIOUS
<1>1. IInv
  BY InitInv DEF AccountsInit
<1>2. AccountsTypeOK
  <2>1. NoCall \in Call
    BY DirectoryAssumption DEF DirectoryAssumption, NoCall, Call
  <2>2. TypeOK /\ tokens = {} /\ sessions = {}
    BY <1>1 DEF IInv, AccountsInit, Init
  <2>3. \A p \in PlayerIds : players[p] = Nil /\ password[p] = Nil
    BY DEF AccountsInit, Init
  <2>4. caller \in [Callers -> Call] /\ password \in [PlayerIds -> Passwords \cup {Nil}]
    BY <2>1 DEF AccountsInit
  <2> QED
    BY <2>2, <2>3, <2>4 DEF AccountsTypeOK
<1>3. CallsFound /\ CallsEntitled
  BY DEF AccountsInit, CallsFound, CallsEntitled, NoCall
<1> QED
  BY <1>1, <1>2, <1>3 DEF AccountsIInv

LEMMA AccountsInvStep ==
    AccountsIInv /\ IInv /\ [AccountsNext]_accountVars => (AccountsIInv /\ IInv)'
<1> SUFFICES ASSUME AccountsIInv, IInv, [AccountsNext]_accountVars
             PROVE (AccountsIInv /\ IInv)'
  OBVIOUS
<1>1. [Next]_vars
  BY AccountsStepMaps DEF AccountsIInv
<1>2. IInv'
  BY <1>1, InvStep
<1>3. TypeOK'
  BY <1>2 DEF IInv
<1>4. AccountsTypeOK' /\ CallsFound' /\ CallsEntitled'
  BY <1>3, AccountsTypeStep, CallsFoundStep, CallsEntitledStep
<1> QED
  BY <1>2, <1>4 DEF AccountsIInv

LEMMA AccountsInvAlways == AccountsSpec => [](AccountsIInv /\ IInv)
  BY AccountsInitInv, AccountsInvStep, PTL DEF AccountsSpec

\* Accounts, tokens and calls have their types in every reachable state.
THEOREM AccountsTypeCorrect == AccountsSpec => []AccountsTypeOK
<1>1. AccountsIInv => AccountsTypeOK
  BY DEF AccountsIInv
<1> QED
  BY AccountsInvAlways, <1>1, PTL

\* Accounts implements Directory: its logins, password changes and tokens are
\* among the steps Directory leaves open.
THEOREM AccountsImplementDirectory == AccountsSpec => Spec
<1>1. AccountsInit => Init
  BY DEF AccountsInit
<1>2. AccountsIInv /\ [AccountsNext]_accountVars => [Next]_vars
  BY AccountsStepMaps DEF AccountsIInv
<1> QED
  BY AccountsInvAlways, <1>1, <1>2, PTL DEF AccountsSpec, Spec

\* The step version: who changes a password or issues a token is an entitled
\* call that found this account, or one whose account is gone.
LEMMA GuardStep ==
    AccountsIInv /\ [AccountsNext]_accountVars =>
        /\ \A p \in PlayerIds :
            password'[p] # password[p] /\ players'[p] = players[p] =>
                \E c \in Callers :
                    /\ caller[c].op = "update"
                    /\ caller[c].by \in {"password", "force"}
                    /\ caller[c].id = p
                    /\ caller[c].username = players[p] \/ caller[c].gone
        /\ \A t \in tokens' \ tokens :
            \E c \in Callers :
                /\ caller[c].op = "token"
                /\ caller[c].by = "password"
                /\ t = <<caller[c].id, caller[c].username>>
                /\ players[t[1]] = t[2] \/ caller[c].gone
<1> SUFFICES ASSUME AccountsIInv, [AccountsNext]_accountVars
             PROVE /\ \A p \in PlayerIds :
                        password'[p] # password[p] /\ players'[p] = players[p] =>
                            \E c \in Callers :
                                /\ caller[c].op = "update"
                                /\ caller[c].by \in {"password", "force"}
                                /\ caller[c].id = p
                                /\ caller[c].username = players[p] \/ caller[c].gone
                   /\ \A t \in tokens' \ tokens :
                        \E c \in Callers :
                            /\ caller[c].op = "token"
                            /\ caller[c].by = "password"
                            /\ t = <<caller[c].id, caller[c].username>>
                            /\ players[t[1]] = t[2] \/ caller[c].gone
  OBVIOUS
<1> USE DEF AccountsIInv, AccountsTypeOK
<1>1. ASSUME NEW p \in PlayerIds, password'[p] # password[p], players'[p] = players[p]
      PROVE \E c \in Callers :
                /\ caller[c].op = "update"
                /\ caller[c].by \in {"password", "force"}
                /\ caller[c].id = p
                /\ caller[c].username = players[p] \/ caller[c].gone
  <2>1. ASSUME NEW u \in Usernames, NEW pw \in Passwords, AddAccount(u, pw) PROVE FALSE
    BY <1>1, <2>1 DEF AddAccount
  <2>2. ASSUME NEW q \in PlayerIds, DeleteAccount(q) PROVE FALSE
    <3>1. q = p /\ players'[p] = Nil /\ password'[p] = Nil
      BY <1>1, <2>2 DEF DeleteAccount, DeletePlayer, TypeOK
    <3> QED
      BY <1>1, <3>1
  <2>3. ASSUME NEW c \in Callers, UpdatePassword(c)
        PROVE /\ caller[c].op = "update"
              /\ caller[c].by \in {"password", "force"}
              /\ caller[c].id = p
              /\ caller[c].username = players[p] \/ caller[c].gone
    BY <1>1, <2>3 DEF UpdatePassword, CallsEntitled, Entitled
  <2>4. UNCHANGED password => FALSE
    BY <1>1
  <2> QED
    BY <2>1, <2>2, <2>3, <2>4
    DEF AccountsNext, CallerStep, LogIn, ChangePassword, ForcePassword, Proceed,
        IssueToken, GiveUp, Expire, DirectoryStep, accountVars
<1>2. ASSUME NEW t \in tokens' \ tokens
      PROVE \E c \in Callers :
                /\ caller[c].op = "token"
                /\ caller[c].by = "password"
                /\ t = <<caller[c].id, caller[c].username>>
                /\ players[t[1]] = t[2] \/ caller[c].gone
  <2>1. ASSUME NEW c \in Callers, IssueToken(c)
        PROVE /\ caller[c].op = "token"
              /\ caller[c].by = "password"
              /\ t = <<caller[c].id, caller[c].username>>
              /\ players[t[1]] = t[2] \/ caller[c].gone
    <3>1. caller[c].op = "token" /\ t = <<caller[c].id, caller[c].username>>
      BY <1>2, <2>1 DEF IssueToken
    <3>2. /\ caller[c].by = "password"
          /\ players[caller[c].id] = caller[c].username \/ caller[c].gone
      BY <3>1 DEF CallsEntitled, Entitled
    <3> QED
      BY <3>1, <3>2
  <2>2. tokens' \subseteq tokens => FALSE
    BY <1>2
  <2> QED
    BY <2>1, <2>2
    DEF AccountsNext, CallerStep, LogIn, ChangePassword, ForcePassword, Proceed,
        AddAccount, DeleteAccount, UpdatePassword, GiveUp, Expire, DirectoryStep, accountVars
<1> QED
  BY <1>1, <1>2

\* Nobody's password is changed, and no token issued, but by a caller that
\* showed the password of the account it found, or by the manager's force,
\* whatever lookups, changes, deletions and new accounts interleave.
THEOREM PasswordsAlwaysGuard == AccountsSpec => PasswordsGuardAccounts
<1>1. AccountsIInv /\ [AccountsNext]_accountVars =>
        [/\ \A p \in PlayerIds :
            password'[p] # password[p] /\ players'[p] = players[p] =>
                \E c \in Callers :
                    /\ caller[c].op = "update"
                    /\ caller[c].by \in {"password", "force"}
                    /\ caller[c].id = p
                    /\ caller[c].username = players[p] \/ caller[c].gone
         /\ \A t \in tokens' \ tokens :
            \E c \in Callers :
                /\ caller[c].op = "token"
                /\ caller[c].by = "password"
                /\ t = <<caller[c].id, caller[c].username>>
                /\ players[t[1]] = t[2] \/ caller[c].gone]_accountVars
  BY GuardStep
<1> QED
  BY AccountsInvAlways, <1>1, PTL DEF AccountsSpec, PasswordsGuardAccounts
=============================================================================
