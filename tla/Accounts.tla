------------------------------ MODULE Accounts ------------------------------
(***************************************************************************)
(* Player management and authentication on the tables of Directory: what   *)
(* Directory abstracts of a player, the password, and the operations that  *)
(* look a player up by username, work on what they found (bcrypt takes its *)
(* time) and then use its id.  Logins run in the server, password changes  *)
(* in manager processes, all beside the other operations of Directory.     *)
(*                                                                         *)
(* Abstractions: a hash is the password it was made from; display names.   *)
(* Passwords are those IsPasswordValid accepts; one that it, a length      *)
(* check or the comparison refuses ends the call with nothing changed.     *)
(***************************************************************************)
EXTENDS Directory

CONSTANTS
    Passwords,
    Callers     \* logins and password changes under way at a time

ASSUME AccountsAssumption == Nil \notin Passwords

VARIABLES
    password,   \* per player id: the password behind hashed_password, or Nil
    tokens,     \* unexpired session tokens: the id and the username they carry
    caller      \* per caller: what it goes on to do with the player it found

accountVars == <<vars, password, tokens, caller>>

NoCall == [op |-> "idle", id |-> 0, username |-> Nil, new |-> Nil,
           by |-> "nothing", gone |-> FALSE]

\* Two fields are history.  by: what the caller showed at the lookup, the
\* password the account found had at that moment, that it is the manager using
\* force, or nothing of the kind.  gone: the account was deleted since.
Call == [op : {"idle", "token", "update"}, id : 0..MaxPlayer,
         username : Usernames \cup {Nil}, new : Passwords \cup {Nil},
         by : {"password", "force", "nothing"}, gone : BOOLEAN]

Tokens == PlayerIds \X Usernames

(***************************************************************************)
(* Players.                                                                *)
(***************************************************************************)

\* AddPlayer refuses a password that equals the username.
AddAccount(u, pw) ==
    /\ pw # u
    /\ AddPlayer(u)
    /\ password' = [p \in PlayerIds |->
                        IF players'[p] # players[p] THEN pw ELSE password[p]]
    /\ UNCHANGED <<tokens, caller>>

\* Tokens and calls that hold the id are not told.
DeleteAccount(p) ==
    /\ DeletePlayer(p)
    /\ password' = [password EXCEPT ![p] = Nil]
    /\ caller' = [c \in Callers |->
                    [caller[c] EXCEPT !.gone = @ \/ (caller[c].id = p /\ players[p] # Nil)]]
    /\ UNCHANGED tokens

(***************************************************************************)
(* Looking a player up.                                                    *)
(***************************************************************************)
Proceed(c, op, p, new, by) ==
    /\ caller[c].op = "idle"
    /\ caller' = [caller EXCEPT ![c] = [op |-> op, id |-> p, username |-> players[p],
                                        new |-> new, by |-> by, gone |-> FALSE]]
    /\ UNCHANGED <<vars, password, tokens>>

\* History: what a caller that gives password pw for player p has shown.
Shown(p, pw) == IF pw = password[p] THEN "password" ELSE "nothing"

\* Mutant: a mismatch of the hashes is not told apart from a match.
MutCheckPlayerPassword(u, pw, p) == players[p] = u

\* GetPlayerByUsername and CompareHashAndPassword: the player, if it exists
\* and the password is right.
CheckPlayerPassword(u, pw, p) == players[p] = u /\ password[p] = pw

LogIn(c, u, pw) ==
    \E p \in PlayerIds :
        /\ CheckPlayerPassword(u, pw, p)
        /\ Proceed(c, "token", p, Nil, Shown(p, pw))

\* UpdatePlayerPassword: the new password is compared to the username found.
ChangePassword(c, u, pw, new) ==
    \E p \in PlayerIds :
        /\ CheckPlayerPassword(u, pw, p)
        /\ new # u
        /\ Proceed(c, "update", p, new, Shown(p, pw))

\* UpdatePlayerPasswordForce: neither comparison.
ForcePassword(c, u, new) ==
    \E p \in PlayerIds :
        /\ players[p] = u
        /\ Proceed(c, "update", p, new, "force")

(***************************************************************************)
(* Using what was found.                                                   *)
(***************************************************************************)
Hang(c) == caller' = [caller EXCEPT ![c] = NoCall]

\* GenerateToken, and the cookie that carries it.
IssueToken(c) ==
    /\ caller[c].op = "token"
    /\ LET t == <<caller[c].id, caller[c].username>>
       IN /\ tokens' = tokens \cup {t}
          /\ sessions' = sessions \cup {t[1]}
    /\ Hang(c)
    /\ UNCHANGED <<games, players, access, interactions, request, password>>

\* UPDATE players SET hashed_password = ? WHERE id = ?; no row is no error.
UpdatePassword(c) ==
    /\ caller[c].op = "update"
    /\ password' = [p \in PlayerIds |->
                        IF p = caller[c].id /\ players[p] # Nil
                        THEN caller[c].new ELSE password[p]]
    /\ Hang(c)
    /\ UNCHANGED <<vars, tokens>>

\* An error, a cancelled context or a crash in between.
GiveUp(c) ==
    /\ caller[c].op # "idle"
    /\ Hang(c)
    /\ UNCHANGED <<vars, password, tokens>>

Expire(t) ==
    /\ t \in tokens
    /\ tokens' = tokens \ {t}
    /\ sessions' = {s[1] : s \in tokens \ {t}}
    /\ UNCHANGED <<games, players, access, interactions, request, password, caller>>

(***************************************************************************)
(* The composition.                                                        *)
(***************************************************************************)
AccountsInit ==
    /\ Init
    /\ password = [p \in PlayerIds |-> Nil]
    /\ tokens = {}
    /\ caller = [c \in Callers |-> NoCall]

CallerStep(c) ==
    \/ \E u \in Usernames, pw \in Passwords : LogIn(c, u, pw)
    \/ \E u \in Usernames, pw, new \in Passwords : ChangePassword(c, u, pw, new)
    \/ \E u \in Usernames, new \in Passwords : ForcePassword(c, u, new)
    \/ IssueToken(c)
    \/ UpdatePassword(c)
    \/ GiveUp(c)

\* The operations of Directory that neither read nor write accounts.
DirectoryStep ==
    /\ \/ AddGame
       \/ \E g \in GameIds : DeleteGame(g)
       \/ \E g \in GameIds, p \in PlayerIds :
            \/ GrantPlayerAccess(g, p)
            \/ RevokePlayerAccess(g, p)
            \/ RunCommand(g, p)
            \/ \E r \in Requests : Receive(r, g, p)
       \/ \E r \in Requests :
            AccessChecked(r) \/ CommandStored(r) \/ RequestFails(r)
    /\ UNCHANGED <<password, tokens, caller>>

AccountsNext ==
    \/ \E u \in Usernames, pw \in Passwords : AddAccount(u, pw)
    \/ \E p \in PlayerIds : DeleteAccount(p)
    \/ \E c \in Callers : CallerStep(c)
    \/ \E t \in Tokens : Expire(t)
    \/ DirectoryStep

AccountsSpec == AccountsInit /\ [][AccountsNext]_accountVars

(***************************************************************************)
(* Properties.                                                             *)
(***************************************************************************)

\* Type correctness of accounts, tokens and calls; who has a row has a
\* password.
AccountsTypeOK ==
    /\ TypeOK
    /\ password \in [PlayerIds -> Passwords \cup {Nil}]
    /\ \A p \in PlayerIds : password[p] = Nil <=> players[p] = Nil
    /\ tokens \subseteq Tokens
    /\ sessions = {t[1] : t \in tokens}
    /\ caller \in [Callers -> Call]

\* What a lookup found is used later, beside other calls, deletions and new
\* accounts.  Still a password changes only through a call that found this
\* account, or one deleted since whose id it has, and that is the manager's by
\* force or showed the password which the account found had then; and a token
\* is issued only for an account found whose password was shown.
PasswordsGuardAccounts ==
    [][/\ \A p \in PlayerIds :
            password'[p] # password[p] /\ players'[p] = players[p] =>
                \E c \in Callers :
                    /\ caller[c].op = "update"
                    /\ caller[c].by \in {"password", "force"}
                    /\ caller[c].id = p
                    /\ caller[c].username = players[p] \/ caller[c].gone
       /\ \A t \in tokens' \ tokens :
            \E c \in Callers :
                /\ caller[c].op = "token"
                /\ caller[c].by = "password"
                /\ t = <<caller[c].id, caller[c].username>>
                /\ players[t[1]] = t[2] \/ caller[c].gone]_accountVars
=============================================================================
