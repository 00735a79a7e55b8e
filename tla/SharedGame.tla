----------------------------- MODULE SharedGame -----------------------------
(***************************************************************************)
(* What a game promises its players, without rows, triggers or replay.     *)
(* While a game is played it has a deadline; while it is paused it has     *)
(* time left, which does not run; the time left is what the deadline is    *)
(* set from when the game resumes.  A save buys time and starts a game.    *)
(* Events of a game happen in time order.                                  *)
(***************************************************************************)
EXTENDS Integers

CONSTANTS
    Games,
    Instants,   \* the instants at which events may happen
    Extensions, \* the time a save may buy
    Nil

VARIABLE game   \* per game, its status; deadline (while playing); time left
                \* (while paused); asOf, when its last event happened

vars == <<game>>

NotStarted == [status |-> "not_started", deadline |-> Nil, left |-> Nil, asOf |-> Nil]
Playing(d, t) == [status |-> "playing", deadline |-> d, left |-> Nil, asOf |-> t]
Paused(l, t) == [status |-> "paused", deadline |-> Nil, left |-> l, asOf |-> t]

Init == game = [g \in Games |-> NotStarted]

Start(g, t, e) ==
    /\ game[g].status = "not_started"
    /\ game' = [game EXCEPT ![g] = Playing(t + e, t)]

Extend(g, t, e) ==
    /\ game[g].status = "playing"
    /\ game[g].asOf <= t
    /\ game' = [game EXCEPT ![g] = Playing(@.deadline + e, t)]

Pause(g, t) ==
    /\ game[g].status = "playing"
    /\ game[g].asOf <= t
    /\ game' = [game EXCEPT ![g] = Paused(@.deadline - t, t)]

Resume(g, t) ==
    /\ game[g].status = "paused"
    /\ game[g].asOf <= t
    /\ game' = [game EXCEPT ![g] = Playing(t + @.left, t)]

Next ==
    \E g \in Games, t \in Instants :
        \/ \E e \in Extensions : Start(g, t, e) \/ Extend(g, t, e)
        \/ Pause(g, t)
        \/ Resume(g, t)

Spec == Init /\ [][Next]_vars
=============================================================================
