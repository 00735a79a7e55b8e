------------------------------- MODULE Paging -------------------------------
(***************************************************************************)
(* The queries behind /interactions and "manager fetch interactions",      *)
(* running beside the commands of GameLog: a client reads a game's rows    *)
(* page by page, newest first, while new rows come in at the front; and    *)
(* the earliest and the latest row.                                        *)
(*                                                                         *)
(* Each query is one SELECT and changes nothing.  The check of access that *)
(* precedes it over HTTP is in Directory.  HTTP refuses limits below 1 and *)
(* negative offsets before any query, so Limits are those that pass; the   *)
(* manager lets a limit of 0 through too, which lists nothing.             *)
(***************************************************************************)
EXTENDS GameLog

CONSTANTS
    Players,
    Limits

ASSUME PagingAssumption ==
    /\ Limits \subseteq Nat \ {0}
    /\ Nil \notin Players \cup Games

VARIABLES
    by,     \* per row: the player whose command it is
    pager   \* the client: its parameters, its offset and what it has seen

pageVars == <<vars, by, pager>>

NoPager == [pc |-> "idle", game |-> Nil, player |-> Nil, limit |-> 1, offset |-> 0,
            start |-> {}, seen |-> {}, returned |-> 0]

(***************************************************************************)
(* The queries.                                                            *)
(***************************************************************************)

\* WHERE game_id = ?, for query=player (p is not Nil) also AND player_id = ?.
Selected(g, p) == {i \in GameRows(g) : p # Nil => by[i] = p}

\* Where row i stands in ORDER BY occurred_at DESC, id DESC, from 0.
Position(i, ids) == Cardinality({j \in ids : RowBefore(i, j)})

\* Mutants: offsets count from one; the player's rows are picked from the page
\* of all rows.
MutListInteractions(g, p, limit, offset) ==
    LET ids == Selected(g, p)
    IN {i \in ids : offset < Position(i, ids) /\ Position(i, ids) <= offset + limit}
MutFilterPage(g, p, limit, offset) ==
    LET ids == GameRows(g)
    IN {i \in Selected(g, p) :
            offset <= Position(i, ids) /\ Position(i, ids) < offset + limit}

\* LIMIT ? OFFSET ?.
ListInteractions(g, p, limit, offset) ==
    LET ids == Selected(g, p)
    IN {i \in ids : offset <= Position(i, ids) /\ Position(i, ids) < offset + limit}

\* Mutant: of several rows in the first second, the last one is taken.
MutFirstInteraction(g) ==
    IF GameRows(g) = {} THEN Nil
    ELSE CHOOSE i \in GameRows(g) : \A j \in GameRows(g) \ {i} :
            \/ TextLT(interactions[i].occurredAt, interactions[j].occurredAt)
            \/ interactions[i].occurredAt = interactions[j].occurredAt /\ j < i

\* ORDER BY occurred_at ASC, id ASC LIMIT 1; no row is no error but nil.
FirstInteraction(g) ==
    IF GameRows(g) = {} THEN Nil
    ELSE CHOOSE i \in GameRows(g) : \A j \in GameRows(g) \ {i} : RowBefore(i, j)

\* Mutant: rows of the same second are taken in ascending order of their ids.
MutLastInteraction(g) ==
    IF GameRows(g) = {} THEN Nil
    ELSE CHOOSE i \in GameRows(g) : \A j \in GameRows(g) \ {i} :
            \/ TextLT(interactions[j].occurredAt, interactions[i].occurredAt)
            \/ interactions[i].occurredAt = interactions[j].occurredAt /\ i < j

\* ORDER BY occurred_at DESC, id DESC LIMIT 1.
LastInteraction(g) ==
    IF GameRows(g) = {} THEN Nil
    ELSE CHOOSE i \in GameRows(g) : \A j \in GameRows(g) \ {i} : RowBefore(j, i)

(***************************************************************************)
(* The client.  It asks for page after page, each where the last one       *)
(* ended, and stops at a page that is not full.                            *)
(***************************************************************************)
StartListing(g, p, limit) ==
    /\ pager.pc # "listing"
    /\ pager' = [NoPager EXCEPT !.pc = "listing", !.game = g, !.player = p,
                                !.limit = limit, !.start = Selected(g, p)]
    /\ UNCHANGED <<vars, by>>

FetchPage ==
    /\ pager.pc = "listing"
    /\ LET page == ListInteractions(pager.game, pager.player,
                                    pager.limit, pager.offset)
       IN pager' = [pager EXCEPT
                        !.pc = IF Cardinality(page) < pager.limit THEN "ended" ELSE "listing",
                        !.offset = @ + pager.limit,
                        !.seen = @ \cup page,
                        !.returned = @ + Cardinality(page)]
    /\ UNCHANGED <<vars, by>>

(***************************************************************************)
(* The composition.                                                        *)
(***************************************************************************)
PageInit ==
    /\ Init
    /\ by = << >>
    /\ pager = NoPager

\* The player of a row is the one whose command stores it.
InsertBy(p) ==
    /\ \E w \in Workers : Insert(w)
    /\ by' = Append(by, p)
    /\ UNCHANGED pager

\* Every other step of GameLog.
OtherStep ==
    /\ Next
    /\ interactions' = interactions
    /\ UNCHANGED <<by, pager>>

PageNext ==
    \/ \E p \in Players : InsertBy(p)
    \/ OtherStep
    \/ \E g \in Games, p \in Optional(Players), limit \in Limits :
            StartListing(g, p, limit)
    \/ FetchPage

PageSpec == PageInit /\ [][PageNext]_pageVars

(***************************************************************************)
(* Properties.                                                             *)
(***************************************************************************)

\* Type correctness of the client, and every row has its player.
PageTypeOK ==
    /\ TypeOK
    /\ by \in Seq(Players)
    /\ Len(by) = Len(interactions)
    /\ pager \in [pc : {"idle", "listing", "ended"}, game : Optional(Games),
                  player : Optional(Players), limit : Nat, offset : Nat,
                  start : SUBSET Nat, seen : SUBSET Nat, returned : Nat]

\* Rows that come in while a client pages push others to later pages, never
\* to earlier ones: whatever was there when it began and it has not seen yet
\* is still ahead of its offset.
NothingSlipsBehind ==
    LET ids == Selected(pager.game, pager.player)
    IN pager.pc = "listing" =>
            \A i \in pager.start \ pager.seen : Position(i, ids) >= pager.offset

\* A client that stops at a page that is not full has seen every row that was
\* there when it began, and was shown rows twice at most as often as rows
\* came in meanwhile.
ListingComplete ==
    LET ids == Selected(pager.game, pager.player)
    IN pager.pc = "ended" =>
            /\ pager.start \subseteq pager.seen
            /\ pager.returned - Cardinality(pager.seen) <= Cardinality(ids \ pager.start)

\* The earliest interaction of a game stays the earliest, since the trigger
\* refuses what would sort before it, even among writers in several zones.
FirstStays ==
    [][\A g \in Games :
        FirstInteraction(g) # Nil => FirstInteraction(g)' = FirstInteraction(g)]_pageVars

\* What /interactions?query=last and /shared say of a game at one moment
\* agrees: it is paused exactly if its latest interaction is a pause.
LastAgreesWithStatus ==
    \A g \in Games :
        LET i == LastInteraction(g)
        IN Current(g).status =
            CASE i = Nil -> "not_started"
              [] i # Nil -> IF interactions[i].action = "paused" THEN "paused" ELSE "playing"
=============================================================================
