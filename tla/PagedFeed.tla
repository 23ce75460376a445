----------------------------- MODULE PagedFeed -----------------------------
(***************************************************************************)
(* What a client may rely on when it pages through a result, whatever      *)
(* becomes of the build behind it: items are offered to it as the build    *)
(* publishes them and given to it a page at a time.  No item is given      *)
(* twice and none that was not offered; every page but the last brings     *)
(* something new; a result is declared complete only when all that was     *)
(* offered has been given, and then nothing more will be; a result that    *)
(* was given up stays so.                                                  *)
(***************************************************************************)
EXTENDS Naturals

CONSTANTS
    Requests,  \* requests for a result
    Items      \* keys of the items a result consists of

VARIABLE feed  \* what each request has been offered and given

Feed == [place : {"none", "ready", "reading", "complete", "dropped"},
         offered : SUBSET Items, given : SUBSET Items, page : Nat]

Closed == [place |-> "none", offered |-> {}, given |-> {}, page |-> 0]

Init == feed = [q \in Requests |-> Closed]

\* The result is there: with its only page, with the first of several, or with a read
\* that waits for the first.
Opens(f, g) ==
    /\ f = Closed /\ g \in Feed
    /\ \/ g.place = "complete" /\ g.given = g.offered /\ g.page = 1
       \/ g.place = "ready" /\ g.given \subseteq g.offered /\ g.given # {} /\ g.page = 2
       \/ g.place = "reading" /\ g.given = {} /\ g.page = 1

Open(f) == f.place \in {"ready", "reading"}

\* The build publishes more.
Grows(f, g) ==
    /\ f.place \notin {"none", "complete"}
    /\ f.offered \subseteq g.offered /\ g.offered \subseteq Items
    /\ g = [f EXCEPT !.offered = g.offered]

\* The cursor of the next page is presented, and the page awaited.
Claims(f, g) ==
    /\ f.place = "ready"
    /\ g = [f EXCEPT !.place = "reading"]

\* A page is given, and the cursor of the next one.
Pages(f, g) ==
    /\ Open(f)
    /\ \E P \in (SUBSET (f.offered \ f.given)) \ {{}} :
          g = [f EXCEPT !.place = "ready", !.given = @ \cup P, !.page = @ + 1]

\* The last page is given.
Completes(f, g) ==
    /\ Open(f)
    /\ g = [f EXCEPT !.place = "complete", !.given = f.offered]

\* The result is given up: cancelled, expired, invalidated, failed or shut down.
Drops(f, g) ==
    /\ Open(f)
    /\ g = [f EXCEPT !.place = "dropped"]

Moves(f, g) ==
    \/ g = f
    \/ Opens(f, g) \/ Grows(f, g) \/ Claims(f, g)
    \/ Pages(f, g) \/ Completes(f, g) \/ Drops(f, g)

\* One call may end the results of several clients, and one event reach several.
Next == \A q \in Requests : Moves(feed[q], feed'[q])

Spec == Init /\ [][Next]_feed
=============================================================================
