------------------------------- MODULE PagedWalk -------------------------------
(***************************************************************************)
(* A client walks a paginated list, newest first or oldest first, while the *)
(* list changes: paginate(), the getAll of a service and the page's meta.    *)
(*                                                                           *)
(* Each page is two statements, findMany and then count; the transaction     *)
(* around them runs at READ COMMITTED, so a change may fall between the two.  *)
(* Rows are ordered by their createdAt, which no two share here.               *)
(***************************************************************************)
EXTENDS Naturals, FiniteSets

CONSTANTS
    Rows,         \* rows that may be created (bound)
    Fields,       \* columns that ?searchFields may name, each as the set of
                  \* rows in which it contains what ?search asks for
    Limits,       \* what ?limit may ask for, 0 among it
    DefaultTake,  \* 10: what is taken without a ?limit
    Sorts,        \* "desc", the default, or "asc" (?sort=createdAt:asc)
    None

ASSUME FewRows == IsFiniteSet(Rows)
ASSUME LimitsAreNatural == Limits \subseteq Nat /\ DefaultTake \in Nat \ {0}
ASSUME NoneIsNoLimit == None \notin Nat
ASSUME SortsAreKnown == Sorts \subseteq {"desc", "asc"}
ASSUME FieldsFindRows == Fields \subseteq SUBSET Rows

VARIABLES
    table,     \* the rows that exist
    createdAt, \* of each row that was ever inserted, 0 of the others
    clock,     \* the last createdAt
    walk,      \* the client's query, and how far it is
    page,      \* the rows findMany returned for the current page
    seen,      \* client: the rows of the pages before
    initial,   \* history: the rows at the first request
    inserts, removes, repeats  \* history: counted while the walk lasts

vars == <<table, createdAt, clock, walk, page, seen, initial, inserts, removes,
          repeats>>
rows == <<table, createdAt, clock>>

\* page is None in the first request, which need not name one.
Walk == [pc : {"idle", "find", "count", "done"}, page : Nat \cup {None},
         limit : Limits \cup {None}, sort : Sorts,
         search : BOOLEAN, fields : SUBSET Fields]

\* paginate's take: an absent limit is the default, and "0" is 0.
Take(w) == IF w.limit = None THEN DefaultTake ELSE w.limit

TypeOK ==
    /\ table \subseteq Rows /\ createdAt \in [Rows -> Nat] /\ clock \in Nat
    /\ walk \in Walk
    /\ page \subseteq Rows /\ Cardinality(page) <= Take(walk)
    /\ seen \subseteq Rows /\ initial \subseteq Rows
    /\ {inserts, removes, repeats} \subseteq Nat

Init ==
    /\ table = {} /\ createdAt = [r \in Rows |-> 0] /\ clock = 0
    /\ walk \in [pc : {"idle"}, page : {None}, limit : Limits \cup {None},
                 sort : Sorts, search : BOOLEAN, fields : SUBSET Fields]
    /\ page = {} /\ seen = {} /\ initial = {}
    /\ inserts = 0 /\ removes = 0 /\ repeats = 0

\* Bound: no more repeats are counted than are one too many.
RepeatsCap == Cardinality(Rows) + 1

Walking == walk.pc \in {"find", "count"}

\* Mutant: pages counted from 0.
SkipFromZero(w) == IF w.page = None THEN 0 ELSE w.page * Take(w)

\* Mutant: one row too few is skipped, for a page's overlap.
SkipOneLess(w) == IF w.page = None THEN 0 ELSE (w.page - 1) * Take(w) - 1

\* paginate's skip.
Skip(w) == IF w.page = None THEN 0 ELSE (w.page - 1) * Take(w)

\* paginate's where: a search counts only with fields to search in, and a row
\* is found when one of them contains it.
Found(w, r) == w.search /\ w.fields # {} => \E f \in w.fields : r \in f

Matching(w) == {r \in table : Found(w, r)}

\* paginate's orderBy.
Precedes(w, q, r) ==
    IF w.sort = "desc" THEN createdAt[q] > createdAt[r]
                       ELSE createdAt[q] < createdAt[r]

\* How many of the rows that are found come before row r.
Place(w, r) == Cardinality({q \in Matching(w) : Precedes(w, q, r)})

\* Mutant: one row beyond the page is taken, to see if there is a next.
FindOneMore(w) ==
    {r \in Matching(w) : /\ Skip(w) <= Place(w, r)
                         /\ Place(w, r) <= Skip(w) + Take(w)}

\* findMany with where, orderBy, skip and take.
Find(w) ==
    {r \in Matching(w) : /\ Skip(w) <= Place(w, r)
                         /\ Place(w, r) < Skip(w) + Take(w)}

\* Mutant: meta.currentPage counts from 0.
CurrentPageFromZero(w) == Skip(w) \div Take(w)

\* meta.currentPage of paginatedResponse.
CurrentPage(w) == Skip(w) \div Take(w) + 1

\* meta.lastPage of paginatedResponse.
LastPage(total, w) == (total + Take(w) - 1) \div Take(w)

\* With take 0 both are no numbers: 0 / 0 and total / 0 become null in the
\* answer, and no page is after null.
HasNext(total, w) == Take(w) # 0 /\ CurrentPage(w) < LastPage(total, w)

-----------------------------------------------------------------------------

\* A row is created, with a createdAt after all others.
Insert(r) ==
    /\ createdAt[r] = 0
    /\ table' = table \cup {r}
    /\ clock' = clock + 1
    /\ createdAt' = [createdAt EXCEPT ![r] = clock + 1]
    /\ inserts' = IF Walking THEN inserts + 1 ELSE inserts
    /\ UNCHANGED <<walk, page, seen, initial, removes, repeats>>

\* A row is deleted.
RemoveRow(r) ==
    /\ r \in table
    /\ table' = table \ {r}
    /\ removes' = IF Walking THEN removes + 1 ELSE removes
    /\ UNCHANGED <<createdAt, clock, walk, page, seen, initial, inserts, repeats>>

\* The client asks for the first page.
Start ==
    /\ walk.pc = "idle"
    /\ walk' = [walk EXCEPT !.pc = "find"]
    /\ initial' = Matching(walk)
    /\ UNCHANGED <<rows, page, seen, inserts, removes, repeats>>

FindMany ==
    /\ walk.pc = "find"
    /\ page' = Find(walk)
    /\ walk' = [walk EXCEPT !.pc = "count"]
    /\ UNCHANGED <<rows, seen, initial, inserts, removes, repeats>>

AtMost(n, cap) == IF n <= cap THEN n ELSE cap

\* count, the response, and the client's next request while there are pages.
CountAndRespond ==
    /\ walk.pc = "count"
    /\ seen' = seen \cup page
    /\ repeats' = AtMost(repeats + Cardinality(page \cap seen), RepeatsCap)
    /\ page' = {}
    /\ walk' = IF HasNext(Cardinality(Matching(walk)), walk)
               THEN [walk EXCEPT !.pc = "find", !.page = CurrentPage(walk) + 1]
               ELSE [walk EXCEPT !.pc = "done"]
    /\ UNCHANGED <<rows, initial, inserts, removes>>

Next ==
    \/ \E r \in Rows : Insert(r) \/ RemoveRow(r)
    \/ Start \/ FindMany \/ CountAndRespond

\* The client goes on as long as it is told of another page.
Spec == Init /\ [][Next]_vars /\ WF_vars(FindMany) /\ WF_vars(CountAndRespond)

-----------------------------------------------------------------------------
(* What must hold *)

\* A removal moves the rows behind it one place up, and one of them may slip
\* from the next page into one already read: a finished walk misses at most as
\* many of the rows it set out to read as were removed under it. (A client
\* that asks for pages of 0 rows reads none.)
MissesAtMostRemoved ==
    walk.pc = "done" /\ Take(walk) # 0 =>
        Cardinality((initial \cap table) \ seen) <= removes

\* An insertion moves the rows behind it one place down: no more rows are
\* returned twice than were inserted, and none at all oldest first.
RepeatsAtMostInserted ==
    repeats <= IF walk.sort = "desc" THEN inserts ELSE 0

\* A walk ends when the list grows no more, whatever was inserted and removed
\* under it before, also when its pages have no rows.
WalkEnds == (walk.pc = "find") ~> (walk.pc = "done")

-----------------------------------------------------------------------------
(* The inductive invariant behind them *)

\* No two rows have the same createdAt, and those that the client knows of were
\* created.
RowsDated ==
    /\ \A r \in Rows : createdAt[r] <= clock
    /\ \A r \in table : createdAt[r] # 0
    /\ \A q, r \in table : q # r => createdAt[q] # createdAt[r]
    /\ \A r \in page \cup seen \cup initial : createdAt[r] # 0

\* How far the walk has come: rows with a lower place have been passed.
Passed == IF walk.pc = "count" THEN Skip(walk) + Take(walk) ELSE Skip(walk)

\* The rows that were there to be read, and were passed without being read.
MissedSoFar ==
    {r \in (initial \cap table) \ (seen \cup page) : Place(walk, r) < Passed}

\* The rows that were read and stand before the walk again.
ToRepeat ==
    {r \in Matching(walk) \cap (seen \cup page) : Passed <= Place(walk, r)}

Allowed == IF walk.sort = "desc" THEN inserts ELSE 0

WalkInv ==
    /\ TypeOK
    /\ RowsDated
    /\ walk.page = None \/ walk.page # 0
    /\ walk.pc # "count" => page = {}
    /\ initial \subseteq {r \in Rows : Found(walk, r)}
    /\ walk.pc = "idle" => walk.page = None /\ seen = {} /\ initial = {}
    /\ Walking => /\ Cardinality(MissedSoFar) <= removes
                  /\ repeats + Cardinality(page \cap seen) + Cardinality(ToRepeat)
                        <= Allowed
    /\ MissesAtMostRemoved
    /\ RepeatsAtMostInserted
===============================================================================
