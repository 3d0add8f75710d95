------------------------------- MODULE EventBoard -------------------------------
(***************************************************************************)
(* The events of organizers and what is shown of them: create and update    *)
(* with isFeatured, delete, and the routes that answer lists and analytics.  *)
(*                                                                           *)
(* Requests that write run two statements when they feature an event and one *)
(* otherwise. A view runs two statements that count rows, after it has read  *)
(* the event where it reads one; Prisma's transaction around some of them is *)
(* at READ COMMITTED, so writes may fall between any two.                     *)
(*                                                                           *)
(* Seats and certificates are counted, not named: how they come to be is     *)
(* Enrollment and Certificates. Only one view is followed at a time, as       *)
(* views change nothing.                                                      *)
(***************************************************************************)
EXTENDS Naturals, FiniteSets, Functions

CONSTANTS
    Events,     \* pool of events (bound)
    Orgs,
    Writers,    \* slots for requests that create or update an event
    MaxSeats,   \* bound on the seats at an event
    Nobody

ASSUME FewEvents == IsFiniteSet(Events)
ASSUME SeatsAreNatural == MaxSeats \in Nat
ASSUME NobodyIsNoName == Nobody \notin Events \cup Orgs

VARIABLES
    board,      \* events, with the number of their seats and certificates
    writer,     \* create and update requests in flight
    view        \* the route that shows events

boardVars == <<board, writer, view>>

EventRow == [state : {"unused", "live", "deleted"}, org : Orgs \cup {Nobody},
             featured : BOOLEAN, phase : {"upcoming", "running", "ended"},
             seats : 0..MaxSeats, issued : 0..MaxSeats]
\* overlapped: history, whether another request featured events meanwhile.
Writer == [pc : {"idle", "create", "update"}, org : Orgs \cup {Nobody},
           event : Events \cup {Nobody}, overlapped : BOOLEAN]
\* The lists are named by their routes, "event" is findOne of the organizer's
\* event service, "profile" the analytics of an organizer and "unknown" those
\* that are answered for an id or a subdomain that nobody has.
Lists == {"own", "public", "upcoming", "running", "joinees", "certificates",
          "issued"}
Kinds == Lists \cup {"event", "profile", "unknown"}
\* quiet, joins: history, whether nothing was written since the view began, and
\* how many seats were.
View == [pc : {"idle", "first", "second", "answer"}, kind : Kinds,
         of : Events \cup Orgs \cup {Nobody}, events : SUBSET Events,
         first : Nat, second : Nat, quiet : BOOLEAN, joins : Nat]

BoardTypeOK ==
    /\ board \in [Events -> EventRow]
    /\ \A e \in Events : board[e].issued <= board[e].seats
    /\ writer \in [Writers -> Writer]
    /\ view \in View

NoEvent == [state |-> "unused", org |-> Nobody, featured |-> FALSE,
            phase |-> "upcoming", seats |-> 0, issued |-> 0]
NoRequest == [pc |-> "idle", org |-> Nobody, event |-> Nobody,
              overlapped |-> FALSE]
NoView == [pc |-> "idle", kind |-> "own", of |-> Nobody, events |-> {},
           first |-> 0, second |-> 0, quiet |-> TRUE, joins |-> 0]

BoardInit ==
    /\ board = [e \in Events |-> NoEvent]
    /\ writer = [w \in Writers |-> NoRequest]
    /\ view = NoView

Shown == {e \in Events : board[e].state = "live"}
EventsOf(o) == {e \in Shown : board[e].org = o}
Featured(o) == {e \in EventsOf(o) : board[e].featured}

\* What a view notices of a statement that writes, with n new seats.
Written(n) ==
    view' = IF view.pc = "idle" THEN view
            ELSE [view EXCEPT !.quiet = FALSE, !.joins = @ + n]

-----------------------------------------------------------------------------
(* POST organizer/event and PUT organizer/event/:id *)

EndWrite(w) == writer' = [writer EXCEPT ![w] = NoRequest]
InsertEvent(e, o, featured) ==
    /\ board[e].state = "unused"
    /\ board' = [board EXCEPT ![e] =
          [NoEvent EXCEPT !.state = "live", !.org = o, !.featured = featured]]
    /\ Written(0)

\* The requests that have cleared and not yet written their event overlap the
\* one that clears now.
Overlap(w) == {q \in Writers \ {w} : writer[q].pc # "idle"}
BeginWrite(w, pc, o, e) ==
    writer' = [q \in Writers |->
        IF q = w THEN [pc |-> pc, org |-> o, event |-> e,
                       overlapped |-> Overlap(w) # {}]
        ELSE IF q \in Overlap(w) THEN [writer[q] EXCEPT !.overlapped = TRUE]
        ELSE writer[q]]

\* Mutant: one featured event is cleared, as if there never were several.
ClearOne(o) ==
    IF Featured(o) = {} THEN board' = board
    ELSE \E e \in Featured(o) :
            board' = [board EXCEPT ![e].featured = FALSE]

\* updateMany where organizerId and isFeatured.
ClearFeatured(o) ==
    board' = [e \in Events |-> IF e \in Featured(o)
                               THEN [board[e] EXCEPT !.featured = FALSE]
                               ELSE board[e]]

\* Without isFeatured the insert is the first statement.
CreatePlain(e, o) ==
    /\ InsertEvent(e, o, FALSE)
    /\ UNCHANGED writer

CreateFeatured(w, o) ==
    /\ writer[w].pc = "idle"
    /\ ClearFeatured(o) /\ Written(0)
    /\ BeginWrite(w, "create", o, Nobody)

SetCreated(w) ==
    /\ writer[w].pc = "create"
    /\ \E e \in Events : InsertEvent(e, writer[w].org, TRUE)
    /\ EndWrite(w)

\* isFeatured false takes the event off; undefined leaves it as it is, and
\* changes nothing here. The event may be any that exists.
UpdatePlain(e) ==
    /\ e \in Shown
    /\ board' = [board EXCEPT ![e].featured = FALSE]
    /\ Written(0)
    /\ UNCHANGED writer

UpdateFeatured(w, o, e) ==
    /\ writer[w].pc = "idle"
    /\ ClearFeatured(o) /\ Written(0)
    /\ BeginWrite(w, "update", o, e)

\* Update by id: an error when the event has been deleted. The update leaves the
\* event's organizer as it is.
SetUpdated(w) ==
    /\ writer[w].pc = "update"
    /\ LET e == writer[w].event
       IN  IF e \in Shown
           THEN board' = [board EXCEPT ![e].featured = TRUE] /\ Written(0)
           ELSE UNCHANGED <<board, view>>
    /\ EndWrite(w)

\* The second statement fails (a handle in use, the database), or the process
\* dies: what was cleared stays cleared.
WriteFails(w) ==
    /\ writer[w].pc # "idle"
    /\ EndWrite(w)
    /\ UNCHANGED <<board, view>>

\* DELETE organizer/event/:id takes seats and certificates along.
DeleteEvent(e) ==
    /\ e \in Shown
    /\ board' = [board EXCEPT ![e] = [NoEvent EXCEPT !.state = "deleted"]]
    /\ Written(0)
    /\ UNCHANGED writer

-----------------------------------------------------------------------------
(* What others write *)

TakeSeat(e) ==
    /\ e \in Shown /\ board[e].seats < MaxSeats
    /\ board' = [board EXCEPT ![e].seats = @ + 1]
    /\ Written(1)
    /\ UNCHANGED writer

\* A certificate is of a seat, and one for each attendee (Certificates).
IssueCertificate(e) ==
    /\ e \in Shown /\ board[e].issued < board[e].seats
    /\ board' = [board EXCEPT ![e].issued = @ + 1]
    /\ Written(0)
    /\ UNCHANGED writer

\* startDate and endDate pass.
TimePasses(e) ==
    /\ e \in Shown /\ board[e].phase # "ended"
    /\ board' = [board EXCEPT ![e].phase =
                    IF @ = "upcoming" THEN "running" ELSE "ended"]
    /\ Written(0)
    /\ UNCHANGED writer

-----------------------------------------------------------------------------
(* The views *)

\* The number of rows that each list's where clause counts.
OwnEvents(o) == Cardinality(EventsOf(o))
\* Without an organizerId, which Prisma takes for no condition, everyone's.
PublicEvents(o) == IF o = Nobody THEN Cardinality(Shown) ELSE OwnEvents(o)
UpcomingEvents == Cardinality({e \in Shown : board[e].phase = "upcoming"})
RunningEvents == Cardinality({e \in Shown : board[e].phase = "running"})
Joinees(e) == board[e].seats
IssuedAt(e) == board[e].issued

\* Mutant: count forgets the organizer.
TotalOfAll(v) ==
    CASE v.kind \in {"own", "public"} -> Cardinality(Shown)
      [] v.kind = "upcoming" -> UpcomingEvents
      [] v.kind = "running" -> RunningEvents
      [] v.kind = "joinees" -> Joinees(v.of)
      [] v.kind \in {"certificates", "issued"} -> IssuedAt(v.of)

\* A list's count.
Total(v) ==
    CASE v.kind = "own" -> OwnEvents(v.of)
      [] v.kind = "public" -> PublicEvents(v.of)
      [] v.kind = "upcoming" -> UpcomingEvents
      [] v.kind = "running" -> RunningEvents
      [] v.kind = "joinees" -> Joinees(v.of)
      [] v.kind \in {"certificates", "issued"} -> IssuedAt(v.of)

\* A list's findMany, all its pages together.
Listed(v) ==
    CASE v.kind \in {"own", "public"} ->
            Cardinality({e \in Shown : v.of \in {Nobody, board[e].org}})
      [] v.kind \in {"upcoming", "running"} ->
            Cardinality({e \in Shown : board[e].phase = v.kind})
      [] v.kind = "joinees" -> board[v.of].seats
      [] v.kind \in {"certificates", "issued"} -> board[v.of].issued

SeatsAt(es) == SumFunctionOnSet([e \in Events |-> board[e].seats], es)
CertificatesAt(es) == SumFunctionOnSet([e \in Events |-> board[e].issued], es)

OpenView(kind, of, es) ==
    /\ view.pc = "idle"
    /\ view' = [NoView EXCEPT !.pc = "first", !.kind = kind, !.of = of,
                              !.events = es]
    /\ UNCHANGED <<board, writer>>

\* GET of a list: none asks whether the organizer or the event is there.
ShowOwn == \E o \in Orgs : OpenView("own", o, {})
ShowPublic == \E o \in Orgs \cup {Nobody} : OpenView("public", o, {})
ShowUpcoming == OpenView("upcoming", Nobody, {})
ShowRunning == OpenView("running", Nobody, {})
ShowJoinees == \E e \in Events : OpenView("joinees", e, {})
ShowCertificates == \E e \in Events : OpenView("certificates", e, {})
\* GET organizer/certificate/:eventId, of the certificate service.
ShowIssued == \E e \in Events : OpenView("issued", e, {})

\* GET organizer/event/:id reads the event; without it, 'Event not found'.
ShowEvent == \E e \in Shown : OpenView("event", e, {e})

\* GET organizer/profile and organizer/:id: the events of the organizer; their
\* seats and certificates are further statements. Without an organizer of that
\* id, organizerId is undefined, which is no condition: the events are everyone's.
ShowProfile ==
    \/ \E o \in Orgs : OpenView("profile", o, EventsOf(o))
    \/ OpenView("unknown", Nobody, Shown)

\* GET organizer/by-domain/:domain answers the same for a subdomain, also for one
\* that nobody has. (A domain of an organizer's own gets no analytics.)
ShowDomain == ShowProfile

\* The rows of a list, or the participants.
FirstCount ==
    /\ view.pc = "first"
    /\ view' = [view EXCEPT !.pc = "second",
                  !.first = IF view.kind \in Lists THEN Listed(view)
                            ELSE SeatsAt(view.events)]
    /\ UNCHANGED <<board, writer>>

\* Mutant: certificate.count without where.
SecondCountOfAll ==
    /\ view.pc = "second"
    /\ view' = [view EXCEPT !.pc = "answer",
                  !.second = IF view.kind \in Lists THEN Total(view)
                             ELSE CertificatesAt(Events)]
    /\ UNCHANGED <<board, writer>>

\* The total of a list, or the certificates. (The revenue, a third count of the
\* event's view, is left out.)
SecondCount ==
    /\ view.pc = "second"
    /\ view' = [view EXCEPT !.pc = "answer",
                  !.second = IF view.kind \in Lists THEN Total(view)
                             ELSE CertificatesAt(view.events)]
    /\ UNCHANGED <<board, writer>>

CloseView ==
    /\ view.pc = "answer"
    /\ view' = NoView
    /\ UNCHANGED <<board, writer>>

-----------------------------------------------------------------------------

WriterStep(w) ==
    \/ SetCreated(w) \/ SetUpdated(w) \/ WriteFails(w)
    \/ \E o \in Orgs :
          CreateFeatured(w, o) \/ \E e \in Events : UpdateFeatured(w, o, e)

OthersStep(e) ==
    \/ UpdatePlain(e) \/ DeleteEvent(e)
    \/ TakeSeat(e) \/ IssueCertificate(e) \/ TimePasses(e)
    \/ \E o \in Orgs : CreatePlain(e, o)

ViewStep ==
    \/ ShowOwn \/ ShowPublic \/ ShowUpcoming \/ ShowRunning
    \/ ShowJoinees \/ ShowCertificates \/ ShowIssued
    \/ ShowEvent \/ ShowProfile \/ ShowDomain
    \/ FirstCount \/ SecondCount \/ CloseView

BoardNext ==
    \/ \E w \in Writers : WriterStep(w)
    \/ \E e \in Events : OthersStep(e)
    \/ ViewStep

BoardSpec == BoardInit /\ [][BoardNext]_boardVars

-----------------------------------------------------------------------------
(* What must hold *)

\* Featuring an event of one's own, when no other request features one between
\* the two statements, leaves it the only featured one, also after overlapping
\* requests had left several.
FeaturedAlone ==
    [][\A w \in Writers, o \in Orgs :
          writer[w].org = o /\ ~writer[w].overlapped =>
              /\ SetCreated(w) => Cardinality(Featured(o)') = 1
              /\ SetUpdated(w) /\ writer[w].event \in EventsOf(o)
                    => Featured(o)' = {writer[w].event}]_boardVars

\* An event's view never shows more certificates than participants but for
\* seats that were taken while it was read: its certificateRate is over 100
\* only then, and the event's deletion in between does not cause it.
RateExplainedByJoins ==
    view.pc = "answer" /\ view.kind = "event" =>
        view.second <= view.first + view.joins

\* A view during which nothing was written agrees with itself and with the
\* tables: a list has as many rows as its total says, and the totals of an
\* organizer are those of all its events and of no other's.
QuietViewsAgree ==
    view.pc = "answer" /\ view.quiet =>
        /\ view.kind \in Lists => view.first = view.second
        /\ view.kind = "profile" =>
              /\ view.events = EventsOf(view.of)
              /\ view.second <= view.first

-----------------------------------------------------------------------------
(* The inductive invariant behind FeaturedAlone *)

\* A request that nobody overlapped is the only one between its statements, and
\* what it has cleared is still clear.
LoneWriter ==
    \A w \in Writers :
        writer[w].pc # "idle" /\ ~writer[w].overlapped =>
            /\ Overlap(w) = {}
            /\ Featured(writer[w].org) = {}

BoardInv ==
    /\ board \in [Events -> EventRow]
    /\ writer \in [Writers -> Writer]
    /\ LoneWriter

-----------------------------------------------------------------------------
(* The inductive invariant behind what the views show *)

\* A view is of what was asked for, and a profile of the events it found.
AskedFor ==
    /\ view.kind \in {"own", "profile"} => view.of \in Orgs
    /\ view.kind = "public" => view.of \in Orgs \cup {Nobody}
    /\ view.kind \in {"joinees", "certificates", "issued"} => view.of \in Events
    /\ view.kind = "event" => view.of \in Events /\ view.events = {view.of}
    /\ view.kind = "profile" /\ view.quiet => view.events = EventsOf(view.of)

\* Nobody has joined an event but before it was counted or while the view looks
\* on, and while nothing is written what was counted is what there is.
FirstExplained ==
    /\ view.kind = "event" =>
          board[view.of].seats <= view.first + view.joins
    /\ view.quiet =>
          view.first = IF view.kind \in Lists THEN Listed(view)
                       ELSE SeatsAt(view.events)

SecondExplained ==
    /\ view.kind = "event" => view.second <= view.first + view.joins
    /\ view.quiet =>
          view.second = IF view.kind \in Lists THEN Total(view)
                        ELSE CertificatesAt(view.events)

ViewInv ==
    /\ BoardTypeOK
    /\ view.pc # "idle" => AskedFor
    /\ view.pc \in {"second", "answer"} => FirstExplained
    /\ view.pc = "answer" => SecondExplained
===============================================================================
