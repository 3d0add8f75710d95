--------------------------- MODULE EventBoardProofs ---------------------------
(***************************************************************************)
(* The featured events of EventBoard and what its views show, for every     *)
(* value of the constants.                                                  *)
(***************************************************************************)
EXTENDS EventBoard, FiniteSetTheorems, WellFoundedInduction, TLAPS

-----------------------------------------------------------------------------
(* The two statements *)

\* Steps that feature nothing and begin no request: the requests are the same
\* and no event becomes featured, or one request ends.
Calm ==
    /\ \A e \in Events :
          /\ board'[e].featured => board[e].featured
          /\ board'[e].state = "live" /\ board'[e].featured =>
                board[e].state = "live" /\ board'[e].org = board[e].org
    /\ \/ writer' = writer
       \/ \E q \in Writers : EndWrite(q)

\* Calm steps leave a lone request alone, and what it cleared clear.
LEMMA CalmKeepsLone ==
    ASSUME BoardInv, Calm
    PROVE  LoneWriter'
<1>1. /\ writer \in [Writers -> Writer] /\ LoneWriter
  BY DEF BoardInv
<1>2. ASSUME NEW w \in Writers, writer'[w].pc # "idle"
      PROVE  writer'[w] = writer[w]
  BY <1>1, <1>2 DEF Calm, EndWrite, NoRequest
<1>3. ASSUME NEW w \in Writers PROVE Overlap(w)' \subseteq Overlap(w)
  BY <1>2 DEF Overlap
<1>4. ASSUME NEW o PROVE Featured(o)' \subseteq Featured(o)
  BY DEF Calm, Featured, EventsOf, Shown
<1>5. ASSUME NEW w \in Writers, writer'[w].pc # "idle", ~writer'[w].overlapped
      PROVE  Overlap(w)' = {} /\ Featured(writer[w].org)' = {}
  <2>1. PICK o : o = writer[w].org
    OBVIOUS
  <2>2. writer'[w] = writer[w]
    BY <1>2, <1>5
  <2>3. Overlap(w) = {} /\ Featured(o) = {}
    BY <1>1, <1>5, <2>1, <2>2 DEF LoneWriter
  <2>4. Featured(o)' = {}
    BY <1>4, <2>3
  <2> QED  BY <1>3, <2>1, <2>2, <2>3, <2>4
<1> QED  BY <1>5 DEF LoneWriter

\* A request that begins clears what is featured, and marks whom it overlaps.
LEMMA BeginningIsMarked ==
    ASSUME BoardInv, NEW w \in Writers, NEW pc, NEW o, NEW e,
           writer[w].pc = "idle", pc # "idle",
           BeginWrite(w, pc, o, e), ClearFeatured(o)
    PROVE  LoneWriter'
<1>1. /\ writer \in [Writers -> Writer] /\ board \in [Events -> EventRow]
      /\ LoneWriter
  BY DEF BoardInv
<1>2. Featured(o)' = {}
  BY <1>1 DEF ClearFeatured, Featured, EventsOf, Shown, EventRow
<1>3. writer'[w] = [pc |-> pc, org |-> o, event |-> e,
                    overlapped |-> Overlap(w) # {}]
  BY DEF BeginWrite
<1>4. ASSUME NEW q \in Writers \ {w}, writer'[q].pc # "idle"
      PROVE  writer'[q].overlapped
  <2>1. q \in Overlap(w)
    BY <1>4 DEF BeginWrite, Overlap
  <2>2. writer[q] \in Writer /\ writer'[q] = [writer[q] EXCEPT !.overlapped = TRUE]
    BY <1>1, <1>4, <2>1 DEF BeginWrite
  <2> QED  BY <2>2 DEF Writer
<1>5. ASSUME ~writer'[w].overlapped PROVE Overlap(w)' = {}
  <2>1. Overlap(w) = {}
    <3>1. ASSUME Overlap(w) # {} PROVE writer'[w].overlapped
      <4>1. (Overlap(w) # {}) = TRUE
        BY <3>1
      <4>2. writer'[w] = [pc |-> pc, org |-> o, event |-> e, overlapped |-> TRUE]
        BY <1>3, <4>1, Zenon
      <4> QED  BY <4>2
    <3> QED  BY <1>5, <3>1
  <2>2. \A q \in Writers \ {w} : writer'[q] = writer[q]
    BY <2>1 DEF BeginWrite
  <2> QED  BY <2>1, <2>2 DEF Overlap
<1> QED  BY <1>2, <1>3, <1>4, <1>5 DEF LoneWriter

\* When a request ends that overlapped others, those know.
LEMMA EndingIsKnown ==
    ASSUME BoardInv, NEW w \in Writers, writer[w].pc # "idle", EndWrite(w)
    PROVE  \A q \in Writers : writer'[q].pc # "idle" => writer'[q].overlapped
<1>1. /\ writer \in [Writers -> Writer] /\ LoneWriter
  BY DEF BoardInv
<1>2. ASSUME NEW q \in Writers, writer'[q].pc # "idle"
      PROVE  writer'[q].overlapped
  <2>1. q # w /\ writer'[q] = writer[q]
    BY <1>1, <1>2 DEF EndWrite, NoRequest
  <2>2. w \in Overlap(q)
    BY <2>1 DEF Overlap
  <2> QED  BY <1>1, <1>2, <2>1, <2>2 DEF LoneWriter
<1> QED  BY <1>2

-----------------------------------------------------------------------------
(* The invariant *)

\* Every step leaves the tables and the requests typed.
LEMMA TypesStay ==
    ASSUME BoardInv, [BoardNext]_boardVars
    PROVE  board' \in [Events -> EventRow] /\ writer' \in [Writers -> Writer]
<1> DEFINE Goal ==
        board' \in [Events -> EventRow] /\ writer' \in [Writers -> Writer]
<1>1. /\ board \in [Events -> EventRow] /\ writer \in [Writers -> Writer]
      /\ MaxSeats \in Nat
  BY SeatsAreNatural DEF BoardInv
<1>2. NoRequest \in Writer
  BY DEF NoRequest, Writer
<1>3. ASSUME NEW o \in Orgs \cup {Nobody}, NEW f \in BOOLEAN
      PROVE  /\ [NoEvent EXCEPT !.state = "live", !.org = o, !.featured = f]
                    \in EventRow
             /\ [NoEvent EXCEPT !.state = "deleted"] \in EventRow
  <2>1. 0 \in 0..MaxSeats
    BY <1>1
  <2>2. NoEvent \in EventRow
    BY <2>1 DEF NoEvent, EventRow
  <2>3. PICK row : row = NoEvent
    OBVIOUS
  <2>4. /\ [row EXCEPT !.state = "live", !.org = o, !.featured = f] \in EventRow
        /\ [row EXCEPT !.state = "deleted"] \in EventRow
    BY <2>2, <2>3 DEF EventRow
  <2> QED  BY <2>3, <2>4
<1>4. ASSUME NEW e \in Events, NEW o \in Orgs \cup {Nobody}, NEW f \in BOOLEAN,
             InsertEvent(e, o, f)
      PROVE  board' \in [Events -> EventRow]
  BY <1>1, <1>3, <1>4 DEF InsertEvent
<1>5. ASSUME NEW o, ClearFeatured(o) PROVE board' \in [Events -> EventRow]
  <2>1. \A e \in Events : [board[e] EXCEPT !.featured = FALSE] \in EventRow
    BY <1>1 DEF EventRow
  <2> QED  BY <1>1, <1>5, <2>1 DEF ClearFeatured
<1>6. ASSUME NEW w \in Writers, EndWrite(w)
      PROVE  writer' \in [Writers -> Writer]
  BY <1>1, <1>2, <1>6 DEF EndWrite
<1>7. ASSUME NEW w \in Writers, NEW pc \in {"create", "update"}, NEW o \in Orgs,
             NEW e \in Events \cup {Nobody}, BeginWrite(w, pc, o, e)
      PROVE  writer' \in [Writers -> Writer]
  BY <1>1, <1>7 DEF BeginWrite, Writer
<1>8. ASSUME NEW w \in Writers, NEW o \in Orgs, NEW e \in Events,
             CreateFeatured(w, o) \/ UpdateFeatured(w, o, e)
      PROVE  Goal
  BY <1>5, <1>7, <1>8 DEF CreateFeatured, UpdateFeatured
<1>9. ASSUME NEW w \in Writers, SetCreated(w) PROVE Goal
  <2>1. PICK e \in Events : InsertEvent(e, writer[w].org, TRUE)
    BY <1>9 DEF SetCreated
  <2>2. writer[w].org \in Orgs \cup {Nobody}
    BY <1>1 DEF Writer
  <2>3. board' \in [Events -> EventRow]
    BY <1>4, <2>1, <2>2
  <2> QED  BY <1>6, <1>9, <2>3 DEF SetCreated
<1>10. ASSUME NEW w \in Writers, SetUpdated(w) PROVE Goal
  <2>1. PICK e : e = writer[w].event
    OBVIOUS
  <2>2. ASSUME e \in Shown PROVE board' \in [Events -> EventRow]
    <3>1. e \in Events /\ board' = [board EXCEPT ![e].featured = TRUE]
      BY <1>10, <2>1, <2>2 DEF SetUpdated, Shown
    <3>2. [board[e] EXCEPT !.featured = TRUE] \in EventRow
      BY <1>1, <3>1 DEF EventRow
    <3> QED  BY <1>1, <3>1, <3>2
  <2>3. ASSUME e \notin Shown PROVE board' = board
    BY <1>10, <2>1, <2>3 DEF SetUpdated
  <2> QED  BY <1>1, <1>6, <1>10, <2>2, <2>3 DEF SetUpdated
<1>11. ASSUME NEW w \in Writers, WriteFails(w) PROVE Goal
  BY <1>1, <1>6, <1>11 DEF WriteFails
<1>12. ASSUME NEW e \in Events, OthersStep(e) PROVE Goal
  <2>1. CASE \E o \in Orgs : CreatePlain(e, o)
    BY <1>1, <1>4, <2>1 DEF CreatePlain
  <2>2. CASE UpdatePlain(e)
    BY <1>1, <2>2 DEF UpdatePlain, EventRow
  <2>3. CASE DeleteEvent(e)
    <3>1. [NoEvent EXCEPT !.state = "deleted"] \in EventRow
      BY <1>3
    <3> QED  BY <1>1, <2>3, <3>1 DEF DeleteEvent
  <2>4. CASE TakeSeat(e)
    <3>1. board[e].seats + 1 \in 0..MaxSeats
      BY <1>1, <2>4 DEF TakeSeat, EventRow
    <3> QED  BY <1>1, <2>4, <3>1 DEF TakeSeat, EventRow
  <2>5. CASE IssueCertificate(e)
    <3>1. board[e].issued + 1 \in 0..MaxSeats
      BY <1>1, <2>5 DEF IssueCertificate, EventRow
    <3> QED  BY <1>1, <2>5, <3>1 DEF IssueCertificate, EventRow
  <2>6. CASE TimePasses(e)
    BY <1>1, <2>6 DEF TimePasses, EventRow
  <2> QED  BY <1>12, <2>1, <2>2, <2>3, <2>4, <2>5, <2>6 DEF OthersStep
<1>13. ASSUME ViewStep \/ UNCHANGED boardVars PROVE Goal
  BY <1>1, <1>13
     DEF ViewStep, ShowOwn, ShowPublic, ShowUpcoming, ShowRunning, ShowJoinees,
         ShowCertificates, ShowIssued, ShowEvent, ShowProfile, ShowDomain,
         OpenView, FirstCount, SecondCount, CloseView, boardVars
<1>14. ASSUME NEW w \in Writers, WriterStep(w) PROVE Goal
  <2>1. CASE SetCreated(w) \/ SetUpdated(w) \/ WriteFails(w)
    BY <1>9, <1>10, <1>11, <2>1
  <2>2. ASSUME NEW o \in Orgs, CreateFeatured(w, o) PROVE Goal
    BY <1>5, <1>7, <2>2 DEF CreateFeatured
  <2>3. ASSUME NEW o \in Orgs, NEW e \in Events, UpdateFeatured(w, o, e)
        PROVE  Goal
    BY <1>8, <2>3
  <2> QED  BY <1>14, <2>1, <2>2, <2>3 DEF WriterStep
<1> QED  BY <1>12, <1>13, <1>14 DEF BoardNext

\* What others write, and the views, are calm.
LEMMA OthersAreCalm ==
    ASSUME BoardInv, NEW e \in Events, OthersStep(e)
    PROVE  Calm
<1>1. board \in [Events -> EventRow]
  BY DEF BoardInv
<1>2. ASSUME NEW row, row.featured = FALSE,
             board' = [board EXCEPT ![e] = row], writer' = writer
      PROVE  Calm
  BY <1>1, <1>2 DEF Calm
<1>3. ASSUME NEW o \in Orgs, CreatePlain(e, o) PROVE Calm
  <2>1. PICK row : row = [NoEvent EXCEPT !.state = "live", !.org = o,
                                         !.featured = FALSE]
    OBVIOUS
  <2>2. row.featured = FALSE
    BY <2>1 DEF NoEvent
  <2> QED  BY <1>2, <1>3, <2>1, <2>2 DEF CreatePlain, InsertEvent
<1>4. ASSUME DeleteEvent(e) PROVE Calm
  <2>1. PICK row : row = [NoEvent EXCEPT !.state = "deleted"]
    OBVIOUS
  <2>2. row.featured = FALSE
    BY <2>1 DEF NoEvent
  <2> QED  BY <1>2, <1>4, <2>1, <2>2 DEF DeleteEvent
<1>5. ASSUME UpdatePlain(e) PROVE Calm
  BY <1>1, <1>5 DEF UpdatePlain, Calm, EventRow
<1>6. ASSUME TakeSeat(e) PROVE Calm
  BY <1>1, <1>6 DEF TakeSeat, Calm, EventRow
<1>7. ASSUME IssueCertificate(e) PROVE Calm
  BY <1>1, <1>7 DEF IssueCertificate, Calm, EventRow
<1>8. ASSUME TimePasses(e) PROVE Calm
  BY <1>1, <1>8 DEF TimePasses, Calm, EventRow
<1> QED  BY <1>3, <1>4, <1>5, <1>6, <1>7, <1>8 DEF OthersStep

LEMMA ViewsAreCalm ==
    ASSUME ViewStep \/ UNCHANGED boardVars
    PROVE  Calm
<1>1. board' = board /\ writer' = writer
  BY DEF ViewStep, ShowOwn, ShowPublic, ShowUpcoming, ShowRunning, ShowJoinees,
         ShowCertificates, ShowIssued, ShowEvent, ShowProfile, ShowDomain,
         OpenView, FirstCount, SecondCount, CloseView, boardVars
<1> QED  BY <1>1 DEF Calm

\* A request's steps: the first statement marks, the second is known.
LEMMA WriterKeepsLone ==
    ASSUME BoardInv, NEW w \in Writers, WriterStep(w)
    PROVE  LoneWriter'
<1>1. ASSUME SetCreated(w) \/ SetUpdated(w) PROVE LoneWriter'
  <2>1. writer[w].pc # "idle" /\ EndWrite(w)
    BY <1>1 DEF SetCreated, SetUpdated
  <2> QED  BY <2>1, EndingIsKnown DEF LoneWriter
<1>2. ASSUME WriteFails(w) PROVE LoneWriter'
  <2>1. Calm
    BY <1>2 DEF WriteFails, Calm
  <2> QED  BY <2>1, CalmKeepsLone
<1>3. ASSUME NEW o \in Orgs, CreateFeatured(w, o) PROVE LoneWriter'
  BY <1>3, BeginningIsMarked DEF CreateFeatured
<1>4. ASSUME NEW o \in Orgs, NEW e \in Events, UpdateFeatured(w, o, e)
      PROVE  LoneWriter'
  BY <1>4, BeginningIsMarked DEF UpdateFeatured
<1> QED  BY <1>1, <1>2, <1>3, <1>4 DEF WriterStep

LEMMA BoardBegins == BoardInit => BoardInv
<1> SUFFICES ASSUME BoardInit PROVE BoardInv
  OBVIOUS
<1>1. 0 \in 0..MaxSeats
  BY SeatsAreNatural
<1>2. NoEvent \in EventRow /\ NoRequest \in Writer
  BY <1>1 DEF NoEvent, EventRow, NoRequest, Writer
<1>3. LoneWriter
  BY DEF BoardInit, NoRequest, LoneWriter
<1> QED  BY <1>2, <1>3 DEF BoardInit, BoardInv

LEMMA BoardStays == BoardInv /\ [BoardNext]_boardVars => BoardInv'
<1> SUFFICES ASSUME BoardInv, [BoardNext]_boardVars PROVE BoardInv'
  OBVIOUS
<1>1. LoneWriter'
  <2>1. ASSUME NEW e \in Events, OthersStep(e) PROVE LoneWriter'
    BY <2>1, OthersAreCalm, CalmKeepsLone
  <2>2. ASSUME ViewStep \/ UNCHANGED boardVars PROVE LoneWriter'
    BY <2>2, ViewsAreCalm, CalmKeepsLone
  <2> QED  BY <2>1, <2>2, WriterKeepsLone DEF BoardNext
<1>2. (board \in [Events -> EventRow])' /\ (writer \in [Writers -> Writer])'
  BY TypesStay
<1> QED  BY <1>1, <1>2 DEF BoardInv

\* A request to feature an event that no other overlapped is alone between its
\* statements, and the organizer has no featured event there.
THEOREM LoneWritersStayAlone == BoardSpec => []BoardInv
<1> QED  BY BoardBegins, BoardStays, PTL DEF BoardSpec

-----------------------------------------------------------------------------
(* What the second statement leaves *)

LEMMA CreatedAlone ==
    ASSUME BoardInv, NEW w \in Writers, NEW o, writer[w].org = o,
           ~writer[w].overlapped, SetCreated(w)
    PROVE  Cardinality(Featured(o)') = 1
<1>1. /\ board \in [Events -> EventRow] /\ LoneWriter
      /\ writer[w].pc # "idle"
  BY DEF BoardInv, SetCreated
<1>2. Featured(o) = {}
  BY <1>1 DEF LoneWriter
<1>3. PICK e \in Events : InsertEvent(e, o, TRUE)
  BY DEF SetCreated
<1>4. PICK row : row = [NoEvent EXCEPT !.state = "live", !.org = o,
                                       !.featured = TRUE]
  OBVIOUS
<1>5. row.state = "live" /\ row.org = o /\ row.featured
  BY <1>4 DEF NoEvent
<1>6. board' = [board EXCEPT ![e] = row]
  BY <1>3, <1>4 DEF InsertEvent
<1>7. Featured(o)' = {e}
  BY <1>1, <1>2, <1>5, <1>6 DEF Featured, EventsOf, Shown
<1> QED  BY <1>7, FS_Singleton

LEMMA UpdatedAlone ==
    ASSUME BoardInv, NEW w \in Writers, NEW o, writer[w].org = o,
           ~writer[w].overlapped, SetUpdated(w), writer[w].event \in EventsOf(o)
    PROVE  Featured(o)' = {writer[w].event}
<1>1. /\ board \in [Events -> EventRow] /\ LoneWriter
      /\ writer[w].pc # "idle"
  BY DEF BoardInv, SetUpdated
<1>2. PICK e : e = writer[w].event
  OBVIOUS
<1>3. Featured(o) = {} /\ e \in Events /\ e \in Shown /\ board[e].org = o
  BY <1>1, <1>2 DEF LoneWriter, EventsOf, Shown
<1>4. board' = [board EXCEPT ![e].featured = TRUE]
  BY <1>2, <1>3 DEF SetUpdated
<1>5. /\ board'[e].state = "live" /\ board'[e].org = o /\ board'[e].featured
      /\ \A f \in Events \ {e} : board'[f] = board[f]
  BY <1>1, <1>3, <1>4 DEF EventRow, Shown
<1>6. Featured(o)' = {e}
  BY <1>3, <1>5 DEF Featured, EventsOf, Shown
<1> QED  BY <1>2, <1>6

\* Whoever features an event and is not overlapped leaves it the organizer's only
\* featured one, however many were featured before.
THEOREM FeaturesStandAlone == BoardSpec => FeaturedAlone
<1> DEFINE Alone ==
        \A w \in Writers, o \in Orgs :
          writer[w].org = o /\ ~writer[w].overlapped =>
              /\ SetCreated(w) => Cardinality(Featured(o)') = 1
              /\ SetUpdated(w) /\ writer[w].event \in EventsOf(o)
                    => Featured(o)' = {writer[w].event}
<1>1. ASSUME BoardInv PROVE Alone
  <2>1. ASSUME NEW w \in Writers, NEW o \in Orgs,
               writer[w].org = o, ~writer[w].overlapped
        PROVE  /\ SetCreated(w) => Cardinality(Featured(o)') = 1
               /\ SetUpdated(w) /\ writer[w].event \in EventsOf(o)
                     => Featured(o)' = {writer[w].event}
    BY <1>1, <2>1, CreatedAlone, UpdatedAlone
  <2> QED  BY <2>1
<1> HIDE DEF Alone
<1>2. BoardSpec => [][Alone]_boardVars
  BY <1>1, LoneWritersStayAlone, PTL
<1> QED  BY <1>2 DEF FeaturedAlone, Alone

-----------------------------------------------------------------------------
(* Sums *)

\* The element that a fold takes next.
First(s) == CHOOSE x \in s : TRUE

\* g sums f over each of the subsets of S, one element after the other.
Sums(f, S, g) ==
    g = [s \in SUBSET S |->
            IF s = {} THEN 0 ELSE f[First(s)] + g[s \ {First(s)}]]

\* Among some numbers one is the least: what stands for induction below.
LEMMA LeastNumber ==
    ASSUME NEW T, T \subseteq Nat, T # {}
    PROVE  \E n \in T : \A m \in T : n <= m
<1>1. \E x \in T : \A y \in T : ~(<<y, x>> \in OpToRel(<, Nat))
  BY NatLessThanWellFounded, WFMin
<1>2. PICK n \in T : \A y \in T : ~(<<y, n>> \in OpToRel(<, Nat))
  BY <1>1
<1>3. ASSUME NEW m \in T PROVE n <= m
  <2>1. m \in Nat /\ n \in Nat
    OBVIOUS
  <2>2. ~(m < n)
    BY <1>2, <2>1 DEF OpToRel
  <2> QED  BY <2>1, <2>2
<1> QED  BY <1>2, <1>3

\* What a fold leaves of a finite set is smaller.
LEMMA FoldsShrink ==
    ASSUME NEW S, IsFiniteSet(S), NEW s \in SUBSET S, s # {}
    PROVE  /\ First(s) \in s /\ First(s) \in S
           /\ s \ {First(s)} \in SUBSET S
           /\ Cardinality(s) \in Nat
           /\ Cardinality(s \ {First(s)}) \in Nat
           /\ Cardinality(s \ {First(s)}) < Cardinality(s)
<1>1. PICK x \in s : x = First(s)
  BY DEF First
<1>2. IsFiniteSet(s) /\ Cardinality(s) \in Nat
  BY FS_Subset, FS_CardinalityType
<1>3. IsFiniteSet(s \ {x}) /\ Cardinality(s \ {x}) = Cardinality(s) - 1
  BY <1>2, FS_RemoveElement
<1>4. Cardinality(s \ {x}) \in Nat
  BY <1>3, FS_CardinalityType
<1> QED  BY <1>1, <1>2, <1>3, <1>4

\* The fold's recursion has a solution, since the sets it descends to shrink.
LEMMA SumsExist ==
    ASSUME NEW S, IsFiniteSet(S), NEW f
    PROVE  \E g : Sums(f, S, g)
<1> DEFINE Value(g, s) == IF s = {} THEN 0 ELSE f[First(s)] + g[s \ {First(s)}]
           UpTo(n) ==
              \E g : /\ g = [s \in SUBSET S |-> g[s]]
                     /\ \A s \in SUBSET S :
                           Cardinality(s) <= n => g[s] = Value(g, s)
<1>1. ASSUME NEW s \in SUBSET S PROVE Cardinality(s) \in Nat /\ (Cardinality(s) = 0 <=> s = {})
  BY FS_Subset, FS_CardinalityType, FS_EmptySet
<1>2. UpTo(0)
  <2> DEFINE z == [s \in SUBSET S |-> 0]
  <2>1. \A s \in SUBSET S : Cardinality(s) <= 0 => z[s] = Value(z, s)
    BY <1>1
  <2>2. z = [s \in SUBSET S |-> z[s]]
    OBVIOUS
  <2> QED  BY <2>1, <2>2
<1>3. ASSUME NEW n \in Nat, UpTo(n) PROVE UpTo(n + 1)
  <2>1. PICK g : \A s \in SUBSET S : Cardinality(s) <= n => g[s] = Value(g, s)
    BY <1>3
  <2> DEFINE h == [s \in SUBSET S |-> Value(g, s)]
  <2>2. ASSUME NEW s \in SUBSET S, Cardinality(s) <= n + 1
        PROVE  h[s] = Value(h, s)
    <3>1. CASE s = {}
      BY <3>1
    <3>2. CASE s # {}
      <4>1. PICK t : t = s \ {First(s)}
        OBVIOUS
      <4>2. t \in SUBSET S /\ Cardinality(t) <= n
        BY <1>3, <2>2, <3>2, <4>1, FoldsShrink
      <4>3. h[t] = g[t]
        BY <2>1, <4>2
      <4> QED  BY <3>2, <4>1, <4>3
    <3> QED  BY <3>1, <3>2
  <2>3. h = [s \in SUBSET S |-> h[s]]
    OBVIOUS
  <2> HIDE DEF h
  <2> QED  BY <2>2, <2>3
<1> HIDE DEF UpTo
<1>4. \A n \in Nat : UpTo(n)
  <2> DEFINE Bad == {n \in Nat : ~UpTo(n)}
  <2>1. SUFFICES ASSUME Bad # {} PROVE FALSE
    OBVIOUS
  <2>2. PICK n \in Bad : \A m \in Bad : n <= m
    BY <2>1, LeastNumber
  <2>3. n - 1 \in Nat /\ n = (n - 1) + 1
    BY <1>2, <2>2
  <2>4. UpTo(n - 1)
    BY <2>2, <2>3
  <2>5. UpTo(n)
    BY <1>3, <2>3, <2>4
  <2> QED  BY <2>2, <2>5
<1>5. PICK g : /\ g = [s \in SUBSET S |-> g[s]]
               /\ \A s \in SUBSET S :
                     Cardinality(s) <= Cardinality(S) => g[s] = Value(g, s)
  <2>1. Cardinality(S) \in Nat
    BY FS_CardinalityType
  <2> QED  BY <1>4, <2>1 DEF UpTo
<1>6. \A s \in SUBSET S : g[s] = Value(g, s)
  BY <1>5, FS_Subset
<1>7. Sums(f, S, g)
  BY <1>5, <1>6 DEF Sums
<1> QED  BY <1>7

\* What SumFunctionOnSet returns is one of them.
LEMMA SumIsOne ==
    ASSUME NEW S, IsFiniteSet(S), NEW f
    PROVE  \E g : Sums(f, S, g) /\ SumFunctionOnSet(f, S) = g[S]
<1> DEFINE g == CHOOSE h : Sums(f, S, h)
<1>1. Sums(f, S, g)
  BY SumsExist
<1>2. SumFunctionOnSet(f, S) = g[S]
  BY DEF SumFunctionOnSet, FoldFunctionOnSet, MapThenFoldSet, Sums, First
<1> QED  BY <1>1, <1>2

\* Sums of naturals are naturals, and greater summands give no smaller sum: in a
\* least set where it failed, it would fail without its first element.
LEMMA SumsAreOrdered ==
    ASSUME NEW S, IsFiniteSet(S), NEW f, NEW h,
           \A x \in S : f[x] \in Nat /\ h[x] \in Nat /\ f[x] <= h[x],
           NEW F, Sums(f, S, F), NEW H, Sums(h, S, H), NEW s \in SUBSET S
    PROVE  F[s] \in Nat /\ H[s] \in Nat /\ F[s] <= H[s]
<1> DEFINE Fine(t) == F[t] \in Nat /\ H[t] \in Nat /\ F[t] <= H[t]
           Bad == {n \in Nat : \E t \in SUBSET S : Cardinality(t) = n /\ ~Fine(t)}
<1>1. ASSUME NEW t \in SUBSET S
      PROVE  /\ F[t] = IF t = {} THEN 0 ELSE f[First(t)] + F[t \ {First(t)}]
             /\ H[t] = IF t = {} THEN 0 ELSE h[First(t)] + H[t \ {First(t)}]
  <2>1. F = [u \in SUBSET S |->
            IF u = {} THEN 0 ELSE f[First(u)] + F[u \ {First(u)}]]
    BY DEF Sums
  <2>2. H = [u \in SUBSET S |->
            IF u = {} THEN 0 ELSE h[First(u)] + H[u \ {First(u)}]]
    BY DEF Sums
  <2> QED  BY <2>1, <2>2
<1>2. ASSUME Bad # {} PROVE FALSE
  <2>1. PICK n \in Bad : \A m \in Bad : n <= m
    BY <1>2, LeastNumber
  <2>2. PICK t \in SUBSET S : Cardinality(t) = n /\ ~Fine(t)
    BY <2>1
  <2>3. t # {}
    <3>1. ASSUME t = {} PROVE F[t] = 0 /\ H[t] = 0
      BY <1>1, <3>1
    <3> QED  BY <2>2, <3>1
  <2>4. PICK x, u : x = First(t) /\ u = t \ {x}
    OBVIOUS
  <2>5. x \in S /\ u \in SUBSET S /\ Cardinality(u) \in Nat /\ Cardinality(u) < n /\ n \in Nat
    BY <2>2, <2>3, <2>4, FoldsShrink
  <2>6. Fine(u)
    BY <2>1, <2>5
  <2>7. F[t] = f[x] + F[u] /\ H[t] = h[x] + H[u]
    BY <1>1, <2>3, <2>4
  <2> QED  BY <2>2, <2>5, <2>6, <2>7
<1>3. Cardinality(s) \in Nat
  BY FS_Subset, FS_CardinalityType
<1> QED  BY <1>2, <1>3

\* The two facts the views need of a sum over what they show.
LEMMA SumsAreMonotone ==
    ASSUME NEW S, IsFiniteSet(S), NEW f, NEW h,
           \A x \in S : f[x] \in Nat /\ h[x] \in Nat /\ f[x] <= h[x]
    PROVE  /\ SumFunctionOnSet(f, S) \in Nat /\ SumFunctionOnSet(h, S) \in Nat
           /\ SumFunctionOnSet(f, S) <= SumFunctionOnSet(h, S)
<1>1. PICK F : Sums(f, S, F) /\ SumFunctionOnSet(f, S) = F[S]
  BY SumIsOne
<1>2. PICK H : Sums(h, S, H) /\ SumFunctionOnSet(h, S) = H[S]
  BY SumIsOne
<1>3. S \in SUBSET S
  OBVIOUS
<1>4. F[S] \in Nat /\ H[S] \in Nat /\ F[S] <= H[S]
  BY <1>1, <1>2, <1>3, SumsAreOrdered
<1> QED  BY <1>1, <1>2, <1>4

LEMMA SumOfOne ==
    ASSUME NEW f, NEW x, f[x] \in Nat
    PROVE  SumFunctionOnSet(f, {x}) = f[x]
<1>1. PICK F : Sums(f, {x}, F) /\ SumFunctionOnSet(f, {x}) = F[{x}]
  BY FS_Singleton, SumIsOne
<1>2. \A s \in SUBSET {x} :
        F[s] = IF s = {} THEN 0 ELSE f[First(s)] + F[s \ {First(s)}]
  <2>1. F = [s \in SUBSET {x} |->
               IF s = {} THEN 0 ELSE f[First(s)] + F[s \ {First(s)}]]
    BY <1>1 DEF Sums
  <2> QED  BY <2>1
<1>3. First({x}) = x
  BY DEF First
<1>4. {x} \ {x} = {} /\ F[{}] = 0
  BY <1>2
<1>5. F[{x}] = f[x] + F[{}]
  BY <1>2, <1>3, <1>4
<1> QED  BY <1>1, <1>4, <1>5

\* Of whichever events, there are no more certificates than seats.
LEMMA CertificatesAreOfSeats ==
    ASSUME BoardTypeOK, NEW es \in SUBSET Events
    PROVE  /\ SeatsAt(es) \in Nat /\ CertificatesAt(es) \in Nat
           /\ CertificatesAt(es) <= SeatsAt(es)
<1> DEFINE issued == [e \in Events |-> board[e].issued]
           seats == [e \in Events |-> board[e].seats]
<1>1. board \in [Events -> EventRow] /\ MaxSeats \in Nat
  BY SeatsAreNatural DEF BoardTypeOK
<1>2. ASSUME NEW e \in es
      PROVE  issued[e] \in Nat /\ seats[e] \in Nat /\ issued[e] <= seats[e]
  BY <1>1 DEF BoardTypeOK, EventRow
<1>3. IsFiniteSet(es)
  BY FewEvents, FS_Subset
<1> HIDE DEF issued, seats
<1>4. /\ SumFunctionOnSet(issued, es) \in Nat
      /\ SumFunctionOnSet(seats, es) \in Nat
      /\ SumFunctionOnSet(issued, es) <= SumFunctionOnSet(seats, es)
  BY <1>2, <1>3, SumsAreMonotone
<1> QED  BY <1>4 DEF issued, seats, SeatsAt, CertificatesAt

LEMMA OneEventIsItsSum ==
    ASSUME BoardTypeOK, NEW e \in Events
    PROVE  /\ SeatsAt({e}) = board[e].seats
           /\ CertificatesAt({e}) = board[e].issued
<1> DEFINE issued == [x \in Events |-> board[x].issued]
           seats == [x \in Events |-> board[x].seats]
<1>1. board \in [Events -> EventRow] /\ MaxSeats \in Nat
  BY SeatsAreNatural DEF BoardTypeOK
<1>2. /\ issued[e] = board[e].issued /\ seats[e] = board[e].seats
      /\ issued[e] \in Nat /\ seats[e] \in Nat
  BY <1>1 DEF EventRow
<1> HIDE DEF issued, seats
<1>3. /\ SumFunctionOnSet(issued, {e}) = issued[e]
      /\ SumFunctionOnSet(seats, {e}) = seats[e]
  BY <1>2, SumOfOne
<1> QED  BY <1>2, <1>3 DEF issued, seats, SeatsAt, CertificatesAt

-----------------------------------------------------------------------------
(* Writes under a view *)

\* The rows never have more certificates than seats, and a step that adds a seat
\* says so.
WritesNoted(n) ==
    /\ Written(n)
    /\ \A e \in Events : /\ board'[e].seats <= board[e].seats + n
                         /\ board'[e].issued <= board'[e].seats

\* A write that takes no seat: seats and certificates of an event are as they
\* were, or both are none.
LEMMA NoSeatTaken ==
    ASSUME BoardTypeOK, Written(0),
           \A e \in Events :
               \/ /\ board'[e].seats = board[e].seats
                  /\ board'[e].issued = board[e].issued
               \/ board'[e].seats = 0 /\ board'[e].issued = 0
    PROVE  WritesNoted(0)
<1>1. ASSUME NEW e \in Events
      PROVE  /\ board[e].seats \in Nat /\ board[e].issued \in Nat
             /\ board[e].issued <= board[e].seats
  <2>1. board[e] \in EventRow /\ board[e].issued <= board[e].seats
    BY DEF BoardTypeOK
  <2> QED  BY <2>1, SeatsAreNatural DEF EventRow
<1>2. ASSUME NEW e \in Events
      PROVE  /\ board'[e].seats <= board[e].seats + 0
             /\ board'[e].issued <= board'[e].seats
  <2>1. CASE /\ board'[e].seats = board[e].seats
             /\ board'[e].issued = board[e].issued
    BY <1>1, <2>1
  <2>2. CASE board'[e].seats = 0 /\ board'[e].issued = 0
    BY <1>1, <2>2
  <2> QED  BY <2>1, <2>2
<1> QED  BY <1>2 DEF WritesNoted

LEMMA InsertsAreNoted ==
    ASSUME BoardTypeOK, NEW e \in Events, NEW o, NEW f, InsertEvent(e, o, f)
    PROVE  WritesNoted(0)
<1>1. board \in [Events -> EventRow]
  BY DEF BoardTypeOK
<1>2. PICK row : row = [NoEvent EXCEPT !.state = "live", !.org = o,
                                       !.featured = f]
  OBVIOUS
<1>3. row.seats = 0 /\ row.issued = 0
  BY <1>2 DEF NoEvent
<1>4. board' = [board EXCEPT ![e] = row] /\ Written(0)
  BY <1>2 DEF InsertEvent
<1> QED  BY <1>1, <1>3, <1>4, NoSeatTaken

LEMMA ClearingIsNoted ==
    ASSUME BoardTypeOK, NEW o, ClearFeatured(o), Written(0)
    PROVE  WritesNoted(0)
<1>1. board \in [Events -> EventRow]
  BY DEF BoardTypeOK
<1>2. ASSUME NEW e \in Events
      PROVE  board'[e].seats = board[e].seats /\ board'[e].issued = board[e].issued
  <2>1. CASE e \in Featured(o)
    BY <1>1, <2>1 DEF ClearFeatured, EventRow
  <2>2. CASE e \notin Featured(o)
    BY <1>1, <2>2 DEF ClearFeatured
  <2> QED  BY <2>1, <2>2
<1> QED  BY <1>2, NoSeatTaken

\* A step of a writer writes what a view notices, or leaves the board.
LEMMA WritersAreNoted ==
    ASSUME BoardTypeOK, NEW w \in Writers, WriterStep(w)
    PROVE  WritesNoted(0) \/ UNCHANGED <<board, view>>
<1>1. board \in [Events -> EventRow]
  BY DEF BoardTypeOK
<1>2. ASSUME SetCreated(w) PROVE WritesNoted(0)
  BY <1>2, InsertsAreNoted DEF SetCreated
<1>3. ASSUME SetUpdated(w) PROVE WritesNoted(0) \/ UNCHANGED <<board, view>>
  <2>1. PICK e : e = writer[w].event
    OBVIOUS
  <2>2. ASSUME e \in Shown PROVE WritesNoted(0)
    <3>1. /\ e \in Events /\ Written(0)
          /\ board' = [board EXCEPT ![e].featured = TRUE]
      BY <1>3, <2>1, <2>2 DEF SetUpdated, Shown
    <3>2. ASSUME NEW x \in Events
          PROVE  /\ board'[x].seats = board[x].seats
                 /\ board'[x].issued = board[x].issued
      BY <1>1, <3>1 DEF EventRow
    <3> QED  BY <3>1, <3>2, NoSeatTaken
  <2>3. ASSUME e \notin Shown PROVE UNCHANGED <<board, view>>
    BY <1>3, <2>1, <2>3 DEF SetUpdated
  <2> QED  BY <2>2, <2>3
<1>4. ASSUME WriteFails(w) PROVE UNCHANGED <<board, view>>
  BY <1>4 DEF WriteFails
<1>5. ASSUME NEW o \in Orgs, CreateFeatured(w, o) PROVE WritesNoted(0)
  BY <1>5, ClearingIsNoted DEF CreateFeatured
<1>6. ASSUME NEW o \in Orgs, NEW e \in Events, UpdateFeatured(w, o, e)
      PROVE  WritesNoted(0)
  BY <1>6, ClearingIsNoted DEF UpdateFeatured
<1> QED  BY <1>2, <1>3, <1>4, <1>5, <1>6 DEF WriterStep

\* What others write is noticed, a new seat as one.
LEMMA OthersAreNoted ==
    ASSUME BoardTypeOK, NEW e \in Events, OthersStep(e)
    PROVE  WritesNoted(0) \/ WritesNoted(1)
<1>1. /\ board \in [Events -> EventRow] /\ MaxSeats \in Nat
      /\ \A x \in Events : board[x].issued <= board[x].seats
  BY SeatsAreNatural DEF BoardTypeOK
<1>2. \A x \in Events : board[x].seats \in Nat /\ board[x].issued \in Nat
  BY <1>1 DEF EventRow
<1>3. ASSUME NEW o \in Orgs, CreatePlain(e, o) PROVE WritesNoted(0)
  BY <1>3, InsertsAreNoted DEF CreatePlain
<1>4. ASSUME UpdatePlain(e) PROVE WritesNoted(0)
  <2>1. ASSUME NEW x \in Events
        PROVE  /\ board'[x].seats = board[x].seats
               /\ board'[x].issued = board[x].issued
    BY <1>1, <1>4 DEF UpdatePlain, EventRow
  <2> QED  BY <1>4, <2>1, NoSeatTaken DEF UpdatePlain
<1>5. ASSUME DeleteEvent(e) PROVE WritesNoted(0)
  <2>1. PICK row : row = [NoEvent EXCEPT !.state = "deleted"]
    OBVIOUS
  <2>2. row.seats = 0 /\ row.issued = 0
    BY <2>1 DEF NoEvent
  <2>3. board' = [board EXCEPT ![e] = row] /\ Written(0)
    BY <1>5, <2>1 DEF DeleteEvent
  <2> QED  BY <1>1, <2>2, <2>3, NoSeatTaken
<1>6. ASSUME TakeSeat(e) PROVE WritesNoted(1)
  <2>1. /\ board'[e].seats = board[e].seats + 1
        /\ board'[e].issued = board[e].issued
        /\ \A x \in Events \ {e} : board'[x] = board[x]
    BY <1>1, <1>6 DEF TakeSeat, EventRow
  <2>2. ASSUME NEW x \in Events
        PROVE  /\ board'[x].seats <= board[x].seats + 1
               /\ board'[x].issued <= board'[x].seats
    <3>1. CASE x = e
      BY <1>1, <1>2, <2>1, <3>1
    <3>2. CASE x # e
      BY <1>1, <1>2, <2>1, <3>2
    <3> QED  BY <3>1, <3>2
  <2> QED  BY <1>6, <2>2 DEF WritesNoted, TakeSeat
<1>7. ASSUME IssueCertificate(e) PROVE WritesNoted(0)
  <2>1. /\ board'[e].seats = board[e].seats
        /\ board'[e].issued = board[e].issued + 1
        /\ board[e].issued < board[e].seats
        /\ \A x \in Events \ {e} : board'[x] = board[x]
    BY <1>1, <1>7 DEF IssueCertificate, EventRow
  <2>2. ASSUME NEW x \in Events
        PROVE  /\ board'[x].seats <= board[x].seats + 0
               /\ board'[x].issued <= board'[x].seats
    <3>1. CASE x = e
      BY <1>1, <1>2, <2>1, <3>1
    <3>2. CASE x # e
      BY <1>1, <1>2, <2>1, <3>2
    <3> QED  BY <3>1, <3>2
  <2> QED  BY <1>7, <2>2 DEF WritesNoted, IssueCertificate
<1>8. ASSUME TimePasses(e) PROVE WritesNoted(0)
  <2>1. ASSUME NEW x \in Events
        PROVE  /\ board'[x].seats = board[x].seats
               /\ board'[x].issued = board[x].issued
    BY <1>1, <1>8 DEF TimePasses, EventRow
  <2> QED  BY <1>8, <2>1, NoSeatTaken DEF TimePasses
<1> QED  BY <1>3, <1>4, <1>5, <1>6, <1>7, <1>8 DEF OthersStep

\* A view that notices a write is no longer quiet, and makes allowance for the
\* seats that it took.
LEMMA NoticedViewsStay ==
    ASSUME ViewInv, BoardTypeOK', NEW n \in Nat, WritesNoted(n)
    PROVE  ViewInv'
<1>1. view \in View /\ board \in [Events -> EventRow]
  BY DEF ViewInv, BoardTypeOK
<1>2. CASE view.pc = "idle"
  <2>1. view'.pc = "idle"
    BY <1>2 DEF WritesNoted, Written
  <2> QED  BY <2>1 DEF ViewInv
<1>3. CASE view.pc # "idle"
  <2>1. view' = [view EXCEPT !.quiet = FALSE, !.joins = @ + n]
    BY <1>3 DEF WritesNoted, Written
  <2>2. /\ view'.pc = view.pc /\ view'.kind = view.kind /\ view'.of = view.of
        /\ view'.events = view.events /\ view'.first = view.first
        /\ view'.second = view.second /\ ~view'.quiet
        /\ view'.joins = view.joins + n
    BY <1>1, <2>1 DEF View
  <2>3. AskedFor'
    BY <1>3, <2>2 DEF ViewInv, AskedFor
  <2>4. view.first \in Nat /\ view.second \in Nat /\ view.joins \in Nat
    BY <1>1 DEF View
  <2>5. ASSUME view.pc \in {"second", "answer"} PROVE FirstExplained'
    <3>1. ASSUME view.kind = "event"
          PROVE  board'[view.of].seats <= view.first + (view.joins + n)
      <4>1. PICK e \in Events : e = view.of
        BY <1>3, <3>1 DEF ViewInv, AskedFor
      <4>2. board[e].seats <= view.first + view.joins
        BY <2>5, <3>1, <4>1 DEF ViewInv, FirstExplained
      <4>3. board[e].seats \in Nat /\ board'[e].seats \in Nat
        BY <1>1, SeatsAreNatural DEF BoardTypeOK, EventRow
      <4>4. board'[e].seats <= board[e].seats + n
        BY DEF WritesNoted
      <4> QED  BY <2>4, <4>1, <4>2, <4>3, <4>4
    <3> QED  BY <2>2, <3>1 DEF FirstExplained
  <2>6. ASSUME view.pc = "answer" PROVE SecondExplained'
    BY <2>2, <2>4, <2>6 DEF ViewInv, SecondExplained
  <2> QED  BY <2>2, <2>3, <2>5, <2>6 DEF ViewInv
<1> QED  BY <1>2, <1>3

-----------------------------------------------------------------------------
(* The views *)

\* A list's total counts what the list has: two formulations of the same rows.
LEMMA TotalsAreOfLists ==
    ASSUME BoardTypeOK, AskedFor, view.kind \in Lists
    PROVE  Listed(view) \in Nat /\ Total(view) = Listed(view)
<1> DEFINE Of(kind) == {e \in Shown : board[e].phase = kind}
           Theirs == {e \in Shown : view.of \in {Nobody, board[e].org}}
<1>1. /\ board \in [Events -> EventRow] /\ MaxSeats \in Nat
      /\ Nobody \notin Orgs
  BY SeatsAreNatural, NobodyIsNoName DEF BoardTypeOK
<1>2. ASSUME NEW S, S \subseteq Events PROVE Cardinality(S) \in Nat
  BY <1>2, FewEvents, FS_Subset, FS_CardinalityType
<1>3. Shown \subseteq Events
  BY DEF Shown
<1>4. CASE view.kind \in {"own", "public"}
  <2>1. view.of \in Orgs => EventsOf(view.of) = Theirs
    BY <1>1 DEF EventsOf
  <2>2. view.of = Nobody => Shown = Theirs
    OBVIOUS
  <2>3. Cardinality(Theirs) \in Nat
    BY <1>2, <1>3
  <2>4. Listed(view) = Cardinality(Theirs)
    BY <1>4 DEF Listed
  <2> HIDE DEF Theirs
  <2>5. CASE view.kind = "own"
    <3>1. Total(view) = OwnEvents(view.of) /\ view.of \in Orgs
      BY <2>5 DEF Total, AskedFor
    <3> QED  BY <2>1, <2>3, <2>4, <3>1 DEF OwnEvents
  <2>6. CASE view.kind = "public"
    <3>1. Total(view) = PublicEvents(view.of) /\ view.of \in Orgs \cup {Nobody}
      BY <2>6 DEF Total, AskedFor
    <3> QED
      BY <1>1, <2>1, <2>2, <2>3, <2>4, <3>1 DEF PublicEvents, OwnEvents
  <2> QED  BY <1>4, <2>5, <2>6
<1>5. CASE view.kind \in {"upcoming", "running"}
  <2>1. Of("upcoming") \subseteq Events /\ Of("running") \subseteq Events
    BY <1>3
  <2>2. Listed(view) = Cardinality(Of(view.kind))
    BY <1>5 DEF Listed
  <2>3. Total(view) = Cardinality(Of(view.kind))
    BY <1>5 DEF Total, UpcomingEvents, RunningEvents
  <2> QED  BY <1>2, <1>5, <2>1, <2>2, <2>3
<1>6. CASE view.kind \in {"joinees", "certificates", "issued"}
  <2>1. view.of \in Events
    BY <1>6 DEF AskedFor
  <2>2. board[view.of].seats \in Nat /\ board[view.of].issued \in Nat
    BY <1>1, <2>1 DEF EventRow
  <2> QED  BY <1>6, <2>2 DEF Listed, Total, Joinees, IssuedAt
<1> QED  BY <1>4, <1>5, <1>6 DEF Lists

\* A step of the view alone leaves open what it has asked.
LEMMA SameAnswers ==
    ASSUME board' = board, view'.kind = view.kind, view'.of = view.of,
           view'.events = view.events
    PROVE  /\ Listed(view)' = Listed(view) /\ Total(view)' = Total(view)
           /\ SeatsAt(view.events)' = SeatsAt(view.events)
           /\ CertificatesAt(view.events)' = CertificatesAt(view.events)
           /\ view'.quiet = view.quiet /\ AskedFor => AskedFor'
<1>1. \A o : EventsOf(o)' = EventsOf(o)
  BY DEF EventsOf, Shown
<1>2. view'.quiet = view.quiet /\ AskedFor => AskedFor'
  BY <1>1 DEF AskedFor
<1>3. Listed(view)' = Listed(view)
  BY DEF Listed, Shown
<1>4. Total(view)' = Total(view)
  BY <1>1 DEF Total, OwnEvents, PublicEvents, UpcomingEvents, RunningEvents,
              Joinees, IssuedAt, Shown
<1>5. /\ SeatsAt(view.events)' = SeatsAt(view.events)
      /\ CertificatesAt(view.events)' = CertificatesAt(view.events)
  BY DEF SeatsAt, CertificatesAt
<1> QED  BY <1>2, <1>3, <1>4, <1>5

\* A view opens with what it was asked for.
LEMMA OpeningIsAsking ==
    ASSUME BoardTypeOK, NEW kind \in Kinds,
           NEW of \in Events \cup Orgs \cup {Nobody}, NEW es \in SUBSET Events,
           OpenView(kind, of, es),
           kind \in {"own", "profile"} => of \in Orgs,
           kind = "public" => of \in Orgs \cup {Nobody},
           kind \in {"joinees", "certificates", "issued"} => of \in Events,
           kind = "event" => of \in Events /\ es = {of},
           kind = "profile" => es = EventsOf(of)
    PROVE  ViewInv'
<1>1. PICK v : v = [NoView EXCEPT !.pc = "first", !.kind = kind, !.of = of,
                                  !.events = es]
  OBVIOUS
<1>2. /\ v \in View /\ v.pc = "first" /\ v.kind = kind /\ v.of = of
      /\ v.events = es
  BY <1>1 DEF NoView, View
<1>3. view' = v /\ board' = board /\ writer' = writer
  BY <1>1 DEF OpenView
<1>4. EventsOf(of)' = EventsOf(of)
  BY <1>3 DEF EventsOf, Shown
<1>5. AskedFor'
  BY <1>2, <1>3, <1>4 DEF AskedFor
<1>6. BoardTypeOK'
  BY <1>2, <1>3 DEF BoardTypeOK
<1> QED  BY <1>2, <1>3, <1>5, <1>6 DEF ViewInv

\* The first of the two counts.
LEMMA FirstCountExplains ==
    ASSUME ViewInv, FirstCount
    PROVE  ViewInv'
<1>1. /\ BoardTypeOK /\ AskedFor /\ view \in View /\ view.pc = "first"
      /\ board \in [Events -> EventRow]
  BY DEF ViewInv, BoardTypeOK, FirstCount
<1>2. PICK n : n = IF view.kind \in Lists THEN Listed(view)
                   ELSE SeatsAt(view.events)
  OBVIOUS
<1>3. n \in Nat
  <2>1. view.events \in SUBSET Events
    BY <1>1 DEF View
  <2> QED  BY <1>1, <1>2, <2>1, TotalsAreOfLists, CertificatesAreOfSeats
<1>4. view' = [view EXCEPT !.pc = "second", !.first = n]
  BY <1>2 DEF FirstCount
<1>5. /\ board' = board /\ writer' = writer /\ view' \in View
      /\ view'.pc = "second" /\ view'.kind = view.kind /\ view'.of = view.of
      /\ view'.events = view.events /\ view'.first = n
      /\ view'.quiet = view.quiet /\ view'.joins = view.joins
  BY <1>1, <1>3, <1>4 DEF View, FirstCount
<1>6. BoardTypeOK' /\ AskedFor'
  BY <1>1, <1>5, SameAnswers DEF BoardTypeOK
<1>7. ASSUME view.kind = "event"
      PROVE  board[view.of].seats <= n + view.joins
  <2>1. PICK e \in Events : e = view.of /\ view.events = {e}
    BY <1>1, <1>7 DEF AskedFor
  <2>2. n = board[e].seats
    BY <1>1, <1>2, <1>7, <2>1, OneEventIsItsSum DEF Lists
  <2>3. view.joins \in Nat
    BY <1>1 DEF View
  <2> QED  BY <1>3, <2>1, <2>2, <2>3
<1>8. FirstExplained'
  BY <1>2, <1>5, <1>7, SameAnswers DEF FirstExplained
<1> QED  BY <1>5, <1>6, <1>8 DEF ViewInv

\* The second: of the event's seats there are no more certificates than were
\* counted and joined since.
LEMMA SecondCountExplains ==
    ASSUME ViewInv, SecondCount
    PROVE  ViewInv'
<1>1. /\ BoardTypeOK /\ AskedFor /\ FirstExplained
      /\ view \in View /\ view.pc = "second" /\ board \in [Events -> EventRow]
  BY DEF ViewInv, BoardTypeOK, SecondCount
<1>2. PICK n : n = IF view.kind \in Lists THEN Total(view)
                   ELSE CertificatesAt(view.events)
  OBVIOUS
<1>3. n \in Nat
  <2>1. view.events \in SUBSET Events
    BY <1>1 DEF View
  <2> QED  BY <1>1, <1>2, <2>1, TotalsAreOfLists, CertificatesAreOfSeats
<1>4. view' = [view EXCEPT !.pc = "answer", !.second = n]
  BY <1>2 DEF SecondCount
<1>5. /\ board' = board /\ writer' = writer /\ view' \in View
      /\ view'.pc = "answer" /\ view'.kind = view.kind /\ view'.of = view.of
      /\ view'.events = view.events /\ view'.first = view.first
      /\ view'.second = n
      /\ view'.quiet = view.quiet /\ view'.joins = view.joins
  BY <1>1, <1>3, <1>4 DEF View, SecondCount
<1>6. BoardTypeOK' /\ AskedFor'
  BY <1>1, <1>5, SameAnswers DEF BoardTypeOK
<1>7. ASSUME view.kind = "event"
      PROVE  n <= view.first + view.joins
  <2>1. PICK e \in Events : e = view.of /\ view.events = {e}
    BY <1>1, <1>7 DEF AskedFor
  <2>2. n = board[e].issued
    BY <1>1, <1>2, <1>7, <2>1, OneEventIsItsSum DEF Lists
  <2>3. board[e].issued <= board[e].seats /\ board[e].seats \in Nat
    BY <1>1, SeatsAreNatural DEF BoardTypeOK, EventRow
  <2>4. board[e].seats <= view.first + view.joins
    BY <1>1, <1>7, <2>1 DEF FirstExplained
  <2>5. view.first \in Nat /\ view.joins \in Nat
    BY <1>1 DEF View
  <2> QED  BY <1>3, <2>2, <2>3, <2>4, <2>5
<1>8. FirstExplained'
  BY <1>1, <1>5, SameAnswers DEF FirstExplained
<1>9. SecondExplained'
  BY <1>2, <1>5, <1>7, SameAnswers DEF SecondExplained
<1> QED  BY <1>5, <1>6, <1>8, <1>9 DEF ViewInv

\* Every step of a view leaves it explained.
LEMMA ViewsStay ==
    ASSUME ViewInv, ViewStep
    PROVE  ViewInv'
<1>1. BoardTypeOK /\ Shown \subseteq Events
  BY DEF ViewInv, Shown
<1>2. \A o : EventsOf(o) \subseteq Events
  BY DEF EventsOf, Shown
<1>3. CASE ShowOwn \/ ShowPublic \/ ShowUpcoming \/ ShowRunning
  BY <1>1, <1>3, OpeningIsAsking
     DEF ShowOwn, ShowPublic, ShowUpcoming, ShowRunning, Kinds, Lists
<1>4. CASE ShowJoinees \/ ShowCertificates \/ ShowIssued
  BY <1>1, <1>4, OpeningIsAsking
     DEF ShowJoinees, ShowCertificates, ShowIssued, Kinds, Lists
<1>5. CASE ShowEvent
  <2>1. PICK e \in Shown : OpenView("event", e, {e})
    BY <1>5 DEF ShowEvent
  <2> QED  BY <1>1, <2>1, OpeningIsAsking DEF Kinds
<1>6. CASE ShowProfile \/ ShowDomain
  <2>1. ASSUME NEW o \in Orgs, OpenView("profile", o, EventsOf(o))
        PROVE  ViewInv'
    BY <1>1, <1>2, <2>1, OpeningIsAsking DEF Kinds
  <2>2. ASSUME OpenView("unknown", Nobody, Shown)
        PROVE  ViewInv'
    BY <1>1, <2>2, OpeningIsAsking DEF Kinds
  <2> QED  BY <1>6, <2>1, <2>2 DEF ShowProfile, ShowDomain
<1>7. CASE CloseView
  <2>1. NoView \in View /\ NoView.pc = "idle"
    BY DEF NoView, View, Kinds, Lists
  <2> QED  BY <1>1, <1>7, <2>1 DEF CloseView, ViewInv, BoardTypeOK
<1> QED
  BY <1>3, <1>4, <1>5, <1>6, <1>7, FirstCountExplains, SecondCountExplains
     DEF ViewStep

\* At first nobody looks.
LEMMA ViewsBegin == BoardInit => ViewInv
<1> SUFFICES ASSUME BoardInit PROVE ViewInv
  OBVIOUS
<1>1. board \in [Events -> EventRow] /\ writer \in [Writers -> Writer]
  BY BoardBegins DEF BoardInv
<1>2. \A e \in Events : board[e].issued <= board[e].seats
  BY DEF BoardInit, NoEvent
<1>3. view \in View /\ view.pc = "idle"
  BY DEF BoardInit, NoView, View, Kinds, Lists
<1> QED  BY <1>1, <1>2, <1>3 DEF ViewInv, BoardTypeOK

\* Neither what is written nor what a view does breaks the invariant.
LEMMA NextKeepsViews ==
    ASSUME BoardInv, ViewInv, [BoardNext]_boardVars
    PROVE  ViewInv'
<1>1. BoardTypeOK /\ view \in View
  BY DEF ViewInv, BoardTypeOK
<1>2. ASSUME NEW n \in Nat, WritesNoted(n) PROVE ViewInv'
  <2>1. view' \in View
    <3>1. view.joins + n \in Nat
      BY <1>1 DEF View
    <3>2. PICK k \in Nat : k = view.joins + n
      BY <3>1
    <3>3. [view EXCEPT !.quiet = FALSE, !.joins = k] \in View
      BY <1>1 DEF View
    <3> QED  BY <1>1, <1>2, <3>2, <3>3 DEF WritesNoted, Written
  <2>2. BoardTypeOK'
    BY <1>2, <2>1, TypesStay DEF WritesNoted, BoardTypeOK
  <2> QED  BY <1>2, <2>2, NoticedViewsStay
<1>3. ASSUME UNCHANGED <<board, view>> PROVE ViewInv'
  <2>1. BoardTypeOK'
    BY <1>1, <1>3, TypesStay DEF BoardTypeOK
  <2> QED
    BY <1>3, <2>1, SameAnswers
       DEF ViewInv, FirstExplained, SecondExplained
<1>4. ASSUME NEW w \in Writers, WriterStep(w) PROVE ViewInv'
  BY <1>1, <1>2, <1>3, <1>4, WritersAreNoted
<1>5. ASSUME NEW e \in Events, OthersStep(e) PROVE ViewInv'
  BY <1>1, <1>2, <1>5, OthersAreNoted
<1>6. ASSUME UNCHANGED boardVars PROVE ViewInv'
  BY <1>3, <1>6 DEF boardVars
<1> QED  BY <1>4, <1>5, <1>6, ViewsStay DEF BoardNext

\* Whatever is written between the statements of a view, what it shows is
\* explained by what it counted and what it noticed.
THEOREM ViewsAreExplained == BoardSpec => []ViewInv
<1>1. BoardInv /\ ViewInv /\ [BoardNext]_boardVars => ViewInv'
  BY NextKeepsViews
<1> QED  BY <1>1, ViewsBegin, LoneWritersStayAlone, PTL DEF BoardSpec

\* The tables, the requests and the view are typed, and no event has more
\* certificates than seats.
THEOREM BoardTypeCorrect == BoardSpec => []BoardTypeOK
<1>1. ViewInv => BoardTypeOK
  BY DEF ViewInv
<1> QED  BY <1>1, ViewsAreExplained, PTL

\* A certificateRate over 100 is owed to seats that were taken between the two
\* counts, and to nothing else.
THEOREM RatesAreExplained == BoardSpec => []RateExplainedByJoins
<1>1. ViewInv => RateExplainedByJoins
  BY DEF ViewInv, SecondExplained, RateExplainedByJoins
<1> QED  BY <1>1, ViewsAreExplained, PTL

\* A view that nothing overtook agrees with itself and with the tables.
THEOREM QuietViewsAreRight == BoardSpec => []QuietViewsAgree
<1>1. ViewInv => QuietViewsAgree
  <2> SUFFICES ASSUME ViewInv, view.pc = "answer", view.quiet
               PROVE  /\ view.kind \in Lists => view.first = view.second
                      /\ view.kind = "profile" =>
                            /\ view.events = EventsOf(view.of)
                            /\ view.second <= view.first
    BY DEF QuietViewsAgree
  <2>1. /\ BoardTypeOK /\ AskedFor /\ view \in View
        /\ FirstExplained /\ SecondExplained
    BY DEF ViewInv, BoardTypeOK
  <2>2. view.kind \in Lists => view.first = view.second
    BY <2>1, TotalsAreOfLists DEF FirstExplained, SecondExplained
  <2>3. view.kind = "profile" => view.second <= view.first
    <3>1. view.events \in SUBSET Events
      BY <2>1 DEF View
    <3>2. CertificatesAt(view.events) <= SeatsAt(view.events)
      BY <2>1, <3>1, CertificatesAreOfSeats
    <3> QED  BY <2>1, <3>2 DEF FirstExplained, SecondExplained, Lists
  <2>4. view.kind = "profile" => view.events = EventsOf(view.of)
    BY <2>1 DEF AskedFor
  <2> QED  BY <2>2, <2>3, <2>4
<1> QED  BY <1>1, ViewsAreExplained, PTL

===============================================================================
