-------------------------- MODULE ConversationsProofs --------------------------
(***************************************************************************)
(* What outlives what in Conversations, for every value of the constants:   *)
(* first the tables with their listeners, then the messages with their      *)
(* handlers, then what sockets hear.                                         *)
(***************************************************************************)
EXTENDS Conversations, TLAPS

-----------------------------------------------------------------------------
(* The tables *)

TableTypes ==
    /\ event \in [Events -> EventRow]
    /\ team \in [Members -> {"out", "in", "left"}]
    /\ seat \in [Seats -> SeatRow]
    /\ conversation \subseteq Events
    /\ participant \in [ParticipantIds -> {"absent", "there", "ownerless"}]

\* The rows of ConversationIsWhole that listeners write.
RowsWhole ==
    /\ \A e \in conversation : event[e].state = "present"
    /\ \A p \in ParticipantIds :
          participant[p] # "absent" => ConversationOf(p) \in conversation

TablesFine ==
    /\ TableTypes
    /\ \A e \in Events : CreatorKnows(e)
    /\ \A s \in Seats : SeatKnown(s)
    /\ RowsWhole
    /\ JoinerIsAdded
    /\ TeamIsAdded

\* What handlers may rely on: removed events stay so, seats keep their event,
\* and participants and conversations go only with their event.
TablesKeep ==
    /\ \A e \in Events : Removed(e) => event'[e].state = "removed"
    /\ \A s \in Seats : seat[s].state # "unused" =>
          seat'[s].state # "unused" /\ seat'[s].event = seat[s].event
    /\ \A p \in ParticipantIds : participant[p] # "absent" =>
          \/ participant'[p] # "absent"
          \/ event'[ConversationOf(p)].state = "removed"
    /\ \A e \in conversation :
          e \in conversation' \/ event'[e].state = "removed"

\* A participant is a seat's or a member's, never both.
LEMMA NamesOfParticipants ==
    /\ Seats \subseteq ParticipantIds
    /\ \A e \in Events, m \in Members :
          /\ <<e, m>> \in ParticipantIds /\ <<e, m>> \notin Seats
          /\ ConversationOf(<<e, m>>) = e /\ OwnerOf(<<e, m>>) = m
    /\ \A p \in ParticipantIds \ Seats :
          /\ p[1] \in Events /\ p[2] \in Members /\ p = <<p[1], p[2]>>
          /\ ConversationOf(p) = p[1] /\ OwnerOf(p) = p[2]
    /\ \A s \in Seats : /\ ConversationOf(s) = seat[s].event
                        /\ OwnerOf(s) = seat[s].user
  BY NamesAreApart DEF ParticipantIds, ConversationOf, OwnerOf

\* The same of the names after a step.
LEMMA NamesAfterwards ==
    /\ \A p \in ParticipantIds \ Seats : ConversationOf(p)' = ConversationOf(p)
    /\ \A s \in Seats : ConversationOf(s)' = seat'[s].event
  BY DEF ConversationOf

\* A listener of 'event.created', or the creation itself, writes its event's row.
LEMMA EventRowMoves ==
    ASSUME TablesFine, NEW e \in Events, NEW row \in EventRow,
           event' = [event EXCEPT ![e] = row],
           UNCHANGED <<team, seat, conversation, participant>>,
           \/ row.state = event[e].state
           \/ event[e].state = "absent" /\ row.state = "present",
           row.pc \in {"findTeam", "addTeam"} =>
               e \in conversation \/ row.state = "removed",
           \A m \in row.found : team[m] # "out",
           /\ row.state = "present" /\ row.pc = "idle" /\ ~row.failed
           /\ \A n \in Members : team[n] # "left"
           => \A m \in row.found : participant[<<e, m>>] = "there"
    PROVE  TablesFine' /\ TablesKeep
<1>1. /\ TableTypes /\ RowsWhole /\ JoinerIsAdded /\ TeamIsAdded
      /\ \A f \in Events : CreatorKnows(f)
      /\ \A s \in Seats : SeatKnown(s)
  BY DEF TablesFine
<1>2. /\ event'[e] = row /\ \A f \in Events \ {e} : event'[f] = event[f]
      /\ \A f \in Events : \/ event'[f].state = event[f].state
                           \/ /\ event[f].state = "absent"
                              /\ event'[f].state = "present"
  BY <1>1 DEF TableTypes
<1>3. TableTypes'
  BY <1>1 DEF TableTypes
<1>4. \A f \in Events : CreatorKnows(f)'
  BY <1>1, <1>2 DEF CreatorKnows, Removed
<1>5. \A s \in Seats : SeatKnown(s)'
  BY <1>1, <1>2 DEF SeatKnown, TableTypes, SeatRow
<1>6. RowsWhole'
  BY <1>1, <1>2 DEF RowsWhole, TableTypes, ConversationOf
<1>7. JoinerIsAdded'
  BY <1>1 DEF JoinerIsAdded
<1>8. TeamIsAdded'
  BY <1>1, <1>2 DEF TeamIsAdded
<1>9. TablesKeep
  BY <1>2 DEF TablesKeep, Removed
<1> QED  BY <1>3, <1>4, <1>5, <1>6, <1>7, <1>8, <1>9 DEF TablesFine

\* A listener of 'event.joined', or the join itself, writes its seat's row.
LEMMA SeatRowMoves ==
    ASSUME TablesFine, NEW s \in Seats, NEW row \in SeatRow,
           seat' = [seat EXCEPT ![s] = row],
           UNCHANGED <<event, team, conversation, participant>>,
           \/ /\ row.state = seat[s].state /\ row.event = seat[s].event
              /\ row.user = seat[s].user
           \/ seat[s].state = "unused",
           SeatKnown(s)',
           row.state = "taken" /\ row.pc = "idle" /\ row.met /\ ~row.failed
               => participant[s] = "there"
    PROVE  TablesFine' /\ TablesKeep
<1>1. /\ TableTypes /\ RowsWhole /\ JoinerIsAdded /\ TeamIsAdded
      /\ \A f \in Events : CreatorKnows(f)
      /\ \A q \in Seats : SeatKnown(q)
  BY DEF TablesFine
<1>2. seat'[s] = row /\ \A q \in Seats \ {s} : seat'[q] = seat[q]
  BY <1>1 DEF TableTypes
<1>3. TableTypes'
  BY <1>1 DEF TableTypes
<1>4. \A f \in Events : CreatorKnows(f)'
  BY <1>1 DEF CreatorKnows, Removed
<1>5. \A q \in Seats : SeatKnown(q)'
  BY <1>1, <1>2 DEF SeatKnown
<1>6. RowsWhole'
  <2>1. ASSUME NEW p \in ParticipantIds, participant[p] # "absent"
        PROVE  ConversationOf(p)' = ConversationOf(p)
    BY <1>1, <1>2, <2>1 DEF ConversationOf, SeatKnown
  <2> QED  BY <1>1, <2>1 DEF RowsWhole
<1>7. JoinerIsAdded'
  BY <1>1, <1>2 DEF JoinerIsAdded
<1>8. TeamIsAdded'
  BY <1>1 DEF TeamIsAdded
<1>9. TablesKeep
  BY <1>1, <1>2 DEF TablesKeep, Removed, SeatKnown
<1> QED  BY <1>3, <1>4, <1>5, <1>6, <1>7, <1>8, <1>9 DEF TablesFine

\* What the listener of 'event.created' reads, and its failure.
LEMMA CreatorMoves ==
    ASSUME TablesFine, NEW e \in Events,
           \/ CreateEvent(e) \/ ReadEvent(e) \/ FindTeam(e) \/ FailCreated(e)
    PROVE  TablesFine' /\ TablesKeep
<1>1. event[e] \in EventRow /\ CreatorKnows(e) /\ TableTypes
  BY DEF TablesFine, TableTypes
<1>2. UNCHANGED <<team, seat, conversation, participant>>
  BY DEF CreateEvent, ReadEvent, FindTeam, FailCreated
<1>3. CASE CreateEvent(e)
  <2>1. PICK row : row = [event[e] EXCEPT !.state = "present", !.pc = "readEvent"]
    OBVIOUS
  <2>2. /\ row \in EventRow /\ row.state = "present" /\ row.pc = "readEvent"
        /\ row.found = event[e].found
    BY <1>1, <2>1 DEF EventRow
  <2>3. event' = [event EXCEPT ![e] = row] /\ event[e].state = "absent"
    BY <1>1, <1>3, <2>1 DEF CreateEvent, TableTypes
  <2> QED  BY <1>1, <1>2, <2>2, <2>3, EventRowMoves DEF CreatorKnows
<1>4. CASE ReadEvent(e)
  <2>1. PICK pc : pc = IF event[e].state = "present" THEN "createConversation"
                                                     ELSE "idle"
    OBVIOUS
  <2>2. PICK row : row = [event[e] EXCEPT !.pc = pc]
    OBVIOUS
  <2>3. /\ row \in EventRow /\ row.state = event[e].state /\ row.pc = pc
        /\ row.found = event[e].found
    BY <1>1, <2>1, <2>2 DEF EventRow
  <2>4. event' = [event EXCEPT ![e] = row]
    BY <1>1, <1>4, <2>1, <2>2 DEF ReadEvent, Continue, TableTypes
  <2> QED  BY <1>1, <1>2, <2>1, <2>3, <2>4, EventRowMoves DEF CreatorKnows
<1>5. CASE FindTeam(e)
  <2>1. PICK found : found = {m \in Members : team[m] = "in"}
    OBVIOUS
  <2>2. PICK row : row = [event[e] EXCEPT !.pc = "addTeam", !.found = found]
    OBVIOUS
  <2>3. /\ row \in EventRow /\ row.state = event[e].state /\ row.pc = "addTeam"
        /\ row.found = found
    BY <1>1, <2>1, <2>2 DEF EventRow
  <2>4. event' = [event EXCEPT ![e] = row] /\ event[e].pc = "findTeam"
    BY <1>1, <1>5, <2>1, <2>2 DEF FindTeam, TableTypes
  <2> QED  BY <1>1, <1>2, <2>1, <2>3, <2>4, EventRowMoves DEF CreatorKnows, Removed
<1>6. CASE FailCreated(e)
  <2>1. PICK row : row = [event[e] EXCEPT !.pc = "idle", !.failed = TRUE]
    OBVIOUS
  <2>2. /\ row \in EventRow /\ row.state = event[e].state /\ row.pc = "idle"
        /\ row.found = event[e].found /\ row.failed
    BY <1>1, <2>1 DEF EventRow
  <2>3. event' = [event EXCEPT ![e] = row]
    BY <1>1, <1>6, <2>1 DEF FailCreated, TableTypes
  <2> QED  BY <1>1, <1>2, <2>2, <2>3, EventRowMoves DEF CreatorKnows
<1> QED  BY <1>3, <1>4, <1>5, <1>6

\* A join, what the listener of 'event.joined' reads, and its failure.
LEMMA JoinerMoves ==
    ASSUME TablesFine, NEW s \in Seats,
           \/ \E u \in Users, e \in Events : JoinEvent(s, u, e)
           \/ ReadSeat(s) \/ ReadConversation(s) \/ FailJoined(s)
    PROVE  TablesFine' /\ TablesKeep
<1>1. /\ seat[s] \in SeatRow /\ SeatKnown(s) /\ TableTypes /\ RowsWhole
      /\ JoinerIsAdded
  BY DEF TablesFine, TableTypes
<1>2. UNCHANGED <<event, team, conversation, participant>>
  BY DEF JoinEvent, ReadSeat, ReadConversation, FailJoined
<1>3. ASSUME NEW u \in Users, NEW e \in Events, JoinEvent(s, u, e)
      PROVE  TablesFine' /\ TablesKeep
  <2>1. PICK met \in BOOLEAN : met = (e \in conversation)
    <3>1. (e \in conversation) \in BOOLEAN
      OBVIOUS
    <3> QED  BY <3>1, Zenon
  <2>2. PICK row : row = [state |-> "taken", user |-> u, event |-> e,
                          pc |-> "readSeat", met |-> met, failed |-> FALSE]
    OBVIOUS
  <2>3. /\ row \in SeatRow /\ row.state = "taken" /\ row.event = e /\ row.user = u
        /\ row.pc = "readSeat" /\ row.met = met
    BY <2>2 DEF SeatRow
  <2>4. seat' = [seat EXCEPT ![s] = row]
    BY <1>3, <2>1, <2>2, Zenon DEF JoinEvent
  <2>5. seat[s].state = "unused" /\ event[e].state = "present"
    BY <1>3 DEF JoinEvent
  <2>6. seat'[s] = row
    BY <1>1, <2>4 DEF TableTypes
  <2>7. row.met => e \in conversation
    BY <2>1, <2>3, Zenon
  <2>8. SeatKnown(s)'
    BY <1>1, <1>2, <2>3, <2>5, <2>6, <2>7 DEF SeatKnown
  <2> QED  BY <1>2, <2>3, <2>4, <2>5, <2>8, SeatRowMoves
<1>4. ASSUME NEW pc \in {"idle", "readConversation", "addUser"},
             seat' = [seat EXCEPT ![s].pc = pc],
             seat[s].pc \in {"readSeat", "readConversation"},
             pc = "idle" /\ seat[s].state = "taken" => ~seat[s].met,
             pc = "addUser" => seat[s].event \in conversation
      PROVE  TablesFine' /\ TablesKeep
  <2>1. PICK row : row = [seat[s] EXCEPT !.pc = pc]
    OBVIOUS
  <2>2. /\ row \in SeatRow /\ row.state = seat[s].state
        /\ row.event = seat[s].event /\ row.user = seat[s].user
        /\ row.met = seat[s].met /\ row.pc = pc
    BY <1>1, <2>1 DEF SeatRow
  <2>3. seat' = [seat EXCEPT ![s] = row] /\ seat'[s] = row
    BY <1>1, <1>4, <2>1 DEF TableTypes
  <2>4. SeatKnown(s)'
    BY <1>1, <1>2, <1>4, <2>2, <2>3 DEF SeatKnown
  <2> QED  BY <1>2, <1>4, <2>2, <2>3, <2>4, SeatRowMoves
<1>5. CASE ReadSeat(s)
  <2>1. CASE seat[s].state = "taken"
    BY <1>4, <1>5, <2>1 DEF ReadSeat
  <2>2. CASE seat[s].state # "taken"
    BY <1>4, <1>5, <2>2 DEF ReadSeat
  <2> QED  BY <2>1, <2>2
<1>6. CASE ReadConversation(s)
  <2>1. CASE seat[s].event \in conversation
    BY <1>4, <1>6, <2>1 DEF ReadConversation
  <2>2. CASE seat[s].event \notin conversation
    BY <1>1, <1>4, <1>6, <2>2 DEF ReadConversation, SeatKnown
  <2> QED  BY <2>1, <2>2
<1>7. CASE FailJoined(s)
  <2>1. PICK row : row = [seat[s] EXCEPT !.pc = "idle", !.failed = TRUE]
    OBVIOUS
  <2>2. /\ row \in SeatRow /\ row.state = seat[s].state
        /\ row.event = seat[s].event /\ row.user = seat[s].user
        /\ row.met = seat[s].met /\ row.pc = "idle" /\ row.failed
    BY <1>1, <2>1 DEF SeatRow
  <2>3. seat' = [seat EXCEPT ![s] = row] /\ seat'[s] = row
    BY <1>1, <1>7, <2>1 DEF FailJoined, TableTypes
  <2>4. SeatKnown(s)'
    BY <1>1, <1>2, <2>2, <2>3 DEF SeatKnown
  <2> QED  BY <1>2, <2>2, <2>3, <2>4, SeatRowMoves
<1> QED  BY <1>3, <1>5, <1>6, <1>7

LEMMA CreatorInserts ==
    ASSUME TablesFine, NEW e \in Events, CreateConversation(e)
    PROVE  TablesFine' /\ TablesKeep
<1>1. /\ TableTypes /\ RowsWhole /\ JoinerIsAdded /\ TeamIsAdded
      /\ \A f \in Events : CreatorKnows(f)
      /\ \A q \in Seats : SeatKnown(q)
  BY DEF TablesFine
<1>2. UNCHANGED <<team, seat, participant>> /\ event[e] \in EventRow
  BY <1>1 DEF CreateConversation, TableTypes
<1>3. CASE event[e].state # "present"
  <2>1. PICK row : row = [event[e] EXCEPT !.pc = "idle"]
    OBVIOUS
  <2>2. /\ row \in EventRow /\ row.state = event[e].state /\ row.pc = "idle"
        /\ row.found = event[e].found
    BY <1>2, <2>1 DEF EventRow
  <2>3. event' = [event EXCEPT ![e] = row] /\ conversation' = conversation
    BY <1>1, <1>3, <2>1 DEF CreateConversation, Continue, TableTypes
  <2> QED  BY <1>1, <1>2, <1>3, <2>2, <2>3, EventRowMoves DEF CreatorKnows
<1>4. CASE event[e].state = "present"
  <2>1. PICK row : row = [event[e] EXCEPT !.pc = "findTeam"]
    OBVIOUS
  <2>2. /\ row \in EventRow /\ row.state = "present" /\ row.pc = "findTeam"
        /\ row.found = event[e].found
    BY <1>2, <1>4, <2>1 DEF EventRow
  <2>3. event' = [event EXCEPT ![e] = row] /\ conversation' = conversation \cup {e}
    BY <1>1, <1>4, <2>1 DEF CreateConversation, Continue, TableTypes
  <2>4. event'[e] = row /\ \A f \in Events \ {e} : event'[f] = event[f]
    BY <1>1, <2>3 DEF TableTypes
  <2>5. TableTypes'
    BY <1>1, <1>2, <2>2, <2>3 DEF TableTypes
  <2>6. \A f \in Events : CreatorKnows(f)'
    BY <1>1, <1>2, <2>2, <2>3, <2>4 DEF CreatorKnows, Removed
  <2>7. \A q \in Seats : SeatKnown(q)'
    BY <1>1, <1>2, <1>4, <2>2, <2>3, <2>4 DEF SeatKnown
  <2>8. RowsWhole'
    BY <1>1, <1>2, <2>2, <2>3, <2>4 DEF RowsWhole, ConversationOf, TableTypes
  <2>9. JoinerIsAdded' /\ TeamIsAdded'
    BY <1>1, <1>2, <2>2, <2>4 DEF JoinerIsAdded, TeamIsAdded
  <2>10. TablesKeep
    BY <1>2, <1>4, <2>3, <2>4 DEF TablesKeep, Removed
  <2> QED  BY <2>5, <2>6, <2>7, <2>8, <2>9, <2>10 DEF TablesFine
<1> QED  BY <1>3, <1>4

\* One insert for the whole team, or none when someone left it.
LEMMA TeamInserts ==
    ASSUME TablesFine, NEW e \in Events, AddTeam(e)
    PROVE  TablesFine' /\ TablesKeep
<1>1. /\ TableTypes /\ RowsWhole /\ JoinerIsAdded /\ TeamIsAdded
      /\ \A f \in Events : CreatorKnows(f)
      /\ \A q \in Seats : SeatKnown(q)
  BY DEF TablesFine
<1>2. /\ UNCHANGED <<team, seat, conversation>> /\ event[e] \in EventRow
      /\ event[e].pc = "addTeam"
  BY <1>1 DEF AddTeam, TableTypes
<1>3. PICK row : row = [event[e] EXCEPT !.pc = "idle"]
  OBVIOUS
<1>4. /\ row \in EventRow /\ row.state = event[e].state /\ row.pc = "idle"
      /\ row.found = event[e].found /\ row.failed = event[e].failed
      /\ row.found \subseteq Members
  BY <1>2, <1>3 DEF EventRow
<1>5. event' = [event EXCEPT ![e] = row]
  BY <1>1, <1>3 DEF AddTeam, Continue, TableTypes
<1>6. CASE ~(e \in conversation /\ \A m \in event[e].found : team[m] = "in")
  <2>1. participant' = participant
    BY <1>6 DEF AddTeam
  <2>2. ~(/\ row.state = "present" /\ \A n \in Members : team[n] # "left")
    BY <1>1, <1>2, <1>4, <1>6 DEF CreatorKnows, Removed, TableTypes
  <2> QED  BY <1>1, <1>2, <1>4, <1>5, <2>1, <2>2, EventRowMoves DEF CreatorKnows
<1>7. CASE e \in conversation /\ \A m \in event[e].found : team[m] = "in"
  <2>1. participant' = [p \in ParticipantIds |->
            IF p \in {e} \X event[e].found THEN "there" ELSE participant[p]]
    BY <1>7 DEF AddTeam
  <2>2. event'[e] = row /\ \A f \in Events \ {e} : event'[f] = event[f]
    BY <1>1, <1>5 DEF TableTypes
  <2>3. \A q \in Seats : participant'[q] = participant[q]
    BY <1>4, <2>1, NamesOfParticipants, NamesAreApart
  <2>4. TableTypes'
    BY <1>1, <1>2, <1>4, <1>5, <2>1 DEF TableTypes
  <2>5. \A f \in Events : CreatorKnows(f)'
    BY <1>1, <1>2, <1>4, <2>2 DEF CreatorKnows, Removed
  <2>6. \A q \in Seats : SeatKnown(q)'
    BY <1>1, <1>2, <1>4, <2>2, <2>3 DEF SeatKnown
  <2>7. RowsWhole'
    <3>1. ASSUME NEW p \in ParticipantIds, participant'[p] # "absent"
          PROVE  ConversationOf(p) \in conversation
      <4>1. CASE p \in {e} \X event[e].found
        <5>1. p \in {e} \X Members
          BY <1>4, <4>1
        <5>2. PICK m \in Members : p = <<e, m>>
          BY <5>1
        <5> QED  BY <1>7, <5>2, NamesOfParticipants
      <4>2. CASE p \notin {e} \X event[e].found
        BY <1>1, <2>1, <3>1, <4>2 DEF RowsWhole
      <4> QED  BY <4>1, <4>2
    <3>2. \A p \in ParticipantIds : ConversationOf(p)' = ConversationOf(p)
      BY <1>2 DEF ConversationOf
    <3> QED  BY <1>1, <1>2, <1>4, <2>2, <3>1, <3>2 DEF RowsWhole, TableTypes
  <2>8. JoinerIsAdded'
    BY <1>1, <1>2, <2>3 DEF JoinerIsAdded
  <2>9. TeamIsAdded'
    <3>1. \A m \in row.found : participant'[<<e, m>>] = "there"
      BY <1>4, <2>1, NamesOfParticipants
    <3>2. \A f \in Events, m \in Members :
              participant[<<f, m>>] = "there" => participant'[<<f, m>>] = "there"
      BY <2>1, NamesOfParticipants
    <3>3. \A f \in Events : event[f].found \subseteq Members
      BY <1>1 DEF TableTypes, EventRow
    <3> QED  BY <1>1, <1>2, <2>2, <3>1, <3>2, <3>3 DEF TeamIsAdded
  <2>10. TablesKeep
    <3>1. \A p \in ParticipantIds :
              participant[p] # "absent" => participant'[p] # "absent"
      BY <2>1
    <3> QED  BY <1>2, <1>4, <2>2, <3>1 DEF TablesKeep, Removed
  <2> QED  BY <2>4, <2>5, <2>6, <2>7, <2>8, <2>9, <2>10 DEF TablesFine
<1> QED  BY <1>6, <1>7

LEMMA JoinerInserts ==
    ASSUME TablesFine, NEW s \in Seats, AddUser(s)
    PROVE  TablesFine' /\ TablesKeep
<1>1. /\ TableTypes /\ RowsWhole /\ JoinerIsAdded /\ TeamIsAdded
      /\ \A f \in Events : CreatorKnows(f)
      /\ \A q \in Seats : SeatKnown(q)
  BY DEF TablesFine
<1>2. /\ UNCHANGED <<event, team, conversation>> /\ seat[s] \in SeatRow
      /\ seat[s].pc = "addUser"
  BY <1>1 DEF AddUser, TableTypes
<1>3. PICK row : row = [seat[s] EXCEPT !.pc = "idle"]
  OBVIOUS
<1>4. /\ row \in SeatRow /\ row.state = seat[s].state /\ row.pc = "idle"
      /\ row.event = seat[s].event /\ row.user = seat[s].user
      /\ row.met = seat[s].met
  BY <1>2, <1>3 DEF SeatRow
<1>5. /\ seat' = [seat EXCEPT ![s] = row]
      /\ seat'[s] = row /\ \A q \in Seats \ {s} : seat'[q] = seat[q]
  BY <1>1, <1>3 DEF AddUser, TableTypes
<1>6. CASE seat[s].event \notin conversation
  <2>1. participant' = participant
    BY <1>6 DEF AddUser
  <2>2. SeatKnown(s)'
    BY <1>1, <1>2, <1>4, <1>5, <2>1 DEF SeatKnown
  <2>3. row.state # "taken"
    BY <1>1, <1>2, <1>4, <1>6 DEF SeatKnown
  <2> QED  BY <1>2, <1>4, <1>5, <2>1, <2>2, <2>3, SeatRowMoves
<1>7. CASE seat[s].event \in conversation
  <2>1. participant' = [participant EXCEPT ![s] = "there"]
    BY <1>7 DEF AddUser
  <2>2. /\ participant'[s] = "there"
        /\ \A p \in ParticipantIds \ {s} : participant'[p] = participant[p]
    BY <1>1, <2>1, NamesOfParticipants DEF TableTypes
  <2>3. TableTypes'
    BY <1>1, <1>2, <1>4, <1>5, <2>1 DEF TableTypes
  <2>4. \A f \in Events : CreatorKnows(f)'
    BY <1>1, <1>2 DEF CreatorKnows, Removed
  <2>5. \A q \in Seats : SeatKnown(q)'
    BY <1>1, <1>2, <1>4, <1>5, <2>2, NamesOfParticipants DEF SeatKnown
  <2>6. RowsWhole'
    <3>1. \A p \in ParticipantIds : ConversationOf(p)' = ConversationOf(p)
      BY <1>4, <1>5 DEF ConversationOf
    <3> QED  BY <1>1, <1>2, <1>7, <2>2, <3>1, NamesOfParticipants DEF RowsWhole
  <2>7. JoinerIsAdded'
    BY <1>1, <1>5, <2>2, NamesOfParticipants DEF JoinerIsAdded
  <2>8. TeamIsAdded'
    <3>1. \A f \in Events, m \in Members :
              participant'[<<f, m>>] = participant[<<f, m>>]
      BY <2>2, NamesOfParticipants
    <3>2. \A f \in Events : event[f].found \subseteq Members
      BY <1>1 DEF TableTypes, EventRow
    <3> QED  BY <1>1, <1>2, <3>1, <3>2 DEF TeamIsAdded
  <2>9. TablesKeep
    BY <1>2, <1>4, <1>5, <2>2 DEF TablesKeep, Removed
  <2> QED  BY <2>3, <2>4, <2>5, <2>6, <2>7, <2>8, <2>9 DEF TablesFine
<1> QED  BY <1>6, <1>7

\* A member who leaves stays a participant, without a name.
LEMMA TeamMoves ==
    ASSUME TablesFine, NEW m \in Members, AddMember(m) \/ RemoveMember(m)
    PROVE  TablesFine' /\ TablesKeep
<1>1. /\ TableTypes /\ RowsWhole /\ JoinerIsAdded /\ TeamIsAdded
      /\ \A f \in Events : CreatorKnows(f)
      /\ \A q \in Seats : SeatKnown(q)
  BY DEF TablesFine
<1>2. /\ UNCHANGED <<event, seat, conversation>>
      /\ team' = [team EXCEPT ![m] = "in"] \/ team' = [team EXCEPT ![m] = "left"]
  BY DEF AddMember, RemoveMember
<1>3. \A q \in Seats : participant'[q] = participant[q]
  <2>1. ASSUME NEW q \in Seats, participant[q] = "there" PROVE OwnerOf(q) # m
    BY <1>1, <2>1, NamesOfParticipants, NamesAreApart DEF SeatKnown
  <2> QED  BY <2>1, NamesOfParticipants DEF AddMember, RemoveMember
<1>4. /\ participant' \in [ParticipantIds -> {"absent", "there", "ownerless"}]
      /\ \A p \in ParticipantIds : participant'[p] = "absent" <=>
                                   participant[p] = "absent"
  BY <1>1 DEF TableTypes, AddMember, RemoveMember
<1>5. TableTypes'
  BY <1>1, <1>2, <1>4 DEF TableTypes
<1>6. \A f \in Events : CreatorKnows(f)'
  BY <1>1, <1>2 DEF CreatorKnows, Removed, TableTypes, EventRow
<1>7. \A q \in Seats : SeatKnown(q)'
  BY <1>1, <1>2, <1>3 DEF SeatKnown
<1>8. RowsWhole'
  BY <1>1, <1>2, <1>4 DEF RowsWhole, ConversationOf
<1>9. JoinerIsAdded'
  BY <1>1, <1>2, <1>3 DEF JoinerIsAdded
<1>10. TeamIsAdded'
  <2>1. CASE AddMember(m)
    <3>1. /\ participant' = participant /\ team[m] = "out"
          /\ team' = [team EXCEPT ![m] = "in"]
      BY <2>1 DEF AddMember
    <3>2. \A n \in Members : team[n] = "left" => team'[n] = "left"
      BY <1>1, <3>1 DEF TableTypes
    <3> QED  BY <1>1, <1>2, <3>1, <3>2 DEF TeamIsAdded
  <2>2. CASE RemoveMember(m)
    <3>1. team'[m] = "left"
      BY <1>1, <2>2 DEF RemoveMember, TableTypes
    <3> QED  BY <3>1 DEF TeamIsAdded
  <2> QED  BY <2>1, <2>2
<1>11. TablesKeep
  BY <1>2, <1>4 DEF TablesKeep, Removed
<1> QED  BY <1>5, <1>6, <1>7, <1>8, <1>9, <1>10, <1>11 DEF TablesFine

\* The delete takes along all that is of the event, and nothing else.
LEMMA RemovalCascades ==
    ASSUME TablesFine, NEW e \in Events, RemoveEvent(e)
    PROVE  TablesFine' /\ TablesKeep
<1>1. /\ TableTypes /\ RowsWhole /\ JoinerIsAdded /\ TeamIsAdded
      /\ \A f \in Events : CreatorKnows(f)
      /\ \A q \in Seats : SeatKnown(q)
  BY DEF TablesFine
<1>2. team' = team /\ conversation' = conversation \ {e}
  BY DEF RemoveEvent
<1>3. /\ event'[e].state = "removed" /\ event'[e].found = event[e].found
      /\ \A f \in Events \ {e} : event'[f] = event[f]
      /\ event' \in [Events -> EventRow]
  BY <1>1 DEF RemoveEvent, TableTypes, EventRow
<1>4. /\ \A s \in Seats : seat[s].event = e =>
            /\ seat'[s].state = "gone" /\ seat'[s].event = e
            /\ seat'[s].user = seat[s].user
      /\ \A s \in Seats : seat[s].event # e => seat'[s] = seat[s]
      /\ seat' \in [Seats -> SeatRow]
  BY <1>1 DEF RemoveEvent, TableTypes, SeatRow
<1>5. /\ \A p \in ParticipantIds : ConversationOf(p) = e => participant'[p] = "absent"
      /\ \A p \in ParticipantIds :
            ConversationOf(p) # e => participant'[p] = participant[p]
      /\ participant' \in [ParticipantIds -> {"absent", "there", "ownerless"}]
  BY <1>1 DEF RemoveEvent, TableTypes
<1>6. \A p \in ParticipantIds : ConversationOf(p)' = ConversationOf(p)
  BY <1>4 DEF ConversationOf
<1>7. TableTypes'
  BY <1>1, <1>2, <1>3, <1>4, <1>5 DEF TableTypes
<1>8. \A f \in Events : CreatorKnows(f)'
  BY <1>1, <1>2, <1>3 DEF CreatorKnows, Removed
<1>9. \A q \in Seats : SeatKnown(q)'
  <2>1. ASSUME NEW q \in Seats, seat[q].event = e PROVE SeatKnown(q)'
    <3>1. seat[q].state # "unused"
      BY <1>1, <2>1, NamesAreApart DEF SeatKnown
    <3>2. participant'[q] = "absent"
      BY <1>5, <2>1, NamesOfParticipants
    <3> QED  BY <1>1, <1>4, <2>1, <3>1, <3>2 DEF SeatKnown
  <2>2. ASSUME NEW q \in Seats, seat[q].event # e PROVE SeatKnown(q)'
    <3>1. participant'[q] = participant[q]
      BY <1>5, <2>2, NamesOfParticipants
    <3> QED  BY <1>1, <1>2, <1>3, <1>4, <2>2, <3>1 DEF SeatKnown
  <2> QED  BY <2>1, <2>2
<1>10. RowsWhole'
  BY <1>1, <1>2, <1>3, <1>5, <1>6 DEF RowsWhole, TableTypes
<1>11. JoinerIsAdded'
  <2>1. ASSUME NEW s \in Seats, seat'[s].state = "taken"
        PROVE  seat'[s] = seat[s] /\ participant'[s] = participant[s]
    BY <1>4, <1>5, <2>1, NamesOfParticipants
  <2> QED  BY <1>1, <2>1 DEF JoinerIsAdded
<1>12. TeamIsAdded'
  <2>1. ASSUME NEW f \in Events, NEW m \in Members, f # e
        PROVE  participant'[<<f, m>>] = participant[<<f, m>>]
    BY <1>5, <2>1, NamesOfParticipants
  <2>2. \A f \in Events : event[f].found \subseteq Members
    BY <1>1 DEF TableTypes, EventRow
  <2> QED  BY <1>1, <1>2, <1>3, <2>1, <2>2 DEF TeamIsAdded
<1>13. TablesKeep
  BY <1>2, <1>3, <1>4, <1>5 DEF TablesKeep, Removed
<1> QED  BY <1>7, <1>8, <1>9, <1>10, <1>11, <1>12, <1>13 DEF TablesFine

\* Listeners are gone after a crash, the tables stay.
LEMMA TablesOutliveCrash ==
    ASSUME TablesFine, Crash
    PROVE  TablesFine' /\ TablesKeep
<1>1. /\ TableTypes /\ RowsWhole /\ JoinerIsAdded /\ TeamIsAdded
      /\ \A f \in Events : CreatorKnows(f)
      /\ \A q \in Seats : SeatKnown(q)
  BY DEF TablesFine
<1>2. UNCHANGED <<team, conversation, participant>>
  BY DEF Crash
<1>3. ASSUME NEW e \in Events
      PROVE  /\ event'[e] \in EventRow /\ event'[e].state = event[e].state
             /\ event'[e].pc = "idle" /\ event'[e].found = event[e].found
             /\ ~event'[e].failed => ~event[e].failed /\ event[e].pc = "idle"
  <2>1. event[e] \in EventRow
    BY <1>1 DEF TableTypes
  <2>2. PICK failed \in BOOLEAN : failed = (event[e].failed \/ event[e].pc # "idle")
    OBVIOUS
  <2>3. event'[e] = [event[e] EXCEPT !.pc = "idle", !.failed = failed]
    BY <2>2 DEF Crash
  <2>4. ~failed => ~event[e].failed /\ event[e].pc = "idle"
    BY <2>2
  <2> QED  BY <2>1, <2>3, <2>4 DEF EventRow
<1>4. ASSUME NEW s \in Seats
      PROVE  /\ seat'[s] \in SeatRow /\ seat'[s].state = seat[s].state
             /\ seat'[s].user = seat[s].user /\ seat'[s].event = seat[s].event
             /\ seat'[s].pc = "idle" /\ seat'[s].met = seat[s].met
             /\ ~seat'[s].failed => ~seat[s].failed /\ seat[s].pc = "idle"
  <2>1. seat[s] \in SeatRow
    BY <1>1 DEF TableTypes
  <2>2. PICK failed \in BOOLEAN : failed = (seat[s].failed \/ seat[s].pc # "idle")
    OBVIOUS
  <2>3. seat'[s] = [seat[s] EXCEPT !.pc = "idle", !.failed = failed]
    BY <2>2 DEF Crash
  <2>4. ~failed => ~seat[s].failed /\ seat[s].pc = "idle"
    BY <2>2
  <2> QED  BY <2>1, <2>3, <2>4 DEF SeatRow
<1>5. TableTypes'
  BY <1>1, <1>2, <1>3, <1>4 DEF TableTypes, Crash
<1>6. \A f \in Events : CreatorKnows(f)'
  BY <1>1, <1>2, <1>3 DEF CreatorKnows, Removed
<1>7. \A q \in Seats : SeatKnown(q)'
  BY <1>1, <1>2, <1>3, <1>4 DEF SeatKnown
<1>8. RowsWhole'
  BY <1>1, <1>2, <1>3, <1>4 DEF RowsWhole, ConversationOf, TableTypes
<1>9. JoinerIsAdded'
  BY <1>1, <1>2, <1>4 DEF JoinerIsAdded
<1>10. TeamIsAdded'
  BY <1>1, <1>2, <1>3 DEF TeamIsAdded
<1>11. TablesKeep
  BY <1>2, <1>3, <1>4 DEF TablesKeep, Removed
<1> QED  BY <1>5, <1>6, <1>7, <1>8, <1>9, <1>10, <1>11 DEF TablesFine

LEMMA TablesRest ==
    ASSUME TablesFine, UNCHANGED table
    PROVE  TablesFine' /\ TablesKeep
<1>1. UNCHANGED <<event, team, seat, conversation, participant>>
  BY DEF table
<1>2. TableTypes' /\ RowsWhole'
  BY <1>1 DEF TablesFine, TableTypes, RowsWhole, ConversationOf
<1>3. JoinerIsAdded' /\ TeamIsAdded'
  BY <1>1 DEF TablesFine, JoinerIsAdded, TeamIsAdded
<1>4. \A e \in Events : CreatorKnows(e)'
  BY <1>1 DEF TablesFine, CreatorKnows, Removed
<1>5. \A s \in Seats : SeatKnown(s)'
  BY <1>1 DEF TablesFine, SeatKnown
<1>6. TablesKeep
  BY <1>1 DEF TablesKeep, Removed
<1> QED  BY <1>2, <1>3, <1>4, <1>5, <1>6 DEF TablesFine

\* What the steps do to each other's tables: a step is a removal, a crash,
\* another step of the tables, which leaves chat and clients alone, or a step of
\* the chat, which leaves the tables alone.
ListenerOrTable ==
    \/ \E e \in Events :
          \/ CreateEvent(e) \/ ReadEvent(e) \/ CreateConversation(e)
          \/ FindTeam(e) \/ AddTeam(e) \/ FailCreated(e)
    \/ \E s \in Seats :
          \/ \E u \in Users, e \in Events : JoinEvent(s, u, e)
          \/ ReadSeat(s) \/ ReadConversation(s) \/ AddUser(s) \/ FailJoined(s)
    \/ \E m \in Members : AddMember(m) \/ RemoveMember(m)

LEMMA StepsOfTheTables ==
    ASSUME Next
    PROVE  \/ ListenerOrTable /\ UNCHANGED <<message, gateway, client, req>>
           \/ \E e \in Events : RemoveEvent(e)
           \/ Crash
           \/ UNCHANGED table /\ (ClientStep \/ \E r \in Requests :
                                                   HandlerStep(r) \/ Fail(r))
<1>1. CASE TableStep
  <2>1. CASE \E e \in Events : CreateEvent(e)
    BY <2>1 DEF CreateEvent, ListenerOrTable
  <2>2. CASE \E e \in Events : RemoveEvent(e)
    BY <2>2
  <2>3. CASE \E e \in Events, s \in Seats, u \in Users : JoinEvent(s, u, e)
    BY <2>3 DEF JoinEvent, ListenerOrTable
  <2>4. CASE \E m \in Members : AddMember(m) \/ RemoveMember(m)
    BY <2>4 DEF AddMember, RemoveMember, ListenerOrTable
  <2> QED  BY <1>1, <2>1, <2>2, <2>3, <2>4 DEF TableStep
<1>2. CASE ClientStep
  <2>1. ASSUME NEW s, Connect(s) \/ Disconnect(s) PROVE UNCHANGED table
    BY <2>1 DEF Connect, Disconnect
  <2>2. ASSUME NEW s, NEW e, LeaveConversation(s, e) PROVE UNCHANGED table
    BY <2>2 DEF LeaveConversation
  <2>3. ASSUME NEW s, NEW e, Fetched(s, e) PROVE UNCHANGED table
    BY <2>3 DEF Fetched
  <2>4. ASSUME NEW r, NEW pc, NEW s, NEW u, NEW m, NEW e, Frame(r, pc, s, u, m, e)
        PROVE  UNCHANGED table
    BY <2>4 DEF Frame
  <2>5. UNCHANGED table
    BY <1>2, <2>1, <2>2, <2>3, <2>4
       DEF ClientStep, FetchAsMember, FetchHistory, FetchMessages,
           JoinConversation, SendMessage, PostMessage
  <2> QED  BY <1>2, <2>5
<1>3. CASE \E e \in Events : CreatedStep(e) \/ FailCreated(e)
  BY <1>3 DEF CreatedStep, ReadEvent, CreateConversation, FindTeam, AddTeam,
              FailCreated, ListenerOrTable
<1>4. CASE \E s \in Seats : JoinedStep(s) \/ FailJoined(s)
  BY <1>4 DEF JoinedStep, ReadSeat, ReadConversation, AddUser, FailJoined,
              ListenerOrTable
<1>5. CASE \E r \in Requests : HandlerStep(r) \/ Fail(r)
  BY <1>5 DEF HandlerStep, ValidateJoinUser, ValidateJoinMember, ValidateSender,
              InsertMessage, Broadcast, FindConversation, AskAi, InsertAi,
              BroadcastAi, Fail
<1> QED  BY <1>1, <1>2, <1>3, <1>4, <1>5 DEF Next

LEMMA TablesStep ==
    ASSUME TablesFine, [Next]_vars
    PROVE  TablesFine' /\ TablesKeep
<1>1. CASE ListenerOrTable
  <2>1. CASE \E e \in Events : \/ CreateEvent(e) \/ ReadEvent(e) \/ FindTeam(e)
                               \/ FailCreated(e)
    BY <2>1, CreatorMoves
  <2>2. CASE \E s \in Seats :
                \/ \E u \in Users, e \in Events : JoinEvent(s, u, e)
                \/ ReadSeat(s) \/ ReadConversation(s) \/ FailJoined(s)
    BY <2>2, JoinerMoves
  <2> QED  BY <1>1, <2>1, <2>2, CreatorInserts, TeamInserts, JoinerInserts,
              TeamMoves DEF ListenerOrTable
<1>2. CASE \E e \in Events : RemoveEvent(e)
  BY <1>2, RemovalCascades
<1>3. CASE Crash
  BY <1>3, TablesOutliveCrash
<1>4. CASE UNCHANGED table
  BY <1>4, TablesRest
<1>5. CASE UNCHANGED vars
  BY <1>5, TablesRest DEF vars
<1> QED  BY <1>1, <1>2, <1>3, <1>4, <1>5, StepsOfTheTables

-----------------------------------------------------------------------------
(* The messages and the handlers *)

ChatTypes ==
    /\ message \in [Messages -> MessageRow]
    /\ socket \in [Sockets -> Disconnected \cup Connected]
    /\ socketRooms \in [Sockets -> SUBSET Events]
    /\ seen \in [Sockets -> SUBSET Messages]
    /\ caughtUp \in [Sockets -> SUBSET Events]
    /\ req \in [Requests -> Handler]

\* The part of ConversationIsWhole about messages.
MessagesWhole ==
    \A m \in Stored :
        /\ message[m].conversation \in conversation
        /\ message[m].sender # None =>
              /\ participant[message[m].sender] # "absent"
              /\ ConversationOf(message[m].sender) = message[m].conversation

MessagesFine ==
    /\ message \in [Messages -> MessageRow]
    /\ req \in [Requests -> Handler]
    /\ \A m \in Messages : MessageKnown(m)
    /\ \A r \in Requests : HandlerKnows(r)
    /\ MessagesWhole
    /\ RepliesAnswerUsers

RoomsFine ==
    /\ socket \in [Sockets -> Disconnected \cup Connected]
    /\ socketRooms \in [Sockets -> SUBSET Events]
    /\ seen \in [Sockets -> SUBSET Messages]
    /\ caughtUp \in [Sockets -> SUBSET Events]
    /\ \A s \in Sockets : caughtUp[s] \subseteq socket[s].rooms
    /\ ReaderMissesNothing

LEMMA PartsOfTheInvariant == ChatInv <=> TablesFine /\ MessagesFine /\ RoomsFine
  BY DEF ChatInv, TypeOK, TablesFine, TableTypes, RowsWhole, MessagesFine,
         MessagesWhole, RoomsFine, ConversationIsWhole

\* A step of the tables takes messages along with their event, or no message;
\* handlers go on or are gone.
LEMMA MessagesFollowTables ==
    ASSUME TablesFine, TablesFine', TablesKeep, MessagesFine,
           req' = req \/ req' = [r \in Requests |-> IdleHandler],
           message' \in [Messages -> MessageRow],
           \A m \in Messages :
              \/ message'[m] = message[m]
              \/ /\ message'[m] = [message[m] EXCEPT !.state = "gone"]
                 /\ message[m].conversation \in Events
                 /\ event'[message[m].conversation].state = "removed",
           \A m \in Messages : message'[m].state = "stored" =>
              message[m].conversation \in conversation'
    PROVE  MessagesFine'
<1>1. /\ message \in [Messages -> MessageRow] /\ req \in [Requests -> Handler]
      /\ \A m \in Messages : MessageKnown(m)
      /\ \A r \in Requests : HandlerKnows(r)
      /\ MessagesWhole /\ RepliesAnswerUsers
  BY DEF MessagesFine
<1>2. \A m \in Messages :
          /\ message'[m].conversation = message[m].conversation
          /\ message'[m].sender = message[m].sender
          /\ message'[m].answers = message[m].answers
          /\ message'[m].state = "unused" <=> message[m].state = "unused"
          /\ message'[m].state = "stored" => message[m].state = "stored"
          /\ message'[m].state = "gone" => Removed(message[m].conversation)'
  <2>1. ASSUME NEW m \in Messages PROVE message[m] \in MessageRow /\ MessageKnown(m)
    BY <1>1
  <2>2. ASSUME NEW m \in Messages, message'[m] = message[m],
               message[m].state = "gone"
        PROVE  event'[message[m].conversation].state = "removed"
    BY <2>1, <2>2 DEF MessageKnown, TablesKeep
  <2>3. ASSUME NEW m \in Messages,
               message'[m] = [message[m] EXCEPT !.state = "gone"],
               message[m].conversation \in Events
        PROVE  /\ message'[m].conversation = message[m].conversation
               /\ message'[m].sender = message[m].sender
               /\ message'[m].answers = message[m].answers
               /\ message'[m].state = "gone" /\ message[m].state # "unused"
    BY <2>1, <2>3, NamesAreApart DEF MessageKnown, MessageRow
  <2> QED  BY <2>2, <2>3 DEF Removed
<1>3. \A m \in Messages : MessageKnown(m)'
  BY <1>1, <1>2 DEF MessageKnown, Removed, MessageRow
<1>4. req' \in [Requests -> Handler]
  BY <1>1 DEF IdleHandler, Handler
<1>5. ASSUME NEW p \in ParticipantIds, p \in Seats => seat[p].state # "unused"
      PROVE  ConversationOf(p)' = ConversationOf(p)
  BY <1>5, NamesAfterwards, NamesOfParticipants DEF TablesKeep
<1>6. \A e \in Events : Removed(e) => Removed(e)'
  BY DEF TablesKeep, Removed
<1>7. ASSUME NEW r \in Requests, req' = req PROVE HandlerKnows(r)'
  <2>1. HandlerKnows(r) /\ req[r] \in Handler
    BY <1>1
  <2>2. req[r].pc = "insertMessage" =>
          /\ req[r].sender \in Seats => seat'[req[r].sender].state # "unused"
          /\ ConversationOf(req[r].sender)' = req[r].event
          /\ \/ participant'[req[r].sender] # "absent"
             \/ event'[req[r].event].state = "removed"
    <3> SUFFICES ASSUME req[r].pc = "insertMessage",
                        NEW p, p = req[r].sender, NEW e, e = req[r].event
                 PROVE  /\ p \in Seats => seat'[p].state # "unused"
                        /\ ConversationOf(p)' = e
                        /\ \/ participant'[p] # "absent"
                           \/ event'[e].state = "removed"
      BY <1>7
    <3>1. /\ p \in ParticipantIds /\ e \in Events
          /\ p \in Seats => seat[p].state # "unused"
          /\ ConversationOf(p) = e
          /\ participant[p] # "absent" \/ Removed(e)
      BY <2>1 DEF HandlerKnows
    <3> QED  BY <1>5, <1>6, <3>1 DEF TablesKeep, Removed
  <2>3. req[r].pc \in HoldsMessage =>
          /\ message'[req[r].message].state # "unused"
          /\ message'[req[r].message].conversation = req[r].event
          /\ message'[req[r].message].sender # None
          /\ req[r].user # None => message'[req[r].message].sender \in Seats
          /\ \A n \in Messages : message'[n].answers # req[r].message
    BY <1>2, <2>1 DEF HandlerKnows
  <2>4. req[r].pc = "broadcastAi" =>
          /\ message'[req[r].reply].state # "unused"
          /\ message'[req[r].reply].conversation = req[r].event
    BY <1>2, <2>1 DEF HandlerKnows
  <2> QED  BY <1>7, <2>1, <2>2, <2>3, <2>4 DEF HandlerKnows, Removed
<1>8. ASSUME NEW r \in Requests, req' = [q \in Requests |-> IdleHandler]
      PROVE  HandlerKnows(r)'
  BY <1>8 DEF HandlerKnows, IdleHandler, HoldsMessage
<1>9. MessagesWhole'
  <2> SUFFICES ASSUME NEW m \in Messages, message'[m].state = "stored",
                      NEW e, e = message[m].conversation, NEW p,
                      p = message[m].sender
               PROVE  /\ e \in conversation'
                      /\ p # None => /\ participant'[p] # "absent"
                                     /\ ConversationOf(p)' = e
    BY <1>2 DEF MessagesWhole, Stored
  <2>1. message[m] \in MessageRow
    BY <1>1
  <2>2. ASSUME p # None PROVE /\ p \in ParticipantIds /\ ConversationOf(p) = e
                              /\ participant[p] # "absent"
    BY <1>1, <1>2, <2>1, <2>2 DEF MessagesWhole, Stored, MessageRow
  <2>3. e \in conversation' /\ event'[e].state = "present"
    BY DEF TablesFine, RowsWhole
  <2>4. ASSUME p # None PROVE p \in Seats => seat[p].state # "unused"
    BY <2>2, <2>4 DEF TablesFine, SeatKnown
  <2> QED  BY <1>5, <2>2, <2>3, <2>4 DEF TablesKeep
<1>10. RepliesAnswerUsers'
  <2> SUFFICES ASSUME NEW m \in Messages, message'[m].state = "stored",
                      message[m].sender = None
               PROVE  LET a == message[m].answers IN
                      /\ a \in Messages /\ message'[a].state = "stored"
                      /\ message[a].sender \in Seats
                      /\ message[a].conversation = message[m].conversation
                      /\ \A n \in Messages \ {m} :
                            message'[n].state = "stored" => message[n].answers # a
    BY <1>2 DEF RepliesAnswerUsers, Stored
  <2>1. PICK a : a = message[m].answers
    OBVIOUS
  <2>2. /\ a \in Messages /\ message[a].state = "stored"
        /\ message[a].sender \in Seats
        /\ message[a].conversation = message[m].conversation
        /\ \A n \in Messages \ {m} :
              message[n].state = "stored" => message[n].answers # a
    BY <1>1, <1>2, <2>1 DEF RepliesAnswerUsers, Stored
  <2>3. event'[message[m].conversation].state = "present"
    BY DEF TablesFine, RowsWhole
  <2>4. message'[a].state = "stored"
    BY <2>2, <2>3
  <2> QED  BY <1>2, <2>1, <2>2, <2>4
<1> QED  BY <1>3, <1>4, <1>7, <1>8, <1>9, <1>10 DEF MessagesFine

\* The names a table step may move stay when the tables rest.
LEMMA NamesRest ==
    ASSUME UNCHANGED table
    PROVE  /\ UNCHANGED <<event, team, seat, conversation, participant>>
           /\ \A p \in ParticipantIds : ConversationOf(p)' = ConversationOf(p)
           /\ \A e \in Events : Removed(e)' = Removed(e)
  BY DEF table, ConversationOf, Removed

\* A handler goes on and writes no message.
LEMMA HandlerMoves ==
    ASSUME MessagesFine, UNCHANGED table, message' = message,
           NEW r \in Requests, NEW row \in Handler,
           req' = [req EXCEPT ![r] = row],
           row.pc \in HoldsMessage =>
               req[r].pc \in HoldsMessage /\ row.message = req[r].message,
           HandlerKnows(r)'
    PROVE  MessagesFine'
<1>1. /\ message \in [Messages -> MessageRow] /\ req \in [Requests -> Handler]
      /\ \A m \in Messages : MessageKnown(m)
      /\ \A q \in Requests : HandlerKnows(q)
      /\ MessagesWhole /\ RepliesAnswerUsers
  BY DEF MessagesFine
<1>2. /\ UNCHANGED <<event, team, seat, conversation, participant>>
      /\ \A e \in Events : Removed(e)' = Removed(e)
      /\ \A p \in ParticipantIds : ConversationOf(p)' = ConversationOf(p)
  BY NamesRest
<1>3. /\ req' \in [Requests -> Handler] /\ req'[r] = row
      /\ \A q \in Requests \ {r} : req'[q] = req[q]
  BY <1>1
<1>4. \A m \in Messages : MessageKnown(m)'
  BY <1>1, <1>2 DEF MessageKnown, Removed
<1>5. ASSUME NEW q \in Requests \ {r} PROVE HandlerKnows(q)'
  <2>1. HandlerKnows(q) /\ req'[q] = req[q]
    BY <1>1, <1>3
  <2>2. req[q].pc \in HoldsMessage =>
          \A k \in Requests \ {q} :
              req'[k].pc \in HoldsMessage => req'[k].message # req[q].message
    <3>1. ASSUME NEW k \in Requests \ {q}, req[q].pc \in HoldsMessage,
                 req'[k].pc \in HoldsMessage
          PROVE  req[k].pc \in HoldsMessage /\ req'[k].message = req[k].message
      BY <1>3, <3>1
    <3> QED  BY <2>1, <3>1 DEF HandlerKnows
  <2> QED  BY <1>2, <2>1, <2>2 DEF HandlerKnows, Removed, ConversationOf
<1>6. MessagesWhole' /\ RepliesAnswerUsers'
  BY <1>1, <1>2 DEF MessagesWhole, RepliesAnswerUsers, Stored, ConversationOf
<1> QED  BY <1>1, <1>3, <1>4, <1>5, <1>6 DEF MessagesFine

\* A handler stores a row, and keeps it to broadcast it or answers.
LEMMA RowStored ==
    ASSUME TablesFine, MessagesFine, UNCHANGED table,
           NEW m \in Messages, message[m].state = "unused",
           NEW row \in MessageRow, message' = [message EXCEPT ![m] = row],
           row.state = "stored", row.conversation \in conversation,
           row.sender # None => /\ participant[row.sender] # "absent"
                                /\ ConversationOf(row.sender) = row.conversation
                                /\ row.answers = None,
           row.sender = None =>
               /\ row.answers \in Stored
               /\ message[row.answers].sender \in Seats
               /\ message[row.answers].conversation = row.conversation
               /\ \A n \in Messages : message[n].answers # row.answers,
           NEW r \in Requests, NEW h \in Handler,
           req' = [req EXCEPT ![r] = h],
           \/ h = IdleHandler
           \/ h.pc = "broadcast" /\ h.message = m /\ row.sender # None
                 /\ (h.user # None => row.sender \in Seats)
                 /\ h.event = row.conversation
           \/ h.pc = "broadcastAi" /\ h.reply = m /\ h.event = row.conversation,
           row.sender = None => \A q \in Requests \ {r} :
               req[q].pc \in HoldsMessage => req[q].message # row.answers
    PROVE  MessagesFine'
<1>1. /\ message \in [Messages -> MessageRow] /\ req \in [Requests -> Handler]
      /\ \A n \in Messages : MessageKnown(n)
      /\ \A q \in Requests : HandlerKnows(q)
      /\ MessagesWhole /\ RepliesAnswerUsers
  BY DEF MessagesFine
<1>2. /\ UNCHANGED <<event, team, seat, conversation, participant>>
      /\ \A e \in Events : Removed(e)' = Removed(e)
      /\ \A p \in ParticipantIds : ConversationOf(p)' = ConversationOf(p)
  BY NamesRest
<1>3. /\ req' \in [Requests -> Handler] /\ req'[r] = h
      /\ \A q \in Requests \ {r} : req'[q] = req[q]
  BY <1>1
<1>4. /\ message' \in [Messages -> MessageRow] /\ message'[m] = row
      /\ \A n \in Messages \ {m} : message'[n] = message[n]
  BY <1>1
<1>5. \A n \in Messages : message[n].answers # m
  BY <1>1, NamesAreApart DEF MessageKnown
<1>6. conversation \subseteq Events /\ None \notin Messages
  BY NamesAreApart DEF TablesFine, TableTypes
<1>7. \A n \in Messages : MessageKnown(n)'
  <2>1. MessageKnown(m)'
    BY <1>1, <1>4, <1>6 DEF MessageKnown, Stored, MessageRow
  <2>2. ASSUME NEW n \in Messages \ {m} PROVE MessageKnown(n)'
    <3>1. MessageKnown(n) /\ message'[n] = message[n] /\ message[n] \in MessageRow
      BY <1>1, <1>4
    <3>2. event' = event
      BY <1>2
    <3> QED  BY <1>4, <1>5, <3>1, <3>2 DEF MessageKnown, MessageRow, Removed
  <2> QED  BY <2>1, <2>2
<1>8. HandlerKnows(r)'
  <2>1. CASE h = IdleHandler
    BY <1>3, <2>1 DEF HandlerKnows, IdleHandler, HoldsMessage
  <2>2. CASE h.pc = "broadcast"
    <3>1. \A n \in Messages : message'[n].answers # m
      BY <1>4, <1>5, <1>6, <2>2 DEF IdleHandler
    <3>2. \A q \in Requests \ {r} : req[q].pc \in HoldsMessage => req[q].message # m
      BY <1>1 DEF HandlerKnows
    <3>3. /\ h.message = m /\ h.event = row.conversation /\ row.sender # None
          /\ h.user # None => row.sender \in Seats
      BY <2>2 DEF IdleHandler
    <3> QED  BY <1>3, <1>4, <1>6, <2>2, <3>1, <3>2, <3>3
             DEF HandlerKnows, HoldsMessage
  <2>3. CASE h.pc = "broadcastAi"
    <3>1. h.reply = m /\ h.event = row.conversation
      BY <2>3 DEF IdleHandler
    <3> QED  BY <1>3, <1>4, <1>6, <2>3, <3>1 DEF HandlerKnows, HoldsMessage
  <2> QED  BY <2>1, <2>2, <2>3
<1>9. ASSUME NEW q \in Requests \ {r} PROVE HandlerKnows(q)'
  <2>1. HandlerKnows(q) /\ req'[q] = req[q]
    BY <1>1, <1>3
  <2>2. req[q].pc \in HoldsMessage =>
          /\ message'[req[q].message] = message[req[q].message]
          /\ \A n \in Messages : message'[n].answers # req[q].message
          /\ req[q].message # m
    BY <1>4, <1>6, <2>1 DEF HandlerKnows
  <2>3. req[q].pc \in HoldsMessage =>
          \A k \in Requests \ {q} :
              req'[k].pc \in HoldsMessage => req'[k].message # req[q].message
    BY <1>3, <2>1, <2>2 DEF HandlerKnows, HoldsMessage, IdleHandler
  <2>4. req[q].pc = "broadcastAi" =>
          message'[req[q].reply] = message[req[q].reply]
    BY <1>4, <2>1 DEF HandlerKnows
  <2> QED  BY <1>2, <2>1, <2>2, <2>3, <2>4
           DEF HandlerKnows, Removed, ConversationOf
<1>10. MessagesWhole'
  BY <1>1, <1>2, <1>4 DEF MessagesWhole, Stored, ConversationOf
<1>11. RepliesAnswerUsers'
  <2>1. ASSUME NEW n \in Messages \ {m}, n \in Stored, message[n].sender = None
        PROVE  /\ message[n].answers \in Stored \ {m}
               /\ message[message[n].answers].sender \in Seats
               /\ message[message[n].answers].conversation = message[n].conversation
               /\ \A k \in Stored \ {n} : message[k].answers # message[n].answers
               /\ row.answers # message[n].answers
    BY <1>1, <1>6, <2>1 DEF RepliesAnswerUsers, Stored
  <2>2. Stored' = Stored \cup {m}
    BY <1>4 DEF Stored
  <2>3. ASSUME NEW n \in Stored' \ {m}, message'[n].sender = None
        PROVE  /\ message'[n].answers \in Stored'
               /\ message'[message'[n].answers].sender \in Seats
               /\ message'[message'[n].answers].conversation
                    = message'[n].conversation
               /\ \A k \in Stored' \ {n} : message'[k].answers # message'[n].answers
    BY <1>4, <2>1, <2>2, <2>3 DEF Stored
  <2>4. ASSUME row.sender = None
        PROVE  /\ row.answers \in Stored'
               /\ message'[row.answers].sender \in Seats
               /\ message'[row.answers].conversation = row.conversation
               /\ \A k \in Stored' \ {m} : message'[k].answers # row.answers
    BY <1>4, <2>2, <2>4 DEF Stored
  <2> QED  BY <1>4, <2>3, <2>4 DEF RepliesAnswerUsers
<1> QED  BY <1>3, <1>4, <1>7, <1>8, <1>9, <1>10, <1>11 DEF MessagesFine

LEMMA MessagesAfterTables ==
    ASSUME TablesFine, MessagesFine, [Next]_vars,
           \/ ListenerOrTable /\ UNCHANGED <<message, req>>
           \/ \E e \in Events : RemoveEvent(e)
           \/ Crash
           \/ UNCHANGED <<table, message, req>>
    PROVE  MessagesFine'
<1>1. TablesFine' /\ TablesKeep
  BY TablesStep
<1>2. /\ message \in [Messages -> MessageRow]
      /\ \A m \in Stored : message[m].conversation \in conversation
      /\ \A m \in Messages : MessageKnown(m)
  BY DEF MessagesFine, MessagesWhole
<1>3. ASSUME message' = message, conversation \subseteq conversation',
             req' = req \/ req' = [r \in Requests |-> IdleHandler]
      PROVE  MessagesFine'
  <2>1. \A m \in Messages : message'[m].state = "stored" =>
           message[m].conversation \in conversation'
    BY <1>2, <1>3 DEF Stored
  <2> QED  BY <1>1, <1>2, <1>3, <2>1, MessagesFollowTables
<1>4. CASE ListenerOrTable /\ UNCHANGED <<message, req>>
  <2>1. conversation \subseteq conversation'
    BY <1>4 DEF ListenerOrTable, CreateEvent, ReadEvent, CreateConversation,
                FindTeam, AddTeam, FailCreated, JoinEvent, ReadSeat,
                ReadConversation, AddUser, FailJoined, AddMember, RemoveMember
  <2> QED  BY <1>3, <1>4, <2>1
<1>5. ASSUME NEW e \in Events, RemoveEvent(e) PROVE MessagesFine'
  <2>1. /\ conversation' = conversation \ {e} /\ req' = req
        /\ event'[e].state = "removed"
    BY <1>5 DEF RemoveEvent, TablesFine, TableTypes, EventRow
  <2>2. \A m \in Messages :
           /\ message[m].conversation = e =>
                 message'[m] = [message[m] EXCEPT !.state = "gone"]
           /\ message[m].conversation # e => message'[m] = message[m]
    BY <1>5 DEF RemoveEvent
  <2>3. message' \in [Messages -> MessageRow]
    BY <1>2, <1>5 DEF RemoveEvent, MessageRow
  <2>4. ASSUME NEW m \in Messages, message'[m].state = "stored"
        PROVE  message[m].conversation \in conversation'
    <3>1. message[m].conversation # e
      BY <1>2, <2>2, <2>4 DEF MessageRow
    <3> QED  BY <1>2, <2>1, <2>2, <2>4, <3>1 DEF Stored
  <2> QED  BY <1>1, <2>1, <2>2, <2>3, <2>4, MessagesFollowTables
<1>6. CASE Crash
  BY <1>3, <1>6 DEF Crash
<1>7. CASE UNCHANGED <<table, message, req>>
  BY <1>3, <1>7 DEF table
<1> QED  BY <1>4, <1>5, <1>6, <1>7

\* Frames, and the handler steps that write nothing.
LEMMA FrameMoves ==
    ASSUME MessagesFine, NEW r \in Requests, NEW e \in Events,
           NEW s \in Sockets \cup {None}, NEW u \in Users \cup {None},
           NEW m \in Members \cup {None},
           NEW pc \in {"validateJoinUser", "validateJoinMember", "validateSender"},
           Frame(r, pc, s, u, m, e)
    PROVE  MessagesFine'
<1>1. PICK row : row = [IdleHandler EXCEPT !.pc = pc, !.socket = s, !.user = u,
                                           !.member = m, !.event = e]
  OBVIOUS
<1>2. row \in Handler /\ row.pc = pc /\ row.event = e
  BY <1>1 DEF IdleHandler, Handler
<1>3. /\ req' = [req EXCEPT ![r] = row] /\ UNCHANGED table /\ message' = message
      /\ req \in [Requests -> Handler]
  BY <1>1 DEF Frame, MessagesFine
<1>4. HandlerKnows(r)'
  BY <1>2, <1>3 DEF HandlerKnows, HoldsMessage
<1> QED  BY <1>2, <1>3, <1>4, HandlerMoves DEF HoldsMessage

LEMMA AnswerMoves ==
    ASSUME MessagesFine, NEW r \in Requests, Answer(r), UNCHANGED table,
           message' = message
    PROVE  MessagesFine'
<1>1. IdleHandler \in Handler /\ IdleHandler.pc = "idle"
  BY DEF IdleHandler, Handler
<1>2. HandlerKnows(r)'
  BY <1>1 DEF HandlerKnows, HoldsMessage, Answer, MessagesFine
<1> QED  BY <1>1, <1>2, HandlerMoves DEF Answer, HoldsMessage

\* A handler that holds its message for a user goes on holding it.
LEMMA GotoMoves ==
    ASSUME MessagesFine, NEW r \in Requests, NEW pc, Goto(r, pc),
           UNCHANGED table, message' = message,
           \/ pc = "validateJoinMember" /\ req[r].pc = "validateJoinUser"
           \/ /\ pc \in HoldsMessage \ {"broadcast"}
              /\ req[r].pc \in HoldsMessage /\ req[r].user # None
    PROVE  MessagesFine'
<1>1. PICK row : row = [req[r] EXCEPT !.pc = pc]
  OBVIOUS
<1>2. req \in [Requests -> Handler] /\ req[r] \in Handler /\ HandlerKnows(r)
  BY DEF MessagesFine
<1>3. /\ row \in Handler /\ row.pc = pc /\ row.event = req[r].event
      /\ row.message = req[r].message /\ row.user = req[r].user
  BY <1>1, <1>2 DEF Handler, HoldsMessage
<1>4. /\ req' = [req EXCEPT ![r] = row] /\ req'[r] = row
      /\ \A q \in Requests \ {r} : req'[q] = req[q]
  BY <1>1, <1>2 DEF Goto
<1>5. HandlerKnows(r)'
  <2>1. CASE pc = "validateJoinMember"
    BY <1>2, <1>3, <1>4, <2>1 DEF HandlerKnows, HoldsMessage
  <2>2. CASE pc \in HoldsMessage \ {"broadcast"}
    <3>1. req[r].pc \in HoldsMessage /\ req[r].user # None
      BY <2>2 DEF HoldsMessage
    <3> QED  BY <1>2, <1>3, <1>4, <2>2, <3>1 DEF HandlerKnows, HoldsMessage
  <2> QED  BY <2>1, <2>2
<1> QED  BY <1>3, <1>4, <1>5, HandlerMoves DEF HoldsMessage

\* Whom validateParticipant finds for a user is a seat.
LEMMA SenderMoves ==
    ASSUME TablesFine, MessagesFine, NEW r \in Requests, ValidateSender(r)
    PROVE  MessagesFine'
<1>1. UNCHANGED table /\ message' = message
  BY DEF ValidateSender
<1>2. CASE Answer(r)
  BY <1>1, <1>2, AnswerMoves
<1>3. ASSUME NEW id, id = IF req[r].user # None THEN req[r].user ELSE req[r].member,
             NEW p \in Participants(req[r].event, id),
             req' = [req EXCEPT ![r].pc = "insertMessage", ![r].sender = p]
      PROVE  MessagesFine'
  <2>1. PICK row : row = [req[r] EXCEPT !.pc = "insertMessage", !.sender = p]
    OBVIOUS
  <2>2. /\ req \in [Requests -> Handler] /\ req[r] \in Handler /\ HandlerKnows(r)
        /\ req[r].pc = "validateSender"
    BY DEF MessagesFine, ValidateSender, At
  <2>3. /\ p \in ParticipantIds /\ participant[p] = "there"
        /\ ConversationOf(p) = req[r].event /\ OwnerOf(p) = id
    BY <1>3 DEF Participants
  <2>4. /\ row \in Handler /\ row.pc = "insertMessage" /\ row.sender = p
        /\ row.event = req[r].event /\ row.user = req[r].user
    BY <2>1, <2>2, <2>3 DEF Handler
  <2>5. req' = [req EXCEPT ![r] = row] /\ req'[r] = row
    BY <1>3, <2>1, <2>2
  <2>6. p \in Seats => seat[p].state # "unused"
    BY <2>3 DEF TablesFine, SeatKnown
  <2>7. ASSUME req[r].user # None PROVE p \in Seats
    <3>1. req[r].user \in Users
      BY <2>2, <2>7 DEF Handler
    <3> QED  BY <1>3, <2>3, <2>7, <3>1, NamesOfParticipants, NamesAreApart
  <2>8. ConversationOf(p)' = req[r].event /\ UNCHANGED <<seat, participant>>
    BY <1>1, <2>3, NamesRest
  <2>9. HandlerKnows(r)'
    <3>1. ConversationOf(req[r].sender)' = req[r].event
      BY <2>4, <2>5, <2>8 DEF ConversationOf
    <3> QED  BY <2>2, <2>3, <2>4, <2>5, <2>6, <2>7, <2>8, <3>1
             DEF HandlerKnows, HoldsMessage
  <2> QED  BY <1>1, <2>4, <2>5, <2>9, HandlerMoves DEF HoldsMessage
<1> QED  BY <1>2, <1>3 DEF ValidateSender

LEMMA MessageInserted ==
    ASSUME TablesFine, MessagesFine, NEW r \in Requests, InsertMessage(r)
    PROVE  MessagesFine'
<1>1. /\ UNCHANGED table /\ req \in [Requests -> Handler]
      /\ req[r] \in Handler /\ HandlerKnows(r) /\ req[r].pc = "insertMessage"
  BY DEF InsertMessage, MessagesFine, At
<1>2. CASE message' = message /\ Answer(r)
  BY <1>1, <1>2, AnswerMoves
<1>3. ASSUME req[r].event \in conversation, NEW m \in Messages,
             Store(r, m, req[r].sender, None),
             IF req[r].socket = None THEN Answer(r)
             ELSE req' = [req EXCEPT ![r].pc = "broadcast", ![r].message = m]
      PROVE  MessagesFine'
  <2>1. PICK via \in {"rest", "socket"} :
             via = IF req[r].socket = None THEN "rest" ELSE "socket"
    OBVIOUS
  <2>2. PICK row : row = [state |-> "stored", conversation |-> req[r].event,
                          sender |-> req[r].sender, answers |-> None, via |-> via]
    OBVIOUS
  <2>3. /\ message[m].state = "unused" /\ message' = [message EXCEPT ![m] = row]
    BY <1>3, <2>1, <2>2 DEF Store
  <2>4. /\ req[r].sender \in ParticipantIds /\ req[r].event \in Events
        /\ req[r].user # None => req[r].sender \in Seats
        /\ ConversationOf(req[r].sender) = req[r].event
        /\ participant[req[r].sender] # "absent" \/ Removed(req[r].event)
    BY <1>1 DEF HandlerKnows
  <2>5. /\ row \in MessageRow /\ row.state = "stored" /\ row.answers = None
        /\ row.conversation = req[r].event /\ row.sender = req[r].sender
    BY <2>2, <2>4 DEF MessageRow
  <2>6. participant[row.sender] # "absent"
    BY <1>3, <2>4, <2>5 DEF TablesFine, RowsWhole, Removed
  <2>7. row.sender # None
    BY <2>4, <2>5, NamesOfParticipants, NamesAreApart DEF ParticipantIds
  <2>8. PICK h \in Handler :
           /\ req' = [req EXCEPT ![r] = h]
           /\ \/ h = IdleHandler
              \/ /\ h.pc = "broadcast" /\ h.message = m
                 /\ h.user # None => row.sender \in Seats
                 /\ h.event = row.conversation
    <3>1. CASE req[r].socket = None
      BY <1>3, <3>1 DEF Answer, IdleHandler, Handler
    <3>2. CASE req[r].socket # None
      <4>1. PICK h : h = [req[r] EXCEPT !.pc = "broadcast", !.message = m]
        OBVIOUS
      <4>2. /\ h \in Handler /\ h.pc = "broadcast" /\ h.message = m
            /\ h.user = req[r].user /\ h.event = req[r].event
        BY <1>1, <4>1 DEF Handler
      <4>3. req' = [req EXCEPT ![r] = h]
        BY <1>1, <1>3, <3>2, <4>1
      <4> QED  BY <2>4, <2>5, <4>2, <4>3
    <3> QED  BY <3>1, <3>2
  <2>9. /\ row.conversation \in conversation
        /\ ConversationOf(row.sender) = row.conversation
    BY <1>3, <2>4, <2>5
  <2> QED  BY <1>1, <2>3, <2>5, <2>6, <2>7, <2>8, <2>9, RowStored
<1> QED  BY <1>2, <1>3 DEF InsertMessage

LEMMA ReplyInserted ==
    ASSUME TablesFine, MessagesFine, NEW r \in Requests, InsertAi(r)
    PROVE  MessagesFine'
<1>1. /\ UNCHANGED table /\ req \in [Requests -> Handler]
      /\ req[r] \in Handler /\ HandlerKnows(r) /\ req[r].pc = "insertAi"
  BY DEF InsertAi, MessagesFine, At
<1>2. CASE message' = message /\ Answer(r)
  BY <1>1, <1>2, AnswerMoves
<1>3. ASSUME req[r].event \in conversation, NEW m \in Messages,
             Store(r, m, None, req[r].message),
             req' = [req EXCEPT ![r].pc = "broadcastAi", ![r].reply = m]
      PROVE  MessagesFine'
  <2>1. PICK via \in {"rest", "socket"} :
             via = IF req[r].socket = None THEN "rest" ELSE "socket"
    OBVIOUS
  <2>2. PICK row : row = [state |-> "stored", conversation |-> req[r].event,
                          sender |-> None, answers |-> req[r].message, via |-> via]
    OBVIOUS
  <2>3. /\ message[m].state = "unused" /\ message' = [message EXCEPT ![m] = row]
    BY <1>3, <2>1, <2>2 DEF Store
  <2>4. PICK a : a = req[r].message
    OBVIOUS
  <2>5. /\ a \in Messages /\ message[a].state # "unused"
        /\ message[a].conversation = req[r].event
        /\ message[a].sender \in Seats
        /\ \A n \in Messages : message[n].answers # a
        /\ \A q \in Requests \ {r} :
              req[q].pc \in HoldsMessage => req[q].message # a
    BY <1>1, <2>4 DEF HandlerKnows, HoldsMessage
  <2>6. /\ row \in MessageRow /\ row.state = "stored" /\ row.answers = a
        /\ row.conversation = req[r].event /\ row.sender = None
    BY <1>1, <2>2, <2>4, <2>5 DEF MessageRow, Handler
  <2>7. a \in Stored
    <3>1. event[req[r].event].state = "present"
      BY <1>3 DEF TablesFine, RowsWhole
    <3>2. message[a] \in MessageRow /\ MessageKnown(a)
      BY <2>5 DEF MessagesFine
    <3> QED  BY <2>5, <3>1, <3>2 DEF Stored, MessageKnown, MessageRow, Removed
  <2>8. PICK h : h = [req[r] EXCEPT !.pc = "broadcastAi", !.reply = m]
    OBVIOUS
  <2>9. /\ h \in Handler /\ h.pc = "broadcastAi" /\ h.reply = m
        /\ h.event = req[r].event /\ req' = [req EXCEPT ![r] = h]
    BY <1>1, <1>3, <2>8 DEF Handler
  <2>10. /\ row.answers \in Stored /\ row.conversation \in conversation
         /\ message[row.answers].sender \in Seats
         /\ message[row.answers].conversation = row.conversation
         /\ \A n \in Messages : message[n].answers # row.answers
         /\ \A q \in Requests \ {r} :
               req[q].pc \in HoldsMessage => req[q].message # row.answers
    BY <1>3, <2>5, <2>6, <2>7
  <2>11. h.event = row.conversation
    BY <2>6, <2>9
  <2> QED  BY <1>1, <2>3, <2>6, <2>9, <2>10, <2>11, RowStored
<1> QED  BY <1>2, <1>3 DEF InsertAi

LEMMA MessagesStep ==
    ASSUME TablesFine, MessagesFine, [Next]_vars
    PROVE  MessagesFine'
<1>1. ASSUME UNCHANGED table, ClientStep PROVE MessagesFine'
  <2>1. CASE \E s \in Sockets : Connect(s) \/ Disconnect(s)
    BY <1>1, <2>1, MessagesAfterTables DEF Connect, Disconnect
  <2>2. CASE \E s \in Sockets, e \in Events :
                \/ LeaveConversation(s, e) \/ FetchAsMember(s, e)
                \/ \E u \in Users : FetchHistory(s, u, e) \/ FetchMessages(s, u, e)
    BY <1>1, <2>2, MessagesAfterTables
       DEF LeaveConversation, FetchAsMember, FetchHistory, FetchMessages, Fetched
  <2>3. CASE \E r \in Requests, e \in Events, s \in Sockets,
                u \in Users \cup {None}, m \in Members \cup {None} :
                JoinConversation(r, s, u, m, e) \/ SendMessage(r, s, u, m, e)
    BY <2>3, FrameMoves DEF JoinConversation, SendMessage
  <2>4. CASE \E r \in Requests, e \in Events, u \in Users : PostMessage(r, u, e)
    BY <2>4, FrameMoves DEF PostMessage
  <2> QED  BY <1>1, <2>1, <2>2, <2>3, <2>4 DEF ClientStep
<1>2. ASSUME NEW r \in Requests, HandlerStep(r) \/ Fail(r) PROVE MessagesFine'
  <2>1. HandlerKnows(r)
    BY DEF MessagesFine
  <2>2. CASE ValidateJoinUser(r) \/ ValidateJoinMember(r)
    BY <2>2, AnswerMoves, GotoMoves
       DEF ValidateJoinUser, ValidateJoinMember, EnterRoom, At
  <2>3. CASE Broadcast(r)
    BY <2>3, AnswerMoves, GotoMoves DEF Broadcast, At, HoldsMessage
  <2>4. CASE FindConversation(r)
    BY <2>1, <2>4, AnswerMoves, GotoMoves
       DEF FindConversation, At, HoldsMessage, HandlerKnows
  <2>5. CASE AskAi(r)
    BY <2>1, <2>5, AnswerMoves, GotoMoves DEF AskAi, At, HoldsMessage, HandlerKnows
  <2>6. CASE BroadcastAi(r) \/ Fail(r)
    BY <2>6, AnswerMoves DEF BroadcastAi, Fail
  <2> QED  BY <1>2, <2>2, <2>3, <2>4, <2>5, <2>6, SenderMoves, MessageInserted,
              ReplyInserted DEF HandlerStep
<1>3. CASE UNCHANGED vars
  BY <1>3, MessagesAfterTables DEF vars
<1>4. CASE ListenerOrTable /\ UNCHANGED <<message, gateway, client, req>>
  BY <1>4, MessagesAfterTables
<1>5. CASE (\E e \in Events : RemoveEvent(e)) \/ Crash
  BY <1>5, MessagesAfterTables
<1> QED  BY <1>1, <1>2, <1>3, <1>4, <1>5, StepsOfTheTables

-----------------------------------------------------------------------------
(* The rooms and their readers *)

\* Readers that miss nothing go on so while what is to be heard only shrinks.
LEMMA ReadersGoOn ==
    ASSUME ReaderMissesNothing,
           \A s \in Sockets : caughtUp'[s] \subseteq caughtUp[s]
                              /\ seen[s] \subseteq seen'[s],
           \A m \in Stored' \ AboutToBroadcast' : message'[m].via = "socket" =>
              m \in Stored \ AboutToBroadcast /\ message[m] = message'[m]
    PROVE  ReaderMissesNothing'
<1> SUFFICES ASSUME NEW s \in Sockets, NEW m \in Stored' \ AboutToBroadcast',
                    message'[m].via = "socket",
                    message'[m].conversation \in caughtUp'[s]
             PROVE  m \in seen'[s]
  BY DEF ReaderMissesNothing
<1> QED  BY DEF ReaderMissesNothing

\* A handler with nothing to broadcast takes nothing back.
LEMMA StillToBroadcast ==
    ASSUME req \in [Requests -> Handler], NEW r \in Requests, NEW row,
           req' = [req EXCEPT ![r] = row],
           req[r].pc \notin {"broadcast", "broadcastAi"}
    PROVE  AboutToBroadcast \subseteq AboutToBroadcast'
<1>1. \A q \in Requests : At(q, "broadcast") =>
          At(q, "broadcast")' /\ req'[q].message = req[q].message
  BY DEF At
<1>2. \A q \in Requests : At(q, "broadcastAi") =>
          At(q, "broadcastAi")' /\ req'[q].reply = req[q].reply
  BY DEF At
<1> QED  BY <1>1, <1>2 DEF AboutToBroadcast

\* What a handler broadcasts, those who are caught up with its room hear.
LEMMA Heard ==
    ASSUME MessagesFine, RoomsFine, NEW r \in Requests, NEW row,
           NEW m \in Messages,
           \/ req[r].pc = "broadcast" /\ m = req[r].message
           \/ req[r].pc = "broadcastAi" /\ m = req[r].reply,
           Hear(req[r].event, m), req' = [req EXCEPT ![r] = row],
           UNCHANGED <<message, socket, caughtUp>>
    PROVE  ReaderMissesNothing' /\ seen' \in [Sockets -> SUBSET Messages]
<1>1. /\ req \in [Requests -> Handler] /\ HandlerKnows(r)
      /\ seen \in [Sockets -> SUBSET Messages]
      /\ \A s \in Sockets : caughtUp[s] \subseteq socket[s].rooms
      /\ ReaderMissesNothing
  BY DEF MessagesFine, RoomsFine
<1>2. message[m].conversation = req[r].event
  BY <1>1 DEF HandlerKnows, HoldsMessage
<1>3. \A q \in Requests \ {r} : req'[q] = req[q]
  BY <1>1
<1>4. AboutToBroadcast \subseteq AboutToBroadcast' \cup {m}
  <2>1. \A q \in Requests \ {r} :
           /\ At(q, "broadcast") => req[q].message \in AboutToBroadcast'
           /\ At(q, "broadcastAi") => req[q].reply \in AboutToBroadcast'
    BY <1>3 DEF AboutToBroadcast, At
  <2>2. /\ At(r, "broadcast") => req[r].message = m
        /\ At(r, "broadcastAi") => req[r].reply = m
    BY DEF At
  <2> QED  BY <2>1, <2>2 DEF AboutToBroadcast
<1>5. /\ seen' \in [Sockets -> SUBSET Messages]
      /\ \A s \in Sockets : seen[s] \subseteq seen'[s]
      /\ \A s \in Sockets : req[r].event \in socket[s].rooms => m \in seen'[s]
  BY <1>1 DEF Hear
<1>6. ReaderMissesNothing'
  <2> SUFFICES ASSUME NEW s \in Sockets, NEW n \in Stored' \ AboutToBroadcast',
                      message'[n].via = "socket",
                      message'[n].conversation \in caughtUp'[s]
               PROVE  n \in seen'[s]
    BY DEF ReaderMissesNothing
  <2>1. n \in Stored /\ message[n].conversation \in caughtUp[s]
    BY DEF Stored
  <2>2. CASE n = m
    BY <1>1, <1>2, <1>5, <2>1, <2>2
  <2>3. CASE n # m
    <3>1. n \in seen[s]
      BY <1>1, <1>4, <2>1, <2>3 DEF ReaderMissesNothing
    <3> QED  BY <1>5, <3>1
  <2> QED  BY <2>2, <2>3
<1> QED  BY <1>5, <1>6

\* The synchronous end of a join: rooms grow, and nobody is caught up for it.
LEMMA RoomEntered ==
    ASSUME MessagesFine, RoomsFine, NEW r \in Requests, EnterRoom(r),
           req[r].pc # "idle"
    PROVE  /\ socket' \in [Sockets -> Disconnected \cup Connected]
           /\ socketRooms' \in [Sockets -> SUBSET Events]
           /\ \A s \in Sockets : socket[s].rooms \subseteq socket'[s].rooms
<1>1. PICK k : k = req[r].socket
  OBVIOUS
<1>2. PICK e : e = req[r].event
  OBVIOUS
<1>3. /\ socket \in [Sockets -> Disconnected \cup Connected]
      /\ socketRooms \in [Sockets -> SUBSET Events]
      /\ e \in Events
  BY <1>2 DEF RoomsFine, MessagesFine, HandlerKnows
<1>4. socketRooms' = [socketRooms EXCEPT ![k] = @ \cup {e}]
  BY <1>1, <1>2 DEF EnterRoom
<1>5. CASE socket[k].state = "on" /\ k \in Sockets
  <2>1. socket' = [socket EXCEPT ![k].rooms = @ \cup {e}]
    BY <1>1, <1>2, <1>5 DEF EnterRoom
  <2>2. socket[k] \in Connected
    BY <1>3, <1>5 DEF Disconnected
  <2>3. PICK row : row = [socket[k] EXCEPT !.rooms = @ \cup {e}]
    OBVIOUS
  <2>4. row \in Connected /\ socket[k].rooms \subseteq row.rooms
    BY <1>3, <2>2, <2>3 DEF Connected
  <2>5. socket' = [socket EXCEPT ![k] = row]
    BY <2>1, <2>3
  <2> QED  BY <1>3, <1>4, <2>4, <2>5
<1>6. CASE ~(socket[k].state = "on" /\ k \in Sockets)
  <2>1. socket' = socket
    BY <1>1, <1>2, <1>3, <1>6 DEF EnterRoom
  <2> QED  BY <1>3, <1>4, <2>1
<1> QED  BY <1>5, <1>6

\* The sockets' clients come, leave and fetch.
LEMMA ClientsMove ==
    ASSUME RoomsFine, UNCHANGED <<message, req>>, NEW s \in Sockets,
           \/ Connect(s) \/ Disconnect(s)
           \/ \E e \in Events : LeaveConversation(s, e) \/ Fetched(s, e)
    PROVE  RoomsFine'
<1>1. /\ socket \in [Sockets -> Disconnected \cup Connected]
      /\ socketRooms \in [Sockets -> SUBSET Events]
      /\ seen \in [Sockets -> SUBSET Messages]
      /\ caughtUp \in [Sockets -> SUBSET Events]
      /\ \A q \in Sockets : caughtUp[q] \subseteq socket[q].rooms
      /\ ReaderMissesNothing
      /\ socket[s] \in Disconnected \cup Connected
  BY DEF RoomsFine
<1>2. Stored' = Stored /\ AboutToBroadcast' = AboutToBroadcast
  BY DEF Stored, AboutToBroadcast, At
<1>3. ASSUME \A q \in Sockets : caughtUp'[q] \subseteq caughtUp[q], seen' = seen
      PROVE  ReaderMissesNothing'
  BY <1>1, <1>2, <1>3, ReadersGoOn
<1>4. CASE Connect(s)
  <2>1. PICK row : row = [socket[s] EXCEPT !.state = "on"]
    OBVIOUS
  <2>2. row \in Connected /\ row.rooms = socket[s].rooms
    BY <1>1, <1>4, <2>1 DEF Connect, Disconnected, Connected
  <2>3. socket' = [socket EXCEPT ![s] = row] /\ UNCHANGED <<socketRooms, client>>
    BY <1>4, <2>1 DEF Connect
  <2>4. UNCHANGED <<seen, caughtUp>>
    BY <2>3 DEF client
  <2> QED  BY <1>1, <1>3, <2>2, <2>3, <2>4 DEF RoomsFine
<1>5. CASE Disconnect(s)
  <2>1. [state |-> "off", rooms |-> {}] \in Disconnected
    BY DEF Disconnected
  <2>2. /\ caughtUp' = [caughtUp EXCEPT ![s] = {}] /\ seen' = seen
        /\ socket' = [socket EXCEPT ![s] = [state |-> "off", rooms |-> {}]]
        /\ socketRooms' = [socketRooms EXCEPT ![s] = {}]
    BY <1>5 DEF Disconnect
  <2>3. ReaderMissesNothing'
    BY <1>1, <1>3, <2>2
  <2> QED  BY <1>1, <2>1, <2>2, <2>3 DEF RoomsFine
<1>6. ASSUME NEW e \in Events, LeaveConversation(s, e) PROVE RoomsFine'
  <2>1. PICK row : row = [socket[s] EXCEPT !.rooms = @ \ {e}]
    OBVIOUS
  <2>2. row \in Connected /\ row.rooms = socket[s].rooms \ {e}
    BY <1>1, <1>6, <2>1 DEF LeaveConversation, Disconnected, Connected
  <2>3. /\ caughtUp' = [caughtUp EXCEPT ![s] = @ \ {e}] /\ seen' = seen
        /\ socket' = [socket EXCEPT ![s] = row]
        /\ socketRooms' = [socketRooms EXCEPT ![s] = @ \ {e}]
    BY <1>6, <2>1 DEF LeaveConversation
  <2>4. ReaderMissesNothing'
    BY <1>1, <1>3, <2>3
  <2>5. \A q \in Sockets : caughtUp'[q] \subseteq socket'[q].rooms
    BY <1>1, <2>2, <2>3
  <2> QED  BY <1>1, <2>2, <2>3, <2>4, <2>5 DEF RoomsFine
<1>7. ASSUME NEW e \in Events, Fetched(s, e) PROVE RoomsFine'
  <2>1. PICK new : new = {m \in Messages : /\ message[m].state = "stored"
                                           /\ message[m].conversation = e}
    OBVIOUS
  <2>2. /\ seen' = [seen EXCEPT ![s] = @ \cup new] /\ new \subseteq Messages
        /\ caughtUp' = [caughtUp EXCEPT ![s] = @ \cup {e}]
        /\ UNCHANGED <<socket, socketRooms>> /\ e \in socket[s].rooms
    BY <1>7, <2>1 DEF Fetched, gateway
  <2>3. ReaderMissesNothing'
    <3> SUFFICES ASSUME NEW q \in Sockets, NEW m \in Stored \ AboutToBroadcast,
                        message[m].via = "socket",
                        message[m].conversation \in caughtUp'[q]
                 PROVE  m \in seen'[q]
      BY <1>2 DEF ReaderMissesNothing
    <3>1. CASE message[m].conversation \in caughtUp[q]
      BY <1>1, <2>2, <3>1 DEF ReaderMissesNothing
    <3>2. CASE message[m].conversation \notin caughtUp[q]
      BY <1>1, <2>1, <2>2, <3>2 DEF Stored
    <3> QED  BY <3>1, <3>2
  <2>4. \A q \in Sockets : caughtUp'[q] \subseteq socket'[q].rooms
    BY <1>1, <2>2
  <2> QED  BY <1>1, <2>2, <2>3, <2>4 DEF RoomsFine
<1> QED  BY <1>4, <1>5, <1>6, <1>7

\* A handler that broadcasts nothing: what it stores is still to be broadcast, or
\* was posted.
LEMMA RoomsRest ==
    ASSUME RoomsFine, req \in [Requests -> Handler], NEW r \in Requests, NEW row,
           req' = [req EXCEPT ![r] = row],
           req[r].pc \notin {"broadcast", "broadcastAi"},
           UNCHANGED client,
           socket' \in [Sockets -> Disconnected \cup Connected],
           socketRooms' \in [Sockets -> SUBSET Events],
           \A s \in Sockets : socket[s].rooms \subseteq socket'[s].rooms,
           \A m \in Stored' \ AboutToBroadcast' :
              message'[m].via = "socket" => m \in Stored /\ message[m] = message'[m]
    PROVE  RoomsFine'
<1>1. UNCHANGED <<seen, caughtUp>>
  BY DEF client
<1>2. AboutToBroadcast \subseteq AboutToBroadcast'
  BY StillToBroadcast
<1>3. ReaderMissesNothing'
  BY <1>1, <1>2, ReadersGoOn DEF RoomsFine
<1> QED  BY <1>1, <1>3 DEF RoomsFine

\* The two inserts.
LEMMA RoomsAfterInsert ==
    ASSUME MessagesFine, RoomsFine, NEW r \in Requests,
           InsertMessage(r) \/ InsertAi(r)
    PROVE  RoomsFine'
<1>1. /\ req \in [Requests -> Handler] /\ UNCHANGED <<gateway, client>>
      /\ req[r].pc \notin {"broadcast", "broadcastAi"}
      /\ message \in [Messages -> MessageRow]
  BY DEF MessagesFine, InsertMessage, InsertAi, At
<1>2. /\ socket' \in [Sockets -> Disconnected \cup Connected]
      /\ socketRooms' \in [Sockets -> SUBSET Events]
      /\ \A s \in Sockets : socket[s].rooms \subseteq socket'[s].rooms
  BY <1>1 DEF gateway, RoomsFine
<1>3. CASE message' = message /\ Answer(r)
  BY <1>1, <1>2, <1>3, RoomsRest DEF Answer, Stored
<1>4. ASSUME NEW m \in Messages, NEW sender, NEW answers,
             Store(r, m, sender, answers), NEW row,
             req' = [req EXCEPT ![r] = row],
             \/ req[r].socket = None
             \/ row.pc = "broadcast" /\ row.message = m
             \/ row.pc = "broadcastAi" /\ row.reply = m
      PROVE  RoomsFine'
  <2>1. \A n \in Messages \ {m} : message'[n] = message[n]
    BY <1>1, <1>4 DEF Store
  <2>2. req[r].socket = None => message'[m].via = "rest"
    BY <1>1, <1>4 DEF Store
  <2>3. req'[r] = row
    BY <1>1, <1>4
  <2>4. req[r].socket # None => m \in AboutToBroadcast'
    BY <1>4, <2>3 DEF AboutToBroadcast, At
  <2>5. \A n \in Stored' \ AboutToBroadcast' :
           message'[n].via = "socket" => n \in Stored /\ message[n] = message'[n]
    BY <2>1, <2>2, <2>4 DEF Stored
  <2> QED  BY <1>1, <1>2, <1>4, <2>5, RoomsRest
<1>5. CASE InsertMessage(r)
  <2>1. ASSUME NEW m \in Messages, Store(r, m, req[r].sender, None),
               req[r].socket = None, Answer(r)
        PROVE  RoomsFine'
    BY <1>4, <2>1 DEF Answer
  <2>2. ASSUME NEW m \in Messages, Store(r, m, req[r].sender, None),
               req' = [req EXCEPT ![r].pc = "broadcast", ![r].message = m]
        PROVE  RoomsFine'
    <3>1. PICK row : row = [req[r] EXCEPT !.pc = "broadcast", !.message = m]
      OBVIOUS
    <3>2. req[r] \in Handler
      BY <1>1
    <3>3. row.pc = "broadcast" /\ row.message = m /\ req' = [req EXCEPT ![r] = row]
      BY <1>1, <2>2, <3>1, <3>2 DEF Handler
    <3> QED  BY <1>4, <2>2, <3>3
  <2> QED  BY <1>3, <1>5, <2>1, <2>2 DEF InsertMessage
<1>6. CASE InsertAi(r)
  <2>1. ASSUME NEW m \in Messages, Store(r, m, None, req[r].message),
               req' = [req EXCEPT ![r].pc = "broadcastAi", ![r].reply = m]
        PROVE  RoomsFine'
    <3>1. PICK row : row = [req[r] EXCEPT !.pc = "broadcastAi", !.reply = m]
      OBVIOUS
    <3>2. req[r] \in Handler
      BY <1>1
    <3>3. row.pc = "broadcastAi" /\ row.reply = m /\ req' = [req EXCEPT ![r] = row]
      BY <1>1, <2>1, <3>1, <3>2 DEF Handler
    <3> QED  BY <1>4, <2>1, <3>3
  <2> QED  BY <1>3, <1>6, <2>1 DEF InsertAi
<1> QED  BY <1>5, <1>6

\* The other steps of a handler.
LEMMA RoomsAfterHandler ==
    ASSUME MessagesFine, RoomsFine, NEW r \in Requests,
           HandlerStep(r) \/ Fail(r)
    PROVE  RoomsFine'
<1>1. /\ req \in [Requests -> Handler] /\ HandlerKnows(r)
      /\ socket \in [Sockets -> Disconnected \cup Connected]
      /\ socketRooms \in [Sockets -> SUBSET Events]
      /\ caughtUp \in [Sockets -> SUBSET Events]
      /\ \A s \in Sockets : caughtUp[s] \subseteq socket[s].rooms
  BY DEF MessagesFine, RoomsFine
<1>2. ASSUME NEW row, req' = [req EXCEPT ![r] = row], message' = message,
             UNCHANGED <<gateway, client>>,
             req[r].pc \notin {"broadcast", "broadcastAi"}
      PROVE  RoomsFine'
  BY <1>1, <1>2, RoomsRest DEF gateway, Stored
<1>3. CASE ValidateJoinUser(r) \/ ValidateJoinMember(r)
  <2>1. /\ message' = message /\ UNCHANGED client
        /\ req[r].pc \notin {"idle", "broadcast", "broadcastAi"}
    BY <1>3 DEF ValidateJoinUser, ValidateJoinMember, At
  <2>2. CASE EnterRoom(r)
    BY <1>1, <2>1, <2>2, RoomEntered, RoomsRest DEF EnterRoom, Answer, Stored
  <2>3. CASE UNCHANGED gateway /\ (Answer(r) \/ Goto(r, "validateJoinMember"))
    BY <1>1, <1>2, <2>1, <2>3 DEF Answer, Goto
  <2> QED  BY <1>3, <2>2, <2>3 DEF ValidateJoinUser, ValidateJoinMember
<1>4. CASE Fail(r)
  BY <1>2, <1>4 DEF Fail, Answer
<1>5. CASE FindConversation(r) \/ AskAi(r)
  BY <1>2, <1>5 DEF FindConversation, AskAi, At, Goto, Answer
<1>6. CASE ValidateSender(r)
  <2>1. ASSUME NEW p, req' = [req EXCEPT ![r].pc = "insertMessage", ![r].sender = p]
        PROVE  \E row : req' = [req EXCEPT ![r] = row]
    BY <2>1
  <2> QED  BY <1>2, <1>6, <2>1 DEF ValidateSender, At, Answer
<1>7. CASE Broadcast(r) \/ BroadcastAi(r)
  <2>1. /\ UNCHANGED <<message, socket, socketRooms, caughtUp>>
        /\ \E row : req' = [req EXCEPT ![r] = row]
    BY <1>7 DEF Broadcast, BroadcastAi, gateway, Goto, Answer
  <2>2. PICK m \in Messages :
           /\ \/ req[r].pc = "broadcast" /\ m = req[r].message
              \/ req[r].pc = "broadcastAi" /\ m = req[r].reply
           /\ Hear(req[r].event, m)
    BY <1>1, <1>7 DEF Broadcast, BroadcastAi, At, HandlerKnows, HoldsMessage
  <2>3. ReaderMissesNothing' /\ seen' \in [Sockets -> SUBSET Messages]
    BY <2>1, <2>2, Heard
  <2> QED  BY <1>1, <2>1, <2>3 DEF RoomsFine
<1> QED  BY <1>3, <1>4, <1>5, <1>6, <1>7, RoomsAfterInsert DEF HandlerStep

LEMMA RoomsStep ==
    ASSUME MessagesFine, RoomsFine, [Next]_vars
    PROVE  RoomsFine'
<1>1. /\ socket \in [Sockets -> Disconnected \cup Connected]
      /\ socketRooms \in [Sockets -> SUBSET Events]
      /\ seen \in [Sockets -> SUBSET Messages]
      /\ caughtUp \in [Sockets -> SUBSET Events]
      /\ \A s \in Sockets : caughtUp[s] \subseteq socket[s].rooms
      /\ ReaderMissesNothing
  BY DEF RoomsFine
<1>2. ASSUME UNCHANGED <<gateway, client, req>>,
             \A m \in Messages : message'[m] = message[m]
                                 \/ message'[m].state # "stored"
      PROVE  RoomsFine'
  <2>1. UNCHANGED <<socket, socketRooms, seen, caughtUp>>
    BY <1>2 DEF gateway, client
  <2>2. AboutToBroadcast' = AboutToBroadcast
    BY <1>2 DEF AboutToBroadcast, At
  <2>3. ReaderMissesNothing'
    BY <1>1, <1>2, <2>1, <2>2, ReadersGoOn DEF Stored
  <2> QED  BY <1>1, <2>1, <2>3 DEF RoomsFine
<1>3. CASE ListenerOrTable /\ UNCHANGED <<message, gateway, client, req>>
  BY <1>2, <1>3
<1>4. ASSUME NEW e \in Events, RemoveEvent(e) PROVE RoomsFine'
  <2>1. message \in [Messages -> MessageRow]
    BY DEF MessagesFine
  <2>2. \A m \in Messages : message'[m] = message[m] \/ message'[m].state # "stored"
    BY <1>4, <2>1 DEF RemoveEvent, MessageRow
  <2> QED  BY <1>2, <1>4, <2>2 DEF RemoveEvent
<1>5. CASE Crash
  <2>1. ReaderMissesNothing'
    BY <1>5 DEF Crash, ReaderMissesNothing
  <2>2. ASSUME NEW s \in Sockets PROVE socket'[s] \in Disconnected \cup Connected
    BY <1>1, <1>5, <2>2 DEF Crash, Disconnected, Connected
  <2>3. socket' \in [Sockets -> Disconnected \cup Connected]
    BY <1>5, <2>2 DEF Crash
  <2> QED  BY <1>1, <1>5, <2>1, <2>3 DEF Crash, RoomsFine
<1>6. CASE ClientStep
  <2>1. CASE \E s \in Sockets : Connect(s) \/ Disconnect(s)
    BY <2>1, ClientsMove DEF Connect, Disconnect
  <2>2. CASE \E s \in Sockets, e \in Events :
                \/ LeaveConversation(s, e) \/ FetchAsMember(s, e)
                \/ \E u \in Users : FetchHistory(s, u, e) \/ FetchMessages(s, u, e)
    BY <2>2, ClientsMove
       DEF LeaveConversation, FetchAsMember, FetchHistory, FetchMessages, Fetched
  <2>3. ASSUME NEW r \in Requests, NEW e, NEW s, NEW u, NEW m, NEW pc,
               Frame(r, pc, s, u, m, e)
        PROVE  RoomsFine'
    <3>1. /\ req[r].pc \notin {"broadcast", "broadcastAi"}
          /\ \E row : req' = [req EXCEPT ![r] = row]
          /\ UNCHANGED <<message, socket, socketRooms, client>>
      BY <2>3 DEF Frame, At, gateway
    <3>2. req \in [Requests -> Handler]
      BY DEF MessagesFine
    <3> QED  BY <1>1, <3>1, <3>2, RoomsRest DEF Stored
  <2> QED  BY <1>6, <2>1, <2>2, <2>3
           DEF ClientStep, JoinConversation, SendMessage, PostMessage
<1>7. CASE \E r \in Requests : HandlerStep(r) \/ Fail(r)
  BY <1>7, RoomsAfterHandler
<1>8. CASE UNCHANGED vars
  BY <1>2, <1>8 DEF vars
<1> QED  BY <1>3, <1>4, <1>5, <1>6, <1>7, <1>8, StepsOfTheTables

-----------------------------------------------------------------------------
(* The theorems *)

LEMMA InitiallyFine == Init => ChatInv
<1> SUFFICES ASSUME Init PROVE TablesFine /\ MessagesFine /\ RoomsFine
  BY PartsOfTheInvariant
<1>1. TablesFine
  <2>1. TableTypes
    BY DEF Init, TableTypes, EventRow, SeatRow
  <2>2. /\ \A e \in Events : CreatorKnows(e)
        /\ \A s \in Seats : SeatKnown(s)
    BY NamesOfParticipants DEF Init, CreatorKnows, SeatKnown
  <2>3. RowsWhole /\ JoinerIsAdded /\ TeamIsAdded
    BY DEF Init, RowsWhole, JoinerIsAdded, TeamIsAdded
  <2> QED  BY <2>1, <2>2, <2>3 DEF TablesFine
<1>2. /\ message \in [Messages -> MessageRow] /\ Stored = {}
      /\ req \in [Requests -> Handler] /\ \A r \in Requests : req[r] = IdleHandler
  BY DEF Init, MessageRow, Handler, IdleHandler, Stored
<1>3. MessagesFine
  <2>1. \A m \in Messages : MessageKnown(m)
    BY DEF Init, MessageKnown
  <2>2. \A r \in Requests : HandlerKnows(r)
    BY <1>2 DEF HandlerKnows, HoldsMessage, IdleHandler
  <2> QED  BY <1>2, <2>1, <2>2 DEF MessagesFine, MessagesWhole, RepliesAnswerUsers
<1>4. RoomsFine
  BY <1>2 DEF Init, RoomsFine, ReaderMissesNothing, Disconnected
<1> QED  BY <1>1, <1>3, <1>4

\* Tables, messages, handlers and readers keep what they know of each other in
\* every step, listeners' failures and crashes included.
THEOREM ChatInvariant == Spec => []ChatInv
<1>1. ChatInv /\ [Next]_vars => ChatInv'
  <2> SUFFICES ASSUME ChatInv, [Next]_vars
               PROVE  TablesFine' /\ MessagesFine' /\ RoomsFine'
    BY PartsOfTheInvariant DEF ChatInv, TypeOK, TablesFine, TableTypes, RowsWhole,
       MessagesFine, MessagesWhole, RoomsFine, ConversationIsWhole
  <2>1. TablesFine /\ MessagesFine /\ RoomsFine
    BY PartsOfTheInvariant
  <2> QED  BY <2>1, TablesStep, MessagesStep, RoomsStep
<1> QED  BY <1>1, InitiallyFine, PTL DEF Spec

\* The variables have their types.
THEOREM TypeCorrect == Spec => []TypeOK
<1>1. ChatInv => TypeOK
  BY DEF ChatInv
<1> QED  BY <1>1, ChatInvariant, PTL

\* Nothing outlives its conversation: participants and messages go with the
\* event, also those that a listener or handler was about to insert.
THEOREM NothingOutlives == Spec => []ConversationIsWhole
<1>1. ChatInv => ConversationIsWhole
  BY DEF ChatInv
<1> QED  BY <1>1, ChatInvariant, PTL

\* The assistant answers users only, each message once, in its conversation.
THEOREM UsersAreAnswered == Spec => []RepliesAnswerUsers
<1>1. ChatInv => RepliesAnswerUsers
  BY DEF ChatInv
<1> QED  BY <1>1, ChatInvariant, PTL

\* A client that fetched the history of a room it is in misses no message sent
\* through the gateway.
THEOREM ReadersMissNothing == Spec => []ReaderMissesNothing
<1>1. ChatInv => ReaderMissesNothing
  BY DEF ChatInv
<1> QED  BY <1>1, ChatInvariant, PTL

\* Who joined when the conversation existed becomes its participant, unless a
\* call of the listener failed.
THEOREM JoinersAreAdded == Spec => []JoinerIsAdded
<1>1. ChatInv => JoinerIsAdded
  BY DEF ChatInv
<1> QED  BY <1>1, ChatInvariant, PTL

\* The team that was found becomes part of the conversation, unless a call of the
\* listener failed or a member left.
THEOREM TeamsAreAdded == Spec => []TeamIsAdded
<1>1. ChatInv => TeamIsAdded
  BY DEF ChatInv
<1> QED  BY <1>1, ChatInvariant, PTL
===============================================================================
