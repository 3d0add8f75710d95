----------------------------- MODULE Conversations -----------------------------
(***************************************************************************)
(* The conversation of an event: the listeners of 'event.created' and        *)
(* 'event.joined' that fill it, the messages, the chat gateway's sockets and  *)
(* the assistant's replies.                                                   *)
(*                                                                            *)
(* An event has at most one conversation (unique event_id), so the event's    *)
(* name stands for it and for its socket.io room. Listeners run detached from *)
(* the request that emitted: nothing orders them against each other.          *)
(***************************************************************************)
EXTENDS Naturals, FiniteSets

CONSTANTS
    Users, Members,
    Events,      \* one organizer's
    Seats,       \* pool of userEvent rows (bound)
    Sockets,     \* connections; a socket id is never used again (bound)
    Messages,    \* pool of message rows (bound)
    Requests,    \* slots for message handlers in flight
    None

ASSUME NamesAreApart ==
    /\ Users \cap Members = {}
    /\ Seats \cap (Events \X Members) = {}
    /\ None \notin Users \cup Members \cup Events \cup Seats \cup Sockets
                   \cup Messages \cup (Events \X Members)

VARIABLES
    event,         \* the events and what their 'event.created' listener does
    team,          \* the organizer's team members
    seat,          \* userEvent rows and what their 'event.joined' listener does
    conversation,  \* the events whose conversation exists
    participant,   \* participants, by what they were created for
    message,       \* messages
    socket,        \* connections, with the adapter's rooms
    socketRooms,   \* the gateway's map (userSockets is written, never read)
    seen,          \* client: the messages a socket's client holds
    caughtUp,      \* client: rooms whose history it fetched after joining
    req            \* join_conversation, send_message and POST handlers

table == <<event, team, seat, conversation, participant>>
gateway == <<socket, socketRooms>>
client == <<seen, caughtUp>>
vars == <<table, message, gateway, client, req>>

\* A participant is named by what it was created for: a team member of an event
\* (createMany) or a seat (create). Each is created at most once.
ParticipantIds == (Events \X Members) \cup Seats

EventRow == [state : {"absent", "present", "removed"},
             pc : {"idle", "readEvent", "createConversation", "findTeam",
                   "addTeam"},
             found : SUBSET Members,
             failed : BOOLEAN]        \* history: of its listener
SeatRow == [state : {"unused", "taken", "gone"},
            user : Users \cup {None}, event : Events \cup {None},
            pc : {"idle", "readSeat", "readConversation", "addUser"},
            met : BOOLEAN,            \* history: the conversation existed then
            failed : BOOLEAN]         \* history: of its listener
MessageRow == [state : {"unused", "stored", "gone"},
               conversation : Events \cup {None},
               sender : ParticipantIds \cup {None},  \* None: isAi
               answers : Messages \cup {None},       \* history: of a reply
               via : {"none", "socket", "rest"}]     \* history
Handler == [pc : {"idle", "validateJoinUser", "validateJoinMember",
                  "validateSender", "insertMessage", "broadcast",
                  "findConversation", "askAi", "insertAi", "broadcastAi"},
            socket : Sockets \cup {None},            \* None: POST
            user : Users \cup {None}, member : Members \cup {None},
            event : Events \cup {None},
            sender : ParticipantIds \cup {None},
            message : Messages \cup {None}, reply : Messages \cup {None}]
Disconnected == [state : {"new", "off"}, rooms : {{}}]
Connected == [state : {"on"}, rooms : SUBSET Events]

TypeOK ==
    /\ event \in [Events -> EventRow]
    /\ team \in [Members -> {"out", "in", "left"}]
    /\ seat \in [Seats -> SeatRow]
    /\ conversation \subseteq Events
    /\ participant \in [ParticipantIds -> {"absent", "there", "ownerless"}]
    /\ message \in [Messages -> MessageRow]
    /\ socket \in [Sockets -> Disconnected \cup Connected]
    /\ socketRooms \in [Sockets -> SUBSET Events]
    /\ seen \in [Sockets -> SUBSET Messages]
    /\ caughtUp \in [Sockets -> SUBSET Events]
    /\ req \in [Requests -> Handler]

IdleHandler == [pc |-> "idle", socket |-> None, user |-> None, member |-> None,
                event |-> None, sender |-> None, message |-> None,
                reply |-> None]

Init ==
    /\ event = [e \in Events |->
                   [state |-> "absent", pc |-> "idle", found |-> {},
                    failed |-> FALSE]]
    /\ team \in [Members -> {"out", "in"}]
    /\ seat = [s \in Seats |-> [state |-> "unused", user |-> None,
                                event |-> None, pc |-> "idle",
                                met |-> FALSE, failed |-> FALSE]]
    /\ conversation = {}
    /\ participant = [p \in ParticipantIds |-> "absent"]
    /\ message = [m \in Messages |->
                     [state |-> "unused", conversation |-> None,
                      sender |-> None, answers |-> None, via |-> "none"]]
    /\ socket = [s \in Sockets |-> [state |-> "new", rooms |-> {}]]
    /\ socketRooms = [s \in Sockets |-> {}]
    /\ seen = [s \in Sockets |-> {}]
    /\ caughtUp = [s \in Sockets |-> {}]
    /\ req = [r \in Requests |-> IdleHandler]

ConversationOf(p) == IF p \in Seats THEN seat[p].event ELSE p[1]
OwnerOf(p) == IF p \in Seats THEN seat[p].user ELSE p[2]

\* participant.findFirst on userId or teamMemberId: which of several is open.
Participants(e, id) ==
    {p \in ParticipantIds : /\ participant[p] = "there"
                            /\ ConversationOf(p) = e /\ OwnerOf(p) = id}

-----------------------------------------------------------------------------
(* Events, seats and the team: what emits to the listeners *)

CreateEvent(e) ==
    /\ event[e].state = "absent"
    /\ event' = [event EXCEPT ![e].state = "present", ![e].pc = "readEvent"]
    /\ UNCHANGED <<team, seat, conversation, participant, message, gateway,
                   client, req>>

\* The delete cascades to seats, conversation, participants and messages; the
\* rooms of the sockets stay.
RemoveEvent(e) ==
    /\ event[e].state = "present"
    /\ event' = [event EXCEPT ![e].state = "removed"]
    /\ conversation' = conversation \ {e}
    /\ participant' = [p \in ParticipantIds |->
          IF ConversationOf(p) = e THEN "absent" ELSE participant[p]]
    /\ seat' = [s \in Seats |-> IF seat[s].event = e
                                THEN [seat[s] EXCEPT !.state = "gone"]
                                ELSE seat[s]]
    /\ message' = [m \in Messages |->
          IF message[m].conversation = e
          THEN [message[m] EXCEPT !.state = "gone"] ELSE message[m]]
    /\ UNCHANGED <<team, gateway, client, req>>

\* joinEvent or verifyEventPayment inserted a seat.
JoinEvent(s, u, e) ==
    /\ seat[s].state = "unused"
    /\ event[e].state = "present"
    /\ seat' = [seat EXCEPT ![s] =
          [state |-> "taken", user |-> u, event |-> e, pc |-> "readSeat",
           met |-> e \in conversation, failed |-> FALSE]]
    /\ UNCHANGED <<event, team, conversation, participant, message, gateway,
                   client, req>>

AddMember(m) ==
    /\ team[m] = "out"
    /\ team' = [team EXCEPT ![m] = "in"]
    /\ UNCHANGED <<event, seat, conversation, participant, message, gateway,
                   client, req>>

\* A participant's team_member_id is optional: the delete sets it to null.
RemoveMember(m) ==
    /\ team[m] = "in"
    /\ team' = [team EXCEPT ![m] = "left"]
    /\ participant' = [p \in ParticipantIds |->
          IF OwnerOf(p) = m /\ participant[p] = "there" THEN "ownerless"
                                                        ELSE participant[p]]
    /\ UNCHANGED <<event, seat, conversation, message, gateway, client, req>>

-----------------------------------------------------------------------------
(* The listener of 'event.created' *)

Continue(e, pc) == event' = [event EXCEPT ![e].pc = pc]

ReadEvent(e) ==
    /\ event[e].pc = "readEvent"
    /\ Continue(e, IF event[e].state = "present" THEN "createConversation"
                                                 ELSE "idle")
    /\ UNCHANGED <<team, seat, conversation, participant, message, gateway,
                   client, req>>

\* The foreign key refuses the insert when the event is gone.
CreateConversation(e) ==
    /\ event[e].pc = "createConversation"
    /\ IF event[e].state = "present"
       THEN conversation' = conversation \cup {e} /\ Continue(e, "findTeam")
       ELSE UNCHANGED conversation /\ Continue(e, "idle")
    /\ UNCHANGED <<team, seat, participant, message, gateway, client, req>>

FindTeam(e) ==
    /\ event[e].pc = "findTeam"
    /\ event' = [event EXCEPT ![e].pc = "addTeam",
                              ![e].found = {m \in Members : team[m] = "in"}]
    /\ UNCHANGED <<team, seat, conversation, participant, message, gateway,
                   client, req>>

\* Mutant: a conversation that has participants is taken to be filled.
AddTeamToEmpty(e) ==
    /\ event[e].pc = "addTeam"
    /\ Continue(e, "idle")
    /\ IF /\ e \in conversation
          /\ \A p \in ParticipantIds :
                ConversationOf(p) = e => participant[p] = "absent"
       THEN participant' = [p \in ParticipantIds |->
               IF p \in {e} \X event[e].found THEN "there" ELSE participant[p]]
       ELSE UNCHANGED participant
    /\ UNCHANGED <<team, seat, conversation, message, gateway, client, req>>

\* One INSERT for all: a member who left since the read fails it for everyone.
AddTeam(e) ==
    /\ event[e].pc = "addTeam"
    /\ Continue(e, "idle")
    /\ IF e \in conversation /\ \A m \in event[e].found : team[m] = "in"
       THEN participant' = [p \in ParticipantIds |->
               IF p \in {e} \X event[e].found THEN "there" ELSE participant[p]]
       ELSE UNCHANGED participant
    /\ UNCHANGED <<team, seat, conversation, message, gateway, client, req>>

-----------------------------------------------------------------------------
(* The listener of 'event.joined' *)

ReadSeat(s) ==
    /\ seat[s].pc = "readSeat"
    /\ seat' = [seat EXCEPT ![s].pc =
          IF seat[s].state = "taken" THEN "readConversation" ELSE "idle"]
    /\ UNCHANGED <<event, team, conversation, participant, message, gateway,
                   client, req>>

\* Mutant: the conversation is looked for among those with a participant.
ReadUsedConversation(s) ==
    /\ seat[s].pc = "readConversation"
    /\ seat' = [seat EXCEPT ![s].pc =
          IF \E p \in ParticipantIds : /\ participant[p] = "there"
                                       /\ ConversationOf(p) = seat[s].event
          THEN "addUser" ELSE "idle"]
    /\ UNCHANGED <<event, team, conversation, participant, message, gateway,
                   client, req>>

\* 'Conversation not found' is logged, and the listener is not run again.
ReadConversation(s) ==
    /\ seat[s].pc = "readConversation"
    /\ seat' = [seat EXCEPT ![s].pc =
          IF seat[s].event \in conversation THEN "addUser" ELSE "idle"]
    /\ UNCHANGED <<event, team, conversation, participant, message, gateway,
                   client, req>>

\* Conversation and user are foreign keys; the seat is none, but the
\* conversation goes with the event and so with the seat.
AddUser(s) ==
    /\ seat[s].pc = "addUser"
    /\ seat' = [seat EXCEPT ![s].pc = "idle"]
    /\ participant' = IF seat[s].event \in conversation
                      THEN [participant EXCEPT ![s] = "there"] ELSE participant
    /\ UNCHANGED <<event, team, conversation, message, gateway, client, req>>

-----------------------------------------------------------------------------
(* The sockets of the chat gateway *)

At(r, pc) == req[r].pc = pc
Goto(r, pc) == req' = [req EXCEPT ![r].pc = pc]
Answer(r) == req' = [req EXCEPT ![r] = IdleHandler]

Connect(s) ==
    /\ socket[s].state = "new"
    /\ socket' = [socket EXCEPT ![s].state = "on"]
    /\ UNCHANGED <<table, message, socketRooms, client, req>>

\* socket.io empties the rooms and turns later joins of the socket into no-ops;
\* handleDisconnect forgets socketRooms.
Disconnect(s) ==
    /\ socket[s].state = "on"
    /\ socket' = [socket EXCEPT ![s] = [state |-> "off", rooms |-> {}]]
    /\ socketRooms' = [socketRooms EXCEPT ![s] = {}]
    /\ caughtUp' = [caughtUp EXCEPT ![s] = {}]
    /\ UNCHANGED <<table, message, seen, req>>

\* A frame arrives, and the handler's first awaited call is issued. The client
\* sends a user id, a team member id, or both; neither is refused at once.
Frame(r, pc, s, u, m, e) ==
    /\ At(r, "idle")
    /\ {u, m} # {None}
    /\ s # None => socket[s].state = "on"
    /\ req' = [req EXCEPT ![r] = [IdleHandler EXCEPT
                  !.pc = pc, !.socket = s, !.user = u, !.member = m, !.event = e]]
    /\ UNCHANGED <<table, message, gateway, client>>

JoinConversation(r, s, u, m, e) ==
    Frame(r, IF u # None THEN "validateJoinUser" ELSE "validateJoinMember",
          s, u, m, e)

\* The synchronous end of handleJoinConversation, on whatever the socket is now.
EnterRoom(r) ==
    LET s == req[r].socket
        e == req[r].event
    IN  /\ socket' = IF socket[s].state = "on"
                     THEN [socket EXCEPT ![s].rooms = @ \cup {e}] ELSE socket
        /\ socketRooms' = [socketRooms EXCEPT ![s] = @ \cup {e}]
        /\ Answer(r)

ValidateJoinUser(r) ==
    /\ At(r, "validateJoinUser")
    /\ \/ /\ Participants(req[r].event, req[r].user) = {}
          /\ Answer(r)
          /\ UNCHANGED gateway
       \/ /\ Participants(req[r].event, req[r].user) # {}
          /\ IF req[r].member = None THEN EnterRoom(r)
             ELSE Goto(r, "validateJoinMember") /\ UNCHANGED gateway
    /\ UNCHANGED <<table, message, client>>

ValidateJoinMember(r) ==
    /\ At(r, "validateJoinMember")
    /\ IF Participants(req[r].event, req[r].member) # {} THEN EnterRoom(r)
       ELSE Answer(r) /\ UNCHANGED gateway
    /\ UNCHANGED <<table, message, client>>

\* Synchronous.
LeaveConversation(s, e) ==
    /\ socket[s].state = "on"
    /\ socket' = [socket EXCEPT ![s].rooms = @ \ {e}]
    /\ socketRooms' = [socketRooms EXCEPT ![s] = @ \ {e}]
    /\ caughtUp' = [caughtUp EXCEPT ![s] = @ \ {e}]
    /\ UNCHANGED <<table, message, seen, req>>

\* Client: after joining a room it fetches the conversation with its messages,
\* or a page of the messages that holds all there are (as the pool is small).
\* The answer and the frames heard until it arrives add up.
Fetched(s, e) ==
    /\ e \in socket[s].rooms
    /\ seen' = [seen EXCEPT ![s] = @ \cup
          {m \in Messages : /\ message[m].state = "stored"
                            /\ message[m].conversation = e}]
    /\ caughtUp' = [caughtUp EXCEPT ![s] = @ \cup {e}]
    /\ UNCHANGED <<table, message, gateway, req>>

\* findFirst where the user takes part.
FetchHistory(s, u, e) ==
    /\ Participants(e, u) # {}
    /\ Fetched(s, e)

\* The messages in a statement after validateParticipant's: a user who is a
\* participant stays one as long as there are messages to find.
FetchMessages(s, u, e) ==
    /\ Participants(e, u) # {}
    /\ Fetched(s, e)

\* A member's client: nobody asks whether the member takes part.
FetchAsMember(s, e) == Fetched(s, e)

-----------------------------------------------------------------------------
(* send_message, and the POST route to the same service *)

\* The rows that handlers in flight may still insert: messages and replies.
Owed ==
    {<<r, "message">> : r \in {q \in Requests :
        req[q].pc \in {"validateSender", "insertMessage"}}} \cup
    {<<r, "reply">> : r \in {q \in Requests :
        /\ req[q].socket # None /\ req[q].user # None
        /\ req[q].pc \in {"validateSender", "insertMessage", "broadcast",
                          "findConversation", "askAi", "insertAi"}}}

\* Bound: a message is sent only while the pool holds a row for it, its reply
\* and all that is owed.
MessageRoom(rows) ==
    Cardinality(Owed) + rows
        <= Cardinality({m \in Messages : message[m].state = "unused"})

SendMessage(r, s, u, m, e) ==
    /\ MessageRoom(IF u = None THEN 1 ELSE 2)
    /\ Frame(r, "validateSender", s, u, m, e)

PostMessage(r, u, e) ==
    MessageRoom(1) /\ Frame(r, "validateSender", None, u, None, e)

ValidateSender(r) ==
    LET id == IF req[r].user # None THEN req[r].user ELSE req[r].member
    IN  /\ At(r, "validateSender")
        /\ \/ /\ Participants(req[r].event, id) = {}
              /\ Answer(r)
           \/ \E p \in Participants(req[r].event, id) :
                 req' = [req EXCEPT ![r].pc = "insertMessage", ![r].sender = p]
        /\ UNCHANGED <<table, message, gateway, client>>

\* A row of the conversation, when its foreign key finds it.
Store(r, m, sender, answers) ==
    /\ message[m].state = "unused"
    /\ message' = [message EXCEPT ![m] =
          [state |-> "stored", conversation |-> req[r].event,
           sender |-> sender, answers |-> answers,
           via |-> IF req[r].socket = None THEN "rest" ELSE "socket"]]

\* The POST route stops here: 'message.created' has no listener.
InsertMessage(r) ==
    /\ At(r, "insertMessage")
    /\ IF req[r].event \in conversation
       THEN \E m \in Messages :
               /\ Store(r, m, req[r].sender, None)
               /\ IF req[r].socket = None THEN Answer(r)
                  ELSE req' = [req EXCEPT ![r].pc = "broadcast",
                                          ![r].message = m]
       ELSE UNCHANGED message /\ Answer(r)
    /\ UNCHANGED <<table, gateway, client>>

Hear(e, m) ==
    seen' = [s \in Sockets |->
                IF e \in socket[s].rooms THEN seen[s] \cup {m} ELSE seen[s]]

\* Mutant: the assistant answers whoever wrote.
BroadcastAndAsk(r) ==
    /\ At(r, "broadcast")
    /\ Hear(req[r].event, req[r].message)
    /\ Goto(r, "askAi")
    /\ UNCHANGED <<table, message, gateway, caughtUp>>

\* Mutant: the room is told, but not the socket that sent.
BroadcastToOthers(r) ==
    /\ At(r, "broadcast")
    /\ seen' = [s \in Sockets |->
          IF s # req[r].socket /\ req[r].event \in socket[s].rooms
          THEN seen[s] \cup {req[r].message} ELSE seen[s]]
    /\ IF req[r].user # None THEN Goto(r, "findConversation") ELSE Answer(r)
    /\ UNCHANGED <<table, message, gateway, caughtUp>>

\* 'new_message' to the room; the assistant is asked only for a user.
Broadcast(r) ==
    /\ At(r, "broadcast")
    /\ Hear(req[r].event, req[r].message)
    /\ IF req[r].user # None THEN Goto(r, "findConversation") ELSE Answer(r)
    /\ UNCHANGED <<table, message, gateway, caughtUp>>

FindConversation(r) ==
    /\ At(r, "findConversation")
    /\ IF Participants(req[r].event, req[r].user) # {}
       THEN Goto(r, "askAi") ELSE Answer(r)
    /\ UNCHANGED <<table, message, gateway, client>>

\* generateMesssage: the model answers or answers nothing (or throws: Fail).
AskAi(r) ==
    /\ At(r, "askAi")
    /\ Goto(r, "insertAi") \/ Answer(r)
    /\ UNCHANGED <<table, message, gateway, client>>

\* Mutant: the reply's conversation is not checked to be there still.
InsertAiAnyway(r) ==
    /\ At(r, "insertAi")
    /\ \E m \in Messages :
          /\ Store(r, m, None, req[r].message)
          /\ req' = [req EXCEPT ![r].pc = "broadcastAi", ![r].reply = m]
    /\ UNCHANGED <<table, gateway, client>>

InsertAi(r) ==
    /\ At(r, "insertAi")
    /\ IF req[r].event \in conversation
       THEN \E m \in Messages :
               /\ Store(r, m, None, req[r].message)
               /\ req' = [req EXCEPT ![r].pc = "broadcastAi", ![r].reply = m]
       ELSE UNCHANGED message /\ Answer(r)
    /\ UNCHANGED <<table, gateway, client>>

BroadcastAi(r) ==
    /\ At(r, "broadcastAi")
    /\ Hear(req[r].event, req[r].reply)
    /\ Answer(r)
    /\ UNCHANGED <<table, message, gateway, caughtUp>>

-----------------------------------------------------------------------------
(* Failures *)

\* An awaited call of a message handler throws: the catch answers with an error
\* and takes nothing back.
Fail(r) ==
    /\ req[r].pc \notin {"idle", "broadcast", "broadcastAi"}
    /\ Answer(r)
    /\ UNCHANGED <<table, message, gateway, client>>

\* An awaited call of a listener throws: the emitter's wrapper logs it.
FailCreated(e) ==
    /\ event[e].pc # "idle"
    /\ event' = [event EXCEPT ![e].pc = "idle", ![e].failed = TRUE]
    /\ UNCHANGED <<team, seat, conversation, participant, message, gateway,
                   client, req>>

FailJoined(s) ==
    /\ seat[s].pc # "idle"
    /\ seat' = [seat EXCEPT ![s].pc = "idle", ![s].failed = TRUE]
    /\ UNCHANGED <<event, team, conversation, participant, message, gateway,
                   client, req>>

\* The process dies and pm2 starts it again: handlers, listeners, sockets and
\* the gateway's maps are gone, the tables stay.
Crash ==
    /\ event' = [e \in Events |-> [event[e] EXCEPT
                    !.pc = "idle", !.failed = @ \/ event[e].pc # "idle"]]
    /\ seat' = [s \in Seats |-> [seat[s] EXCEPT
                    !.pc = "idle", !.failed = @ \/ seat[s].pc # "idle"]]
    /\ req' = [r \in Requests |-> IdleHandler]
    /\ socket' = [s \in Sockets |->
          IF socket[s].state = "on" THEN [state |-> "off", rooms |-> {}]
                                    ELSE socket[s]]
    /\ socketRooms' = [s \in Sockets |-> {}]
    /\ caughtUp' = [s \in Sockets |-> {}]
    /\ UNCHANGED <<team, conversation, participant, message, seen>>

-----------------------------------------------------------------------------

CreatedStep(e) ==
    ReadEvent(e) \/ CreateConversation(e) \/ FindTeam(e) \/ AddTeam(e)

JoinedStep(s) == ReadSeat(s) \/ ReadConversation(s) \/ AddUser(s)

HandlerStep(r) ==
    \/ ValidateJoinUser(r) \/ ValidateJoinMember(r)
    \/ ValidateSender(r) \/ InsertMessage(r) \/ Broadcast(r)
    \/ FindConversation(r) \/ AskAi(r) \/ InsertAi(r) \/ BroadcastAi(r)

TableStep ==
    \/ \E e \in Events : \/ CreateEvent(e) \/ RemoveEvent(e)
                         \/ \E s \in Seats, u \in Users : JoinEvent(s, u, e)
    \/ \E m \in Members : AddMember(m) \/ RemoveMember(m)

ClientStep ==
    \/ \E s \in Sockets : Connect(s) \/ Disconnect(s)
    \/ \E s \in Sockets, e \in Events :
          \/ LeaveConversation(s, e) \/ FetchAsMember(s, e)
          \/ \E u \in Users : FetchHistory(s, u, e) \/ FetchMessages(s, u, e)
    \/ \E r \in Requests, e \in Events :
          \/ \E s \in Sockets, u \in Users \cup {None}, m \in Members \cup {None} :
                JoinConversation(r, s, u, m, e) \/ SendMessage(r, s, u, m, e)
          \/ \E u \in Users : PostMessage(r, u, e)

Next ==
    \/ TableStep \/ ClientStep
    \/ \E e \in Events : CreatedStep(e) \/ FailCreated(e)
    \/ \E s \in Seats : JoinedStep(s) \/ FailJoined(s)
    \/ \E r \in Requests : HandlerStep(r) \/ Fail(r)
    \/ Crash

Spec == Init /\ [][Next]_vars

-----------------------------------------------------------------------------
(* What must hold *)

Stored == {m \in Messages : message[m].state = "stored"}

\* Participants and messages go with the event's conversation, also those that
\* listeners and handlers begun before the removal insert after it; and a
\* message's sender is a participant of the message's own conversation.
ConversationIsWhole ==
    /\ \A e \in conversation : event[e].state = "present"
    /\ \A p \in ParticipantIds :
          participant[p] # "absent" => ConversationOf(p) \in conversation
    /\ \A m \in Stored :
          /\ message[m].conversation \in conversation
          /\ message[m].sender # None =>
                /\ participant[message[m].sender] # "absent"
                /\ ConversationOf(message[m].sender) = message[m].conversation

\* A reply of the assistant answers a user's message of its conversation, never
\* a team member's or its own, and no message is answered twice.
RepliesAnswerUsers ==
    \A m \in Stored : message[m].sender = None =>
        /\ message[m].answers \in Stored
        /\ message[message[m].answers].sender \in Seats
        /\ message[message[m].answers].conversation = message[m].conversation
        /\ \A n \in Stored \ {m} : message[n].answers # message[m].answers

\* A client that fetched the history after it joined the room holds every
\* message sent through the gateway, unless its broadcast is still to come: none
\* falls between the history and the live frames.
AboutToBroadcast ==
    {req[r].message : r \in {q \in Requests : At(q, "broadcast")}} \cup
    {req[r].reply : r \in {q \in Requests : At(q, "broadcastAi")}}

ReaderMissesNothing ==
    \A s \in Sockets : \A m \in Stored \ AboutToBroadcast :
        /\ message[m].via = "socket"
        /\ message[m].conversation \in caughtUp[s]
        => m \in seen[s]

\* A user whose 'event.joined' was emitted when the conversation existed is its
\* participant once the listener is done, unless one of its calls failed: not
\* even a conversation that its own listener is still filling is missed.
JoinerIsAdded ==
    \A s \in Seats :
        /\ seat[s].state = "taken" /\ seat[s].pc = "idle"
        /\ seat[s].met /\ ~seat[s].failed
        => participant[s] = "there"

\* The team that the listener of 'event.created' found are participants once it
\* is done, whoever joined meanwhile, unless one of its calls failed or a member
\* left the team.
TeamIsAdded ==
    \A e \in Events :
        /\ event[e].state = "present" /\ event[e].pc = "idle"
        /\ ~event[e].failed
        /\ \A n \in Members : team[n] # "left"
        => \A m \in event[e].found : participant[<<e, m>>] = "there"

-----------------------------------------------------------------------------
(* The inductive invariant behind them *)

Removed(e) == event[e].state = "removed"

\* A listener that goes on after the conversation's insert finds it, unless the
\* event was removed; whom it found in the team was in it once.
CreatorKnows(e) ==
    /\ event[e].pc \in {"findTeam", "addTeam"} => e \in conversation \/ Removed(e)
    /\ \A m \in event[e].found : team[m] # "out"

\* A seat keeps its user and event; what its listener read is so as long as the
\* seat is there.
SeatKnown(s) ==
    /\ seat[s].state # "unused" =>
          seat[s].event \in Events /\ seat[s].user \in Users
    /\ seat[s].state = "unused" =>
          /\ seat[s].event = None /\ seat[s].pc = "idle"
          /\ participant[s] = "absent"
    /\ seat[s].state = "taken" => event[seat[s].event].state = "present"
    /\ seat[s].state = "taken" /\ (seat[s].met \/ seat[s].pc = "addUser")
          => seat[s].event \in conversation
    /\ participant[s] # "ownerless"

\* Rows in use are of an event; a deleted one's is removed. What is answered was
\* sent before.
MessageKnown(m) ==
    /\ message[m].state = "unused" => message[m].conversation = None
    /\ message[m].state # "unused" => message[m].conversation \in Events
    /\ message[m].state = "gone" => Removed(message[m].conversation)
    /\ message[m].answers # None => message[message[m].answers].state # "unused"

HoldsMessage == {"broadcast", "findConversation", "askAi", "insertAi"}

\* A handler's sender took part in its conversation, its message was sent there
\* by a seat's user if it names a user, and nobody else answers it.
HandlerKnows(r) ==
    LET h == req[r] IN
    /\ h.pc # "idle" => h.event \in Events
    /\ h.pc = "insertMessage" =>
          /\ h.sender \in ParticipantIds
          /\ h.sender \in Seats => seat[h.sender].state # "unused"
          /\ h.user # None => h.sender \in Seats
          /\ ConversationOf(h.sender) = h.event
          /\ participant[h.sender] # "absent" \/ Removed(h.event)
    /\ h.pc \in HoldsMessage =>
          /\ h.message \in Messages
          /\ message[h.message].state # "unused"
          /\ message[h.message].conversation = h.event
          /\ message[h.message].sender # None
          /\ h.user # None => message[h.message].sender \in Seats
          /\ \A n \in Messages : message[n].answers # h.message
          /\ \A q \in Requests \ {r} :
                req[q].pc \in HoldsMessage => req[q].message # h.message
    /\ h.pc \in HoldsMessage \ {"broadcast"} => h.user # None
    /\ h.pc = "broadcastAi" =>
          /\ h.reply \in Messages
          /\ message[h.reply].state # "unused"
          /\ message[h.reply].conversation = h.event

\* The conjunction that every step preserves.
ChatInv ==
    /\ TypeOK
    /\ \A e \in Events : CreatorKnows(e)
    /\ \A s \in Seats : SeatKnown(s)
    /\ \A m \in Messages : MessageKnown(m)
    /\ \A r \in Requests : HandlerKnows(r)
    /\ \A s \in Sockets : caughtUp[s] \subseteq socket[s].rooms
    /\ ConversationIsWhole
    /\ RepliesAnswerUsers
    /\ ReaderMissesNothing
    /\ JoinerIsAdded
    /\ TeamIsAdded
===============================================================================
