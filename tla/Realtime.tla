------------------------------ MODULE Realtime ------------------------------
(***************************************************************************)
(* The realtime gateway, for the sockets of one address: the slots an      *)
(* address may use, the rooms a socket listens to, and the presence of a   *)
(* provider.  Handlers of one process interleave only where they wait for  *)
(* the database, so a socket may close while its role is being read.       *)
(***************************************************************************)
EXTENDS Naturals, FiniteSets

CONSTANTS
    Sockets,
    Joins,         \* join:order messages that may be served together
    MAX_SOCKETS_PER_ADDRESS,
    CONNECT_RATE_LIMIT, JOIN_ORDER_RATE_LIMIT,
    MaxSocketMoves \* bound: connections, joins and changes outside

ASSUME CapIsANumber == MAX_SOCKETS_PER_ADDRESS \in Nat

VARIABLES
    socket,    \* state of each socket
    joining,   \* join:order messages being served
    slots,     \* socketsByAddress of the address
    present,   \* lpAddressesOnline holds the address
    connects,  \* connectAttempts in the window
    standing,  \* what resolveRole would answer now: a role, or "revoked"
    early,     \* sockets that closed while their role was being read
    rtMoves

rtVars == <<socket, joining, slots, present, connects, standing, early, rtMoves>>

\* role is what the database answered, data is socket.data, joins its
\* joinAttempts.
NewSocket == [conn |-> "new", at |-> "none", role |-> "none", data |-> "none", rooms |-> {}, timer |-> FALSE, joins |-> 0]
NoJoin == [at |-> "idle"]

RtInit ==
    /\ socket = [s \in Sockets |-> NewSocket]
    /\ joining = [j \in Joins |-> NoJoin]
    /\ slots = {}
    /\ present = FALSE
    /\ connects = 0
    /\ standing = "lp"
    /\ early = {}
    /\ rtMoves = 0

RtMoving == rtMoves < MaxSocketMoves /\ rtMoves' = rtMoves + 1
Up(s) == socket[s].conn = "up"
RoleRoom(role) == CASE role = "lp" -> {"lp:assignments"} [] role = "admin" -> {"admin:orders"} [] OTHER -> {}

----------------------------------------------------------------------------
(* Opening a socket.                                                       *)

\* No token, one of the wrong class or without an expiry.
RefuseToken(s) ==
    /\ socket[s].conn = "new"
    /\ RtMoving
    /\ socket' = [socket EXCEPT ![s].conn = "down"]
    /\ UNCHANGED <<joining, slots, present, connects, standing, early>>

HasRoom == Cardinality(slots) < MAX_SOCKETS_PER_ADDRESS

\* The slot is taken before the role is read.
Reserve(s) ==
    /\ socket[s].conn = "new"
    /\ RtMoving
    /\ connects' = connects + 1
    /\ IF connects' <= CONNECT_RATE_LIMIT /\ HasRoom
       THEN /\ slots' = slots \cup {s}
            /\ socket' = [socket EXCEPT ![s] = [@ EXCEPT !.conn = "up", !.at = "reading"]]
       ELSE /\ slots' = slots
            /\ socket' = [socket EXCEPT ![s].conn = "down"]
    /\ UNCHANGED <<joining, present, standing, early>>

\* connectAttempts and joinAttempts start a new window.
RateWindowPasses ==
    /\ RtMoving
    /\ connects' = 0
    /\ socket' = [s \in Sockets |-> [socket[s] EXCEPT !.joins = 0]]
    /\ UNCHANGED <<joining, slots, present, standing, early>>

\* resolveRole is answered; the handler goes on later.
RoleRead(s) ==
    /\ socket[s].at = "reading"
    /\ socket' = [socket EXCEPT ![s] = [@ EXCEPT !.at = "answered", !.role = standing]]
    /\ UNCHANGED <<joining, slots, present, connects, standing, early, rtMoves>>

BeingOpened(s) == socket[s].at \in {"reading", "answered"}

\* The role could not be read, the wallet is revoked, or the token has run out
\* meanwhile.
ConnectFails(s) ==
    /\ BeingOpened(s)
    /\ slots' = slots \ {s}
    /\ socket' = [socket EXCEPT ![s] = [@ EXCEPT !.at = "closed", !.conn = "down"]]
    /\ early' = early \ {s}
    /\ UNCHANGED <<joining, present, connects, standing, rtMoves>>

FinishConnect(s) ==
    LET role == socket[s].role IN
    /\ socket[s].at = "answered"
    /\ role # "revoked"
    /\ socket' = [socket EXCEPT ![s] = [@ EXCEPT !.at = "open", !.data = role, !.timer = TRUE,
                                               !.rooms = {"user"} \cup RoleRoom(role)]]
    /\ present' = (present \/ role = "lp")
    /\ UNCHANGED <<joining, slots, connects, standing, early, rtMoves>>

----------------------------------------------------------------------------
(* Closing it: the client leaves, or the expiry timer fires.               *)

Disconnected(s) ==
    LET d == socket[s].data IN
    /\ slots' = IF d = "none" THEN slots ELSE slots \ {s}
    /\ present' = (present /\ ~ (d = "lp" /\ slots' = {}))
    /\ early' = IF BeingOpened(s) THEN early \cup {s} ELSE early

Closes(s) ==
    /\ Disconnected(s)
    /\ socket' = [socket EXCEPT ![s] = [@ EXCEPT !.conn = "down", !.timer = FALSE, !.joins = 0, !.rooms = {}]]

Disconnect(s) ==
    /\ Up(s)
    /\ Closes(s)
    /\ UNCHANGED <<joining, connects, standing, rtMoves>>

\* The timer of a socket that has gone disconnects nothing.
ExpiryTimerFires(s) ==
    /\ socket[s].timer
    /\ ~ Up(s)
    /\ socket' = [socket EXCEPT ![s].timer = FALSE]
    /\ UNCHANGED <<joining, slots, present, connects, standing, early, rtMoves>>

----------------------------------------------------------------------------
(* Joining an order's room: the role is read again, then the order.        *)

\* The handler keeps the role that socket.data has at its start.
StartJoin(j, s) ==
    /\ Up(s)
    /\ socket[s].data # "none"
    /\ joining[j] = NoJoin
    /\ RtMoving
    /\ socket' = [socket EXCEPT ![s].joins = @ + 1]
    /\ joining' = [joining EXCEPT ![j] = IF socket[s].joins < JOIN_ORDER_RATE_LIMIT
                                        THEN [at |-> "role", socket |-> s, held |-> socket[s].data, role |-> "none"] ELSE NoJoin]
    /\ UNCHANGED <<slots, present, connects, standing, early>>

\* resolveRole is answered; the change is applied later.
RoleReread(j) ==
    /\ joining[j].at = "role"
    /\ joining' = [joining EXCEPT ![j] = [@ EXCEPT !.at = "answered", !.role = standing]]
    /\ UNCHANGED <<socket, slots, present, connects, standing, early, rtMoves>>

ChangedRoleKeepingRooms(k, held, role) ==
    [k EXCEPT !.rooms = @ \cup RoleRoom(role), !.data = role]

\* applyRoleChange leaves the rooms of the role the handler started with.
ChangedRole(k, held, role) ==
    [k EXCEPT !.rooms = (@ \ RoleRoom(held)) \cup RoleRoom(role), !.data = role]

RecheckRole(j) ==
    LET s == joining[j].socket held == joining[j].held role == joining[j].role IN
    /\ joining[j].at = "answered"
    /\ role # "revoked"
    /\ joining' = [joining EXCEPT ![j].at = "order"]
    /\ IF role = held
       THEN UNCHANGED <<socket, present>>
       ELSE /\ socket' = [socket EXCEPT ![s] = ChangedRole(socket[s], held, role)]
            /\ present' = ((present /\ held # "lp") \/ role = "lp")
    /\ UNCHANGED <<slots, connects, standing, early, rtMoves>>

\* A wallet that is no longer proven is disconnected.
JoinRevoked(j) ==
    LET s == joining[j].socket IN
    /\ joining[j].at = "answered"
    /\ joining[j].role = "revoked"
    /\ joining' = [joining EXCEPT ![j] = NoJoin]
    /\ IF Up(s) THEN Closes(s) ELSE UNCHANGED <<socket, slots, present, early>>
    /\ UNCHANGED <<connects, standing, rtMoves>>

\* The order is read: a party, or a provider or administrator by the role held
\* at the start, joins its room, also when the socket has gone meanwhile.
\* Otherwise, or on an error, nothing happens.
FinishJoin(j, joined) ==
    LET s == joining[j].socket IN
    /\ joining[j].at \in {"role", "order"}
    /\ joined => joining[j].at = "order"
    /\ joining' = [joining EXCEPT ![j] = NoJoin]
    /\ socket' = [socket EXCEPT ![s].rooms = IF joined THEN @ \cup {"order"} ELSE @]
    /\ UNCHANGED <<slots, present, connects, standing, early, rtMoves>>

\* An administrator changes the provider, or its person revokes the wallet.
StandingChanges(role) ==
    /\ standing # role
    /\ RtMoving
    /\ standing' = role
    /\ UNCHANGED <<joining, socket, slots, present, connects, early>>

RtNext ==
    \/ \E s \in Sockets :
        \/ RefuseToken(s)
        \/ Reserve(s)
        \/ RoleRead(s)
        \/ ConnectFails(s)
        \/ FinishConnect(s)
        \/ Disconnect(s)
        \/ ExpiryTimerFires(s)
        \/ \E j \in Joins : StartJoin(j, s)
    \/ \E j \in Joins :
        \/ RoleReread(j)
        \/ RecheckRole(j)
        \/ JoinRevoked(j)
        \/ \E b \in BOOLEAN : FinishJoin(j, b)
    \/ RateWindowPasses
    \/ \E role \in {"lp", "user", "revoked"} : StandingChanges(role)

RtSpec == RtInit /\ [][RtNext]_rtVars

----------------------------------------------------------------------------
(* An address never has more open sockets than its cap, however many       *)
(* connect at once: the slot is taken before the wait (handleConnection).  *)
SocketsAreCapped ==
    /\ Cardinality({s \in Sockets : Up(s)}) <= MAX_SOCKETS_PER_ADDRESS
    /\ \A s \in Sockets : Up(s) => s \in slots

(* A socket that has gone has given its slot back, unless it went while    *)
(* its role was being read (handleDisconnect, releaseSocketSlot).          *)
SlotsComeBack ==
    \A s \in slots : Up(s) \/ s \in early

(* An open socket listens to the room of exactly the role the gateway holds*)
(* for it, whatever its joins, and the changes of its role read by some and*)
(* applied by others, overlap with (applyRoleChange).                      *)
RoomsFollowRole ==
    \A s \in Sockets :
        Up(s) /\ socket[s].at = "open" =>
            socket[s].rooms \cap {"lp:assignments", "admin:orders"} = RoleRoom(socket[s].data)

=============================================================================
