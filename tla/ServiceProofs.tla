--------------------------- MODULE ServiceProofs ----------------------------
(***************************************************************************)
(* Proofs about the hosted pages (Interactive), the transfer proofs and    *)
(* backups (Files), the socket gateway (Realtime) and what an order page   *)
(* offers (Screens).  A hosted session ends because its absolute expiry is *)
(* carried through every renewal; a file an order names is there because   *)
(* no call that removes a file has it in hand while an order names it; the *)
(* gateway stays below its cap because a slot is taken in the step that    *)
(* counts them; a page asks for money only while it may be sent because a  *)
(* screen that polls is at most one unit of time old.                      *)
(***************************************************************************)
EXTENDS Interactive, Files, Realtime, Screens, FiniteSetTheorems, TLAPS

-----------------------------------------------------------------------------
(* The hosted session.                                                     *)

CookieType == [held : BOOLEAN, exp : Nat, abs : Nat]

\* Nothing a browser holds outlives the link and one absolute lifetime.
SessionInd ==
    /\ instant \in Nat
    /\ cookie \in [Browsers -> CookieType]
    /\ served \in [Browsers -> Nat]
    /\ \A b \in Browsers : cookie[b].held => cookie[b].abs < LINK_TTL + ABSOLUTE_TTL
    /\ SessionEndsInADay

\* A session is minted on a live link and keeps its absolute expiry when it is
\* renewed or dropped (sessionFromLink, usableSession).
LEMMA CookieSteps ==
    ASSUME SessionInd, NEW b \in Browsers
    PROVE  /\ instant < LINK_TTL => Minted \in CookieType /\ Minted.abs < LINK_TTL + ABSOLUTE_TTL
           /\ Renewed(b) \in CookieType /\ Renewed(b).abs = cookie[b].abs /\ Renewed(b).held = cookie[b].held
           /\ NoCookie \in CookieType /\ ~NoCookie.held
           /\ Usable(b) => instant < LINK_TTL + ABSOLUTE_TTL
<1> USE SessionTimes DEF SessionInd
<1>1. cookie[b] \in CookieType
  OBVIOUS
<1>2. instant < LINK_TTL => Minted \in CookieType /\ Minted.abs < LINK_TTL + ABSOLUTE_TTL
  BY DEF Minted, CookieType
<1>3. Renewed(b) \in CookieType /\ Renewed(b).abs = cookie[b].abs /\ Renewed(b).held = cookie[b].held
  BY <1>1 DEF Renewed, CookieType
<1>4. NoCookie \in CookieType /\ ~NoCookie.held
  BY DEF NoCookie, CookieType
<1>5. Usable(b) => instant < LINK_TTL + ABSOLUTE_TTL
  BY <1>1 DEF Usable, CookieType
<1> QED
  BY <1>2, <1>3, <1>4, <1>5

\* The invariant of the session holds at the start and is kept by every handler
\* of the hosted pages.
LEMMA SessionInvariance == InteractiveSpec => []SessionInd
<1>1. InteractiveInit => SessionInd
  BY SessionTimes DEF InteractiveInit, SessionInd, SessionEndsInADay, CookieType, NoCookie
<1>2. SessionInd /\ [InteractiveNext]_interactiveVars => SessionInd'
  <2> SUFFICES ASSUME SessionInd, [InteractiveNext]_interactiveVars PROVE SessionInd'
    OBVIOUS
  <2>0. SessionInd
    OBVIOUS
  <2>1. ASSUME NEW b \in Browsers, FollowLink(b) PROVE SessionInd'
    <3> DEFINE m == Minted
    <3>1. m \in CookieType /\ m.abs < LINK_TTL + ABSOLUTE_TTL
      BY <2>1, CookieSteps DEF FollowLink
    <3>2. cookie' = [cookie EXCEPT ![b] = m] /\ UNCHANGED <<instant, served>>
      BY <2>1 DEF FollowLink
    <3> HIDE DEF m
    <3> QED
      BY <2>0, <3>1, <3>2 DEF SessionInd, SessionEndsInADay
  <2>2. ASSUME NEW b \in Browsers, LoadPage(b) PROVE SessionInd'
    <3> DEFINE m == Renewed(b)
    <3>1. m \in CookieType /\ m.abs = cookie[b].abs /\ m.held = cookie[b].held /\ instant < LINK_TTL + ABSOLUTE_TTL
      BY <2>2, CookieSteps DEF LoadPage
    <3>2. cookie' = [cookie EXCEPT ![b] = m] /\ UNCHANGED instant
          /\ served' = [served EXCEPT ![b] = IF permitted THEN instant ELSE served[b]]
      BY <2>0, <2>2 DEF LoadPage, SessionInd
    <3> HIDE DEF m
    <3>3. cookie' \in [Browsers -> CookieType] /\ instant' \in Nat
      BY <2>0, <3>1, <3>2 DEF SessionInd
    <3>4. \A a \in Browsers : cookie'[a].held => cookie'[a].abs < LINK_TTL + ABSOLUTE_TTL
      BY <2>0, <3>1, <3>2 DEF SessionInd
    <3>5. served' \in [Browsers -> Nat] /\ \A a \in Browsers : served'[a] < LINK_TTL + ABSOLUTE_TTL
      BY <2>0, <3>1, <3>2 DEF SessionInd, SessionEndsInADay
    <3> QED
      BY <3>3, <3>4, <3>5 DEF SessionInd, SessionEndsInADay
  <2>3. ASSUME NEW b \in Browsers, SubmitAmount(b) \/ StartClaim(b) PROVE SessionInd'
    <3>1. served' = [served EXCEPT ![b] = instant] /\ UNCHANGED <<instant, cookie>>
      BY <2>3 DEF SubmitAmount, StartClaim
    <3>2. instant < LINK_TTL + ABSOLUTE_TTL
      BY <2>3, CookieSteps DEF SubmitAmount, StartClaim
    <3> QED
      BY <2>0, <3>1, <3>2 DEF SessionInd, SessionEndsInADay
  <2>4. CASE InstantPasses
    <3>1. NoCookie \in CookieType /\ ~NoCookie.held
      BY DEF NoCookie, CookieType
    <3> QED
      BY <2>0, <2>4, <3>1 DEF InstantPasses, SessionInd, SessionEndsInADay
  <2>5. CASE WalletRevoked \/ OrderMovesOn \/ (\E b \in Browsers : FinishClaim(b)) \/ UNCHANGED interactiveVars
    <3>1. UNCHANGED <<instant, cookie, served>>
      BY <2>5 DEF WalletRevoked, OrderMovesOn, FinishClaim, interactiveVars
    <3> QED
      BY <2>0, <3>1 DEF SessionInd, SessionEndsInADay
  <2> QED
    BY <2>1, <2>2, <2>3, <2>4, <2>5 DEF InteractiveNext
<1> QED
  BY <1>1, <1>2, PTL DEF InteractiveSpec

\* Whatever the lifetimes and however many browsers follow the link, nothing is
\* served past the link's life and one absolute lifetime.
THEOREM SessionEnds == InteractiveSpec => []SessionEndsInADay
  BY SessionInvariance, PTL DEF SessionInd

\* A claim of payment, once written, keeps its moment (claimPaid's updateMany).
THEOREM ClaimStands == InteractiveSpec => ClaimStandsAsMade
<1>0. InteractiveInit => "claimedAt" \in DOMAIN deposit
  BY DEF InteractiveInit
<1>1. "claimedAt" \in DOMAIN deposit /\ [InteractiveNext]_interactiveVars
      => /\ ("claimedAt" \in DOMAIN deposit)'
         /\ deposit.claimedAt # Unclaimed => deposit'.claimedAt = deposit.claimedAt
  BY Zenon DEF InteractiveNext, interactiveVars, FollowLink, LoadPage, SubmitAmount, StartClaim, FinishClaim,
         ClaimStillOpen, WalletRevoked, OrderMovesOn, InstantPasses
<1> QED
  BY <1>0, <1>1, PTL DEF InteractiveSpec, ClaimStandsAsMade

-----------------------------------------------------------------------------
(* The gateway's sockets.                                                  *)

Roles == {"lp", "user"}

SocketFields == {"conn", "at", "role", "data", "rooms", "timer", "joins"}

\* What is true of one socket: its shape, that it is up without a role only
\* while the role is being read, and that its rooms are its role's.
SocketIs(k) ==
    /\ DOMAIN k = SocketFields
    /\ k = [f \in SocketFields |-> k[f]]
    /\ k.data \in Roles \cup {"none"}
    /\ k.role \in Roles \cup {"none", "revoked"}
    /\ k.at = "answered" => k.role # "none"
    /\ k.conn = "up" /\ k.data = "none" => k.at \in {"reading", "answered"}
    /\ k.conn = "up" /\ k.at = "open" => k.rooms \cap {"lp:assignments", "admin:orders"} = RoleRoom(k.data)

JoinIs(j) ==
    \/ j = NoJoin
    \/ /\ DOMAIN j = {"at", "socket", "held", "role"} /\ j.socket \in Sockets /\ j.held \in Roles
       /\ j.at = "answered" => j.role \in Roles \cup {"revoked"}

GatewayInd ==
    /\ DOMAIN socket = Sockets
    /\ \A s \in Sockets : SocketIs(socket[s])
    /\ DOMAIN joining = Joins
    /\ \A j \in Joins : JoinIs(joining[j])
    /\ standing \in Roles \cup {"revoked"}
    /\ slots \subseteq Sockets /\ IsFiniteSet(slots) /\ Cardinality(slots) <= MAX_SOCKETS_PER_ADDRESS
    /\ \A s \in Sockets : Up(s) => s \in slots
    /\ SlotsComeBack

\* The gateway starts without sockets.
LEMMA GatewayStart == RtInit => GatewayInd
  BY CapIsANumber, FS_EmptySet
  DEF RtInit, GatewayInd, SocketIs, JoinIs, SocketFields, NewSocket, NoJoin, Roles, Up, SlotsComeBack

\* A step that touches one socket keeps the invariant when the slot is taken by
\* a socket that is up and given up by one that is down.
LEMMA SocketStep ==
    ASSUME GatewayInd, NEW s \in Sockets, NEW k, SocketIs(k), socket' = [socket EXCEPT ![s] = k],
           DOMAIN joining' = Joins, \A j \in Joins : JoinIs(joining[j])', standing' = standing,
           slots' \subseteq Sockets, IsFiniteSet(slots'), Cardinality(slots') <= MAX_SOCKETS_PER_ADDRESS,
           slots' \ {s} = slots \ {s}, early' \ {s} = early \ {s},
           k.conn = "up" => s \in slots',
           s \in slots' => k.conn = "up" \/ s \in early'
    PROVE  GatewayInd'
<1>1. DOMAIN socket' = Sockets /\ \A x \in Sockets : socket'[x] = IF x = s THEN k ELSE socket[x]
  BY DEF GatewayInd
<1>2. \A x \in Sockets : SocketIs(socket'[x])
  BY <1>1 DEF GatewayInd
<1>3. \A x \in Sockets : Up(x)' => x \in slots'
  BY <1>1 DEF GatewayInd, Up
<1>4. SlotsComeBack'
  BY <1>1 DEF GatewayInd, SlotsComeBack, Up
<1> QED
  BY Zenon, <1>1, <1>2, <1>3, <1>4 DEF GatewayInd, SocketIs, JoinIs

\* Taking and giving back one slot keeps the set of slots finite, and giving it
\* back keeps it within the cap.
LEMMA SlotCount ==
    ASSUME GatewayInd, NEW s \in Sockets
    PROVE  /\ IsFiniteSet(slots \cup {s}) /\ IsFiniteSet(slots \ {s})
           /\ HasRoom => Cardinality(slots \cup {s}) <= MAX_SOCKETS_PER_ADDRESS
           /\ Cardinality(slots \ {s}) <= MAX_SOCKETS_PER_ADDRESS
<1>1. IsFiniteSet(slots) /\ Cardinality(slots) \in Nat /\ Cardinality(slots) <= MAX_SOCKETS_PER_ADDRESS
  BY FS_CardinalityType DEF GatewayInd
<1>2. /\ IsFiniteSet(slots \cup {s}) /\ IsFiniteSet(slots \ {s})
      /\ Cardinality(slots \cup {s}) = IF s \in slots THEN Cardinality(slots) ELSE Cardinality(slots) + 1
      /\ Cardinality(slots \ {s}) = IF s \in slots THEN Cardinality(slots) - 1 ELSE Cardinality(slots)
  BY <1>1, FS_AddElement, FS_RemoveElement
<1> QED
  BY <1>1, <1>2, CapIsANumber DEF HasRoom

\* A socket that closes gives its slot back, or is remembered as having gone
\* while its role was being read (handleDisconnect).
LEMMA ClosingStep ==
    ASSUME GatewayInd, NEW s \in Sockets, Up(s), Closes(s), standing' = standing,
           DOMAIN joining' = Joins, \A j \in Joins : JoinIs(joining[j])'
    PROVE  GatewayInd'
<1> DEFINE k == [socket[s] EXCEPT !.conn = "down", !.timer = FALSE, !.joins = 0, !.rooms = {}]
<1>1. SocketIs(socket[s]) /\ socket' = [socket EXCEPT ![s] = k]
  BY DEF GatewayInd, Closes
<1>2. SocketIs(k) /\ k.conn = "down"
  BY Zenon, <1>1 DEF SocketIs, SocketFields
<1>3. /\ slots' = IF socket[s].data = "none" THEN slots ELSE slots \ {s}
      /\ early' = IF socket[s].at \in {"reading", "answered"} THEN early \cup {s} ELSE early
  BY DEF Closes, Disconnected, BeingOpened
<1>4. s \in slots' => s \in early'
  BY <1>1, <1>3 DEF SocketIs, Up
<1>5. slots' \subseteq Sockets /\ IsFiniteSet(slots') /\ Cardinality(slots') <= MAX_SOCKETS_PER_ADDRESS
  BY <1>3, SlotCount DEF GatewayInd
<1>6. slots' \ {s} = slots \ {s} /\ early' \ {s} = early \ {s}
  BY <1>3
<1> HIDE DEF k
<1> QED
  BY Zenon, <1>1, <1>2, <1>4, <1>5, <1>6, SocketStep

\* Every handler of the gateway keeps the invariant.
LEMMA GatewayStep == GatewayInd /\ [RtNext]_rtVars => GatewayInd'
<1> SUFFICES ASSUME GatewayInd, [RtNext]_rtVars PROVE GatewayInd'
  OBVIOUS
<1>0. /\ DOMAIN socket = Sockets /\ DOMAIN joining = Joins
      /\ \A s \in Sockets : SocketIs(socket[s])
      /\ \A j \in Joins : JoinIs(joining[j])
      /\ slots \subseteq Sockets /\ IsFiniteSet(slots) /\ Cardinality(slots) <= MAX_SOCKETS_PER_ADDRESS
      /\ \A s \in Sockets : Up(s) => s \in slots
      /\ \A s \in slots : Up(s) \/ s \in early
  BY DEF GatewayInd, SlotsComeBack
<1>a. ASSUME UNCHANGED joining PROVE \A j \in Joins : JoinIs(joining[j])'
  BY <1>0, <1>a DEF JoinIs, NoJoin
<1>b. ASSUME NEW s \in Sockets, NEW k, SocketIs(k), socket' = [socket EXCEPT ![s] = k], k.conn = socket[s].conn,
             DOMAIN joining' = Joins, \A j \in Joins : JoinIs(joining[j])', UNCHANGED <<slots, standing, early>>
      PROVE  GatewayInd'
  BY ZenonT(60), <1>0, <1>b, SocketStep DEF Up
<1>1. ASSUME NEW s \in Sockets, RefuseToken(s) PROVE GatewayInd'
  <2> DEFINE k == [socket[s] EXCEPT !.conn = "down"]
  <2>1. SocketIs(k) /\ k.conn = "down" /\ socket' = [socket EXCEPT ![s] = k]
    BY <1>0, <1>1 DEF RefuseToken, SocketIs, SocketFields
  <2>2. ~Up(s) /\ UNCHANGED <<joining, slots, standing, early>>
    BY <1>1 DEF RefuseToken, Up
  <2> HIDE DEF k
  <2> QED
    BY Zenon, <1>0, <1>a, <2>1, <2>2, SocketStep
<1>2. ASSUME NEW s \in Sockets, Reserve(s) PROVE GatewayInd'
  <2>0. socket[s].conn = "new" /\ SocketIs(socket[s]) /\ UNCHANGED <<joining, standing, early>>
    BY <1>0, <1>2 DEF Reserve
  <2>1. CASE HasRoom /\ slots' = slots \cup {s}
             /\ socket' = [socket EXCEPT ![s] = [socket[s] EXCEPT !.conn = "up", !.at = "reading"]]
    <3> DEFINE k == [socket[s] EXCEPT !.conn = "up", !.at = "reading"]
    <3>1. SocketIs(k) /\ k.conn = "up"
      BY Zenon, <2>0 DEF SocketIs, SocketFields
    <3>2. socket' = [socket EXCEPT ![s] = k]
      BY <2>1
    <3> HIDE DEF k
    <3> QED
      BY ZenonT(60), <1>0, <1>a, <2>0, <2>1, <3>1, <3>2, SlotCount, SocketStep
  <2>2. CASE slots' = slots /\ socket' = [socket EXCEPT ![s].conn = "down"]
    <3> DEFINE k == [socket[s] EXCEPT !.conn = "down"]
    <3>1. SocketIs(k) /\ k.conn = "down"
      BY <2>0 DEF SocketIs, SocketFields
    <3>2. socket' = [socket EXCEPT ![s] = k] /\ ~Up(s)
      BY <1>0, <2>0, <2>2 DEF Up
    <3> HIDE DEF k
    <3> QED
      BY ZenonT(60), <1>0, <1>a, <2>0, <2>2, <3>1, <3>2, SocketStep
  <2> QED
    BY <1>0, <1>2, <2>1, <2>2 DEF Reserve
<1>3. ASSUME NEW s \in Sockets, ConnectFails(s) PROVE GatewayInd'
  <2> DEFINE k == [socket[s] EXCEPT !.at = "closed", !.conn = "down"]
  <2>1. SocketIs(k) /\ k.conn = "down"
    BY Zenon, <1>0 DEF SocketIs, SocketFields
  <2>2. /\ socket' = [socket EXCEPT ![s] = k] /\ slots' = slots \ {s} /\ early' = early \ {s}
        /\ UNCHANGED <<joining, standing>>
    BY <1>0, <1>3 DEF ConnectFails
  <2> HIDE DEF k
  <2> QED
    BY Zenon, <1>0, <1>a, <2>1, <2>2, SlotCount, SocketStep
<1>4. ASSUME NEW s \in Sockets, FinishConnect(s) PROVE GatewayInd'
  <2> DEFINE role == socket[s].role
             k == [socket[s] EXCEPT !.at = "open", !.data = role, !.timer = TRUE,
                                    !.rooms = {"user"} \cup RoleRoom(role)]
  <2>1. role \in Roles
    BY <1>0, <1>4 DEF SocketIs, FinishConnect
  <2>2. RoleRoom(role) \subseteq {"lp:assignments"}
    BY <2>1 DEF Roles, RoleRoom
  <2>3. SocketIs(k) /\ k.conn = socket[s].conn
    BY ZenonT(60), <1>0, <2>1, <2>2 DEF SocketIs, SocketFields, Roles
  <2>4. socket' = [socket EXCEPT ![s] = k] /\ UNCHANGED <<joining, slots, standing, early>>
    BY <1>0, <1>4 DEF FinishConnect
  <2> HIDE DEF k
  <2> QED
    BY Zenon, <1>0, <1>a, <1>b, <2>3, <2>4
<1>5. ASSUME NEW s \in Sockets, Disconnect(s) PROVE GatewayInd'
  BY <1>0, <1>a, <1>5, ClosingStep DEF Disconnect
<1>6. ASSUME NEW s \in Sockets, ExpiryTimerFires(s) PROVE GatewayInd'
  <2> DEFINE k == [socket[s] EXCEPT !.timer = FALSE]
  <2>1. SocketIs(k) /\ k.conn = socket[s].conn
    BY ZenonT(60), <1>0 DEF SocketIs, SocketFields
  <2>2. socket' = [socket EXCEPT ![s] = k] /\ UNCHANGED <<joining, slots, standing, early>>
    BY <1>0, <1>6 DEF ExpiryTimerFires
  <2> HIDE DEF k
  <2> QED
    BY Zenon, <1>0, <1>a, <1>b, <2>1, <2>2
<1>c. ASSUME NEW j \in Joins, NEW q, JoinIs(q), joining' = [joining EXCEPT ![j] = q]
      PROVE  DOMAIN joining' = Joins /\ \A i \in Joins : JoinIs(joining[i])'
  <2>1. DOMAIN joining' = Joins /\ \A i \in Joins : JoinIs(joining'[i])
    BY <1>0, <1>c
  <2> QED
    BY <2>1 DEF JoinIs, NoJoin
<1>e. ASSUME UNCHANGED <<socket, slots, standing, early>>, DOMAIN joining' = Joins, \A j \in Joins : JoinIs(joining[j])'
      PROVE  GatewayInd'
  BY <1>e DEF GatewayInd, SlotsComeBack, Up, SocketIs
<1>d. JoinIs(NoJoin)
  BY DEF JoinIs
<1>7. ASSUME NEW s \in Sockets, NEW j \in Joins, StartJoin(j, s) PROVE GatewayInd'
  <2> DEFINE k == [socket[s] EXCEPT !.joins = socket[s].joins + 1]
             q == IF socket[s].joins < JOIN_ORDER_RATE_LIMIT
                  THEN [at |-> "role", socket |-> s, held |-> socket[s].data, role |-> "none"] ELSE NoJoin
  <2>1. SocketIs(k) /\ k.conn = socket[s].conn
    BY <1>0 DEF SocketIs, SocketFields
  <2>2. socket[s].data \in Roles
    BY <1>0, <1>7 DEF SocketIs, StartJoin
  <2>3. JoinIs(q)
    BY <2>2 DEF JoinIs
  <2>4. socket' = [socket EXCEPT ![s] = k] /\ joining' = [joining EXCEPT ![j] = q] /\ UNCHANGED <<slots, standing, early>>
    BY <1>0, <1>7 DEF StartJoin
  <2> HIDE DEF k, q
  <2>5. DOMAIN joining' = Joins /\ \A i \in Joins : JoinIs(joining[i])'
    BY Zenon, <1>c, <2>3, <2>4
  <2> QED
    BY Zenon, <1>b, <2>1, <2>4, <2>5
<1>14. ASSUME NEW s \in Sockets, RoleRead(s) PROVE GatewayInd'
  <2> DEFINE k == [socket[s] EXCEPT !.at = "answered", !.role = standing]
  <2>1. SocketIs(socket[s]) /\ standing \in Roles \cup {"revoked"}
    BY Zenon, <1>0 DEF GatewayInd
  <2>2. SocketIs(k) /\ k.conn = socket[s].conn
    BY ZenonT(60), <2>1 DEF SocketIs, SocketFields, Roles
  <2>3. socket' = [socket EXCEPT ![s] = k] /\ UNCHANGED <<joining, slots, standing, early>>
    BY <1>0, <1>14 DEF RoleRead
  <2> HIDE DEF k
  <2> QED
    BY Zenon, <1>0, <1>a, <1>b, <2>2, <2>3
<1>15. ASSUME NEW j \in Joins, RoleReread(j) PROVE GatewayInd'
  <2> DEFINE q == [joining[j] EXCEPT !.at = "answered", !.role = standing]
  <2>1. JoinIs(joining[j]) /\ joining[j] # NoJoin /\ standing \in Roles \cup {"revoked"}
    BY <1>0, <1>15 DEF RoleReread, NoJoin, GatewayInd
  <2>2. JoinIs(q)
    BY <2>1 DEF JoinIs
  <2>3. joining' = [joining EXCEPT ![j] = q] /\ UNCHANGED <<socket, slots, standing, early>>
    BY <1>0, <1>15 DEF RoleReread
  <2> HIDE DEF q
  <2> QED
    BY Zenon, <1>c, <1>e, <2>2, <2>3
<1>8. ASSUME NEW j \in Joins, RecheckRole(j) PROVE GatewayInd'
  <2> DEFINE s == joining[j].socket
             held == joining[j].held
             role == joining[j].role
             q == [joining[j] EXCEPT !.at = "order"]
             k == ChangedRole(socket[s], held, role)
  <2>1. s \in Sockets /\ held \in Roles /\ role \in Roles /\ JoinIs(q)
    BY <1>0, <1>8 DEF RecheckRole, JoinIs, NoJoin
  <2>2. DOMAIN joining' = Joins /\ \A i \in Joins : JoinIs(joining[i])'
    <3>1. joining' = [joining EXCEPT ![j] = q]
      BY <1>0, <1>8 DEF RecheckRole
    <3> HIDE DEF q
    <3> QED
      BY Zenon, <1>c, <2>1, <3>1
  <2>3. UNCHANGED <<slots, standing, early>>
    BY <1>8 DEF RecheckRole
  <2>4. CASE role = held
    BY <1>8, <1>e, <2>2, <2>3, <2>4 DEF RecheckRole
  <2>5. CASE role # held
    <3>1. socket' = [socket EXCEPT ![s] = k]
      BY <1>8, <2>5 DEF RecheckRole
    <3>2. SocketIs(socket[s])
      BY <1>0, <2>1
    <3>3. RoleRoom("lp") = {"lp:assignments"} /\ RoleRoom("user") = {}
      BY SMTT(30) DEF RoleRoom
    <3>4. k.conn = socket[s].conn /\ k.data = role /\ k.at = socket[s].at /\ k.role = socket[s].role
          /\ k.rooms = (socket[s].rooms \ RoleRoom(held)) \cup RoleRoom(role)
          /\ DOMAIN k = SocketFields /\ k = [f \in SocketFields |-> k[f]]
      BY ZenonT(60), <3>2 DEF ChangedRole, SocketIs, SocketFields
    <3>5. k.conn = "up" /\ k.at = "open" => k.rooms \cap {"lp:assignments", "admin:orders"} = RoleRoom(role)
      <4>1. SUFFICES ASSUME k.conn = "up", k.at = "open"
                     PROVE  k.rooms \cap {"lp:assignments", "admin:orders"} = RoleRoom(role)
        BY Zenon
      <4>2. socket[s].rooms \cap {"lp:assignments", "admin:orders"} = RoleRoom(socket[s].data)
            /\ socket[s].data \in Roles \cup {"none"}
        BY Zenon, <3>2, <3>4, <4>1 DEF SocketIs
      <4>3. RoleRoom(socket[s].data) \subseteq {"lp:assignments"}
        BY <4>2 DEF RoleRoom, Roles
      <4> HIDE DEF k, s, held, role
      <4>4. CASE role = "lp"
        BY <3>3, <3>4, <4>2, <4>3, <4>4
      <4>5. CASE role = "user" /\ held = "lp"
        BY Zenon, <3>3, <3>4, <4>2, <4>3, <4>5
      <4> QED
        BY <2>1, <2>5, <4>4, <4>5 DEF Roles
    <3>6. SocketIs(k)
      <4>1. /\ k.role \in Roles \cup {"none", "revoked"}
            /\ k.at = "answered" => k.role # "none"
            /\ k.data \in Roles \cup {"none"} /\ k.data # "none"
        BY <2>1, <3>2, <3>4 DEF SocketIs, Roles
      <4> HIDE DEF k
      <4> QED BY Zenon, <3>4, <3>5, <4>1 DEF SocketIs
    <3> HIDE DEF k, s
    <3> QED
      BY <1>b, <2>1, <2>2, <2>3, <3>1, <3>4, <3>6
  <2> QED
    BY <2>4, <2>5
<1>9. ASSUME NEW j \in Joins, JoinRevoked(j) PROVE GatewayInd'
  <2> DEFINE s == joining[j].socket
  <2>1. s \in Sockets
    BY <1>0, <1>9 DEF JoinRevoked, JoinIs, NoJoin
  <2>2. DOMAIN joining' = Joins /\ \A i \in Joins : JoinIs(joining[i])'
    BY Zenon, <1>c, <1>d, <1>9 DEF JoinRevoked
  <2>3. CASE Up(s)
    BY <1>9, <2>1, <2>2, <2>3, ClosingStep DEF JoinRevoked
  <2>4. CASE ~Up(s)
    BY <1>9, <1>e, <2>2, <2>4 DEF JoinRevoked
  <2> QED
    BY <2>3, <2>4
<1>10. ASSUME NEW j \in Joins, NEW b \in BOOLEAN, FinishJoin(j, b) PROVE GatewayInd'
  <2> DEFINE s == joining[j].socket
             k == [socket[s] EXCEPT !.rooms = IF b THEN socket[s].rooms \cup {"order"} ELSE socket[s].rooms]
  <2>1. s \in Sockets
    BY <1>0, <1>10 DEF FinishJoin, JoinIs, NoJoin
  <2>2. DOMAIN joining' = Joins /\ \A i \in Joins : JoinIs(joining[i])'
    BY ZenonT(60), <1>c, <1>d, <1>10 DEF FinishJoin
  <2>3. SocketIs(k) /\ k.conn = socket[s].conn
    <3>1. DOMAIN socket[s] = SocketFields /\ SocketIs(socket[s])
      BY Zenon, <1>0, <2>1 DEF SocketIs
    <3>2. /\ DOMAIN k = SocketFields /\ k = [f \in SocketFields |-> k[f]]
          /\ k.data = socket[s].data /\ k.conn = socket[s].conn /\ k.at = socket[s].at /\ k.role = socket[s].role
          /\ k.rooms = socket[s].rooms \/ k.rooms = socket[s].rooms \cup {"order"}
      BY <3>1 DEF SocketFields
    <3> HIDE DEF k
    <3>3. k.rooms \cap {"lp:assignments", "admin:orders"} = socket[s].rooms \cap {"lp:assignments", "admin:orders"}
      BY ONLY <3>2
    <3> QED BY Zenon, <3>1, <3>2, <3>3 DEF SocketIs
  <2>4. socket' = [socket EXCEPT ![s] = k] /\ UNCHANGED <<slots, standing, early>>
    BY <1>0, <1>10, <2>1 DEF FinishJoin
  <2> HIDE DEF k, s
  <2> QED
    BY Zenon, <1>b, <2>1, <2>2, <2>3, <2>4
<1>11. CASE RateWindowPasses
  <2> DEFINE k(s) == [socket[s] EXCEPT !.joins = 0]
  <2>1. \A s \in Sockets : SocketIs(k(s)) /\ k(s).conn = socket[s].conn
    BY <1>0 DEF SocketIs, SocketFields
  <2>2. DOMAIN socket' = Sockets /\ (\A s \in Sockets : socket'[s] = k(s)) /\ UNCHANGED <<joining, slots, standing, early>>
    BY Zenon, <1>11 DEF RateWindowPasses
  <2> HIDE DEF k
  <2> QED
    BY <1>a, <2>1, <2>2 DEF GatewayInd, SlotsComeBack, Up, SocketIs
<1>12. ASSUME NEW role \in {"lp", "user", "revoked"}, StandingChanges(role) PROVE GatewayInd'
  BY ZenonT(60), <1>a, <1>12 DEF StandingChanges, GatewayInd, SlotsComeBack, Up, SocketIs, Roles
<1>13. CASE UNCHANGED rtVars
  BY <1>a, <1>13 DEF rtVars, GatewayInd, SlotsComeBack, Up, SocketIs
<1> QED
  BY SMTT(30), <1>1, <1>2, <1>3, <1>4, <1>5, <1>6, <1>7, <1>8, <1>9, <1>10, <1>11, <1>12, <1>13, <1>14, <1>15 DEF RtNext

\* The inductive invariant of the gateway holds of every behaviour.
LEMMA GatewayInvariance == RtSpec => []GatewayInd
  BY GatewayStart, GatewayStep, PTL DEF RtSpec

\* An address never has more open sockets than its cap, for any cap, any number
\* of sockets and any order in which their roles are read.
THEOREM AddressStaysCapped == RtSpec => []SocketsAreCapped
<1>1. GatewayInd => SocketsAreCapped
  <2> SUFFICES ASSUME GatewayInd PROVE SocketsAreCapped
    OBVIOUS
  <2> DEFINE up == {s \in Sockets : Up(s)}
  <2>1. IsFiniteSet(slots) /\ Cardinality(slots) <= MAX_SOCKETS_PER_ADDRESS /\ up \in SUBSET slots
    BY DEF GatewayInd
  <2>2. IsFiniteSet(up) /\ Cardinality(up) <= Cardinality(slots)
    BY <2>1, FS_Subset
  <2>3. Cardinality(up) \in Nat /\ Cardinality(slots) \in Nat
    BY <2>1, <2>2, FS_CardinalityType
  <2> QED
    BY <2>1, <2>2, <2>3, CapIsANumber DEF SocketsAreCapped, GatewayInd
<1> QED
  BY <1>1, GatewayInvariance, PTL

\* A slot is held by an open socket, or by one that went while its role was
\* being read (releaseSocketSlot).
THEOREM SlotsAreGivenBack == RtSpec => []SlotsComeBack
  BY GatewayInvariance, PTL DEF GatewayInd

\* A socket's rooms are those of the role the gateway holds for it, whatever
\* joins and changes of role overlap (applyRoleChange).
THEOREM RoomsAreTheRoles == RtSpec => []RoomsFollowRole
<1>1. GatewayInd => RoomsFollowRole
  BY ZenonT(60) DEF GatewayInd, RoomsFollowRole, SocketIs, Up
<1> QED
  BY <1>1, GatewayInvariance, PTL

-----------------------------------------------------------------------------
(* The transfer proofs.                                                    *)

TradeIs(w) == DOMAIN w = {"status", "proof", "rrn"} /\ w.proof \in 0..keys

UploadIs(u) ==
    /\ DOMAIN u = {"at", "of", "rrn", "previous", "key"}
    /\ u.at # "idle" => u.of \in Trades
    /\ u.key \in 0..keys
    /\ u.key # NoKey <=> u.at \in {"stored", "tidying"}
    /\ u.at = "stored" => u.key \in store

FilesTyped ==
    /\ keys \in Nat /\ \A k \in store : k \in 1..keys
    /\ DOMAIN trade = Trades /\ \A t \in Trades : TradeIs(trade[t])
    /\ DOMAIN upload = Proofs /\ \A c \in Proofs : UploadIs(upload[c])

\* A file has one holder, the order that names it or one upload, except one
\* that was named by an update whose answer was lost.  A file just stored was
\* not named yet.
OneHolder ==
    /\ \A t, u \in Trades : t # u /\ trade[t].proof # NoKey => trade[t].proof # trade[u].proof
    /\ \A c, d \in Proofs :
        c # d /\ upload[c].key # NoKey /\ upload[c].key \notin doubted => upload[c].key # upload[d].key
    /\ \A c \in Proofs, t \in Trades :
        upload[c].key # NoKey /\ upload[c].key \notin doubted => trade[t].proof # upload[c].key
    /\ \A c \in Proofs : upload[c].at = "stored" => upload[c].key \notin doubted
    /\ \A k \in doubted : k \in 1..keys

FilesInd == FilesTyped /\ OneHolder /\ ProofIsOnFile /\ ReferencePaysOnce

\* At the start no order names a file and none is stored.
LEMMA FilesStart == FilesInit => FilesInd
  BY SMTT(30) DEF FilesInit, FilesInd, FilesTyped, OneHolder, ProofIsOnFile, ReferencePaysOnce, TradeIs, UploadIs, NoUpload, NoKey, NoRrn

\* The row an upload claims, and what the two name before the claim.
LEMMA ClaimFacts ==
    ASSUME FilesInd, NEW c \in Proofs, upload[c].at = "stored", Claimable(c), trade' = Named(c)
    PROVE  /\ upload[c].of \in Trades /\ upload[c].key \in 1..keys /\ upload[c].key \in store
           /\ upload[c].previous = trade[upload[c].of].proof
           /\ DOMAIN trade' = Trades
           /\ \A t \in Trades : /\ DOMAIN trade'[t] = {"status", "proof", "rrn"}
                                /\ trade'[t].proof = IF t = upload[c].of THEN upload[c].key ELSE trade[t].proof
                                /\ trade'[t].rrn = IF t = upload[c].of THEN upload[c].rrn ELSE trade[t].rrn
<1> DEFINE o == upload[c].of
           w == [trade[o] EXCEPT !.proof = upload[c].key, !.rrn = upload[c].rrn]
<1>1. /\ o \in Trades /\ upload[c].key \in 1..keys /\ upload[c].key \in store
      /\ upload[c].previous = trade[o].proof /\ TradeIs(trade[o])
  BY DEF FilesInd, FilesTyped, Claimable, UploadIs, TradeIs, NoKey
<1>2. DOMAIN w = {"status", "proof", "rrn"} /\ w.proof = upload[c].key /\ w.rrn = upload[c].rrn
  BY SMTT(30), <1>1 DEF TradeIs
<1>3. DOMAIN trade' = Trades /\ \A t \in Trades : trade'[t] = IF t = o THEN w ELSE trade[t]
  BY <1>1 DEF FilesInd, FilesTyped, Named
<1>4. \A t \in Trades : DOMAIN trade[t] = {"status", "proof", "rrn"}
  BY Zenon DEF FilesInd, FilesTyped, TradeIs
<1> HIDE DEF w, o
<1>5. \A t \in Trades : /\ DOMAIN trade'[t] = {"status", "proof", "rrn"}
                        /\ trade'[t].proof = IF t = o THEN upload[c].key ELSE trade[t].proof
                        /\ trade'[t].rrn = IF t = o THEN upload[c].rrn ELSE trade[t].rrn
  BY ZenonT(60), <1>2, <1>3, <1>4
<1> QED
  BY Zenon, <1>1, <1>3, <1>5 DEF o

\* The claim of a row: the order takes the file of the upload, and the upload
\* the one the order gave up (uploadProof's conditional update).  When the
\* answer is lost the upload keeps the file too and the other is a stray.
LEMMA ClaimTakes ==
    ASSUME FilesInd, NEW c \in Proofs, upload[c].at = "stored", Claimable(c), ReferenceFree(c),
           trade' = Named(c), UNCHANGED <<store, keys>>,
           NEW n, upload' = [upload EXCEPT ![c] = n],
           \/ /\ n = IF upload[c].previous = NoKey THEN NoUpload
                     ELSE [upload[c] EXCEPT !.at = "tidying", !.key = upload[c].previous]
              /\ UNCHANGED <<stray, doubted>>
           \/ /\ n = [upload[c] EXCEPT !.at = "tidying"]
              /\ stray' = stray \union ({upload[c].previous} \ {NoKey})
              /\ doubted' = doubted \union {upload[c].key}
    PROVE  FilesInd'
<1> DEFINE o == upload[c].of
           mine == upload[c].key
           old == upload[c].previous
<1>1. /\ o \in Trades /\ mine \in 1..keys /\ mine \in store /\ old = trade[o].proof /\ old \in 0..keys
      /\ keys \in Nat /\ UploadIs(upload[c])
  BY ClaimFacts DEF FilesInd, FilesTyped, TradeIs
<1>2. /\ DOMAIN trade' = Trades
      /\ \A t \in Trades : /\ DOMAIN trade'[t] = {"status", "proof", "rrn"}
                           /\ trade'[t].proof = IF t = o THEN mine ELSE trade[t].proof
                           /\ trade'[t].rrn = IF t = o THEN upload[c].rrn ELSE trade[t].rrn
  BY ZenonT(60), ClaimFacts
<1>3. UploadIs(n) /\ n.at # "stored"
      /\ \/ n.key = old /\ UNCHANGED <<stray, doubted>>
         \/ n.key = mine /\ stray' = stray \union ({old} \ {NoKey}) /\ doubted' = doubted \union {mine}
  <2>1. CASE n = NoUpload /\ old = NoKey /\ UNCHANGED <<stray, doubted>>
    BY <1>1, <2>1 DEF UploadIs, NoUpload, NoKey
  <2>2. CASE n = [upload[c] EXCEPT !.at = "tidying", !.key = old] /\ old # NoKey /\ UNCHANGED <<stray, doubted>>
    BY <1>1, <2>2 DEF UploadIs, NoKey
  <2>3. CASE /\ n = [upload[c] EXCEPT !.at = "tidying"]
             /\ stray' = stray \union ({old} \ {NoKey}) /\ doubted' = doubted \union {mine}
    BY <1>1, <2>3 DEF UploadIs, NoKey
  <2> QED
    BY Zenon, <2>1, <2>2, <2>3
<1>4. DOMAIN upload' = Proofs /\ \A d \in Proofs : upload'[d] = IF d = c THEN n ELSE upload[d]
  BY Zenon DEF FilesInd, FilesTyped
<1>5. FilesTyped'
  <2>1. \A t \in Trades : TradeIs(trade[t])'
    BY <1>1, <1>2 DEF FilesInd, FilesTyped, TradeIs
  <2>2. \A d \in Proofs : UploadIs(upload[d])'
    BY ZenonT(60), <1>3, <1>4 DEF FilesInd, FilesTyped, UploadIs
  <2> QED
    BY Zenon, <1>2, <1>4, <2>1, <2>2 DEF FilesInd, FilesTyped
<1>6. OneHolder'
  <2>1. OneHolder /\ o \in Trades /\ c \in Proofs /\ upload[c].at = "stored" /\ mine # NoKey
    BY Zenon, <1>1 DEF FilesInd, UploadIs
  <2>2. /\ \A t \in Trades : trade'[t].proof = IF t = o THEN mine ELSE trade[t].proof
        /\ \A d \in Proofs : upload'[d].key = IF d = c THEN n.key ELSE upload[d].key
        /\ \A d \in Proofs : upload'[d].at = IF d = c THEN n.at ELSE upload[d].at
    BY ZenonT(60), <1>2, <1>4
  <2>3. CASE n.key = trade[o].proof /\ doubted' = doubted
    BY ONLY <1>1, <1>3, <2>1, <2>2, <2>3, UNCHANGED keys DEF OneHolder
  <2>4. CASE n.key = mine /\ doubted' = doubted \union {mine}
    BY ONLY <1>1, <1>3, <2>1, <2>2, <2>4, UNCHANGED keys DEF OneHolder
  <2> QED BY Zenon, <1>1, <1>3, <2>3, <2>4
<1>7. ProofIsOnFile'
  <2>0. /\ doubted \subseteq doubted' /\ stray \subseteq stray' /\ store' = store
        /\ DOMAIN trade = Trades /\ DOMAIN upload = Proofs /\ ProofIsOnFile
        /\ old # NoKey => n.key = old \/ old \in stray'
    BY SMTT(30), <1>3 DEF FilesInd, FilesTyped
  <2>1. \A t \in Trades : trade'[t].proof # NoKey => trade'[t].proof \in store' \union doubted'
    BY ONLY <1>1, <1>2, <2>0 DEF ProofIsOnFile
  <2>2. ASSUME NEW k \in store
        PROVE  (\E t \in Trades : trade'[t].proof = k) \/ (\E d \in Proofs : upload'[d].key = k) \/ k \in stray'
    <3>0. k # NoKey
      BY <1>1 DEF FilesInd, FilesTyped, NoKey
    <3>1. ASSUME NEW t \in Trades, trade[t].proof = k
          PROVE  (\E x \in Trades : trade'[x].proof = k) \/ (\E d \in Proofs : upload'[d].key = k) \/ k \in stray'
      <4>1. CASE t = o
        BY ZenonT(60), <1>1, <1>4, <2>0, <3>0, <3>1, <4>1
      <4>2. CASE t # o
        BY ZenonT(60), <1>2, <3>1, <4>2
      <4> QED BY <4>1, <4>2
    <3>2. ASSUME NEW d \in Proofs, upload[d].key = k
          PROVE  (\E t \in Trades : trade'[t].proof = k) \/ (\E x \in Proofs : upload'[x].key = k)
      <4>1. CASE d = c
        BY Zenon, <1>1, <1>2, <3>2, <4>1
      <4>2. CASE d # c
        BY ZenonT(60), <1>4, <3>2, <4>2
      <4> QED BY <4>1, <4>2
    <3> QED
      BY ZenonT(60), <2>0, <3>1, <3>2 DEF ProofIsOnFile
  <2> QED
    BY ZenonT(60), <1>2, <1>4, <2>0, <2>1, <2>2 DEF ProofIsOnFile
<1>8. ReferencePaysOnce'
  BY SMTT(30), <1>1, <1>2 DEF FilesInd, FilesTyped, ReferencePaysOnce, ReferenceFree
<1> QED
  BY <1>5, <1>6, <1>7, <1>8 DEF FilesInd

\* Every step of the uploads, and of the world around them, keeps a file with
\* its one holder.
LEMMA FilesStep == FilesInd /\ [FilesNext]_fileVars => FilesInd'
<1> SUFFICES ASSUME FilesInd, [FilesNext]_fileVars PROVE FilesInd'
  OBVIOUS
<1>0. /\ FilesTyped /\ OneHolder /\ ProofIsOnFile /\ ReferencePaysOnce
      /\ keys \in Nat /\ DOMAIN trade = Trades /\ DOMAIN upload = Proofs
      /\ \A c \in Proofs : UploadIs(upload[c])
      /\ \A t \in Trades : TradeIs(trade[t])
  BY DEF FilesInd, FilesTyped
<1>a. UploadIs(NoUpload) /\ NoUpload.key = NoKey /\ NoUpload.at = "idle"
  BY <1>0 DEF UploadIs, NoUpload, NoKey
<1>b. ASSUME NEW c \in Proofs, NEW u, UploadIs(u), u.key = upload[c].key,
             upload' = [upload EXCEPT ![c] = u], u.at = "stored" => upload[c].at = "stored",
             UNCHANGED <<trade, store, keys, stray, doubted>>
      PROVE  FilesInd'
  <2>1. DOMAIN upload' = Proofs /\ \A d \in Proofs : upload'[d] = IF d = c THEN u ELSE upload[d]
    BY Zenon, <1>0, <1>b
  <2>2. FilesTyped'
    BY Zenon, <1>0, <1>b, <2>1 DEF FilesTyped, TradeIs, UploadIs
  <2>3. OneHolder' /\ ReferencePaysOnce'
    <3>1. /\ \A d \in Proofs : upload'[d].key = upload[d].key
          /\ \A d \in Proofs : upload'[d].at = "stored" => upload[d].at = "stored"
      BY Zenon, <1>b, <2>1
    <3>2. OneHolder /\ trade' = trade /\ doubted' = doubted /\ keys' = keys
      BY ZenonT(60), <1>0, <1>b
    <3>3. OneHolder'
      BY ONLY <3>1, <3>2 DEF OneHolder
    <3>4. ReferencePaysOnce'
      BY ZenonT(60), <1>0, <1>b DEF ReferencePaysOnce
    <3> QED BY Zenon, <3>3, <3>4
  <2>4. ProofIsOnFile'
    BY <1>0, <1>b, <2>1 DEF ProofIsOnFile
  <2> QED
    BY <2>2, <2>3, <2>4 DEF FilesInd
<1>1. ASSUME NEW c \in Proofs, NEW t \in Trades, NEW r, StartProof(c, t, r) PROVE FilesInd'
  <2> DEFINE u == [at |-> "checked", of |-> t, rrn |-> r, previous |-> trade[t].proof, key |-> NoKey]
  <2>1. UploadIs(u) /\ u.key = upload[c].key /\ u.at # "stored"
    BY Zenon, <1>0, <1>1 DEF StartProof, UploadIs, NoKey
  <2>2. upload' = [upload EXCEPT ![c] = u] /\ UNCHANGED <<trade, store, keys, stray, doubted>>
    BY Zenon, <1>1 DEF StartProof
  <2> HIDE DEF u
  <2> QED
    BY Zenon, <1>b, <2>1, <2>2
<1>2. ASSUME NEW c \in Proofs, PutProof(c) PROVE FilesInd'
  <2>0. upload[c].key = NoKey /\ UNCHANGED <<trade, doubted>>
    BY <1>0, <1>2 DEF PutProof, UploadIs
  <2>1. CASE upload' = [upload EXCEPT ![c] = NoUpload] /\ UNCHANGED <<store, keys, stray>>
    BY Zenon, <1>a, <1>b, <2>0, <2>1
  <2>2. ASSUME NEW u, DOMAIN u = {"at", "of", "rrn", "previous", "key"},
               \/ u.key = keys + 1 /\ u.at = "stored" /\ u.of \in Trades /\ stray' = stray
               \/ u = NoUpload /\ stray' = stray \union {keys + 1},
               keys' = keys + 1, store' = store \union {keys + 1}, upload' = [upload EXCEPT ![c] = u]
        PROVE  FilesInd'
    <3>1. DOMAIN upload' = Proofs /\ \A d \in Proofs : upload'[d] = IF d = c THEN u ELSE upload[d]
      BY ZenonT(60), <1>0, <2>2
    <3>2. u.key \in 0..keys' /\ (u.key # NoKey => u.key = keys + 1 /\ u.at = "stored")
          /\ (u.at = "stored" => u.key = keys + 1)
      BY <1>0, <1>a, <2>2 DEF NoUpload, NoKey
    <3>3. \A d \in Proofs : UploadIs(upload[d])'
      <4> SUFFICES ASSUME NEW d \in Proofs PROVE UploadIs(upload[d])'
        OBVIOUS
      <4>1. CASE d = c
        <5>1. CASE u = NoUpload
          BY <1>0, <2>2, <3>1, <4>1, <5>1 DEF UploadIs, NoUpload, NoKey
        <5>2. CASE u.key = keys + 1 /\ u.at = "stored" /\ u.of \in Trades
          <6>1. upload'[d] = u /\ u.key \in 0..keys' /\ u.key \in store' /\ u.key # 0
            BY <1>0, <2>2, <3>1, <4>1, <5>2
          <6> QED
            BY Zenon, <2>2, <5>2, <6>1 DEF UploadIs, NoKey
        <5> QED
          BY <2>2, <5>1, <5>2
      <4>2. CASE d # c
        BY <1>0, <2>2, <3>1, <4>2 DEF UploadIs, NoKey
      <4> QED
        BY <4>1, <4>2
    <3>4. \A t \in Trades : TradeIs(trade[t])'
      BY <1>0, <2>0, <2>2 DEF TradeIs
    <3>5. FilesTyped'
      BY SMTT(30), <1>0, <2>0, <2>2, <3>1, <3>3, <3>4 DEF FilesTyped
    <3>6. OneHolder'
      <4>1. /\ \A d \in Proofs : upload'[d].key = IF d = c THEN u.key ELSE upload[d].key
            /\ \A d \in Proofs : upload'[d].at = IF d = c THEN u.at ELSE upload[d].at
            /\ \A d \in Proofs : upload[d].key \in 0..keys
            /\ \A t \in Trades : trade[t].proof \in 0..keys
        BY ZenonT(60), <1>0, <3>1 DEF UploadIs, TradeIs
      <4>2. OneHolder /\ keys \in Nat /\ keys' = keys + 1 /\ UNCHANGED <<trade, doubted>>
        BY Zenon, <1>0, <2>0, <2>2
      <4> QED
        BY ONLY <3>2, <4>1, <4>2 DEF OneHolder
    <3>7. ProofIsOnFile' /\ ReferencePaysOnce'
      <4>1. \A k \in store : k # NoKey
        BY <1>0 DEF FilesTyped, NoKey
      <4>2. u.key = keys + 1 \/ keys + 1 \in stray'
        BY <2>2
      <4>3. stray \subseteq stray'
        BY <2>2
      <4>4. \A k \in store' : \/ \E t \in Trades : trade'[t].proof = k
                              \/ \E d \in Proofs : upload'[d].key = k
                              \/ k \in stray'
        BY <1>0, <2>0, <2>2, <3>1, <4>1, <4>2, <4>3 DEF ProofIsOnFile
      <4> QED
        BY ZenonT(60), <1>0, <2>0, <2>2, <3>1, <4>4 DEF ProofIsOnFile, ReferencePaysOnce
    <3> QED
      BY <3>5, <3>6, <3>7 DEF FilesInd
  <2>3. CASE /\ keys' = keys + 1 /\ store' = store \union {keys + 1} /\ UNCHANGED stray
             /\ upload' = [upload EXCEPT ![c] = [upload[c] EXCEPT !.at = "stored", !.key = keys + 1]]
    <3> DEFINE u == [upload[c] EXCEPT !.at = "stored", !.key = keys + 1]
    <3>1. u.key = keys + 1 /\ u.at = "stored" /\ u.of \in Trades /\ DOMAIN u = {"at", "of", "rrn", "previous", "key"}
      BY <1>0, <1>2 DEF PutProof, UploadIs
    <3> HIDE DEF u
    <3> QED
      BY ZenonT(60), <2>2, <2>3, <3>1 DEF u
  <2>4. CASE /\ keys' = keys + 1 /\ store' = store \union {keys + 1}
             /\ upload' = [upload EXCEPT ![c] = NoUpload] /\ stray' = stray \union {keys + 1}
    <3>1. DOMAIN NoUpload = {"at", "of", "rrn", "previous", "key"}
      BY DEF NoUpload
    <3> QED
      BY ZenonT(60), <2>2, <2>4, <3>1
  <2> QED
    BY ZenonT(60), <1>2, <2>1, <2>3, <2>4 DEF PutProof
<1>3. ASSUME NEW c \in Proofs, ClaimProof(c) PROVE FilesInd'
  <2>0. upload[c].at = "stored" /\ UNCHANGED <<store, keys>>
    BY Zenon, <1>3 DEF ClaimProof
  <2> DEFINE u == [upload[c] EXCEPT !.at = "tidying"]
             v == IF upload[c].previous = NoKey THEN NoUpload
                  ELSE [upload[c] EXCEPT !.at = "tidying", !.key = upload[c].previous]
  <2>1. UploadIs(u) /\ u.key = upload[c].key /\ u.at # "stored"
    BY <1>0, <2>0 DEF UploadIs
  <2>2. CASE upload' = [upload EXCEPT ![c] = u] /\ UNCHANGED <<trade, stray, doubted>>
    <3> HIDE DEF u, v
    <3> QED
      BY Zenon, <1>b, <2>0, <2>1, <2>2
  <2>3. CASE /\ Claimable(c) /\ ReferenceFree(c) /\ trade' = Named(c)
             /\ upload' = [upload EXCEPT ![c] = v] /\ UNCHANGED <<stray, doubted>>
    BY ZenonT(60), ClaimTakes, <2>0, <2>3
  <2>4. CASE /\ Claimable(c) /\ ReferenceFree(c) /\ trade' = Named(c)
             /\ upload' = [upload EXCEPT ![c] = u]
             /\ stray' = stray \union ({upload[c].previous} \ {NoKey})
             /\ doubted' = doubted \union {upload[c].key}
    BY ZenonT(60), ClaimTakes, <2>0, <2>4
  <2> QED
    BY ZenonT(60), <1>3, <2>2, <2>3, <2>4 DEF ClaimProof, ClaimAnswered, ClaimUnanswered
<1>4. ASSUME NEW c \in Proofs, TidyUp(c) PROVE FilesInd'
  <2> DEFINE k == upload[c].key
  <2>1. k # NoKey /\ UNCHANGED <<trade, keys, doubted>>
    BY ZenonT(60), <1>0, <1>4 DEF TidyUp, UploadIs
  <2>2. DOMAIN upload' = Proofs /\ \A d \in Proofs : upload'[d] = IF d = c THEN NoUpload ELSE upload[d]
    BY <1>0, <1>4 DEF TidyUp
  <2>3. (store' = store \ {k} /\ stray' = stray) \/ (store' = store /\ stray' = stray \union {k})
    BY SMTT(30), <1>4 DEF TidyUp
  <2>4. \A d \in Proofs : UploadIs(upload[d])'
    BY SMTT(30), <1>0, <1>a, <2>1, <2>2, <2>3 DEF UploadIs, OneHolder
  <2>5. FilesTyped'
    BY Zenon, <1>0, <2>1, <2>2, <2>3, <2>4 DEF FilesTyped, TradeIs
  <2>6. OneHolder' /\ ReferencePaysOnce'
    <3>1. /\ \A d \in Proofs : upload'[d].key = IF d = c THEN NoKey ELSE upload[d].key
          /\ \A d \in Proofs : upload'[d].at = IF d = c THEN "idle" ELSE upload[d].at
      BY ZenonT(60), <1>a, <2>2
    <3>2. OneHolder'
      <4>1. OneHolder /\ trade' = trade /\ doubted' = doubted /\ keys' = keys
        BY Zenon, <1>0, <2>1
      <4> QED BY ONLY <3>1, <4>1 DEF OneHolder
    <3>3. ReferencePaysOnce'
      BY ZenonT(60), <1>0, <2>1 DEF ReferencePaysOnce
    <3> QED BY <3>2, <3>3
  <2>7. ProofIsOnFile'
    BY <1>0, <1>a, <2>1, <2>2, <2>3 DEF ProofIsOnFile, OneHolder
  <2> QED
    BY <2>5, <2>6, <2>7 DEF FilesInd
<1>5. CASE CoordinatorStops
  <2>1. /\ upload' = [c \in Proofs |-> NoUpload] /\ UNCHANGED <<trade, store, keys, doubted>>
        /\ stray' = stray \union {upload[c].key : c \in {d \in Proofs : upload[d].key # NoKey}}
    BY Zenon, <1>5 DEF CoordinatorStops
  <2>2. FilesTyped'
    BY ZenonT(60), <1>0, <1>a, <2>1 DEF FilesTyped, TradeIs, UploadIs
  <2>3. OneHolder' /\ ReferencePaysOnce'
    <3>1. \A d \in Proofs : upload'[d].key = NoKey /\ upload'[d].at = "idle"
      BY Zenon, <1>a, <2>1
    <3>2. /\ OneHolder /\ ReferencePaysOnce
          /\ trade' = trade /\ doubted' = doubted /\ keys' = keys
      BY Zenon, <1>0, <2>1
    <3> QED
      BY ONLY <3>1, <3>2 DEF OneHolder, ReferencePaysOnce
  <2>4. \A k \in store : k # NoKey
    BY <1>0 DEF FilesTyped, NoKey
  <2>5. ProofIsOnFile'
    BY <1>0, <1>a, <2>1, <2>4 DEF ProofIsOnFile
  <2> QED
    BY Zenon, <2>2, <2>3, <2>5 DEF FilesInd
<1>6. ASSUME NEW t \in Trades, PaymentMarked(t) PROVE FilesInd'
  <2> DEFINE w == [trade[t] EXCEPT !.status = "FIAT_PAID"]
  <2>1. TradeIs(w) /\ w.proof = trade[t].proof /\ w.rrn = trade[t].rrn
    BY <1>0 DEF TradeIs
  <2>2. trade' = [trade EXCEPT ![t] = w] /\ UNCHANGED <<store, keys, upload, stray, doubted>>
    BY <1>0, <1>6 DEF PaymentMarked
  <2> HIDE DEF w
  <2>3. DOMAIN trade' = Trades /\ \A o \in Trades : trade'[o] = IF o = t THEN w ELSE trade[o]
    BY Zenon, <1>0, <2>2
  <2>4. FilesTyped'
    BY ZenonT(60), <1>0, <2>1, <2>2, <2>3 DEF FilesTyped, TradeIs, UploadIs
  <2>5. OneHolder' /\ ReferencePaysOnce'
    BY SMTT(30), <1>0, <2>1, <2>2, <2>3 DEF OneHolder, ReferencePaysOnce
  <2>6. ProofIsOnFile'
    BY ZenonT(60), <1>0, <2>1, <2>2, <2>3 DEF ProofIsOnFile
  <2> QED
    BY <2>4, <2>5, <2>6 DEF FilesInd
<1>7. CASE UNCHANGED proofVars
  BY <1>0, <1>7 DEF proofVars, FilesInd, FilesTyped, OneHolder, ProofIsOnFile, ReferencePaysOnce, TradeIs, UploadIs
<1> QED
  BY SMTT(30), <1>1, <1>2, <1>3, <1>4, <1>5, <1>6, <1>7
  DEF FilesNext, fileVars, proofVars, DumpPostgres, DumpMinio, VerifyBackup, PruneOld

\* The inductive invariant of the files holds of every behaviour.
LEMMA FilesInvariance == FilesSpec => []FilesInd
  BY FilesStart, FilesStep, PTL DEF FilesSpec

\* A file an order names is in the store and no healthy upload leaks one, for
\* any number of orders and of uploads in flight (uploadProof).
THEOREM ProofsAreOnFile == FilesSpec => []ProofIsOnFile
  BY FilesInvariance, PTL DEF FilesInd

\* One bank transfer pays one order, although the reference is checked and
\* written in different steps (the unique index on proofRrn and lpId).
THEOREM ReferencesPayOnce == FilesSpec => []ReferencePaysOnce
  BY FilesInvariance, PTL DEF FilesInd

-----------------------------------------------------------------------------
(* The nightly backup.                                                     *)

\* What a run has written by the step it is at: nothing of this night and the
\* nights to come is complete before its second leg is, and a run that ships
\* has a readable pair.
NightsInd ==
    /\ night \in Nat \ {0}
    /\ DOMAIN archive = 1..MaxDays
    /\ \A n \in 1..MaxDays : DOMAIN archive[n] = {"pg", "minio", "rows", "objects"}
    /\ backup \in {"idle", "dumped", "written", "shipped"}
    /\ backup # "idle" => night <= MaxDays
    /\ \A n \in 1..MaxDays : n > night \/ (n = night /\ backup \in {"idle", "dumped"}) => archive[n].minio = "none"
    /\ backup = "shipped" => Restorable(night)

\* A step of the backup keeps that record, and a restorable pair (main).
LEMMA NightsStep ==
    NightsInd /\ [FilesNext]_fileVars
    => /\ NightsInd'
       /\ (\E n \in DOMAIN archive : Restorable(n)) => (\E n \in DOMAIN archive : Restorable(n)')
<1> SUFFICES ASSUME NightsInd, [FilesNext]_fileVars
             PROVE  /\ NightsInd'
                    /\ (\E n \in 1..MaxDays : Restorable(n)) => (\E n \in 1..MaxDays : Restorable(n)')
  BY ZenonT(60) DEF NightsInd
<1> USE RetentionInDays
<1>0. /\ night \in Nat \ {0} /\ DOMAIN archive = 1..MaxDays
      /\ \A n \in 1..MaxDays : DOMAIN archive[n] = {"pg", "minio", "rows", "objects"}
      /\ DOMAIN NoLegs = {"pg", "minio", "rows", "objects"} /\ NoLegs.minio = "none"
  BY DEF NightsInd, NoLegs
<1>a. ASSUME UNCHANGED archive, backup' = "idle", night' = night + 1
      PROVE  /\ NightsInd'
             /\ (\E n \in 1..MaxDays : Restorable(n)) => (\E n \in 1..MaxDays : Restorable(n)')
  <2>1. night' \in Nat \ {0}
    BY ONLY <1>0, <1>a
  <2>2. \A n \in 1..MaxDays : n > night => archive[n].minio = "none"
    BY Zenon DEF NightsInd
  <2>3. \A n \in 1..MaxDays : n > night' \/ n = night' => archive[n].minio = "none"
    BY ONLY <1>0, <1>a, <2>2, RetentionInDays
  <2>4. backup' \notin {"dumped", "written", "shipped"}
    BY ONLY <1>a
  <2> QED BY Zenon, <1>0, <1>a, <2>1, <2>3, <2>4 DEF NightsInd, Restorable
<1>1. CASE DumpPostgres
  <2>0. backup = "idle" /\ night \in 1..MaxDays
    BY <1>0, <1>1 DEF DumpPostgres
  <2>1. ASSUME NEW read, archive' = [archive EXCEPT ![night] =
                 [archive[night] EXCEPT !.pg = read, !.rows = [t \in Trades |-> trade[t].proof]]],
               backup' = "dumped", night' = night
        PROVE  /\ NightsInd'
               /\ (\E n \in 1..MaxDays : Restorable(n)) => (\E n \in 1..MaxDays : Restorable(n)')
    <3> DEFINE legs == [archive[night] EXCEPT !.pg = read, !.rows = [t \in Trades |-> trade[t].proof]]
    <3>1. DOMAIN legs = {"pg", "minio", "rows", "objects"} /\ legs.minio = "none"
      BY <1>0, <2>0 DEF NightsInd
    <3>2. DOMAIN archive' = 1..MaxDays /\ \A n \in 1..MaxDays : archive'[n] = IF n = night THEN legs ELSE archive[n]
      BY ZenonT(60), <1>0, <2>0, <2>1
    <3> HIDE DEF legs
    <3>3. NightsInd'
      <4>1. \A n \in 1..MaxDays : n > night \/ n = night => archive'[n].minio = "none"
        BY <1>0, <2>0, <3>1, <3>2 DEF NightsInd
      <4>2. \A n \in 1..MaxDays : DOMAIN archive'[n] = {"pg", "minio", "rows", "objects"}
        BY <1>0, <3>1, <3>2
      <4>3. backup' = "dumped" /\ night' = night
        BY Zenon, <2>1
      <4> QED
        BY SMTT(30), <1>0, <2>0, <3>2, <4>1, <4>2, <4>3 DEF NightsInd
    <3>4. \A n \in 1..MaxDays : Restorable(n) => Restorable(n)'
      BY Zenon, <1>0, <2>0, <3>2 DEF Restorable, NightsInd
    <3> QED
      BY <3>3, <3>4
  <2>2. CASE night' = night + 1 /\ UNCHANGED <<backup, archive>>
    BY Zenon, <1>a, <2>0, <2>2
  <2> QED
    BY Zenon, <1>0, <1>1, <2>0, <2>1, <2>2 DEF DumpPostgres
<1>2. CASE DumpMinio
  <2>0. backup = "dumped" /\ night \in 1..MaxDays /\ archive[night].minio = "none"
    BY <1>0, <1>2 DEF DumpMinio, NightsInd
  <2>1. ASSUME NEW read, archive' = [archive EXCEPT ![night] = [archive[night] EXCEPT !.minio = read, !.objects = store]],
               backup' = "written", night' = night
        PROVE  /\ NightsInd'
               /\ (\E n \in 1..MaxDays : Restorable(n)) => (\E n \in 1..MaxDays : Restorable(n)')
    <3> DEFINE legs == [archive[night] EXCEPT !.minio = read, !.objects = store]
    <3>1. DOMAIN legs = {"pg", "minio", "rows", "objects"}
      BY <1>0, <2>0
    <3>2. DOMAIN archive' = 1..MaxDays /\ \A n \in 1..MaxDays : archive'[n] = IF n = night THEN legs ELSE archive[n]
      BY ZenonT(60), <1>0, <2>0, <2>1
    <3> HIDE DEF legs
    <3>3. NightsInd'
      <4>1. \A n \in 1..MaxDays : n > night => archive'[n].minio = "none"
        BY SMTT(30), <1>0, <3>2 DEF NightsInd
      <4>2. \A n \in 1..MaxDays : DOMAIN archive'[n] = {"pg", "minio", "rows", "objects"}
        BY SMTT(30), <1>0, <2>0, <3>1, <3>2
      <4>3. backup' \notin {"idle", "dumped", "shipped"} /\ night <= MaxDays
        BY <1>0, <2>0, <2>1
      <4> QED
        BY ZenonT(60), <1>0, <2>0, <2>1, <3>2, <4>1, <4>2, <4>3 DEF NightsInd
    <3>4. \A n \in 1..MaxDays : Restorable(n) => Restorable(n)'
      <4>1. ~Restorable(night)
        BY Zenon, <2>0 DEF Restorable
      <4> QED
        BY Zenon, <3>2, <4>1 DEF Restorable
    <3> QED
      BY <3>3, <3>4
  <2>2. CASE archive' = [archive EXCEPT ![night] = NoLegs] /\ backup' = "idle" /\ night' = night + 1
    <3>2. DOMAIN archive' = 1..MaxDays /\ \A n \in 1..MaxDays : archive'[n] = IF n = night THEN NoLegs ELSE archive[n]
      BY ZenonT(60), <1>0, <2>0, <2>2
    <3>3. NightsInd'
      BY SMTT(30), <1>0, <2>0, <2>2, <3>2 DEF NightsInd
    <3>4. \A n \in 1..MaxDays : Restorable(n) => Restorable(n)'
      BY Zenon, <1>0, <2>0, <3>2 DEF Restorable
    <3> QED
      BY <3>3, <3>4
  <2>3. CASE UNCHANGED archive /\ backup' = "idle" /\ night' = night + 1
    BY Zenon, <1>a, <2>3
  <2> QED
    BY Zenon, <1>0, <1>2, <2>0, <2>1, <2>2, <2>3 DEF DumpMinio
<1>3. CASE VerifyBackup
  <2>1. CASE Restorable(night) /\ backup' = "shipped" /\ UNCHANGED night
    BY <1>0, <1>3, <2>1 DEF VerifyBackup, NightsInd, Restorable
  <2>2. CASE backup' = "idle" /\ night' = night + 1
    BY Zenon, <1>3, <1>a, <2>2 DEF VerifyBackup
  <2> QED
    BY ZenonT(60), <1>3, <2>1, <2>2 DEF VerifyBackup
<1>4. CASE PruneOld
  <2>0. backup = "shipped" /\ night \in 1..MaxDays /\ Restorable(night)
    BY SMTT(30), <1>0, <1>4 DEF PruneOld, NightsInd, Restorable
  <2>1. /\ DOMAIN archive' = 1..MaxDays /\ backup' = "idle" /\ night' = night + 1
        /\ \A n \in 1..MaxDays : archive'[n] = IF n + RETENTION < night THEN NoLegs ELSE archive[n]
    BY <1>4 DEF PruneOld, Pruned
  <2>2. \E n \in 1..MaxDays : Restorable(n)'
    <3>1. PICK m \in 1..MaxDays : m = night
      BY <2>0
    <3>2. archive'[m] = archive[m]
      BY SMTT(30), <1>0, <2>1, <3>1
    <3>3. Restorable(m)'
      BY ZenonT(60), <2>0, <3>1, <3>2 DEF Restorable
    <3> QED
      BY <3>3
  <2>3. NightsInd'
    BY SMTT(30), <1>0, <2>0, <2>1 DEF NightsInd
  <2> QED
    BY ZenonT(60), <2>2, <2>3
<1>5. CASE UNCHANGED backupVars
  BY <1>5 DEF backupVars, NightsInd, Restorable
<1> QED
  BY ZenonT(60), <1>1, <1>2, <1>3, <1>4, <1>5
  DEF FilesNext, fileVars, backupVars, StartProof, PutProof, ClaimProof, TidyUp, CoordinatorStops, PaymentMarked

\* Once there is a restorable pair there always is one, for any retention: a run
\* that fails deletes none, and one that prunes has just written one (main).
THEOREM GoodBackupStays == FilesSpec => GoodBackupIsKept
<1>1. FilesInit => NightsInd
  <2> SUFFICES ASSUME FilesInit PROVE NightsInd
    OBVIOUS
  <2>1. archive = [n \in 1..MaxDays |-> NoLegs] /\ backup = "idle" /\ night = 1
    BY Zenon DEF FilesInit
  <2>2. DOMAIN NoLegs = {"pg", "minio", "rows", "objects"} /\ NoLegs.minio = "none"
    BY DEF NoLegs
  <2> QED BY ONLY <2>1, <2>2 DEF NightsInd
<1> QED
  BY <1>1, NightsStep, PTL DEF FilesSpec, GoodBackupIsKept

-----------------------------------------------------------------------------
(* What the screens offer is taken. *)

TradeStatuses == Settlements \cup {"none", "FUNDED", "FIAT_PAID", "DISPUTED"}
TradeFields == {"status", "pre", "settled", "until", "liable", "used", "verdict", "judged"}
OrderFields == {"status", "settled", "until", "filed", "disputeAt", "claimed", "proof"}

\* A trade settles once, and money that went back without a verdict went back
\* after the refund opened.
TradeIsSound(t) ==
    /\ DOMAIN t = TradeFields
    /\ t.status \in TradeStatuses
    /\ t.pre \in Settlements \cup {"none"}
    /\ t.pre # "none" => t.status = "DISPUTED"
    /\ t.settled <=> t.status \in Settlements \/ t.pre \in Settlements
    /\ t.status = "REFUNDED" \/ t.pre = "REFUNDED" => t.judged \/ clock > RefundOpensAt

\* A row that shows a settlement has the date of the trade's.
RowAgrees ==
    /\ DOMAIN ord = OrderFields
    /\ ord.status \in Settlements => esc.settled /\ ord.until = esc.until

\* A hosted page that reloads by itself was drawn within the last unit of time.
ViewIsRecent(v) ==
    /\ DOMAIN v = {"kind", "o", "fresh", "drawn"}
    /\ v.kind \in Kinds /\ v.drawn \in Nat
    /\ v.kind = "hosted" /\ v.fresh => v.drawn = clock
    /\ v.kind = "hosted" /\ Polls(v) => clock <= v.drawn + 1

ScrInd ==
    /\ flow \in {"TOP_UP", "WITHDRAW"} /\ clock \in Nat
    /\ TradeIsSound(esc)
    /\ RowAgrees
    /\ ViewIsRecent(view)

\* A step of the escrow keeps the date of a settlement.
LEMMA TradeMoves ==
    ASSUME ScrInd, NEW t, esc' = t, TradeIsSound(t), esc.settled => t.settled /\ t.until = esc.until,
           UNCHANGED <<flow, clock, ord, view>>
    PROVE  ScrInd'
<1>1. TradeIsSound(esc)'
  BY DEF TradeIsSound, RefundOpensAt, AttestDeadline
<1>2. ViewIsRecent(view)'
  BY Zenon DEF ScrInd, ViewIsRecent, Polls, isTerminal, StandsStill, Signing
<1>3. RowAgrees'
  BY Zenon DEF ScrInd, RowAgrees
<1> QED BY Zenon, <1>1, <1>2, <1>3 DEF ScrInd

\* A step of the row that settles nothing keeps the rest.
LEMMA RowMoves ==
    ASSUME ScrInd, DOMAIN ord' = OrderFields,
           ord'.status \in Settlements => ord.status \in Settlements /\ ord'.until = ord.until,
           UNCHANGED <<flow, clock, esc, view>>
    PROVE  ScrInd'
<1>1. TradeIsSound(esc)'
  BY DEF ScrInd, TradeIsSound, RefundOpensAt, AttestDeadline
<1>2. ViewIsRecent(view)'
  BY Zenon DEF ScrInd, ViewIsRecent, Polls, isTerminal, StandsStill, Signing
<1>3. RowAgrees'
  BY Zenon DEF ScrInd, RowAgrees
<1> QED BY Zenon, <1>1, <1>2, <1>3 DEF ScrInd

\* At the start there is no trade and the screen has just been opened.
LEMMA ScrStart == ScrInit => ScrInd
<1> SUFFICES ASSUME ScrInit PROVE ScrInd
  OBVIOUS
<1>1. PICK k \in Kinds : view = FreshView(k)
  BY DEF ScrInit
<1>2. DOMAIN view = {"kind", "o", "fresh", "drawn"} /\ view.kind = k /\ view.drawn = clock /\ clock = 0
  BY <1>1 DEF FreshView, ScrInit
<1>3. ViewIsRecent(view)
  BY SMTT(30), <1>2 DEF ViewIsRecent
<1>4. TradeIsSound(esc)
  BY DEF ScrInit, NoTrade, TradeIsSound, TradeFields, TradeStatuses, Settlements
<1>5. RowAgrees
  BY DEF ScrInit, NewOrder, RowAgrees, OrderFields, Settlements
<1> QED BY <1>2, <1>3, <1>4, <1>5 DEF ScrInd, ScrInit

\* Every step of the escrow, of the row, of the screens and of time.
LEMMA ScrStep == ScrInd /\ [ScrNext]_screenVars => ScrInd'
<1> SUFFICES ASSUME ScrInd, [ScrNext]_screenVars PROVE ScrInd'
  OBVIOUS
<1>0. /\ flow \in {"TOP_UP", "WITHDRAW"} /\ clock \in Nat /\ TradeIsSound(esc)
      /\ DOMAIN esc = TradeFields /\ DOMAIN ord = OrderFields
  BY DEF ScrInd, TradeIsSound, RowAgrees
<1>s. ASSUME NEW s \in Settlements, esc.status \in {"FUNDED", "FIAT_PAID"} \/ (esc.status = "DISPUTED" /\ esc.pre = "none")
      PROVE  /\ DOMAIN Settle(esc, s) = TradeFields /\ Settle(esc, s).status = s /\ Settle(esc, s).pre = "none"
             /\ Settle(esc, s).settled = TRUE /\ Settle(esc, s).judged = esc.judged
             /\ s \in TradeStatuses /\ ~esc.settled
  <2>1. /\ DOMAIN Settle(esc, s) = TradeFields /\ Settle(esc, s).status = s /\ Settle(esc, s).pre = "none"
        /\ Settle(esc, s).settled = TRUE /\ Settle(esc, s).judged = esc.judged
    BY <1>0 DEF Settle, TradeFields
  <2>2. s \in TradeStatuses /\ ~esc.settled
    BY <1>0, <1>s DEF TradeIsSound, TradeStatuses, Settlements
  <2> QED BY Zenon, <2>1, <2>2
<1>1. CASE CreateTrade \/ MarkPaid
  <2>1. PICK s \in {"FUNDED", "FIAT_PAID"} : esc' = [esc EXCEPT !.status = s]
    BY <1>1 DEF CreateTrade, MarkPaid
  <2> DEFINE t == [esc EXCEPT !.status = s]
  <2>2. /\ DOMAIN t = TradeFields /\ t.status = s /\ t.pre = esc.pre /\ t.judged = esc.judged
        /\ t.settled = esc.settled
    BY <1>0 DEF TradeFields
  <2>3. UNCHANGED <<flow, clock, ord, view>>
    BY <1>1 DEF CreateTrade, MarkPaid, ChainOnly
  <2>4. esc.status \in {"none", "FUNDED"}
    BY <1>1 DEF CreateTrade, MarkPaid, MarkTaken
  <2> HIDE DEF t
  <2>5. TradeIsSound(t) /\ ~esc.settled
    BY <1>0, <2>1, <2>2, <2>4 DEF TradeIsSound, TradeStatuses, Settlements
  <2> QED BY Zenon, <2>1, <2>3, <2>5, TradeMoves DEF t
<1>2. CASE ReleaseTrade \/ RefundTrade
  <2>1. PICK s \in Settlements : esc' = Settle(esc, s) /\ (s = "REFUNDED" => clock > RefundOpensAt)
    BY <1>2 DEF ReleaseTrade, RefundTrade, Settlements
  <2>2. UNCHANGED <<flow, clock, ord, view>> /\ esc.status \in {"FUNDED", "FIAT_PAID"}
    BY <1>2 DEF ReleaseTrade, RefundTrade, ChainOnly
  <2> DEFINE t == Settle(esc, s)
  <2>3. /\ DOMAIN t = TradeFields /\ t.status = s /\ t.pre = "none" /\ t.settled = TRUE
        /\ s \in TradeStatuses /\ ~esc.settled
    BY Zenon, <1>s, <2>2
  <2> HIDE DEF t
  <2>4. TradeIsSound(t)
    BY <2>1, <2>3 DEF TradeIsSound, Settlements
  <2> QED BY Zenon, <2>1, <2>2, <2>3, <2>4, TradeMoves DEF t
<1>3. ASSUME NEW by \in Disputants, RaiseDispute(by) PROVE ScrInd'
  <2>1. UNCHANGED <<flow, clock, ord, view>> /\ esc.status \in {"FIAT_PAID", "FUNDED"} \cup Settlements
    BY <1>3 DEF RaiseDispute, RaiseTaken, ChainOnly
  <2>2. /\ DOMAIN esc' = TradeFields /\ esc'.status = "DISPUTED" /\ esc'.judged = esc.judged
        /\ esc'.settled = esc.settled /\ esc'.until = esc.until
        /\ esc'.pre = IF esc.status \in Settlements THEN esc.status ELSE esc.pre
    BY ZenonT(60), <1>0, <1>3 DEF RaiseDispute, TradeFields
  <2> DEFINE t == esc'
  <2>3. TradeIsSound(t)
    BY <1>0, <2>1, <2>2 DEF TradeIsSound, TradeStatuses, Settlements
  <2>4. TradeIsSound(esc)'
    BY <1>0, <2>1, <2>3 DEF TradeIsSound, RefundOpensAt, AttestDeadline
  <2>5. RowAgrees' /\ ViewIsRecent(view)'
    BY Zenon, <2>1, <2>2 DEF ScrInd, RowAgrees, ViewIsRecent, Polls, isTerminal, StandsStill, Signing
  <2> QED BY Zenon, <1>0, <2>1, <2>4, <2>5 DEF ScrInd
<1>4. ASSUME NEW s \in Settlements, ResolveTrade(s) PROVE ScrInd'
  <2>1. UNCHANGED <<flow, clock, ord, view>> /\ esc.status = "DISPUTED"
    BY <1>4 DEF ResolveTrade, ChainOnly
  <2>2. CASE esc.pre = "none"
    <3> DEFINE t == [Settle(esc, s) EXCEPT !.verdict = "pre", !.judged = TRUE]
    <3>1. esc' = t
      BY <1>4, <2>2 DEF ResolveTrade
    <3>2. /\ DOMAIN Settle(esc, s) = TradeFields /\ Settle(esc, s).status = s /\ Settle(esc, s).pre = "none"
          /\ Settle(esc, s).settled = TRUE /\ s \in TradeStatuses /\ ~esc.settled
      BY Zenon, <1>s, <2>1, <2>2
    <3>3. DOMAIN t = TradeFields /\ t.status = s /\ t.pre = "none" /\ t.judged = TRUE /\ t.settled = TRUE
      BY <3>2 DEF TradeFields
    <3> HIDE DEF t
    <3>4. TradeIsSound(t)
      BY <3>2, <3>3 DEF TradeIsSound, Settlements
    <3> QED BY Zenon, <2>1, <3>1, <3>2, <3>4, TradeMoves
  <2>3. CASE esc.pre # "none"
    <3> DEFINE v == IF esc.verdict = "pre" THEN "pre" ELSE "post"
               t == [esc EXCEPT !.status = esc.pre, !.pre = "none", !.verdict = v, !.liable = @ \/ s # esc.pre]
    <3>1. esc' = t
      BY <1>4, <2>3 DEF ResolveTrade
    <3>2. /\ DOMAIN t = TradeFields /\ t.status = esc.pre /\ t.pre = "none" /\ t.judged = esc.judged
          /\ t.settled = esc.settled /\ t.until = esc.until
      BY <1>0 DEF TradeFields
    <3> HIDE DEF t
    <3>3. TradeIsSound(t)
      BY <1>0, <2>1, <2>3, <3>2 DEF TradeIsSound, TradeStatuses, Settlements
    <3> QED BY Zenon, <2>1, <3>1, <3>2, <3>3, TradeMoves
  <2> QED BY <2>2, <2>3
<1>5. CASE FollowChain
  <2>1. UNCHANGED <<flow, clock, view>> /\ esc' = [esc EXCEPT !.verdict = "none"]
    BY <1>5 DEF FollowChain
  <2>2. /\ DOMAIN esc' = TradeFields /\ esc'.status = esc.status /\ esc'.pre = esc.pre /\ esc'.judged = esc.judged
        /\ esc'.settled = esc.settled /\ esc'.until = esc.until
    BY <1>0, <2>1 DEF TradeFields
  <2>3. DOMAIN ord' = OrderFields /\ ord'.status = esc.status /\ (esc.status \in Settlements => ord'.until = esc.until)
    <3>1. PICK seen \in BOOLEAN :
            LET base == [ord EXCEPT !.status = esc.status,
                           !.settled = IF esc.status \in Settlements \/ seen \/ esc.verdict = "pre"
                                       THEN esc.settled ELSE @,
                           !.until = IF esc.status \in Settlements \/ seen \/ esc.verdict = "pre"
                                     THEN esc.until ELSE @]
                closed == IF ClosesDispute THEN [base EXCEPT !.filed = FALSE] ELSE base
            IN ord' = IF esc.status = "DISPUTED" /\ (ord.status # "DISPUTED" \/ ClosesDispute)
                      THEN [closed EXCEPT !.disputeAt = disputeStampFor(closed)] ELSE closed
      BY Zenon, <1>5 DEF FollowChain
    <3> DEFINE base == [ord EXCEPT !.status = esc.status,
                          !.settled = IF esc.status \in Settlements \/ seen \/ esc.verdict = "pre"
                                      THEN esc.settled ELSE @,
                          !.until = IF esc.status \in Settlements \/ seen \/ esc.verdict = "pre"
                                    THEN esc.until ELSE @]
               closed == IF ClosesDispute THEN [base EXCEPT !.filed = FALSE] ELSE base
    <3>2. DOMAIN base = OrderFields /\ base.status = esc.status /\ (esc.status \in Settlements => base.until = esc.until)
      BY <1>0 DEF OrderFields
    <3>3. ord' = closed \/ ord' = [closed EXCEPT !.disputeAt = disputeStampFor(closed)]
      BY Zenon, <3>1
    <3> HIDE DEF base
    <3>4. DOMAIN closed = OrderFields /\ closed.status = esc.status /\ (esc.status \in Settlements => closed.until = esc.until)
      BY <3>2 DEF OrderFields
    <3> HIDE DEF closed
    <3> QED BY <3>3, <3>4 DEF OrderFields
  <2>4. TradeIsSound(esc)'
    BY <1>0, <2>1, <2>2 DEF TradeIsSound, RefundOpensAt, AttestDeadline
  <2>5. RowAgrees'
    BY Zenon, <1>0, <2>2, <2>3 DEF RowAgrees, TradeIsSound
  <2>6. ViewIsRecent(view)'
    BY Zenon, <2>1 DEF ScrInd, ViewIsRecent, Polls, isTerminal, StandsStill, Signing
  <2> QED BY Zenon, <1>0, <2>1, <2>4, <2>5, <2>6 DEF ScrInd
<1>6. CASE ExpireOrder \/ claimPaid \/ UploadProof \/ postDispute
  <2>1. UNCHANGED <<flow, clock, esc, view>>
    BY Zenon, <1>6 DEF ExpireOrder, claimPaid, UploadProof, postDispute, Row
  <2>2. CASE ExpireOrder
    <3>1. DOMAIN ord' = OrderFields /\ ord'.status = "EXPIRED"
      BY <1>0, <2>2 DEF ExpireOrder, Row, OrderFields
    <3> QED BY <2>1, <3>1, RowMoves DEF Settlements
  <2>3. CASE claimPaid
    <3>1. DOMAIN ord' = OrderFields /\ ord'.status = ord.status /\ ord'.until = ord.until
      BY <1>0, <2>3 DEF claimPaid, Row, OrderFields
    <3> QED BY Zenon, <2>1, <3>1, RowMoves
  <2>4. CASE UploadProof
    <3>1. DOMAIN ord' = OrderFields /\ ord'.status = ord.status /\ ord'.until = ord.until
      BY <1>0, <2>4 DEF UploadProof, Row, OrderFields
    <3> QED BY Zenon, <2>1, <3>1, RowMoves
  <2>5. CASE postDispute
    <3>1. DOMAIN ord' = OrderFields /\ ord'.status = ord.status /\ ord'.until = ord.until
      BY <1>0, <2>5 DEF postDispute, Row, OrderFields
    <3> QED BY Zenon, <2>1, <3>1, RowMoves
  <2> QED BY Zenon, <1>6, <2>2, <2>3, <2>4, <2>5
<1>7. CASE RefetchView \/ Redraw
  <2>0. UNCHANGED <<flow, clock, esc, ord>>
    BY <1>7 DEF RefetchView, Redraw, ScreenOnly
  <2>1. ViewIsRecent(view)'
    <3>1. CASE RefetchView
      <4> DEFINE d == IF view.kind # "hosted" /\ view.o = Copy(view.kind) THEN view.drawn ELSE clock
      <4>1. view' = [FreshView(view.kind) EXCEPT !.drawn = d]
        BY Zenon, <3>1 DEF RefetchView
      <4>2. DOMAIN view' = {"kind", "o", "fresh", "drawn"} /\ view'.kind = view.kind /\ view'.drawn = d
        BY <4>1 DEF FreshView
      <4>3. d \in Nat /\ (view.kind = "hosted" => d = clock)
        BY <1>0 DEF ScrInd, ViewIsRecent
      <4> HIDE DEF d
      <4> QED BY SMTT(30), <1>0, <2>0, <4>2, <4>3 DEF ScrInd, ViewIsRecent
    <3>2. CASE Redraw
      <4>1. /\ DOMAIN view' = {"kind", "o", "fresh", "drawn"} /\ view'.kind = view.kind /\ view'.drawn = clock
            /\ view.kind # "hosted"
        BY <3>2 DEF Redraw, ScrInd, ViewIsRecent
      <4> QED BY SMTT(30), <1>0, <2>0, <4>1 DEF ScrInd, ViewIsRecent
    <3> QED BY <1>7, <3>1, <3>2
  <2>2. TradeIsSound(esc)' /\ RowAgrees'
    BY <2>0 DEF ScrInd, TradeIsSound, RowAgrees, RefundOpensAt, AttestDeadline
  <2> QED BY Zenon, <1>0, <2>0, <2>1, <2>2 DEF ScrInd
<1>8. CASE TimePasses
  <2>1. /\ UNCHANGED <<flow, esc, ord>> /\ clock' = clock + 1 /\ (Polls(view) => view.fresh)
        /\ view' = [view EXCEPT !.fresh = FALSE]
    BY <1>8 DEF TimePasses
  <2>2. /\ DOMAIN view' = {"kind", "o", "fresh", "drawn"} /\ view'.kind = view.kind /\ view'.drawn = view.drawn
        /\ view'.o = view.o /\ view'.fresh = FALSE
    BY <2>1 DEF ScrInd, ViewIsRecent
  <2>3. Polls(view)' = Polls(view)
    BY Zenon, <2>1, <2>2 DEF Polls, isTerminal, StandsStill, Signing
  <2>4. ViewIsRecent(view)'
    BY <1>0, <2>1, <2>2, <2>3 DEF ScrInd, ViewIsRecent
  <2>5. RefundOpensAt' = RefundOpensAt /\ RefundOpensAt \in Nat
    BY SMTT(30), <2>1, ScreenTimes DEF RefundOpensAt, AttestDeadline
  <2>6. TradeIsSound(esc)'
    BY <1>0, <2>1, <2>5 DEF TradeIsSound
  <2>7. RowAgrees'
    BY Zenon, <2>1 DEF ScrInd, RowAgrees
  <2> QED BY <1>0, <2>1, <2>4, <2>6, <2>7 DEF ScrInd
<1>9. CASE UNCHANGED screenVars
  BY ZenonT(60), <1>0, <1>9, TradeMoves DEF screenVars
<1> QED
  BY ZenonT(60), <1>1, <1>2, <1>3, <1>4, <1>5, <1>6, <1>7, <1>8, <1>9 DEF ScrNext

\* A dispute the coordinator would build is one the escrow takes, from a party
\* that has not spent its own.
LEMMA DisputeIsTaken ==
    ASSUME ScrInd, InStep, canDispute(ord), NEW by
    PROVE  by \in esc.used \/ RaiseTaken(by)
<1>1. CASE ord.status = "FIAT_PAID"
  BY <1>1 DEF InStep, PreChain, RaiseTaken
<1>2. CASE ord.status \in Settlements /\ clock <= ord.until
  <2>1. esc.status = ord.status
    BY <1>2 DEF InStep, PreChain, Settlements
  <2>2. clock <= esc.until
    BY <1>2 DEF ScrInd, RowAgrees
  <2> QED BY Zenon, <1>2, <2>1, <2>2 DEF RaiseTaken
<1> QED BY Zenon, <1>1, <1>2 DEF canDispute

\* What each control needs, one screen at a time, when the screen is in step.
LEMMA OffersAreTaken ==
    ASSUME ScrInd, InStep, NEW c \in Offers(view)
    PROVE  /\ c \in {"lock", "slash"} \/ (c = "file" /\ ord.filed) \/ Admits(c)
           /\ \/ c = "lock" /\ view.kind # "hosted"
              \/ c = "markPaid" /\ view.kind = "lp"
              \/ c = "raise" /\ "lp" \in esc.used
              \/ c = "file" /\ "user" \in esc.used
              \/ c = "slash"
              \/ EscrowTakes(c)
<1>0. /\ flow \in {"TOP_UP", "WITHDRAW"} /\ clock \in Nat /\ esc.status \in TradeStatuses /\ view.kind \in Kinds
      /\ {SIGN_BY, FUND_BY, PAY, CONFIRM, GRACE} \subseteq Nat /\ SIGN_BY <= FUND_BY /\ PAY < CONFIRM /\ 0 < GRACE
  BY ScreenTimes DEF ScrInd, TradeIsSound, ViewIsRecent
<1>1. \A s \in {"FUNDED", "FIAT_PAID", "DISPUTED", "RELEASED", "REFUNDED"} : ord.status = s => esc.status = s
  BY DEF InStep, PreChain
<1>2. ord.status \in PreChain => esc.status = "none"
  BY <1>0 DEF InStep, PreChain, TradeStatuses, Settlements
<1>o. DOMAIN ord = OrderFields
  BY Zenon DEF ScrInd, RowAgrees
<1>3. CASE view.kind = "web"
  <2>1. /\ view.o.status = ord.status /\ view.o.until = postSettleDisputeDeadline(ord)
        /\ c \in WebOffers(view.o, view.drawn)
    BY <1>3, <1>o DEF InStep, Copy, serializeOrderBase, Offers, OrderFields
  <2>2. \/ c = "pay"
        \/ c = "markPaid" /\ flow = "TOP_UP" /\ ord.status = "FUNDED" /\ clock < PAY
        \/ c = "lock"
        \/ c = "file" /\ (ord.status = "FIAT_PAID" \/ canPostSettleDispute(view.o, view.drawn))
        \/ c = "release" /\ ord.status = "FIAT_PAID"
    BY SMTT(30), <1>0, <2>1 DEF WebOffers, DepositPanel, LockPanel, ReleasePanel, AwaitingPanel, SettledPanel, If, paymentWindowClosed
  <2>f. CASE c = "file"
    <3>1. canDispute(ord)
      BY <2>1, <2>2, <2>f DEF canPostSettleDispute, postSettleDisputeDeadline, canDispute
    <3>2. "user" \in esc.used \/ RaiseTaken("user")
      BY Zenon, <3>1, DisputeIsTaken
    <3> QED BY <2>f, <3>1, <3>2 DEF Admits, MayFile, EscrowTakes
  <2>3. CASE c = "markPaid"
    <3>1. flow = "TOP_UP" /\ ord.status = "FUNDED" /\ esc.status = "FUNDED" /\ clock <= PAY
      BY SMTT(30), <1>0, <1>1, <2>2, <2>3
    <3> QED BY <2>3, <3>1 DEF Admits, EscrowTakes, buildMarkFiatPaidTx, MarkTaken
  <2>4. CASE c = "release"
    BY SMTT(30), <1>1, <2>2, <2>4 DEF Admits, EscrowTakes, buildConfirmReleaseTx
  <2> QED
    BY Zenon, <1>3, <2>2, <2>3, <2>4, <2>f DEF Admits, EscrowTakes
<1>4. CASE view.kind = "lp"
  <2>1. /\ view.o.status = ord.status /\ view.o.proof = ord.proof /\ view.o.until = postSettleDisputeDeadline(ord)
        /\ view.o.require = requireProof /\ c \in LpOffers(view.o, clock)
    BY SMTT(30), <1>4, <1>o DEF InStep, Copy, serializeOrderBase, Offers, OrderFields
  <2>2. \/ c = "lock"
        \/ c = "receipt" /\ flow = "TOP_UP" /\ ord.status = "FUNDED" /\ clock <= refundOpensAt
        \/ c = "release" /\ ord.status = "FIAT_PAID"
        \/ c = "markPaid" /\ flow = "WITHDRAW" /\ ord.status = "FUNDED" /\ (requireProof => ord.proof)
        \/ c = "raise" /\ canDispute(ord)
    BY <2>1 DEF LpOffers, LockAction, ReceiptAction, ConfirmReleaseSheet, PayoutSection, DisputeAction, If,
                canPostSettleDispute, postSettleDisputeDeadline, canDispute
  <2>3. CASE c = "receipt"
    <3>1. flow = "TOP_UP" /\ ord.status = "FUNDED" /\ esc.status = "FUNDED" /\ clock <= refundOpensAt
      BY <1>1, <2>2, <2>3
    <3>2. AttestDeadline = refundOpensAt
      BY <3>1 DEF AttestDeadline, refundOpensAt
    <3> QED BY <2>3, <3>1, <3>2 DEF Admits, EscrowTakes, MarkTaken, confirmReceiptAsProvider, attestFiatPaid
  <2>4. CASE c = "release"
    BY <1>1, <2>2, <2>4 DEF Admits, EscrowTakes, buildConfirmReleaseTx
  <2>5. CASE c = "markPaid"
    BY ZenonT(60), <1>4, <2>2, <2>5 DEF Admits, buildMarkFiatPaidTx
  <2>6. CASE c = "raise"
    <3>1. "lp" \in esc.used \/ RaiseTaken("lp")
      BY Zenon, <2>2, <2>6, DisputeIsTaken
    <3> QED BY <2>2, <2>6, <3>1 DEF Admits, EscrowTakes, buildRaiseDisputeTx
  <2> QED
    BY ZenonT(60), <1>4, <2>2, <2>3, <2>4, <2>5, <2>6
<1>5. CASE view.kind = "admin"
  <2>1. view.o.status = ord.status /\ c \in AdminOffers(view.o, clock)
    BY <1>5, <1>o DEF InStep, Copy, serializeOrderBase, Offers, OrderFields
  <2>2. \/ c = "resolve" /\ ord.status = "DISPUTED"
        \/ c = "attest" /\ flow = "TOP_UP" /\ ord.status = "FUNDED" /\ clock < attestBy
        \/ c = "slash"
    BY <2>1 DEF AdminOffers, ResolveActions, AttestAction, SlashAction, If
  <2>3. CASE c = "attest"
    <3>1. flow = "TOP_UP" /\ ord.status = "FUNDED" /\ esc.status = "FUNDED" /\ clock < attestBy
      BY <1>1, <2>2, <2>3
    <3>2. AttestDeadline = attestBy /\ refundOpensAt = attestBy /\ attestBy \in Nat
      BY SMTT(30), <1>0, <3>1 DEF AttestDeadline, refundOpensAt, attestBy
    <3>3. clock <= AttestDeadline /\ clock <= refundOpensAt
      BY SMTT(30), <1>0, <3>1, <3>2
    <3> QED BY <2>3, <3>1, <3>3 DEF Admits, EscrowTakes, MarkTaken, attestFiatPaid
  <2>4. CASE c = "resolve"
    BY SMTT(30), <1>1, <2>2, <2>4 DEF Admits, EscrowTakes, buildResolveTx
  <2> QED
    BY Zenon, <2>2, <2>3, <2>4 DEF EscrowTakes
<1>6. CASE view.kind = "hosted"
  <2>1. /\ view.o.status = ord.status /\ view.o.claimed = ord.claimed
        /\ c \in HostedOffers(view.o, clock)
    BY <1>6, <1>o DEF InStep, Copy, serializeOrderBase, Offers, OrderFields
  <2>2. \/ c = "lock" /\ ord.status \in PreChain /\ clock < SIGN_BY
        \/ c = "release" /\ ord.status = "FIAT_PAID"
        \/ c = "pay"
        \/ c = "claim" /\ MayClaim(ord)
    <3>1. PAY <= refundOpensAt
      BY SMTT(30), <1>0 DEF refundOpensAt
    <3> DEFINE screen == interactiveScreen(view.o)
    <3>2. screen = "sign_funding" => ord.status \in PreChain
      BY <2>1 DEF interactiveScreen
    <3>3. screen = "sign_release" => ord.status = "FIAT_PAID"
      BY <2>1 DEF interactiveScreen
    <3>4. screen = "instructions" => flow = "TOP_UP" /\ ord.status = "FUNDED" /\ ~ord.claimed
      BY SMTT(30), <1>0, <2>1 DEF interactiveScreen
    <3>5. paymentLine(view.o, clock) => clock <= refundOpensAt
      BY SMTT(30), <1>0, <3>1 DEF paymentLine, refundOpensAt
    <3>6. \/ c = "lock" /\ screen = "sign_funding" /\ clock < SIGN_BY
          \/ c = "release" /\ screen = "sign_release"
          \/ c = "pay"
          \/ c = "claim" /\ screen = "instructions" /\ clock <= refundOpensAt
      BY <2>1, <3>5 DEF HostedOffers, If
    <3> QED
      BY <3>2, <3>3, <3>4, <3>6 DEF MayClaim
  <2>3. CASE c = "lock"
    <3>1. ord.status \in PreChain /\ esc.status = "none" /\ clock <= FUND_BY /\ clock < SIGN_BY
      BY SMTT(30), <1>0, <1>2, <2>2, <2>3
    <3> QED BY SMTT(30), <2>3, <3>1 DEF EscrowTakes
  <2>4. CASE c = "release"
    BY <1>1, <2>2, <2>4 DEF Admits, EscrowTakes, buildConfirmReleaseTx
  <2> QED
    BY Zenon, <2>2, <2>3, <2>4 DEF Admits, EscrowTakes
<1> QED BY Zenon, <1>0, <1>3, <1>4, <1>5, <1>6 DEF Kinds

\* An order's screens, for every choice of deadlines and grace: what a screen in
\* step offers is taken, and none asks for money the escrow may be giving back.
THEOREM OffersAreHeld == ScrSpec => []OffersHold
<1>1. ASSUME ScrInd PROVE OffersHold
  <2>1. ASSUME "pay" \in Offers(view)
        PROVE  /\ ~(esc.status = "FUNDED" /\ clock > RefundOpensAt)
               /\ esc.status = "REFUNDED" => esc.judged
    <3>0. /\ flow \in {"TOP_UP", "WITHDRAW"} /\ clock \in Nat /\ view.kind \in Kinds /\ view.drawn \in Nat
          /\ view.kind = "hosted" /\ Polls(view) => clock <= view.drawn + 1
          /\ {PAY, CONFIRM, GRACE} \subseteq Nat /\ PAY < CONFIRM /\ 0 < GRACE
      BY Zenon, <1>1, ScreenTimes DEF ScrInd, ViewIsRecent
    <3>1. flow = "TOP_UP" /\ clock <= PAY
      <4>1. CASE view.kind = "web"
        BY <2>1, <3>0, <4>1 DEF Offers, WebOffers, DepositPanel, LockPanel, ReleasePanel, AwaitingPanel, SettledPanel,
           If, paymentWindowClosed
      <4>2. CASE view.kind = "lp"
        BY <2>1, <4>2 DEF Offers, LpOffers, LockAction, ReceiptAction, ConfirmReleaseSheet, PayoutSection, DisputeAction, If
      <4>3. CASE view.kind = "admin"
        BY SMTT(30), <2>1, <4>3 DEF Offers, AdminOffers, ResolveActions, AttestAction, SlashAction, If
      <4>4. CASE view.kind = "hosted"
        <5>1. flow = "TOP_UP" /\ view.o.status = "FUNDED" /\ view.drawn < PAY
          BY <2>1, <4>4 DEF Offers, HostedOffers, If, paymentLine
        <5>2. Polls(view)
          BY SMTT(30), <4>4, <5>1 DEF Polls, StandsStill, Settlements, Signing
        <5> QED BY <3>0, <4>4, <5>1, <5>2
      <4> QED BY <3>0, <4>1, <4>2, <4>3, <4>4 DEF Kinds
    <3>2. RefundOpensAt \in Nat /\ PAY < RefundOpensAt
      BY SMTT(30), <3>0, <3>1 DEF RefundOpensAt, AttestDeadline
    <3> QED BY SMTT(30), <1>1, <3>0, <3>1, <3>2 DEF ScrInd, TradeIsSound
  <2> QED BY ZenonT(60), <1>1, <2>1, OffersAreTaken DEF OffersHold
<1> QED BY <1>1, ScrStart, ScrStep, PTL DEF ScrSpec

=============================================================================
