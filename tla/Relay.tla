------------------------------- MODULE Relay --------------------------------
(***************************************************************************)
(* The relay (relay/src/ws-handler.ts, connections.ts, registry.ts), the   *)
(* service that keeps a server registered with it                          *)
(* (server/src/services/RelayClientService.ts), and phones that connect    *)
(* through it, for one username.                                           *)
(*                                                                         *)
(* A socket has a near end (server or phone), a far end (the relay) and a  *)
(* channel each way.  close() at one end is a message to the other; what   *)
(* was sent before it still arrives, also at an end that is closing.       *)
(***************************************************************************)
EXTENDS Naturals, Sequences, FiniteSets, SequencesExt

CONSTANTS
    Servers,       \* installations that use the username
    Phones,
    Sockets,
    Holder,        \* whose near end a socket is
    NoSocket, NoServer,
    MaxVisits,     \* connections that a phone makes
    MaxFaults      \* stops, broken connections, timeouts, restarts of the relay

ASSUME RelayConstants ==
    /\ Holder \in [Sockets -> Servers \cup Phones]
    /\ Servers \cap Phones = {}
    /\ MaxVisits \in Nat /\ MaxFaults \in Nat
    /\ NoSocket \notin Sockets /\ NoServer \notin Servers

VARIABLES
    net,           \* the sockets
    mode,          \* ConnectionState of ws-handler.ts: new, server or paired
    owner,         \* the registry: who owns the username
    waiting,       \* ConnectionManager.waiting
    pairs,         \* ConnectionManager.pairs and pairLookup
    svc,           \* RelayClientService of each server
    claimed,       \* sockets that were handed off
    heard,         \* history: what the answers at a phone's socket answer
    visits, faults

vars == <<net, mode, owner, waiting, pairs, svc, claimed, heard, visits, faults>>

Status == {"disconnected", "connecting", "registering", "waiting", "rejected"}

Message == [type : {"register", "registered", "rejected", "connect", "connected",
                    "error", "data", "answer", "close"},
            from : Sockets \cup {NoSocket}]    \* a phone's socket, in data and answers

Msg(type) == [type |-> type, from |-> NoSocket]

Unused == [near |-> "none", far |-> "none", up |-> <<>>, down |-> <<>>]

Off == [enabled |-> FALSE, waiting |-> NoSocket, connecting |-> NoSocket,
        timer |-> FALSE, status |-> "disconnected"]

Init ==
    /\ net = [s \in Sockets |-> Unused]
    /\ mode = [s \in Sockets |-> "new"]
    /\ owner \in Servers \cup {NoServer}   \* the registry outlives the relay
    /\ waiting = NoSocket
    /\ pairs = {}
    /\ svc = [v \in Servers |-> Off]
    /\ claimed = {}
    /\ heard = [s \in Sockets |-> {}]
    /\ visits = [p \in Phones |-> 0]
    /\ faults = 0

-----------------------------------------------------------------------------
\* WebSockets.

\* An end that is gone receives nothing.
SendUp(n, m) ==
    IF n.near = "open" /\ n.far \in {"open", "closing"}
    THEN [n EXCEPT !.up = Append(@, m)] ELSE n

SendDown(n, m) ==
    IF n.far = "open" /\ n.near \in {"open", "closing"}
    THEN [n EXCEPT !.down = Append(@, m)] ELSE n

CloseNear(n) ==
    CASE n.near = "open"       -> [SendUp(n, Msg("close")) EXCEPT !.near = "closing"]
      [] n.near = "connecting" -> [n EXCEPT !.near = "closing", !.down = <<Msg("close")>>]
      [] OTHER                 -> n

CloseFar(n) ==
    IF n.far = "open"
    THEN [SendDown(n, Msg("close")) EXCEPT !.far = "closing"] ELSE n

\* An end has seen the close: it answers it, unless it had closed itself.
NearClosed(n) ==
    IF n.far \in {"none", "closed"} THEN Unused
    ELSE [CloseNear(n) EXCEPT !.near = "closed", !.down = <<>>]

FarClosed(n) ==
    IF n.near = "closed" THEN Unused
    ELSE [CloseFar(n) EXCEPT !.far = "closed", !.up = <<>>]

FreeSocket(h, s) == Holder[s] = h /\ net[s] = Unused

\* Which free socket a new connection gets does not matter.
NewSocket(h) == CHOOSE s \in Sockets : FreeSocket(h, s)

CanConnect(h) == \E s \in Sockets : FreeSocket(h, s)

Connecting(n, s) == [n EXCEPT ![s] = [Unused EXCEPT !.near = "connecting"]]

\* A socket that has just opened, and its first message.
Greeting(type) == [near |-> "open", far |-> "open", up |-> <<Msg(type)>>, down |-> <<>>]

Rest(n, s) == [n EXCEPT ![s].down = Tail(@)]

-----------------------------------------------------------------------------
\* RelayClientService.

\* connect(), in a service c of server v and over sockets n.
Connect(v, c, n) ==
    IF c.enabled
    THEN /\ CanConnect(v)
         /\ LET s == NewSocket(v)
            IN /\ svc' = [svc EXCEPT ![v] = [c EXCEPT !.status = "connecting",
                                                      !.connecting = s]]
               /\ net' = Connecting(n, s)
               /\ heard' = [heard EXCEPT ![s] = {}]
    ELSE /\ svc' = [svc EXCEPT ![v] = c]
         /\ net' = n
         /\ UNCHANGED heard

ScheduleReconnect(c) ==
    IF c.enabled THEN [c EXCEPT !.timer = TRUE, !.status = "disconnected"] ELSE c

\* stop(): both sockets of the service are closed.
CloseBoth(v) ==
    [s \in Sockets |-> IF s \in {svc[v].connecting, svc[v].waiting}
                       THEN CloseNear(net[s]) ELSE net[s]]

Stop(v) ==
    /\ svc[v].enabled /\ faults < MaxFaults
    /\ faults' = faults + 1
    /\ svc' = [svc EXCEPT ![v] = Off]
    /\ net' = CloseBoth(v)
    /\ UNCHANGED <<mode, owner, waiting, pairs, claimed, heard, visits>>

\* start(), the first time or with a new configuration.
Start(v) ==
    /\ IF svc[v].enabled THEN faults < MaxFaults /\ faults' = faults + 1
                         ELSE UNCHANGED faults
    /\ Connect(v, [Off EXCEPT !.enabled = TRUE], CloseBoth(v))
    /\ UNCHANGED <<mode, owner, waiting, pairs, claimed, visits>>

ReconnectTimer(v) ==
    /\ svc[v].timer
    /\ Connect(v, [svc[v] EXCEPT !.timer = FALSE], net)
    /\ UNCHANGED <<mode, owner, waiting, pairs, claimed, visits, faults>>

\* The ping of the waiting socket failed, or its pong did not come in time.
KeepaliveTimeout(v) ==
    LET s == svc[v].waiting
    IN /\ s # NoSocket /\ faults < MaxFaults
       /\ faults' = faults + 1
       /\ net' = [net EXCEPT ![s] = CloseNear(@)]
       /\ svc' = [svc EXCEPT ![v] = ScheduleReconnect([@ EXCEPT !.waiting = NoSocket])]
       /\ UNCHANGED <<mode, owner, waiting, pairs, claimed, heard, visits>>

\* Mutant of Registered: a status that the interface does not know.
RegisteredUnknown(c, s) ==
    [c EXCEPT !.connecting = NoSocket, !.waiting = s, !.status = "registered"]

\* server_registered, on whichever socket it comes.
Registered(c, s) ==
    [c EXCEPT !.connecting = NoSocket, !.waiting = s, !.status = "waiting"]

Rejected(c) == [c EXCEPT !.status = "rejected", !.enabled = FALSE]

\* handleClose(): only the sockets of the service count.
Closed(c, s) ==
    IF c.connecting = s THEN ScheduleReconnect([c EXCEPT !.connecting = NoSocket])
    ELSE IF c.waiting = s THEN ScheduleReconnect([c EXCEPT !.waiting = NoSocket])
    ELSE c

\* Mutant of Claimed: the service keeps the claimed socket as its own.
ClaimedKeepsWaiting(v, s, m) ==
    /\ claimed' = claimed \cup {s}
    /\ Connect(v, svc[v], Rest(net, s))

\* handleClaimed(): the socket is handed off, its handler answers the message,
\* and the service opens the next one.
Claimed(v, s, m) ==
    /\ claimed' = claimed \cup {s}
    /\ LET n == Rest(net, s)
       IN Connect(v, [svc[v] EXCEPT !.waiting = NoSocket],
                  [n EXCEPT ![s] = SendUp(@, [type |-> "answer", from |-> m.from])])

\* A message or a close comes to a socket of the service.
ServerReceives(v, s) ==
    /\ Holder[s] = v /\ s \notin claimed /\ net[s].down # <<>>
    /\ LET m == Head(net[s].down)
       IN \/ /\ m.type = "registered"
             /\ svc' = [svc EXCEPT ![v] = Registered(@, s)]
             /\ net' = Rest(net, s)
             /\ UNCHANGED <<claimed, heard>>
          \/ /\ m.type = "rejected"
             /\ svc' = [svc EXCEPT ![v] = Rejected(@)]
             /\ net' = [Rest(net, s) EXCEPT ![s] = CloseNear(@)]
             /\ UNCHANGED <<claimed, heard>>
          \/ /\ m.type = "data"
             /\ Claimed(v, s, m)
          \/ /\ m.type = "close"
             /\ svc' = [svc EXCEPT ![v] = Closed(@, s)]
             /\ net' = [net EXCEPT ![s] = NearClosed(@)]
             /\ UNCHANGED <<claimed, heard>>
    /\ UNCHANGED <<mode, owner, waiting, pairs, visits, faults>>

\* The handler that a claimed socket was given to sees its peer leave.
HandlerReceives(s) ==
    /\ s \in claimed /\ net[s].down # <<>>
    /\ IF Head(net[s].down).type = "close"
         THEN /\ net' = [net EXCEPT ![s] = NearClosed(@)]
              /\ claimed' = claimed \ {s}
         ELSE net' = Rest(net, s) /\ UNCHANGED claimed
    /\ UNCHANGED <<mode, owner, waiting, pairs, svc, heard, visits, faults>>

\* onopen: the service registers.
Open(s) ==
    /\ net[s].near = "connecting"
    /\ net' = [net EXCEPT ![s] = Greeting("register")]
    /\ mode' = [mode EXCEPT ![s] = "new"]
    /\ svc' = [svc EXCEPT ![Holder[s]].status = "registering"]
    /\ UNCHANGED <<owner, waiting, pairs, claimed, heard, visits, faults>>

-----------------------------------------------------------------------------
\* Phones: the relay part of SecureConnection.

\* The phone's socket opens, and asks for the server.
Visit(p) ==
    /\ visits[p] < MaxVisits
    /\ CanConnect(p)
    /\ visits' = [visits EXCEPT ![p] = @ + 1]
    /\ LET s == NewSocket(p)
       IN /\ net' = [net EXCEPT ![s] = Greeting("connect")]
          /\ mode' = [mode EXCEPT ![s] = "new"]
          /\ heard' = [heard EXCEPT ![s] = {}]
    /\ UNCHANGED <<owner, waiting, pairs, svc, claimed, faults>>

\* close(), or a timeout of the phone.
Leave(s) ==
    /\ Holder[s] \in Phones /\ net[s].near = "open"
    /\ net' = [net EXCEPT ![s] = CloseNear(@)]
    /\ UNCHANGED <<mode, owner, waiting, pairs, svc, claimed, heard, visits,
                   faults>>

PhoneReceives(s) ==
    /\ Holder[s] \in Phones /\ net[s].down # <<>>
    /\ LET m == Head(net[s].down)
       IN /\ net' = CASE m.type = "connected" ->
                           [Rest(net, s) EXCEPT ![s] =
                              SendUp(@, [type |-> "data", from |-> s])]
                      [] m.type = "error" -> [Rest(net, s) EXCEPT ![s] = CloseNear(@)]
                      [] m.type = "close" -> [net EXCEPT ![s] = NearClosed(@)]
                      [] OTHER -> Rest(net, s)
          /\ heard' = IF m.type = "answer"
                      THEN [heard EXCEPT ![s] = @ \cup {m.from}] ELSE heard
    /\ UNCHANGED <<mode, owner, waiting, pairs, svc, claimed, visits, faults>>

-----------------------------------------------------------------------------
\* The relay.

Taken(n, s) == [n EXCEPT ![s].up = Tail(@)]

\* Mutant of RegisterServer: the owner of the username is not checked.
RegisterServerUnchecked(s) ==
    /\ owner' = IF owner = NoServer THEN Holder[s] ELSE owner
    /\ waiting' = s
    /\ mode' = [mode EXCEPT ![s] = "server"]
    /\ net' = [Taken(net, s) EXCEPT ![s] = SendDown(@, Msg("registered"))]

\* registerServer(): the owner's new socket replaces the one that waits.
RegisterServer(s) ==
    LET n == Taken(net, s)
        v == Holder[s]
    IN IF owner \in {NoServer, v}
         THEN /\ owner' = v
              /\ waiting' = s
              /\ mode' = [mode EXCEPT ![s] = "server"]
              /\ net' = [x \in Sockets |->
                           CASE x = s       -> SendDown(n[x], Msg("registered"))
                             [] x = waiting -> CloseFar(n[x])
                             [] OTHER       -> n[x]]
         ELSE /\ net' = [n EXCEPT ![s] = CloseFar(SendDown(@, Msg("rejected")))]
              /\ UNCHANGED <<owner, waiting, mode>>

\* Mutant of ConnectClient: the paired socket stays in the waiting map.
ConnectClientKeepsWaiting(s) ==
    /\ waiting # NoSocket
    /\ net' = [Taken(net, s) EXCEPT ![s] = SendDown(@, Msg("connected"))]
    /\ pairs' = pairs \cup {<<waiting, s>>}
    /\ mode' = [mode EXCEPT ![s] = "paired", ![waiting] = "paired"]
    /\ UNCHANGED waiting

\* connectClient(): the phone is paired with the socket that waits.
ConnectClient(s) ==
    LET n == Taken(net, s)
    IN IF waiting = NoSocket
         THEN /\ net' = [n EXCEPT ![s] = CloseFar(SendDown(@, Msg("error")))]
              /\ UNCHANGED <<waiting, pairs, mode>>
         ELSE /\ net' = [n EXCEPT ![s] = SendDown(@, Msg("connected"))]
              /\ waiting' = NoSocket
              /\ pairs' = pairs \cup {<<waiting, s>>}
              /\ mode' = [mode EXCEPT ![s] = "paired", ![waiting] = "paired"]

PeersOf(s) == {q[2] : q \in {x \in pairs : x[1] = s}}
                \cup {q[1] : q \in {x \in pairs : x[2] = s}}

\* forward(): to the other end of the pair, if there is one.
Forward(s, m) ==
    net' = [x \in Sockets |->
              IF x \in PeersOf(s) THEN SendDown(Taken(net, s)[x], m)
                                  ELSE Taken(net, s)[x]]

\* Mutant of HandleClose: the username waits no longer, whichever socket closed.
HandleCloseByName(s) ==
    /\ mode' = [mode EXCEPT ![s] = "new"]
    /\ waiting' = IF mode[s] = "new" THEN waiting ELSE NoSocket
    /\ pairs' = {q \in pairs : s \notin {q[1], q[2]}}
    /\ net' = [net EXCEPT ![s] = FarClosed(@)]

\* handleClose(): a pair ends with either of its sockets.
HandleClose(s) ==
    LET n == [net EXCEPT ![s] = FarClosed(@)]
    IN /\ mode' = [mode EXCEPT ![s] = "new"]
       /\ IF waiting = s
            THEN waiting' = NoSocket /\ net' = n /\ UNCHANGED pairs
            ELSE /\ pairs' = {q \in pairs : s \notin {q[1], q[2]}}
                 /\ net' = [x \in Sockets |->
                              IF x \in PeersOf(s) THEN CloseFar(n[x]) ELSE n[x]]
                 /\ UNCHANGED waiting

\* onMessage() and onClose().
RelayReceives(s) ==
    /\ net[s].up # <<>>
    /\ LET m == Head(net[s].up)
       IN \/ /\ m.type = "close"
             /\ HandleClose(s)
             /\ UNCHANGED owner
          \/ /\ m.type # "close" /\ mode[s] = "paired"
             /\ Forward(s, m)
             /\ UNCHANGED <<owner, waiting, pairs, mode>>
          \/ /\ mode[s] # "paired" /\ m.type = "register"
             /\ RegisterServer(s)
             /\ UNCHANGED pairs
          \/ /\ mode[s] # "paired" /\ m.type = "connect"
             /\ ConnectClient(s)
             /\ UNCHANGED owner
          \/ /\ mode[s] # "paired" /\ m.type \in {"data", "answer"}
             /\ net' = Taken(net, s)
             /\ UNCHANGED <<owner, waiting, pairs, mode>>
    /\ UNCHANGED <<svc, claimed, heard, visits, faults>>

\* The pong of a waiting socket did not come in time.
PongTimeout(s) ==
    /\ mode[s] = "server" /\ net[s].far = "open" /\ faults < MaxFaults
    /\ faults' = faults + 1
    /\ net' = [net EXCEPT ![s] = CloseFar(@)]
    /\ UNCHANGED <<mode, owner, waiting, pairs, svc, claimed, heard, visits>>

\* A connection of a server is refused, or breaks: what is under way is lost.
Break(s) ==
    /\ Holder[s] \in Servers
    /\ net[s].near \in {"connecting", "open"} /\ faults < MaxFaults
    /\ faults' = faults + 1
    /\ net' = [net EXCEPT ![s].down = <<Msg("close")>>,
                          ![s].up = IF net[s].far \in {"open", "closing"}
                                    THEN <<Msg("close")>> ELSE <<>>]
    /\ UNCHANGED <<mode, owner, waiting, pairs, svc, claimed, heard, visits>>

\* The relay starts again with its registry, where reclaimInactive() may free
\* the name of an owner who was not seen for long.
RestartRelay ==
    /\ faults < MaxFaults
    /\ faults' = faults + 1
    /\ net' = [s \in Sockets |->
                 IF net[s].near \in {"none", "closed"} THEN Unused
                 ELSE [net[s] EXCEPT !.far = "closed", !.up = <<>>,
                                     !.down = <<Msg("close")>>]]
    /\ mode' = [s \in Sockets |-> "new"]
    /\ waiting' = NoSocket
    /\ pairs' = {}
    /\ owner' \in {owner, NoServer}
    /\ UNCHANGED <<svc, claimed, heard, visits>>

-----------------------------------------------------------------------------
Receives(s) ==
    \/ \E v \in Servers : ServerReceives(v, s)
    \/ HandlerReceives(s)
    \/ PhoneReceives(s)
    \/ RelayReceives(s)
    \/ Open(s)

\* What happens by itself: what was sent arrives, and timers fire.
Progress ==
    \/ \E s \in Sockets : Receives(s)
    \/ \E v \in Servers : ReconnectTimer(v)

Next ==
    \/ Progress
    \/ \E v \in Servers : Start(v) \/ Stop(v) \/ KeepaliveTimeout(v)
    \/ \E p \in Phones : Visit(p)
    \/ \E s \in Sockets : Leave(s) \/ PongTimeout(s) \/ Break(s)
    \/ RestartRelay

Spec == Init /\ [][Next]_vars

\* Messages and timers do not wait for ever, in whatever order they come.
Fairness ==
    /\ \A s \in Sockets : WF_vars(Receives(s))
    /\ \A v \in Servers : WF_vars(ReconnectTimer(v))

FairSpec == Spec /\ Fairness

-----------------------------------------------------------------------------
\* Properties.

\* Every variable has its type.
TypeOK ==
    /\ net \in [Sockets -> [near : {"none", "connecting", "open", "closing", "closed"},
                            far : {"none", "open", "closing", "closed"},
                            up : Seq(Message), down : Seq(Message)]]
    /\ mode \in [Sockets -> {"new", "server", "paired"}]
    /\ owner \in Servers \cup {NoServer}
    /\ waiting \in Sockets \cup {NoSocket}
    /\ pairs \subseteq Sockets \X Sockets
    /\ svc \in [Servers -> [enabled : BOOLEAN, timer : BOOLEAN, status : Status,
                            waiting : Sockets \cup {NoSocket},
                            connecting : Sockets \cup {NoSocket}]]
    /\ claimed \subseteq Sockets

\* The maps of the relay agree: each socket has one role, a pair joins a socket
\* of the owner with a phone, and no socket is in two pairs or waits in one.
RolesAreExclusive ==
    /\ waiting # NoSocket => Holder[waiting] = owner
    /\ \A q \in pairs : Holder[q[1]] = owner /\ Holder[q[2]] \in Phones
    /\ \A s \in Sockets : Cardinality(PeersOf(s)) + (IF waiting = s THEN 1 ELSE 0) <= 1

\* The answers a phone receives are answers to what it sent itself: sockets that
\* are replaced, closed or claimed late never join two phones.
AnswersItsPhone ==
    \A s \in Sockets : heard[s] \subseteq {s}

\* A socket that was handed off stays with its handler: the service neither
\* waits on it nor closes it.
HandedOff ==
    \A s \in claimed : \A v \in Servers : s \notin {svc[v].waiting, svc[v].connecting}

Listening(v) ==
    /\ waiting # NoSocket /\ Holder[waiting] = v
    /\ net[waiting].near = "open" /\ net[waiting].far = "open"

\* Nothing is under way, and no timer is set.
Quiet ==
    /\ \A s \in Sockets : net[s].up = <<>> /\ net[s].down = <<>>
                          /\ net[s].near # "connecting"
    /\ \A v \in Servers : ~svc[v].timer

\* Whatever phones came and whichever sockets died, when nothing is under way an
\* enabled service is one that the relay can pair with the next phone, on the
\* socket that the service itself takes for the waiting one.
QuietIsReachable ==
    Quiet => \A v \in Servers :
               svc[v].enabled => Listening(v) /\ waiting = svc[v].waiting

\* The waiting connection is persistent: when the faults are over and no phone
\* comes, the service stops opening new ones.
WaitingPersists ==
    <>[](\A v \in Servers : svc[v].connecting = NoSocket)
=============================================================================
