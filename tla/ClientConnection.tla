-------------------------- MODULE ClientConnection --------------------------
(***************************************************************************)
(* How a phone stays connected: ConnectionManager.ts decides when to       *)
(* reconnect, SecureConnection.ts (over the relay, resuming a stored       *)
(* session) builds the transport, ActivityBus subscribes over it through   *)
(* RelayProtocol.ts, and the server's ws-srp-handlers.ts answers the       *)
(* resume handshake.                                                       *)
(*                                                                         *)
(* reconnectThroughRelay() makes one WebSocket per attempt, so an attempt  *)
(* is named by its socket.  Everything between two events of the browser   *)
(* (promise reactions included) is one action; its operators take and      *)
(* return the whole state w of the client.                                 *)
(***************************************************************************)
EXTENDS Naturals, Sequences, FiniteSets, SequencesExt

CONSTANTS
    Sockets,       \* sockets alive at once
    Subs,          \* ids of activity subscriptions alive at once
    NoSocket, NoSub,
    OldKey,        \* the key of a socket that is gone
    MaxAttempts,   \* config.maxAttempts
    MaxFetches,    \* API calls that find no connection
    MaxVisible,    \* times that the page becomes visible again
    MaxStops,      \* disconnect() of the bus
    MaxFaults      \* broken connections and refusals of the relay

ASSUME ClientConstants ==
    /\ {NoSocket, OldKey} \cap Sockets = {} /\ NoSocket # OldKey
    /\ {NoSub, "manager", "fetch"} \cap Subs = {}
    /\ IsFiniteSet(Sockets) /\ Sockets # {} /\ MaxAttempts \in Nat \ {0}
    /\ {MaxFetches, MaxVisible, MaxStops, MaxFaults} \subseteq Nat

VARIABLES
    cm,            \* ConnectionManager
    sc,            \* SecureConnection: ws, connectionState, sessionKey, connectionPromise
    net,           \* the sockets, with the attempt that made each
    bus,           \* ActivityBus.wsSubscription
    subs,          \* RelayProtocol.subscriptions
    alone,         \* history: there was never more than one attempt at a time
    used           \* what the bounds count

vars == <<cm, sc, net, bus, subs, alone, used>>

Waiter == Subs \cup {NoSub, "manager", "fetch"}

Up == {"init", "proof", "badproof", "subscribe", "ping", "garbled"}
Down == {"connected", "offline", "unknown", "challenge", "resumed", "invalid",
         "opened", "pong", "close"}

Msg(type, q) == [type |-> type, sub |-> q]

Unused == [near |-> "none",         \* readyState
           on |-> "none",           \* which handlers the socket has
           far |-> "none",          \* the other end
           up |-> <<>>, down |-> <<>>,
           subs |-> {},             \* subscriptions at the server
           running |-> FALSE,       \* the attempt's promise is not settled
           waiters |-> {},          \* who awaits it
           timer |-> FALSE]         \* its resumeTimeout

Stopped == [state |-> "disconnected", started |-> FALSE, attempts |-> 0,
            timer |-> FALSE, current |-> NoSocket, ping |-> FALSE,
            heartbeat |-> FALSE]

\* The user has logged in over a socket and the page is about to show.
Init ==
    /\ cm = Stopped
    /\ \E s \in Sockets :
         /\ s = CHOOSE t \in Sockets : TRUE
         /\ sc = [ws |-> s, auth |-> "authenticated", key |-> s, promise |-> NoSocket]
         /\ net = [t \in Sockets |->
                     IF t = s THEN [Unused EXCEPT !.near = "open", !.on = "message",
                                                  !.far = "authed"]
                     ELSE Unused]
    /\ bus = NoSub /\ subs = {} /\ alone = TRUE
    /\ used = [fetches |-> 0, visible |-> 0, stops |-> 0, faults |-> 0]

-----------------------------------------------------------------------------
\* The state as one value, and what may be forgotten of it.

Now == [cm |-> cm, sc |-> sc, net |-> net, bus |-> bus, subs |-> subs]

\* A closed socket that nobody can hear of any more.
IsGarbage(w, s) ==
    /\ \/ w.net[s].near = "closed"
       \/ w.net[s].near = "closing" /\ w.net[s].on \notin {"resume", "message"}
    /\ ~w.net[s].timer
    /\ s \notin {w.sc.ws, w.sc.promise, w.cm.current}

\* Subscriptions that the phone has dropped are all alike.
Known(w, q) == IF q \in Subs \ w.subs THEN NoSub ELSE q

Renamed(w, msgs) == [i \in DOMAIN msgs |-> [msgs[i] EXCEPT !.sub = Known(w, @)]]

Forget(w, n) ==
    [n EXCEPT !.waiters = {Known(w, q) : q \in @}, !.subs = @ \cap w.subs,
              !.up = Renamed(w, @), !.down = Renamed(w, @)]

Become(w) ==
    /\ cm' = w.cm /\ bus' = w.bus /\ subs' = w.subs
    /\ alone' = (alone /\ Cardinality({s \in Sockets : w.net[s].running}) <= 1)
    /\ sc' = [w.sc EXCEPT !.key = IF @ \in Sockets /\ IsGarbage(w, @) THEN OldKey ELSE @]
    /\ net' = [s \in Sockets |-> IF IsGarbage(w, s) THEN Unused ELSE Forget(w, w.net[s])]

FreeSocket(w) == CHOOSE s \in Sockets : w.net[s].near = "none"

FreeSub(w) == CHOOSE q \in Subs : q \notin w.subs

-----------------------------------------------------------------------------
\* WebSockets.

PushAll(n, msgs) ==
    IF n.near = "open" /\ n.far # "gone" THEN [n EXCEPT !.up = @ \o msgs] ELSE n

Push(n, type) == PushAll(n, <<Msg(type, NoSub)>>)

\* close(): nothing is delivered at this end any more but the close event.
Close(n) ==
    IF n.near \in {"connecting", "open"}
    THEN [n EXCEPT !.near = "closing", !.far = "gone", !.up = <<>>, !.down = <<>>]
    ELSE n

CloseSocket(w, s) ==
    IF s = NoSocket THEN w ELSE [w EXCEPT !.net[s] = Close(@)]

IsOpen(w, s) == s # NoSocket /\ w.net[s].near = "open"

-----------------------------------------------------------------------------
\* ConnectionManager.

\* Mutant: one attempt too many.
ScheduleReconnectOnceMore(w) ==
    IF ~w.cm.started THEN w
    ELSE IF w.cm.attempts > MaxAttempts
    THEN [w EXCEPT !.cm.state = "disconnected"]
    ELSE [w EXCEPT !.cm.attempts = @ + 1, !.cm.timer = TRUE]

ScheduleReconnect(w) ==
    IF ~w.cm.started THEN w
    ELSE IF w.cm.attempts >= MaxAttempts
    THEN [w EXCEPT !.cm.state = "disconnected"]
    ELSE [w EXCEPT !.cm.attempts = @ + 1, !.cm.timer = TRUE]

StartReconnecting(w) ==
    ScheduleReconnect([w EXCEPT !.cm.ping = FALSE, !.cm.state = "reconnecting"])

\* handleError() and handleClose().
HandleError(w, retryable) ==
    IF w.cm.state = "reconnecting" THEN w
    ELSE IF retryable THEN StartReconnecting(w)
    ELSE [w EXCEPT !.cm.state = "disconnected"]

ForceReconnect(w) ==
    StartReconnecting([w EXCEPT !.cm.attempts = 0, !.cm.timer = FALSE,
                                !.cm.current = NoSocket])

-----------------------------------------------------------------------------
\* RelayProtocol and ActivityBus.

\* onError of the bus: it forgets whatever subscription it has.
OnError(w, retryable) == HandleError([w EXCEPT !.bus = NoSub], retryable)

\* onError and then onClose of every subscription.
NotifySubscriptionsClosed(w) ==
    IF w.subs = {} THEN w
    ELSE OnError(OnError([w EXCEPT !.subs = {}], TRUE), TRUE)

\* send() with the current key over the current socket, once for each of qs.
CanSend(w) == IsOpen(w, w.sc.ws) /\ w.sc.key # NoSocket

Send(w, type, qs) ==
    [w EXCEPT !.net[w.sc.ws] =
        PushAll(@, [i \in DOMAIN qs |->
                      Msg(IF w.sc.key = w.sc.ws THEN type ELSE "garbled", qs[i])])]

\* What follows ensureConnected() in subscribeActivity(), for all the
\* subscriptions Q that awaited the same promise: they fare alike, and what
\* onError does for one it need not do again for the next.
SubscribeFailed(w, Q, retryable) ==
    IF Q = {} THEN w ELSE OnError([w EXCEPT !.subs = @ \ Q], retryable)

SendSubscribe(w, Q) ==
    IF CanSend(w) THEN Send(w, "subscribe", SetToSeq(Q))
    ELSE SubscribeFailed(w, Q, TRUE)

-----------------------------------------------------------------------------
\* SecureConnection: attempts.

\* connectAndAuthenticate() up to the first await of reconnectThroughRelay().
NewAttempt(w, who) ==
    LET s == FreeSocket(w)
    IN [w EXCEPT !.sc.promise = s, !.sc.auth = "connecting",
                 !.net[s] = [Unused EXCEPT !.near = "connecting", !.on = "open",
                                           !.running = TRUE, !.waiters = {who}]]

IsConnected(w) == IsOpen(w, w.sc.ws) /\ w.sc.auth = "authenticated"

\* ensureConnected() for a caller that must wait.
Await(w, who) ==
    IF w.sc.promise # NoSocket
    THEN [w EXCEPT !.net[w.sc.promise].waiters = @ \cup {who}]
    ELSE NewAttempt(w, who)

SubscribeActivity(w) ==
    LET q == FreeSub(w)
        v == [w EXCEPT !.bus = q, !.subs = @ \cup {q}]
    IN IF IsConnected(v) THEN SendSubscribe(v, {q}) ELSE Await(v, q)

\* Mutant: the backoff timer stays armed.
MarkConnectedKeepsTimer(w) ==
    LET v == [w EXCEPT !.cm.attempts = 0, !.cm.current = NoSocket,
                       !.cm.state = "connected"]
    IN IF w.cm.state # "connected" /\ w.cm.started /\ w.bus = NoSub
       THEN SubscribeActivity(v) ELSE v

\* markConnected(), and the bus's stateChange listener.
MarkConnected(w) ==
    LET v == [w EXCEPT !.cm.attempts = 0, !.cm.current = NoSocket,
                       !.cm.timer = FALSE, !.cm.state = "connected"]
    IN IF w.cm.state # "connected" /\ w.cm.started /\ w.bus = NoSub
       THEN SubscribeActivity(v) ELSE v

\* The rejection handler of executeReconnect().
AttemptFailed(w, retryable) ==
    LET v == [w EXCEPT !.cm.current = NoSocket]
    IN IF retryable THEN ScheduleReconnect(v)
       ELSE [v EXCEPT !.cm.state = "disconnected"]

\* The promise of s settles; everybody who awaited it goes on.  Its creator
\* clears connectionPromise, whichever attempt that is by now.
Settled(w, s) ==
    [w EXCEPT !.sc.promise = NoSocket, !.net[s].running = FALSE,
              !.net[s].waiters = {}, !.net[s].timer = FALSE]

Subscribers(w, s) == w.net[s].waiters \ {"manager", "fetch"}

Resolve(w, s) ==
    IF ~w.net[s].running THEN w
    ELSE LET v == SendSubscribe(Settled(w, s), Subscribers(w, s))
         IN IF w.cm.current = s THEN MarkConnected(v) ELSE v

Reject(w, s, retryable) ==
    IF ~w.net[s].running THEN w
    ELSE LET v == SubscribeFailed(Settled(w, s), Subscribers(w, s), retryable)
         IN IF w.cm.current = s THEN AttemptFailed(v, retryable) ELSE v

\* forceReconnect() of the connection, as the manager's reconnectFn.
ExecuteReconnect(w) ==
    LET old == w.sc.ws
        v == IF old = NoSocket THEN w
             ELSE [w EXCEPT !.net[old] = Close([@ EXCEPT !.on = "none"]),
                            !.sc.ws = NoSocket]
        u == [NotifySubscriptionsClosed(v) EXCEPT !.sc.auth = "disconnected",
                                                  !.sc.promise = NoSocket]
        t == NewAttempt(u, "manager")
    IN [t EXCEPT !.cm.current = t.sc.promise]

\* resumeOnExistingSocket(), on a socket that is paired with the server.
ResumeOnExistingSocket(w, s) ==
    [w EXCEPT !.sc.ws = s, !.sc.auth = "srp_resume_init_sent",
              !.net[s] = Push([@ EXCEPT !.on = "resume", !.timer = TRUE], "init")]

\* Mutant: an attempt is not told that its socket has closed.
HandleSocketCloseSilently(w, s) ==
    LET v == [w EXCEPT !.sc.ws = NoSocket, !.sc.key = NoSocket]
    IN IF w.sc.auth = "authenticated"
       THEN NotifySubscriptionsClosed(
              HandleError([v EXCEPT !.sc.auth = "disconnected"], TRUE))
       ELSE NotifySubscriptionsClosed([v EXCEPT !.sc.auth = "failed"])

\* handleSocketClose().
HandleSocketClose(w, s) ==
    LET v == [w EXCEPT !.sc.ws = NoSocket, !.sc.key = NoSocket]
    IN IF w.sc.auth = "authenticated"
       THEN NotifySubscriptionsClosed(
              HandleError([v EXCEPT !.sc.auth = "disconnected"], TRUE))
       ELSE Reject(NotifySubscriptionsClosed([v EXCEPT !.sc.auth = "failed"]), s, TRUE)

-----------------------------------------------------------------------------
\* Events at the phone.

Count(what, max) == used[what] < max /\ used' = [used EXCEPT ![what] = @ + 1]

\* Where an attempt may begin, there is a socket for it, and where the bus may
\* subscribe, an id.
SocketsLeft(n) == Cardinality({s \in Sockets : net[s].near = "none"}) >= n

SubsLeft == subs # Subs

\* connect() of the bus, which starts the manager.
Connect ==
    /\ ~cm.started /\ bus = NoSub /\ SocketsLeft(1) /\ SubsLeft
    /\ Become(SubscribeActivity([Now EXCEPT !.cm.started = TRUE, !.cm.state = "connected"]))
    /\ UNCHANGED used

\* disconnect() of the bus, which stops the manager.
Disconnect ==
    /\ cm.started
    /\ Count("stops", MaxStops)
    /\ Become([Now EXCEPT !.bus = NoSub, !.subs = @ \ {bus},
                          !.cm = [Stopped EXCEPT !.attempts = cm.attempts]])

\* Any API call: ensureConnected().
Fetch ==
    /\ ~IsConnected(Now) /\ SocketsLeft(2)
    /\ Count("fetches", MaxFetches)
    /\ Become(Await(Now, "fetch"))

BackoffTimer ==
    /\ cm.timer /\ SocketsLeft(1)
    /\ LET w == [Now EXCEPT !.cm.timer = FALSE]
       IN Become(IF cm.current = NoSocket THEN ExecuteReconnect(w) ELSE w)
    /\ UNCHANGED used

\* Heartbeats reach a handler of the bus.
Flowing ==
    \E s \in Sockets : /\ net[s].near = "open" /\ net[s].on = "message"
                       /\ net[s].far = "authed" /\ sc.key = s
                       /\ net[s].subs \cap subs # {}

Heartbeat ==
    /\ Flowing /\ ~cm.heartbeat
    /\ Become([Now EXCEPT !.cm.heartbeat = TRUE])
    /\ UNCHANGED used

\* checkStale(): no event for longer than the server's heartbeat interval.
CheckStale ==
    /\ cm.started /\ cm.state = "connected" /\ cm.heartbeat /\ ~Flowing
    /\ Become(ForceReconnect(Now))
    /\ UNCHANGED used

\* handleBecameVisible().
BecomeVisible ==
    /\ cm.started /\ cm.state = "connected"
    /\ Count("visible", MaxVisible)
    /\ Become(IF CanSend(Now) THEN [Send(Now, "ping", <<NoSub>>) EXCEPT !.cm.ping = TRUE]
              ELSE ForceReconnect([Now EXCEPT !.cm.ping = FALSE]))

PongTimeout ==
    /\ cm.ping
    /\ Become(ForceReconnect([Now EXCEPT !.cm.ping = FALSE]))
    /\ UNCHANGED used

\* The socket of an attempt opens, or fails to within its time.
Opens(s) ==
    /\ net[s].near = "connecting"
    /\ Become([Now EXCEPT !.net[s].near = "open", !.net[s].far = "relay",
                          !.net[s].on = "pair"])
    /\ UNCHANGED used

OpenFails(s) ==
    /\ net[s].near = "connecting"
    /\ Count("faults", MaxFaults)
    /\ Become(Reject(CloseSocket([Now EXCEPT !.net[s].on = "none"], s), s, TRUE))

\* "Waiting for server timed out".
PairTimeout(s) ==
    /\ net[s].near = "open" /\ net[s].on = "pair"
    /\ Count("faults", MaxFaults)
    /\ Become(Reject(CloseSocket(Now, s), s, TRUE))

\* No answer is on its way; a timeout that does not wait for it is a fault.
Silent(s) == net[s].near = "open" => net[s].up \o net[s].down = <<>>

ResumeTimeout(s) ==
    /\ net[s].timer
    /\ LET w == [Now EXCEPT !.net[s].timer = FALSE]
       IN Become(IF sc.auth \in {"srp_resume_init_sent", "srp_resume_proof_sent"}
                 THEN Reject(CloseSocket([w EXCEPT !.sc.auth = "failed"], s), s, TRUE)
                 ELSE w)
    /\ IF Silent(s) THEN UNCHANGED used ELSE Count("faults", MaxFaults)

-----------------------------------------------------------------------------
\* Messages at the phone: the handlers of a socket s and its next message m.

\* While it waits to be paired.
OnPairMessage(w, s, m) ==
    CASE m.type \in {"offline", "unknown"} ->
           Reject(CloseSocket(w, s), s, m.type # "unknown")
      [] OTHER -> ResumeOnExistingSocket(w, s)

\* handleSrpResumeResponse() of s, which sends on, closes and sets the
\* handlers of whatever socket is the current one.
ResumeFails(w, s) ==
    Reject(CloseSocket([w EXCEPT !.sc.auth = "failed"], w.sc.ws), s, TRUE)

ResumeChallenged(w, s) ==
    LET v == [w EXCEPT !.sc.auth = "srp_resume_proof_sent"]
    IN IF w.sc.ws = NoSocket THEN v
       ELSE [v EXCEPT !.net[w.sc.ws] =
               Push(@, IF w.sc.ws = s THEN "proof" ELSE "badproof")]

\* Mutant: a key that is there is not derived again.
SessionResumedOldKey(w, s) ==
    LET v == [w EXCEPT !.sc.key = IF @ = NoSocket THEN s ELSE @, !.sc.auth = "authenticated"]
        u == IF w.sc.ws = NoSocket THEN v ELSE [v EXCEPT !.net[w.sc.ws].on = "message"]
    IN Resolve(u, s)

\* The capabilities that are sent here matter only under a wrong key.
SessionResumed(w, s) ==
    LET v == [w EXCEPT !.sc.key = s, !.sc.auth = "authenticated"]
        u == IF w.sc.ws = NoSocket THEN v ELSE [v EXCEPT !.net[w.sc.ws].on = "message"]
    IN Resolve(IF w.sc.ws \in {s, NoSocket} THEN u
               ELSE [u EXCEPT !.net[w.sc.ws] = Push(@, "garbled")], s)

OnResumeMessage(w, s, m) ==
    LET v == [w EXCEPT !.net[s].timer = TRUE]
    IN CASE m.type = "challenge" -> ResumeChallenged(v, s)
         [] m.type = "resumed" -> SessionResumed(v, s)
         [] OTHER -> ResumeFails(v, s)

\* No ping was sent after the one that a pong answers.
IsLastPong(n) == \A m \in Range(n.up \o n.down) : m.type \notin {"ping", "pong"}

\* handleMessage() and routeMessage(): what does not decrypt is dropped.
OnMessage(w, s, m) ==
    IF w.sc.key # s THEN w
    ELSE CASE m.type = "opened" /\ m.sub \in w.subs -> MarkConnected(w)
           [] m.type = "pong" /\ IsLastPong(w.net[s]) -> [w EXCEPT !.cm.ping = FALSE]
           [] OTHER -> w

\* The close event.
OnClose(w, s) ==
    LET v == [w EXCEPT !.net[s].near = "closed"]
    IN CASE w.net[s].on = "pair" -> Reject(v, s, TRUE)
         [] w.net[s].on \in {"resume", "message"} -> HandleSocketClose(v, s)
         [] OTHER -> v

Receives(s) ==
    /\ net[s].near = "open" /\ net[s].down # <<>> /\ SocketsLeft(1) /\ SubsLeft
    /\ LET m == Head(net[s].down)
           w == [Now EXCEPT !.net[s].down = Tail(@)]
       IN Become(CASE m.type = "close" -> OnClose(w, s)
                   [] m.type # "close" /\ net[s].on = "pair" -> OnPairMessage(w, s, m)
                   [] m.type # "close" /\ net[s].on = "resume" -> OnResumeMessage(w, s, m)
                   [] m.type # "close" /\ net[s].on = "message" -> OnMessage(w, s, m)
                   [] OTHER -> w)
    /\ UNCHANGED used

\* The close event of a socket that this end has closed.
CloseEvent(s) ==
    /\ net[s].near = "closing"
    /\ Become(OnClose(Now, s))
    /\ UNCHANGED used

-----------------------------------------------------------------------------
\* The relay and the server.

Deliver(n, type, q) == [n EXCEPT !.down = Append(@, Msg(type, q))]

Hangup(n) == [Deliver(n, "close", NoSub) EXCEPT !.far = "gone", !.up = <<>>]

At(s, n) == Become([Now EXCEPT !.net[s] = n])

RelayPairs(s) ==
    /\ net[s].far = "relay"
    /\ At(s, [Deliver(net[s], "connected", NoSub) EXCEPT !.far = "server"])
    /\ UNCHANGED used

RelayRefuses(s) ==
    /\ net[s].far = "relay"
    /\ Count("faults", MaxFaults)
    /\ \E reason \in {"offline", "unknown"} :
         At(s, Hangup(Deliver(net[s], reason, NoSub)))

Drop(s) ==
    /\ net[s].near = "open" /\ net[s].far # "gone"
    /\ Count("faults", MaxFaults)
    /\ At(s, Hangup(net[s]))

\* handleSrpResumeInit(): a nonce for this socket.
HandleSrpResumeInit(n) ==
    IF n.far = "authed" THEN Deliver(n, "invalid", NoSub)
    ELSE [Deliver(n, "challenge", NoSub) EXCEPT !.far = "challenged"]

\* handleSrpResume(): the proof must answer the nonce of this socket.
HandleSrpResume(n, type) ==
    CASE n.far = "challenged" /\ type = "proof" ->
           [Deliver(n, "resumed", NoSub) EXCEPT !.far = "authed"]
      [] n.far = "challenged" /\ type # "proof" ->
           [Deliver(n, "invalid", NoSub) EXCEPT !.far = "server"]
      [] OTHER -> Deliver(n, "invalid", NoSub)

\* Encrypted messages; before authentication they are not understood.
HandleEncrypted(n, m) ==
    CASE n.far # "authed" -> n
      [] n.far = "authed" /\ m.type = "garbled" -> Hangup(n)
      [] n.far = "authed" /\ m.type = "ping" -> Deliver(n, "pong", NoSub)
      [] OTHER -> [Deliver(n, "opened", m.sub) EXCEPT !.subs = @ \cup {m.sub}]

ServerReceives(s) ==
    /\ net[s].far \in {"server", "challenged", "authed"} /\ net[s].up # <<>>
    /\ LET m == Head(net[s].up)
           n == [net[s] EXCEPT !.up = Tail(@)]
       IN At(s, CASE m.type = "init" -> HandleSrpResumeInit(n)
                  [] m.type \in {"proof", "badproof"} -> HandleSrpResume(n, m.type)
                  [] OTHER -> HandleEncrypted(n, m))
    /\ UNCHANGED used

-----------------------------------------------------------------------------
Next ==
    \/ Connect \/ Disconnect \/ Fetch \/ Heartbeat \/ BecomeVisible
    \/ BackoffTimer \/ CheckStale \/ PongTimeout
    \/ \E s \in Sockets :
         \/ Opens(s) \/ OpenFails(s) \/ PairTimeout(s) \/ ResumeTimeout(s)
         \/ Receives(s) \/ CloseEvent(s)
         \/ RelayPairs(s) \/ RelayRefuses(s) \/ Drop(s) \/ ServerReceives(s)

Spec == Init /\ [][Next]_vars

-----------------------------------------------------------------------------
\* Every variable has its type; attempts stay within maxAttempts.
TypeOK ==
    /\ cm \in [state : {"connected", "reconnecting", "disconnected"},
               started : BOOLEAN, attempts : 0 .. MaxAttempts, timer : BOOLEAN,
               current : Sockets \cup {NoSocket}, ping : BOOLEAN, heartbeat : BOOLEAN]
    /\ sc \in [ws : Sockets \cup {NoSocket}, key : Sockets \cup {NoSocket, OldKey},
               promise : Sockets \cup {NoSocket},
               auth : {"disconnected", "connecting", "srp_resume_init_sent",
                       "srp_resume_proof_sent", "authenticated", "failed"}]
    /\ bus \in Subs \cup {NoSub} /\ subs \subseteq Subs
    /\ \A s \in Sockets :
         /\ net[s].near \in {"none", "connecting", "open", "closing", "closed"}
         /\ net[s].on \in {"none", "open", "pair", "resume", "message"}
         /\ net[s].far \in {"none", "relay", "server", "challenged", "authed", "gone"}
         /\ net[s].up \in Seq([type : Up, sub : Subs \cup {NoSub}])
         /\ net[s].down \in Seq([type : Down, sub : Subs \cup {NoSub}])
         /\ net[s].subs \subseteq Subs /\ net[s].waiters \subseteq Waiter
         /\ net[s].running \in BOOLEAN /\ net[s].timer \in BOOLEAN

\* A started manager that shows "reconnecting" has either its backoff timer
\* armed or one attempt under way, never both, and in every other state it has
\* neither: whatever order closes, errors, forced reconnects, late attempts,
\* subscriptions that open and stops come in, no timer fires behind a
\* connection and no reconnection is dropped (ConnectionManager.ts).
OnePursuit ==
    /\ cm.timer => cm.current = NoSocket
    /\ cm.started /\ cm.state = "reconnecting" <=> cm.timer \/ cm.current # NoSocket

\* While attempts do not overlap, an authenticated connection encrypts with the
\* key that was derived for the socket it sends on, although a reconnection
\* keeps the old key and late messages of old sockets are still handled.
KeyFits == alone /\ IsConnected(Now) => sc.key = sc.ws

\* No event is on its way and no timer is armed.
Quiet ==
    /\ ~cm.timer /\ ~cm.ping
    /\ ~(cm.started /\ cm.state = "connected" /\ cm.heartbeat /\ ~Flowing)
    /\ \A s \in Sockets :
         /\ net[s].near \notin {"connecting", "closing"} /\ ~net[s].timer
         /\ net[s].near = "open" => net[s].up \o net[s].down = <<>> /\ net[s].far # "relay"

\* The attempt under way is disowned: an older socket closed late, and its
\* handleSocketClose() took the connection's socket and state from the attempt,
\* which neither sends its proof nor is rejected by its timeout any more.
Disowned ==
    /\ sc.ws = NoSocket /\ sc.auth = "failed"
    /\ \E s \in Sockets : net[s].running /\ net[s].near = "open"

\* While attempts do not overlap, the client comes to rest only connected, with
\* the bus's subscription open at the server over a working socket, or having
\* given up, or with its attempt disowned: every failure of an attempt that is
\* not reaches the manager, and every reconnection reaches the bus.
QuietIsSettled ==
    Quiet /\ alone /\ cm.started => \/ cm.state = "disconnected"
                                    \/ cm.state = "connected" /\ Flowing
                                    \/ Disowned

\* What ConnectionManager.ts says of its state "reconnecting", for any overlap
\* of attempts: something is going on that can end it.
ReconnectingIsPursued == Quiet /\ cm.started => cm.state # "reconnecting"
=============================================================================
