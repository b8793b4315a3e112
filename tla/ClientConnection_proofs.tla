----------------------- MODULE ClientConnection_proofs -----------------------
(***************************************************************************)
(* Proofs about ClientConnection, for any sockets, any subscriptions and   *)
(* any number of attempts, stops and faults.                               *)
(***************************************************************************)
EXTENDS ClientConnection, FiniteSetTheorems, TLAPS

-----------------------------------------------------------------------------
(* The state of the client as one value.                                   *)

Manager == [state : {"connected", "reconnecting", "disconnected"},
            started : BOOLEAN, attempts : 0 .. MaxAttempts, timer : BOOLEAN,
            current : Sockets \cup {NoSocket}, ping : BOOLEAN, heartbeat : BOOLEAN]

Secure == [ws : Sockets \cup {NoSocket}, key : Sockets \cup {NoSocket, OldKey},
           promise : Sockets \cup {NoSocket},
           auth : {"disconnected", "connecting", "srp_resume_init_sent",
                   "srp_resume_proof_sent", "authenticated", "failed"}]

UpMessage == [type : Up, sub : Subs \cup {NoSub}]

DownMessage == [type : Down, sub : Subs \cup {NoSub}]

Socket == [near : {"none", "connecting", "open", "closing", "closed"},
           on : {"none", "open", "pair", "resume", "message"},
           far : {"none", "relay", "server", "challenged", "authed", "gone"},
           up : Seq(UpMessage), down : Seq(DownMessage),
           subs : SUBSET (Subs \cup {NoSub}), running : BOOLEAN,
           waiters : SUBSET Waiter, timer : BOOLEAN]

Client == [cm : Manager, sc : Secure, net : [Sockets -> Socket],
           bus : Subs \cup {NoSub}, subs : SUBSET Subs]

\* Only finitely many await one attempt.
Awaited(w) == \A s \in Sockets : IsFiniteSet(w.net[s].waiters)

ClientOK(w) == w \in Client /\ Awaited(w)

\* There is a socket and an id for whoever needs one.
Room(w) ==
    /\ \E s \in Sockets : w.net[s].near = "none"
    /\ w.subs # Subs

\* OnePursuit of the state w.
Pursuit(w) ==
    /\ w.cm.timer => w.cm.current = NoSocket
    /\ w.cm.started /\ w.cm.state = "reconnecting" <=> w.cm.timer \/ w.cm.current # NoSocket

-----------------------------------------------------------------------------
(* Records one field at a time.                                            *)

\* Replacing the manager leaves a client.
LEMMA CmReplaced ==
    ASSUME NEW w, ClientOK(w), NEW c \in Manager
    PROVE  /\ ClientOK([w EXCEPT !.cm = c])
           /\ [w EXCEPT !.cm = c].cm = c
           /\ [w EXCEPT !.cm = c].sc = w.sc
           /\ [w EXCEPT !.cm = c].net = w.net
           /\ [w EXCEPT !.cm = c].bus = w.bus
           /\ [w EXCEPT !.cm = c].subs = w.subs
  BY DEF ClientOK, Client, Awaited

\* Replacing the secure connection leaves a client.
LEMMA ScReplaced ==
    ASSUME NEW w, ClientOK(w), NEW c \in Secure
    PROVE  /\ ClientOK([w EXCEPT !.sc = c])
           /\ [w EXCEPT !.sc = c].sc = c
           /\ [w EXCEPT !.sc = c].cm = w.cm
           /\ [w EXCEPT !.sc = c].net = w.net
           /\ [w EXCEPT !.sc = c].bus = w.bus
           /\ [w EXCEPT !.sc = c].subs = w.subs
  BY DEF ClientOK, Client, Awaited

\* Replacing one socket leaves a client, whose other sockets are as they were.
LEMMA NetReplaced ==
    ASSUME NEW w, ClientOK(w), NEW s \in Sockets, NEW n \in Socket,
           IsFiniteSet(n.waiters)
    PROVE  /\ ClientOK([w EXCEPT !.net[s] = n])
           /\ [w EXCEPT !.net[s] = n].net[s] = n
           /\ \A t \in Sockets \ {s} : [w EXCEPT !.net[s] = n].net[t] = w.net[t]
           /\ [w EXCEPT !.net[s] = n].cm = w.cm
           /\ [w EXCEPT !.net[s] = n].sc = w.sc
           /\ [w EXCEPT !.net[s] = n].bus = w.bus
           /\ [w EXCEPT !.net[s] = n].subs = w.subs
<1> DEFINE v == [w EXCEPT !.net[s] = n]
<1>1. /\ w \in Client /\ v = [w EXCEPT !.net = [w.net EXCEPT ![s] = n]]
  BY DEF ClientOK
<1>2. /\ v.net = [w.net EXCEPT ![s] = n] /\ v.cm = w.cm /\ v.sc = w.sc
      /\ v.bus = w.bus /\ v.subs = w.subs /\ v \in Client
  BY <1>1 DEF Client
<1>3. /\ v.net[s] = n /\ \A t \in Sockets \ {s} : v.net[t] = w.net[t]
  BY <1>1, <1>2 DEF Client
<1>4. Awaited(v)
  BY <1>3 DEF ClientOK, Awaited
<1>5. QED
  BY <1>2, <1>3, <1>4 DEF ClientOK

\* Replacing the subscription of the bus leaves a client.
LEMMA BusReplaced ==
    ASSUME NEW w, ClientOK(w), NEW b \in Subs \cup {NoSub}
    PROVE  /\ ClientOK([w EXCEPT !.bus = b])
           /\ [w EXCEPT !.bus = b].bus = b
           /\ [w EXCEPT !.bus = b].cm = w.cm
           /\ [w EXCEPT !.bus = b].sc = w.sc
           /\ [w EXCEPT !.bus = b].net = w.net
           /\ [w EXCEPT !.bus = b].subs = w.subs
  BY DEF ClientOK, Client, Awaited

\* Replacing the open subscriptions leaves a client.
LEMMA SubsReplaced ==
    ASSUME NEW w, ClientOK(w), NEW S \in SUBSET Subs
    PROVE  /\ ClientOK([w EXCEPT !.subs = S])
           /\ [w EXCEPT !.subs = S].subs = S
           /\ [w EXCEPT !.subs = S].cm = w.cm
           /\ [w EXCEPT !.subs = S].sc = w.sc
           /\ [w EXCEPT !.subs = S].net = w.net
           /\ [w EXCEPT !.subs = S].bus = w.bus
  BY DEF ClientOK, Client, Awaited

-----------------------------------------------------------------------------
(* The connection manager.                                                 *)

\* What the manager's own operators may touch: only its part of the state, and an
\* attempt is forgotten or kept but never made.
OnlyManager(w, v) ==
    /\ ClientOK(v)
    /\ v.sc = w.sc /\ v.net = w.net /\ v.bus = w.bus /\ v.subs = w.subs
    /\ v.cm.current \in {w.cm.current, NoSocket}
    /\ v.cm.started = w.cm.started

\* scheduleReconnect() changes only the manager: it arms the timer, or gives up.
LEMMA ScheduleReconnectOK ==
    ASSUME NEW w, ClientOK(w)
    PROVE  /\ OnlyManager(w, ScheduleReconnect(w))
           /\ ScheduleReconnect(w).cm.current = w.cm.current
           /\ w.cm.started /\ w.cm.state = "reconnecting" /\ w.cm.current = NoSocket
              /\ ~w.cm.timer => Pursuit(ScheduleReconnect(w))
           /\ ~w.cm.started => ScheduleReconnect(w) = w
<1> USE ClientConstants
<1>0. w \in Client /\ w.cm \in Manager
  BY DEF ClientOK, Client
<1>1. CASE ~w.cm.started
  BY <1>0, <1>1 DEF ScheduleReconnect, OnlyManager
<1>2. CASE w.cm.started /\ w.cm.attempts >= MaxAttempts
  <2> DEFINE c == [w.cm EXCEPT !.state = "disconnected"]
  <2>1. c \in Manager /\ c.current = w.cm.current /\ c.started = w.cm.started
        /\ c.state = "disconnected" /\ c.timer = w.cm.timer
    BY <1>0 DEF Manager
  <2>2. ScheduleReconnect(w) = [w EXCEPT !.cm = c]
    BY <1>2 DEF ScheduleReconnect
  <2> HIDE DEF c
  <2>3. OnlyManager(w, ScheduleReconnect(w)) /\ ScheduleReconnect(w).cm = c
    BY <2>1, <2>2, CmReplaced DEF OnlyManager
  <2>4. w.cm.current = NoSocket /\ ~w.cm.timer => Pursuit(ScheduleReconnect(w))
    BY <2>1, <2>3 DEF Pursuit
  <2>5. QED
    BY <1>2, <2>1, <2>3, <2>4
<1>3. CASE w.cm.started /\ ~(w.cm.attempts >= MaxAttempts)
  <2> DEFINE c == [w.cm EXCEPT !.attempts = w.cm.attempts + 1, !.timer = TRUE]
  <2>1. c \in Manager /\ c.current = w.cm.current /\ c.started = w.cm.started
        /\ c.state = w.cm.state /\ c.timer = TRUE
    <3>1. w.cm.attempts + 1 \in 0 .. MaxAttempts
      BY <1>0, <1>3 DEF Manager
    <3>2. QED
      BY <1>0, <3>1 DEF Manager
  <2>2. ScheduleReconnect(w) = [w EXCEPT !.cm = c]
    BY <1>3 DEF ScheduleReconnect
  <2> HIDE DEF c
  <2>3. OnlyManager(w, ScheduleReconnect(w)) /\ ScheduleReconnect(w).cm = c
    BY <2>1, <2>2, CmReplaced DEF OnlyManager
  <2>4. w.cm.started /\ w.cm.state = "reconnecting" /\ w.cm.current = NoSocket
        => Pursuit(ScheduleReconnect(w))
    BY <2>1, <2>3 DEF Pursuit
  <2>5. QED
    BY <1>3, <2>1, <2>3, <2>4
<1>4. QED
  BY <1>1, <1>2, <1>3

\* startReconnecting() changes only the manager, and pursues a connection.
LEMMA StartReconnectingOK ==
    ASSUME NEW w, ClientOK(w)
    PROVE  /\ OnlyManager(w, StartReconnecting(w))
           /\ w.cm.current = NoSocket /\ ~w.cm.timer => Pursuit(StartReconnecting(w))
<1> DEFINE c == [w.cm EXCEPT !.ping = FALSE, !.state = "reconnecting"]
<1> DEFINE v == [w EXCEPT !.cm = c]
<1>1. c \in Manager /\ c.current = w.cm.current /\ c.started = w.cm.started
      /\ c.state = "reconnecting" /\ c.timer = w.cm.timer
  BY DEF ClientOK, Client, Manager
<1>2. StartReconnecting(w) = ScheduleReconnect(v)
  BY DEF StartReconnecting
<1>3. ClientOK(v) /\ v.cm = c /\ v.sc = w.sc /\ v.net = w.net /\ v.bus = w.bus
      /\ v.subs = w.subs
  BY <1>1, CmReplaced
<1> HIDE DEF c, v
<1>4. OnlyManager(w, StartReconnecting(w))
  BY <1>1, <1>2, <1>3, ScheduleReconnectOK DEF OnlyManager
<1>5. ASSUME w.cm.current = NoSocket, ~w.cm.timer
      PROVE  Pursuit(StartReconnecting(w))
  <2>1. CASE w.cm.started
    BY <1>1, <1>2, <1>3, <1>5, <2>1, ScheduleReconnectOK
  <2>2. CASE ~w.cm.started
    BY <1>1, <1>2, <1>3, <1>5, <2>2, ScheduleReconnectOK DEF Pursuit
  <2>3. QED
    BY <2>1, <2>2
<1>6. QED
  BY <1>4, <1>5

\* handleError() changes only the manager, and nothing while it reconnects.
LEMMA HandleErrorOK ==
    ASSUME NEW w, ClientOK(w), NEW r \in BOOLEAN
    PROVE  /\ OnlyManager(w, HandleError(w, r))
           /\ Pursuit(w) => Pursuit(HandleError(w, r))
           /\ w.cm.state = "reconnecting" => HandleError(w, r) = w
<1>1. CASE w.cm.state = "reconnecting"
  BY <1>1 DEF HandleError, OnlyManager
<1>2. CASE w.cm.state # "reconnecting" /\ r
  BY <1>2, StartReconnectingOK DEF HandleError, Pursuit
<1>3. CASE w.cm.state # "reconnecting" /\ ~r
  <2> DEFINE c == [w.cm EXCEPT !.state = "disconnected"]
  <2>1. c \in Manager /\ c.current = w.cm.current /\ c.started = w.cm.started
        /\ c.state = "disconnected" /\ c.timer = w.cm.timer
    BY DEF ClientOK, Client, Manager
  <2>2. HandleError(w, r) = [w EXCEPT !.cm = c]
    BY <1>3 DEF HandleError
  <2> HIDE DEF c
  <2>3. QED
    BY <1>3, <2>1, <2>2, CmReplaced DEF OnlyManager, Pursuit
<1>4. QED
  BY <1>1, <1>2, <1>3

\* forceReconnect() leaves a pursuit, whatever was pursued before.
LEMMA ForceReconnectOK ==
    ASSUME NEW w, ClientOK(w)
    PROVE  OnlyManager(w, ForceReconnect(w)) /\ Pursuit(ForceReconnect(w))
<1> DEFINE c == [w.cm EXCEPT !.attempts = 0, !.timer = FALSE, !.current = NoSocket]
<1> DEFINE v == [w EXCEPT !.cm = c]
<1>1. c \in Manager /\ c.current = NoSocket /\ c.timer = FALSE
      /\ c.started = w.cm.started
  <2>1. 0 \in 0 .. MaxAttempts
    BY ClientConstants
  <2>2. QED
    BY <2>1 DEF ClientOK, Client, Manager
<1>2. ForceReconnect(w) = StartReconnecting(v)
  BY DEF ForceReconnect
<1>3. ClientOK(v) /\ v.cm = c /\ v.sc = w.sc /\ v.net = w.net /\ v.bus = w.bus
      /\ v.subs = w.subs
  BY <1>1, CmReplaced
<1> HIDE DEF c, v
<1>4. QED
  BY <1>1, <1>2, <1>3, StartReconnectingOK DEF OnlyManager

\* The rejected attempt of the manager is followed by a timer or by giving up.
LEMMA AttemptFailedOK ==
    ASSUME NEW w, ClientOK(w), Pursuit(w), w.cm.current # NoSocket, NEW r \in BOOLEAN
    PROVE  OnlyManager(w, AttemptFailed(w, r)) /\ Pursuit(AttemptFailed(w, r))
<1> DEFINE c == [w.cm EXCEPT !.current = NoSocket]
<1> DEFINE v == [w EXCEPT !.cm = c]
<1>1. c \in Manager /\ c.current = NoSocket /\ c.timer = w.cm.timer
      /\ c.started = w.cm.started /\ c.state = w.cm.state
  BY DEF ClientOK, Client, Manager
<1>2. ClientOK(v) /\ v.cm = c /\ v.sc = w.sc /\ v.net = w.net /\ v.bus = w.bus
      /\ v.subs = w.subs
  BY <1>1, CmReplaced
<1>3. /\ v.cm.current = NoSocket /\ ~v.cm.timer /\ v.cm.started
      /\ v.cm.state = "reconnecting"
  BY <1>1, <1>2 DEF Pursuit
<1>4. CASE r
  <2>1. AttemptFailed(w, r) = ScheduleReconnect(v)
    BY <1>4 DEF AttemptFailed
  <2> HIDE DEF c, v
  <2>2. QED
    BY <1>1, <1>2, <1>3, <2>1, ScheduleReconnectOK DEF OnlyManager
<1>5. CASE ~r
  <2> DEFINE d == [v.cm EXCEPT !.state = "disconnected"]
  <2>1. AttemptFailed(w, r) = [v EXCEPT !.cm = d]
    BY <1>5 DEF AttemptFailed
  <2> HIDE DEF v
  <2>2. d \in Manager /\ d.current = NoSocket /\ ~d.timer /\ d.started = v.cm.started
        /\ d.state = "disconnected"
    BY <1>2, <1>3 DEF ClientOK, Client, Manager
  <2> HIDE DEF c, d
  <2>3. /\ ClientOK(AttemptFailed(w, r)) /\ AttemptFailed(w, r).cm = d
        /\ AttemptFailed(w, r).sc = v.sc /\ AttemptFailed(w, r).net = v.net
        /\ AttemptFailed(w, r).bus = v.bus /\ AttemptFailed(w, r).subs = v.subs
    BY <1>2, <2>1, <2>2, CmReplaced
  <2>4. d.started = w.cm.started
    BY <1>1, <1>2, <2>2
  <2>5. OnlyManager(w, AttemptFailed(w, r))
    BY <1>2, <2>2, <2>3, <2>4 DEF OnlyManager
  <2>6. QED
    BY <2>2, <2>3, <2>5 DEF Pursuit
<1>6. QED
  BY <1>4, <1>5

-----------------------------------------------------------------------------
(* What may happen to the sockets while subscriptions are told and made.    *)

Chatter == [type : {"subscribe", "ping", "garbled"}, sub : Subs \cup {NoSub}]

\* The sequence b is a with encrypted messages after it.
Longer(a, b) ==
    /\ Len(a) <= Len(b)
    /\ \A i \in 1 .. Len(a) : b[i] = a[i]
    /\ \A i \in Len(a) + 1 .. Len(b) : b[i] \in Chatter

\* A socket is as it was, but for more encrypted messages under way to the server.
SameSocket(n, m) ==
    /\ m.near = n.near /\ m.on = n.on /\ m.far = n.far /\ m.down = n.down
    /\ \/ m.up = n.up
       \/ n.near = "open" /\ n.far # "gone" /\ Longer(n.up, m.up)

\* From w to v, subscriptions were told of success or failure: no attempt began or
\* ended, and a manager that was reconnecting took no notice.
Calm(w, v) ==
    /\ ClientOK(v) /\ v.sc = w.sc /\ v.subs \subseteq w.subs
    /\ v.cm.started = w.cm.started /\ v.cm.current \in {w.cm.current, NoSocket}
    /\ Pursuit(w) => Pursuit(v)
    /\ w.cm.state = "reconnecting" => v.cm = w.cm
    /\ \A t \in Sockets : /\ SameSocket(w.net[t], v.net[t])
                          /\ v.net[t].running = w.net[t].running

\* The socket of an attempt that has just begun.
Fresh(n) ==
    n.near = "connecting" /\ n.far = "none" /\ n.up = <<>> /\ n.down = <<>> /\ n.running

\* From w to v, only the attempts of E may have ended, and one may have begun.
Later(w, v, E) ==
    /\ v.sc.ws = w.sc.ws /\ v.sc.key = w.sc.key
    /\ v.sc.auth \in {w.sc.auth, "connecting"}
    /\ \A t \in Sockets :
         \/ /\ SameSocket(w.net[t], v.net[t])
            /\ t \notin E => v.net[t].running = w.net[t].running
         \/ w.net[t].near = "none" /\ Fresh(v.net[t])

\* SameSocket composes.
LEMMA SameSocketTransitive ==
    ASSUME NEW n \in Socket, NEW m \in Socket, NEW o \in Socket,
           SameSocket(n, m), SameSocket(m, o)
    PROVE  SameSocket(n, o)
<1>1. /\ n.up \in Seq(UpMessage) /\ m.up \in Seq(UpMessage) /\ o.up \in Seq(UpMessage)
      /\ Len(n.up) \in Nat /\ Len(m.up) \in Nat /\ Len(o.up) \in Nat
  BY DEF Socket
<1>2. Longer(n.up, m.up) /\ Longer(m.up, o.up) => Longer(n.up, o.up)
  BY <1>1 DEF Longer
<1>3. QED
  BY <1>2 DEF SameSocket

\* Calm changes compose.
LEMMA CalmTransitive ==
    ASSUME NEW w, NEW v, NEW u, ClientOK(w), Calm(w, v), Calm(v, u)
    PROVE  Calm(w, u)
<1>1. ASSUME NEW t \in Sockets
      PROVE  SameSocket(w.net[t], u.net[t]) /\ u.net[t].running = w.net[t].running
  <2>1. w.net[t] \in Socket /\ v.net[t] \in Socket /\ u.net[t] \in Socket
    BY DEF Calm, ClientOK, Client
  <2>2. QED
    BY <2>1, SameSocketTransitive DEF Calm
<1>2. /\ ClientOK(u) /\ u.sc = w.sc /\ u.subs \subseteq w.subs
      /\ u.cm.started = w.cm.started /\ u.cm.current \in {w.cm.current, NoSocket}
  BY DEF Calm
<1>3. Pursuit(w) => Pursuit(u)
  BY DEF Calm
<1>4. w.cm.state = "reconnecting" => u.cm = w.cm
  BY DEF Calm
<1>5. QED
  BY <1>1, <1>2, <1>3, <1>4 DEF Calm

\* An untouched socket is the same socket.
LEMMA SameSocketReflexive ==
    ASSUME NEW n, NEW m, m = n
    PROVE  SameSocket(n, m) /\ m.running = n.running
<1>1. SameSocket(n, n)
  BY DEF SameSocket
<1>2. QED
  BY <1>1

\* Nothing but the subscriptions has changed.
LEMMA QuietlyCalm ==
    ASSUME NEW w, NEW v, ClientOK(v), v.cm = w.cm, v.sc = w.sc, v.net = w.net,
           v.subs \subseteq w.subs
    PROVE  Calm(w, v)
<1>1. Pursuit(w) => Pursuit(v)
  BY DEF Pursuit
<1>2. \A t \in Sockets : /\ SameSocket(w.net[t], v.net[t])
                         /\ v.net[t].running = w.net[t].running
  BY SameSocketReflexive
<1>3. QED
  BY <1>1, <1>2 DEF Calm

\* A calm change takes neither a free socket nor the last free id.
LEMMA RoomKept ==
    ASSUME NEW w, NEW v, ClientOK(w), Room(w), Calm(w, v)
    PROVE  Room(v)
<1>1. \A t \in Sockets : v.net[t].near = w.net[t].near
  BY DEF Calm, SameSocket
<1>2. w.subs \subseteq Subs
  BY DEF ClientOK, Client
<1>3. QED
  BY <1>1, <1>2 DEF Room, Calm

\* A change that settles attempts composes with one that settles none.
LEMMA LaterTransitive ==
    ASSUME NEW w, NEW v, NEW u, NEW E, ClientOK(w), ClientOK(v), ClientOK(u),
           Later(w, v, E), Later(v, u, {})
    PROVE  Later(w, u, E)
<1>1. ASSUME NEW t \in Sockets
      PROVE  \/ /\ SameSocket(w.net[t], u.net[t])
                /\ t \notin E => u.net[t].running = w.net[t].running
             \/ w.net[t].near = "none" /\ Fresh(u.net[t])
  <2>1. w.net[t] \in Socket /\ v.net[t] \in Socket /\ u.net[t] \in Socket
    BY DEF ClientOK, Client
  <2>2. CASE w.net[t].near = "none" /\ Fresh(v.net[t])
    BY <2>2 DEF Later, SameSocket, Fresh
  <2>3. CASE /\ SameSocket(w.net[t], v.net[t])
             /\ t \notin E => v.net[t].running = w.net[t].running
    <3>1. CASE SameSocket(v.net[t], u.net[t]) /\ u.net[t].running = v.net[t].running
      BY <2>1, <2>3, <3>1, SameSocketTransitive
    <3>2. CASE v.net[t].near = "none" /\ Fresh(u.net[t])
      BY <2>3, <3>2 DEF SameSocket
    <3>3. QED
      BY <3>1, <3>2 DEF Later
  <2>4. QED
    BY <2>2, <2>3 DEF Later
<1>2. QED
  BY <1>1 DEF Later

\* A calm change settles no attempt.
LEMMA CalmIsLater ==
    ASSUME NEW w, NEW v, Calm(w, v), NEW E
    PROVE  Later(w, v, E)
  BY DEF Calm, Later

-----------------------------------------------------------------------------
(* Subscriptions.                                                          *)

\* The onError of the bus's subscription is calm: it tells the manager, at most.
LEMMA OnErrorOK ==
    ASSUME NEW w, ClientOK(w), NEW r \in BOOLEAN
    PROVE  Calm(w, OnError(w, r))
<1> DEFINE v == [w EXCEPT !.bus = NoSub]
<1>1. ClientOK(v) /\ v.cm = w.cm /\ v.sc = w.sc /\ v.net = w.net /\ v.subs = w.subs
  BY BusReplaced
<1>2. OnError(w, r) = HandleError(v, r)
  BY DEF OnError
<1> HIDE DEF v
<1>3. Pursuit(w) => Pursuit(v)
  BY <1>1 DEF Pursuit
<1>4. OnlyManager(v, OnError(w, r)) /\ (Pursuit(v) => Pursuit(OnError(w, r)))
      /\ (v.cm.state = "reconnecting" => OnError(w, r) = v)
  BY <1>1, <1>2, HandleErrorOK
<1> DEFINE u == OnError(w, r)
<1> HIDE DEF u
<1>5. /\ ClientOK(u) /\ u.sc = w.sc /\ u.net = w.net /\ u.subs = w.subs
      /\ u.cm.current \in {w.cm.current, NoSocket} /\ u.cm.started = w.cm.started
      /\ (Pursuit(w) => Pursuit(u)) /\ (w.cm.state = "reconnecting" => u.cm = w.cm)
  BY <1>1, <1>3, <1>4 DEF OnlyManager, u
<1>6. \A t \in Sockets : /\ SameSocket(w.net[t], u.net[t])
                         /\ u.net[t].running = w.net[t].running
  BY <1>5, SameSocketReflexive
<1>7. Calm(w, u)
  BY <1>5, <1>6 DEF Calm
<1>8. QED
  BY <1>7 DEF u

\* Deleting ids from RelayProtocol.subscriptions is calm.
LEMMA DropOK ==
    ASSUME NEW w, ClientOK(w), NEW Q
    PROVE  Calm(w, [w EXCEPT !.subs = @ \ Q])
<1>1. w.subs \ Q \in SUBSET Subs
  BY DEF ClientOK, Client
<1>2. QED
  BY <1>1, SubsReplaced, QuietlyCalm

\* subscribe() whose connection failed is calm.
LEMMA SubscribeFailedOK ==
    ASSUME NEW w, ClientOK(w), NEW Q, NEW r \in BOOLEAN
    PROVE  Calm(w, SubscribeFailed(w, Q, r))
<1>1. CASE Q = {}
  BY <1>1, QuietlyCalm DEF SubscribeFailed
<1>2. CASE Q # {}
  <2> DEFINE v == [w EXCEPT !.subs = @ \ Q]
  <2>1. Calm(w, v)
    BY DropOK
  <2>2. SubscribeFailed(w, Q, r) = OnError(v, r)
    BY <1>2 DEF SubscribeFailed
  <2> HIDE DEF v
  <2>3. Calm(v, OnError(v, r))
    BY <2>1, OnErrorOK DEF Calm
  <2>4. QED
    BY <2>1, <2>2, <2>3, CalmTransitive
<1>3. QED
  BY <1>1, <1>2

\* notifySubscriptionsClosed() is calm.
LEMMA NotifySubscriptionsClosedOK ==
    ASSUME NEW w, ClientOK(w)
    PROVE  Calm(w, NotifySubscriptionsClosed(w))
<1>1. CASE w.subs = {}
  BY <1>1, QuietlyCalm DEF NotifySubscriptionsClosed
<1>2. CASE w.subs # {}
  <2> DEFINE v == [w EXCEPT !.subs = {}]
  <2> DEFINE u == OnError(v, TRUE)
  <2>1. Calm(w, v)
    BY SubsReplaced, QuietlyCalm
  <2>2. NotifySubscriptionsClosed(w) = OnError(u, TRUE)
    BY <1>2 DEF NotifySubscriptionsClosed
  <2> HIDE DEF v
  <2>3. Calm(v, u)
    BY <2>1, OnErrorOK DEF Calm
  <2> HIDE DEF u
  <2>4. Calm(u, OnError(u, TRUE))
    BY <2>3, OnErrorOK DEF Calm
  <2>5. QED
    BY <2>1, <2>2, <2>3, <2>4, CalmTransitive
<1>3. QED
  BY <1>1, <1>2

\* A finite set in some order is a sequence of its elements.
LEMMA SetToSeqType ==
    ASSUME NEW Q, IsFiniteSet(Q)
    PROVE  SetToSeq(Q) \in Seq(Q)
<1>1. Cardinality(Q) \in Nat /\ ExistsBijection(1 .. Cardinality(Q), Q)
  BY FS_CardinalityType
<1>2. PICK f \in [1 .. Cardinality(Q) -> Q] : IsInjective(f)
  <2>1. PICK f \in Bijection(1 .. Cardinality(Q), Q) : TRUE
    BY <1>1 DEF ExistsBijection
  <2>2. f \in [1 .. Cardinality(Q) -> Q]
        /\ \A a, b \in 1 .. Cardinality(Q) : f[a] = f[b] => a = b
    BY <2>1 DEF Bijection, Injection, Surjection, IsInjective
  <2>3. IsInjective(f)
    BY <2>2 DEF IsInjective
  <2>4. QED
    BY <2>2, <2>3
<1>3. SetToSeq(Q) \in [1 .. Cardinality(Q) -> Q]
  BY <1>2 DEF SetToSeq
<1>4. QED
  BY <1>1, <1>3

\* Messages put into the socket of a client change nothing else of it.
LEMMA PushAllOK ==
    ASSUME NEW n \in Socket, NEW ms \in Seq(UpMessage)
    PROVE  /\ PushAll(n, ms) \in Socket
           /\ PushAll(n, ms).waiters = n.waiters
           /\ PushAll(n, ms).running = n.running
           /\ ms \in Seq(Chatter) => SameSocket(n, PushAll(n, ms))
<1>1. CASE ~(n.near = "open" /\ n.far # "gone")
  <2>1. PushAll(n, ms) = n
    BY <1>1 DEF PushAll
  <2>2. QED
    BY <2>1, SameSocketReflexive
<1>2. CASE n.near = "open" /\ n.far # "gone"
  <2>1. PushAll(n, ms) = [n EXCEPT !.up = n.up \o ms]
    BY <1>2 DEF PushAll
  <2>2. n.up \o ms \in Seq(UpMessage)
    BY DEF Socket
  <2>3. /\ PushAll(n, ms) \in Socket /\ PushAll(n, ms).waiters = n.waiters
        /\ PushAll(n, ms).running = n.running /\ PushAll(n, ms).near = n.near
        /\ PushAll(n, ms).on = n.on /\ PushAll(n, ms).far = n.far
        /\ PushAll(n, ms).down = n.down /\ PushAll(n, ms).up = n.up \o ms
    BY <2>1, <2>2 DEF Socket
  <2>4. n.up \in Seq(UpMessage)
    BY DEF Socket
  <2>5. ASSUME ms \in Seq(Chatter)
        PROVE  Longer(n.up, n.up \o ms)
    BY <2>4, <2>5 DEF Longer
  <2>6. QED
    BY <1>2, <2>3, <2>5 DEF SameSocket
<1>3. QED
  BY <1>1, <1>2

\* Subscriptions and pings that are sent are calm: they are no part of a handshake.
LEMMA SendOK ==
    ASSUME NEW w, ClientOK(w), CanSend(w), NEW type \in {"subscribe", "ping"},
           NEW qs \in Seq(Subs \cup {NoSub})
    PROVE  /\ Calm(w, Send(w, type, qs))
           /\ Send(w, type, qs).cm = w.cm
           /\ Send(w, type, qs).sc = w.sc
<1> DEFINE s == w.sc.ws
<1> DEFINE ms == [i \in DOMAIN qs |->
                    Msg(IF w.sc.key = w.sc.ws THEN type ELSE "garbled", qs[i])]
<1> DEFINE n == PushAll(w.net[s], ms)
<1>1. s \in Sockets /\ w.net[s] \in Socket /\ IsFiniteSet(w.net[s].waiters)
  BY DEF CanSend, IsOpen, ClientOK, Client, Secure, Awaited
<1>2. Send(w, type, qs) = [w EXCEPT !.net[s] = n]
  BY DEF Send
<1>3. ms \in Seq(Chatter)
  <2>1. Len(qs) \in Nat /\ DOMAIN qs = 1 .. Len(qs)
        /\ \A i \in DOMAIN qs : qs[i] \in Subs \cup {NoSub}
    OBVIOUS
  <2>2. ms \in [1 .. Len(qs) -> Chatter]
    BY <2>1 DEF Chatter, Msg
  <2> HIDE DEF ms
  <2>3. QED
    BY <2>1, <2>2
<1>4. ms \in Seq(UpMessage)
  <2>1. Chatter \subseteq UpMessage
    BY DEF Chatter, UpMessage, Up
  <2> HIDE DEF ms
  <2>2. QED
    BY <1>3, <2>1
<1> HIDE DEF ms
<1>5. n \in Socket /\ n.waiters = w.net[s].waiters /\ n.running = w.net[s].running
      /\ SameSocket(w.net[s], n)
  BY <1>1, <1>3, <1>4, PushAllOK
<1> DEFINE v == [w EXCEPT !.net[s] = n]
<1> HIDE DEF n, s
<1>6. /\ ClientOK(v) /\ v.net[s] = n /\ \A t \in Sockets \ {s} : v.net[t] = w.net[t]
      /\ v.cm = w.cm /\ v.sc = w.sc /\ v.bus = w.bus /\ v.subs = w.subs
  BY <1>1, <1>5, NetReplaced
<1> HIDE DEF v
<1>7. \A t \in Sockets : /\ SameSocket(w.net[t], v.net[t])
                         /\ v.net[t].running = w.net[t].running
  BY <1>5, <1>6, SameSocketReflexive
<1>8. Calm(w, v)
  BY <1>6, <1>7 DEF Calm, Pursuit
<1>9. Send(w, type, qs) = v
  BY <1>2 DEF v
<1>10. QED
  BY <1>6, <1>8, <1>9

\* Sending the subscriptions of Q, or failing to, is calm.
LEMMA SendSubscribeOK ==
    ASSUME NEW w, ClientOK(w), NEW Q \in SUBSET (Subs \cup {NoSub}), IsFiniteSet(Q)
    PROVE  Calm(w, SendSubscribe(w, Q))
<1>1. CASE CanSend(w)
  <2>1. SetToSeq(Q) \in Seq(Subs \cup {NoSub})
    BY SetToSeqType
  <2>2. QED
    BY <1>1, <2>1, SendOK DEF SendSubscribe
<1>2. CASE ~CanSend(w)
  BY <1>2, SubscribeFailedOK DEF SendSubscribe
<1>3. QED
  BY <1>1, <1>2

-----------------------------------------------------------------------------
(* Attempts.                                                               *)

Free(w) == \E s \in Sockets : w.net[s].near = "none"

\* The manager, the bus and the subscriptions are as they were, and an attempt may
\* have begun.
Asked(w, v) ==
    /\ ClientOK(v) /\ v.cm = w.cm /\ v.bus = w.bus /\ v.subs = w.subs
    /\ v.sc.promise \in Sockets
    /\ Later(w, v, {})

\* There is a socket to take.
LEMMA FreeSocketOK ==
    ASSUME NEW w, Free(w)
    PROVE  FreeSocket(w) \in Sockets /\ w.net[FreeSocket(w)].near = "none"
  BY DEF Free, FreeSocket

\* A new WebSocket is connecting, with nothing under way.
LEMMA FreshSocket ==
    ASSUME NEW who \in Waiter
    PROVE  LET n == [Unused EXCEPT !.near = "connecting", !.on = "open",
                                   !.running = TRUE, !.waiters = {who}]
           IN n \in Socket /\ Fresh(n) /\ n.waiters = {who}
<1>1. <<>> \in Seq(UpMessage) /\ <<>> \in Seq(DownMessage)
  OBVIOUS
<1>2. {who} \in SUBSET Waiter
  OBVIOUS
<1>3. QED
  BY <1>1, <1>2 DEF Unused, Socket, Fresh

\* reconnectThroughRelay() asks for one new socket, and touches no other.
LEMMA NewAttemptOK ==
    ASSUME NEW w, ClientOK(w), Free(w), NEW who \in Waiter
    PROVE  Asked(w, NewAttempt(w, who)) /\ NewAttempt(w, who).sc.auth = "connecting"
<1> DEFINE s == FreeSocket(w)
<1> DEFINE n == [Unused EXCEPT !.near = "connecting", !.on = "open",
                               !.running = TRUE, !.waiters = {who}]
<1> DEFINE c == [w.sc EXCEPT !.promise = s, !.auth = "connecting"]
<1> DEFINE u == [w EXCEPT !.sc = c]
<1> DEFINE v == [u EXCEPT !.net[s] = n]
<1>1. s \in Sockets /\ w.net[s].near = "none"
  BY FreeSocketOK
<1>2. n \in Socket /\ Fresh(n) /\ n.waiters = {who}
  BY FreshSocket
<1>3. NewAttempt(w, who) = v
  BY DEF NewAttempt
<1> HIDE DEF n, s
<1>4. /\ c \in Secure /\ c.promise = s /\ c.auth = "connecting" /\ c.ws = w.sc.ws
      /\ c.key = w.sc.key
  BY <1>1 DEF ClientOK, Client, Secure
<1> HIDE DEF c
<1>5. /\ ClientOK(u) /\ u.sc = c /\ u.cm = w.cm /\ u.net = w.net /\ u.bus = w.bus
      /\ u.subs = w.subs
  BY <1>4, ScReplaced
<1>6. IsFiniteSet(n.waiters)
  BY <1>2, FS_Singleton
<1> HIDE DEF u
<1>7. /\ ClientOK(v) /\ v.net[s] = n /\ \A t \in Sockets \ {s} : v.net[t] = u.net[t]
      /\ v.cm = u.cm /\ v.sc = u.sc /\ v.bus = u.bus /\ v.subs = u.subs
  <2>1. s \in Sockets /\ n \in Socket /\ ClientOK(u)
    BY <1>1, <1>2, <1>5
  <2>2. QED
    BY <1>6, <2>1, NetReplaced
<1> HIDE DEF v
<1>8. ASSUME NEW t \in Sockets
      PROVE  \/ SameSocket(w.net[t], v.net[t]) /\ v.net[t].running = w.net[t].running
             \/ w.net[t].near = "none" /\ Fresh(v.net[t])
  <2>1. CASE t = s
    BY <1>1, <1>2, <1>7, <2>1
  <2>2. CASE t # s
    BY <1>5, <1>7, <2>2, SameSocketReflexive
  <2>3. QED
    BY <2>1, <2>2
<1>9. Later(w, v, {})
  BY <1>4, <1>5, <1>7, <1>8 DEF Later
<1>10. Asked(w, v) /\ v.sc.auth = "connecting"
  BY <1>1, <1>4, <1>5, <1>7, <1>9 DEF Asked
<1>11. QED
  BY <1>3, <1>10

\* ensureConnected() joins the attempt under way, or starts one.
LEMMA AwaitOK ==
    ASSUME NEW w, ClientOK(w), Free(w), NEW who \in Waiter
    PROVE  Asked(w, Await(w, who))
<1>1. CASE w.sc.promise = NoSocket
  BY <1>1, NewAttemptOK DEF Await
<1>2. CASE w.sc.promise # NoSocket
  <2> DEFINE s == w.sc.promise
  <2> DEFINE n == [w.net[s] EXCEPT !.waiters = @ \cup {who}]
  <2> DEFINE v == [w EXCEPT !.net[s] = n]
  <2>1. s \in Sockets /\ w.net[s] \in Socket /\ IsFiniteSet(w.net[s].waiters)
    BY <1>2 DEF ClientOK, Client, Secure, Awaited
  <2>2. IsFiniteSet(w.net[s].waiters \cup {who})
    BY <2>1, FS_AddElement
  <2>3. Await(w, who) = v
    BY <1>2 DEF Await
  <2> HIDE DEF s
  <2>4. n \in Socket /\ n.waiters = w.net[s].waiters \cup {who}
        /\ SameSocket(w.net[s], n) /\ n.running = w.net[s].running
    BY <2>1 DEF Socket, SameSocket
  <2> HIDE DEF n
  <2>5. /\ ClientOK(v) /\ v.net[s] = n /\ \A t \in Sockets \ {s} : v.net[t] = w.net[t]
        /\ v.cm = w.cm /\ v.sc = w.sc /\ v.bus = w.bus /\ v.subs = w.subs
    BY <2>1, <2>2, <2>4, NetReplaced
  <2> HIDE DEF v
  <2>6. \A t \in Sockets : SameSocket(w.net[t], v.net[t])
                           /\ v.net[t].running = w.net[t].running
    BY <2>4, <2>5, SameSocketReflexive
  <2>7. Later(w, v, {})
    BY <2>5, <2>6 DEF Later
  <2>8. v.sc.promise \in Sockets
    BY <2>1, <2>5 DEF s
  <2>9. QED
    BY <2>3, <2>5, <2>7, <2>8 DEF Asked
<1>3. QED
  BY <1>1, <1>2

\* The client is in order after w, and the manager's pursuit too if it was.
Fine(w, v, E) == ClientOK(v) /\ Later(w, v, E) /\ (Pursuit(w) => Pursuit(v))

\* subscribeActivity() of the bus settles no attempt and leaves the manager alone.
LEMMA SubscribeActivityOK ==
    ASSUME NEW w, ClientOK(w), Room(w)
    PROVE  Fine(w, SubscribeActivity(w), {})
<1> DEFINE q == FreeSub(w)
<1> DEFINE u == [w EXCEPT !.bus = q]
<1> DEFINE v == [u EXCEPT !.subs = @ \cup {q}]
<1>1. q \in Subs
  <2>1. w.subs \subseteq Subs /\ w.subs # Subs
    BY DEF ClientOK, Client, Room
  <2>2. QED
    BY <2>1 DEF FreeSub
<1>2. SubscribeActivity(w) = IF IsConnected(v) THEN SendSubscribe(v, {q}) ELSE Await(v, q)
  BY DEF SubscribeActivity
<1> HIDE DEF q
<1>3. /\ ClientOK(u) /\ u.cm = w.cm /\ u.sc = w.sc /\ u.net = w.net /\ u.subs = w.subs
  BY <1>1, BusReplaced
<1>4. u.subs \cup {q} \in SUBSET Subs
  BY <1>1, <1>3 DEF ClientOK, Client
<1> HIDE DEF u
<1>5. /\ ClientOK(v) /\ v.cm = w.cm /\ v.sc = w.sc /\ v.net = w.net
  BY <1>3, <1>4, SubsReplaced
<1> HIDE DEF v
<1>6. Later(w, v, {})
  BY <1>5, SameSocketReflexive DEF Later
<1>7. Pursuit(w) => Pursuit(v)
  BY <1>5 DEF Pursuit
<1>8. CASE IsConnected(v)
  <2>1. {q} \in SUBSET (Subs \cup {NoSub}) /\ IsFiniteSet({q})
    BY <1>1, FS_Singleton
  <2>2. Calm(v, SubscribeActivity(w))
    BY <1>2, <1>5, <1>8, <2>1, SendSubscribeOK
  <2>3. Later(v, SubscribeActivity(w), {}) /\ ClientOK(SubscribeActivity(w))
    BY <2>2, CalmIsLater DEF Calm
  <2>4. Later(w, SubscribeActivity(w), {})
    BY <1>5, <1>6, <2>3, LaterTransitive
  <2>5. QED
    BY <1>7, <2>2, <2>3, <2>4 DEF Fine, Calm
<1>9. CASE ~IsConnected(v)
  <2>1. Free(v) /\ q \in Waiter
    BY <1>1, <1>5 DEF Free, Room, Waiter
  <2>2. Asked(v, SubscribeActivity(w))
    BY <1>2, <1>5, <1>9, <2>1, AwaitOK
  <2>3. Later(w, SubscribeActivity(w), {})
    BY <1>5, <1>6, <2>2, LaterTransitive DEF Asked
  <2>4. Pursuit(v) => Pursuit(SubscribeActivity(w))
    BY <2>2 DEF Asked, Pursuit
  <2>5. QED
    BY <1>7, <2>2, <2>3, <2>4 DEF Fine, Asked
<1>10. QED
  BY <1>8, <1>9

\* markConnected() ends the pursuit, and subscribes.
LEMMA MarkConnectedOK ==
    ASSUME NEW w, ClientOK(w), Room(w)
    PROVE  Fine(w, MarkConnected(w), {}) /\ Pursuit(MarkConnected(w))
<1> DEFINE c == [w.cm EXCEPT !.attempts = 0, !.current = NoSocket, !.timer = FALSE,
                             !.state = "connected"]
<1> DEFINE v == [w EXCEPT !.cm = c]
<1>1. c \in Manager /\ c.current = NoSocket /\ c.timer = FALSE /\ c.state = "connected"
  <2>1. 0 \in 0 .. MaxAttempts
    BY ClientConstants
  <2>2. QED
    BY <2>1 DEF ClientOK, Client, Manager
<1>2. MarkConnected(w) = IF w.cm.state # "connected" /\ w.cm.started /\ w.bus = NoSub
                         THEN SubscribeActivity(v) ELSE v
  <2> DEFINE x == [w EXCEPT !.cm.attempts = 0, !.cm.current = NoSocket,
                            !.cm.timer = FALSE, !.cm.state = "connected"]
  <2>1. x = v
    BY DEF ClientOK, Client, Manager
  <2>2. MarkConnected(w) = IF w.cm.state # "connected" /\ w.cm.started /\ w.bus = NoSub
                           THEN SubscribeActivity(x) ELSE x
    BY DEF MarkConnected
  <2> HIDE DEF x, v
  <2>3. QED
    BY <2>1, <2>2
<1> HIDE DEF c
<1>3. /\ ClientOK(v) /\ v.cm = c /\ v.sc = w.sc /\ v.net = w.net /\ v.subs = w.subs
  BY <1>1, CmReplaced
<1> HIDE DEF v
<1>4. Later(w, v, {})
  BY <1>3, SameSocketReflexive DEF Later
<1>5. Pursuit(v)
  BY <1>1, <1>3 DEF Pursuit
<1>6. CASE MarkConnected(w) = v
  BY <1>3, <1>4, <1>5, <1>6 DEF Fine
<1>7. CASE MarkConnected(w) = SubscribeActivity(v)
  <2>1. Room(v)
    BY <1>3 DEF Room
  <2>2. Fine(v, MarkConnected(w), {})
    BY <1>3, <1>7, <2>1, SubscribeActivityOK
  <2>3. Later(w, MarkConnected(w), {})
    BY <1>3, <1>4, <2>2, LaterTransitive DEF Fine
  <2>4. QED
    BY <1>5, <2>2, <2>3 DEF Fine
<1>8. QED
  BY <1>2, <1>6, <1>7

-----------------------------------------------------------------------------
(* The end of an attempt.                                                  *)

\* The subscribers that await an attempt are finitely many.
LEMMA SubscribersOK ==
    ASSUME NEW w, ClientOK(w), NEW s \in Sockets
    PROVE  Subscribers(w, s) \in SUBSET (Subs \cup {NoSub}) /\ IsFiniteSet(Subscribers(w, s))
<1>1. w.net[s].waiters \subseteq Waiter /\ IsFiniteSet(w.net[s].waiters)
  BY DEF ClientOK, Client, Socket, Awaited
<1>2. Subscribers(w, s) \in SUBSET w.net[s].waiters
  BY DEF Subscribers
<1>3. IsFiniteSet(Subscribers(w, s))
  BY <1>1, <1>2, FS_Subset
<1>4. QED
  BY <1>1, <1>3 DEF Subscribers, Waiter

\* The attempt's promise is settled, and no other; nobody awaits it any more.
LEMMA SettledOK ==
    ASSUME NEW w, ClientOK(w), NEW s \in Sockets
    PROVE  /\ ClientOK(Settled(w, s)) /\ Later(w, Settled(w, s), {s})
           /\ Settled(w, s).cm = w.cm /\ Settled(w, s).subs = w.subs
           /\ \A t \in Sockets : Settled(w, s).net[t].near = w.net[t].near
<1> DEFINE n == [w.net[s] EXCEPT !.running = FALSE, !.waiters = {}, !.timer = FALSE]
<1> DEFINE c == [w.sc EXCEPT !.promise = NoSocket]
<1> DEFINE u == [w EXCEPT !.sc = c]
<1> DEFINE v == [u EXCEPT !.net[s] = n]
<1>1. Settled(w, s) = v
  <2> DEFINE x == [w EXCEPT !.sc.promise = NoSocket, !.net[s].running = FALSE,
                            !.net[s].waiters = {}, !.net[s].timer = FALSE]
  <2>1. x = v
    BY DEF ClientOK, Client
  <2>2. Settled(w, s) = x
    BY DEF Settled
  <2> HIDE DEF x, v
  <2>3. QED
    BY <2>1, <2>2
<1>2. /\ n \in Socket /\ n.waiters = {} /\ SameSocket(w.net[s], n)
      /\ n.near = w.net[s].near
  <2> DEFINE m == w.net[s]
  <2>1. m \in Socket
    BY DEF ClientOK, Client
  <2>2. n = [m EXCEPT !.running = FALSE, !.waiters = {}, !.timer = FALSE]
    OBVIOUS
  <2> HIDE DEF m, n
  <2>3. n \in Socket
    BY <2>1, <2>2 DEF Socket
  <2>4. /\ n.waiters = {} /\ n.near = m.near /\ n.on = m.on /\ n.far = m.far
        /\ n.up = m.up /\ n.down = m.down
    BY <2>1, <2>2 DEF Socket
  <2>5. SameSocket(m, n)
    BY <2>4 DEF SameSocket
  <2>6. QED
    BY <2>3, <2>4, <2>5 DEF m
<1>3. c \in Secure /\ c.ws = w.sc.ws /\ c.key = w.sc.key /\ c.auth = w.sc.auth
  BY DEF ClientOK, Client, Secure
<1> HIDE DEF n, c
<1>4. /\ ClientOK(u) /\ u.sc = c /\ u.cm = w.cm /\ u.net = w.net /\ u.subs = w.subs
  BY <1>3, ScReplaced
<1> HIDE DEF u
<1>5. IsFiniteSet(n.waiters)
  BY <1>2, FS_EmptySet
<1>6. /\ ClientOK(v) /\ v.net[s] = n /\ \A t \in Sockets \ {s} : v.net[t] = u.net[t]
      /\ v.cm = u.cm /\ v.sc = u.sc /\ v.subs = u.subs
  <2>1. n \in Socket /\ ClientOK(u)
    BY <1>2, <1>4
  <2>2. QED
    BY <1>5, <2>1, NetReplaced
<1> HIDE DEF v
<1>7. ASSUME NEW t \in Sockets
      PROVE  /\ SameSocket(w.net[t], v.net[t])
             /\ t \notin {s} => v.net[t].running = w.net[t].running
             /\ v.net[t].near = w.net[t].near
  BY <1>2, <1>4, <1>6, SameSocketReflexive
<1>8. Later(w, v, {s})
  BY <1>3, <1>4, <1>6, <1>7 DEF Later
<1>9. QED
  BY <1>1, <1>4, <1>6, <1>7, <1>8

\* A resolved attempt leaves a pursuit, even when the manager awaits it.
LEMMA ResolveOK ==
    ASSUME NEW w, ClientOK(w), Pursuit(w), Room(w), NEW s \in Sockets
    PROVE  Fine(w, Resolve(w, s), {s})
<1>1. CASE ~w.net[s].running
  <2>1. Resolve(w, s) = w
    BY <1>1 DEF Resolve
  <2>2. Later(w, w, {s})
    BY SameSocketReflexive DEF Later
  <2>3. QED
    BY <2>1, <2>2 DEF Fine
<1>2. CASE w.net[s].running
  <2> DEFINE u == Settled(w, s)
  <2> DEFINE v == SendSubscribe(u, Subscribers(w, s))
  <2>1. Resolve(w, s) = IF w.cm.current = s THEN MarkConnected(v) ELSE v
    BY <1>2 DEF Resolve
  <2>2. /\ ClientOK(u) /\ Later(w, u, {s}) /\ u.cm = w.cm /\ u.subs = w.subs
        /\ \A t \in Sockets : u.net[t].near = w.net[t].near
    BY SettledOK
  <2> HIDE DEF u
  <2>3. Calm(u, v)
    BY <2>2, SubscribersOK, SendSubscribeOK
  <2> HIDE DEF v
  <2>4. ClientOK(v) /\ Later(u, v, {})
    BY <2>3, CalmIsLater DEF Calm
  <2>5. Later(w, v, {s})
    BY <2>2, <2>4, LaterTransitive
  <2>6. Pursuit(v)
    BY <2>2, <2>3 DEF Calm, Pursuit
  <2>7. CASE w.cm.current = s
    <3>1. Room(u)
      BY <2>2 DEF Room
    <3>2. Room(v)
      BY <2>2, <2>3, <3>1, RoomKept
    <3>3. Fine(v, MarkConnected(v), {}) /\ Pursuit(MarkConnected(v))
      BY <2>4, <3>2, MarkConnectedOK
    <3>4. Later(w, MarkConnected(v), {s})
      BY <2>4, <2>5, <3>3, LaterTransitive DEF Fine
    <3>5. QED
      BY <2>1, <2>7, <3>3, <3>4 DEF Fine
  <2>8. CASE w.cm.current # s
    BY <2>1, <2>4, <2>5, <2>6, <2>8 DEF Fine
  <2>9. QED
    BY <2>7, <2>8
<1>3. QED
  BY <1>1, <1>2

\* A rejected attempt leaves a pursuit, even when the manager awaits it.
LEMMA RejectOK ==
    ASSUME NEW w, ClientOK(w), Pursuit(w), NEW s \in Sockets, NEW r \in BOOLEAN
    PROVE  Fine(w, Reject(w, s, r), {s})
<1>1. CASE ~w.net[s].running
  <2>1. Reject(w, s, r) = w
    BY <1>1 DEF Reject
  <2>2. Later(w, w, {s})
    BY SameSocketReflexive DEF Later
  <2>3. QED
    BY <2>1, <2>2 DEF Fine
<1>2. CASE w.net[s].running
  <2> DEFINE u == Settled(w, s)
  <2> DEFINE v == SubscribeFailed(u, Subscribers(w, s), r)
  <2>1. Reject(w, s, r) = IF w.cm.current = s THEN AttemptFailed(v, r) ELSE v
    BY <1>2 DEF Reject
  <2>2. ClientOK(u) /\ Later(w, u, {s}) /\ u.cm = w.cm
    BY SettledOK
  <2> HIDE DEF u
  <2>3. Calm(u, v)
    BY <2>2, SubscribeFailedOK
  <2> HIDE DEF v
  <2>4. ClientOK(v) /\ Later(u, v, {})
    BY <2>3, CalmIsLater DEF Calm
  <2>5. Later(w, v, {s})
    BY <2>2, <2>4, LaterTransitive
  <2>6. Pursuit(v)
    BY <2>2, <2>3 DEF Calm, Pursuit
  <2>7. CASE w.cm.current = s
    <3>1. w.cm.current # NoSocket
      BY <2>7, ClientConstants
    <3>2. v.cm.current # NoSocket
      BY <2>2, <2>3, <3>1 DEF Calm, Pursuit
    <3> DEFINE x == AttemptFailed(v, r)
    <3>3. OnlyManager(v, x) /\ Pursuit(x)
      BY <2>4, <2>6, <3>2, AttemptFailedOK
    <3> HIDE DEF x
    <3>4. Later(v, x, {})
      BY <3>3, SameSocketReflexive DEF OnlyManager, Later
    <3>5. Later(w, x, {s})
      BY <2>4, <2>5, <3>3, <3>4, LaterTransitive DEF OnlyManager
    <3>6. Reject(w, s, r) = x
      BY <2>1, <2>7 DEF x
    <3>7. QED
      BY <3>3, <3>5, <3>6 DEF Fine, OnlyManager
  <2>8. CASE w.cm.current # s
    BY <2>1, <2>4, <2>5, <2>6, <2>8 DEF Fine
  <2>9. QED
    BY <2>7, <2>8
<1>3. QED
  BY <1>1, <1>2

-----------------------------------------------------------------------------
(* Closing a socket.                                                       *)

\* From w to v at most the socket s changed, and it is not open any more.
Shut(w, v, s) ==
    /\ ClientOK(v) /\ v.cm = w.cm /\ v.sc = w.sc /\ v.bus = w.bus /\ v.subs = w.subs
    /\ \A t \in Sockets \ {s} : v.net[t] = w.net[t]
    /\ v.net[s].on = w.net[s].on /\ v.net[s].running = w.net[s].running
    /\ v.net[s].near = IF w.net[s].near \in {"connecting", "open"} THEN "closing"
                       ELSE w.net[s].near

\* close() of a WebSocket begins its closing, unless it is over.
LEMMA CloseOK ==
    ASSUME NEW n \in Socket
    PROVE  /\ Close(n) \in Socket /\ Close(n).on = n.on /\ Close(n).running = n.running
           /\ Close(n).waiters = n.waiters
           /\ Close(n).near = IF n.near \in {"connecting", "open"} THEN "closing"
                              ELSE n.near
<1>1. <<>> \in Seq(UpMessage) /\ <<>> \in Seq(DownMessage)
  OBVIOUS
<1>2. CASE n.near \in {"connecting", "open"}
  <2>1. Close(n) = [n EXCEPT !.near = "closing", !.far = "gone", !.up = <<>>,
                             !.down = <<>>]
    BY <1>2 DEF Close
  <2>2. QED
    BY <1>1, <1>2, <2>1 DEF Socket
<1>3. CASE n.near \notin {"connecting", "open"}
  BY <1>3 DEF Close
<1>4. QED
  BY <1>2, <1>3

\* Closing a socket shuts that one and no other.
LEMMA CloseSocketOK ==
    ASSUME NEW w, ClientOK(w), NEW s \in Sockets
    PROVE  Shut(w, CloseSocket(w, s), s)
<1> DEFINE n == Close(w.net[s])
<1> DEFINE v == [w EXCEPT !.net[s] = n]
<1>1. CloseSocket(w, s) = v
  BY ClientConstants DEF CloseSocket
<1>2. w.net[s] \in Socket /\ IsFiniteSet(w.net[s].waiters)
  BY DEF ClientOK, Client, Awaited
<1>3. /\ n \in Socket /\ n.on = w.net[s].on /\ n.running = w.net[s].running
      /\ n.waiters = w.net[s].waiters
      /\ n.near = IF w.net[s].near \in {"connecting", "open"} THEN "closing"
                  ELSE w.net[s].near
  BY <1>2, CloseOK
<1> HIDE DEF n
<1>4. /\ ClientOK(v) /\ v.net[s] = n /\ \A t \in Sockets \ {s} : v.net[t] = w.net[t]
      /\ v.cm = w.cm /\ v.sc = w.sc /\ v.bus = w.bus /\ v.subs = w.subs
  BY <1>2, <1>3, NetReplaced
<1> HIDE DEF v
<1>5. QED
  BY <1>1, <1>3, <1>4 DEF Shut

-----------------------------------------------------------------------------
(* The handshake of a resumed session.                                     *)

UpShake == {"init", "proof", "badproof"}

DownShake == {"challenge", "resumed"}

\* Nothing of a handshake from place k on.
NoUp(q, k) == \A i \in k .. Len(q) : q[i].type \notin UpShake

NoDown(q, k) == \A i \in k .. Len(q) : q[i].type \notin DownShake

\* A message of the handshake is under way.
Shaking(n) == ~NoUp(n.up, 1) \/ ~NoDown(n.down, 1)

\* The socket waits to be paired.
Pairing(n) ==
    /\ NoUp(n.up, 1)
    /\ \A i \in 1 .. Len(n.down) : n.down[i].type \in {"connected", "offline", "unknown", "close"}
    /\ n.far \in {"relay", "server", "gone"}
    /\ n.far = "relay" => Len(n.down) = 0
    /\ n.far = "server" => Len(n.down) <= 1

\* Of a handshake there is at most one message, of that type.
Lone(q, type) ==
    \A i \in 1 .. Len(q) : q[i].type \in UpShake => q[i].type = type /\ NoUp(q, i + 1)

\* The handshake goes one message at a time, in its order, and once.
InitSent(n) == n.far = "server" /\ Len(n.down) = 0 /\ Lone(n.up, "init")

Challenging(n) ==
    /\ n.far = "challenged" /\ Len(n.down) = 1
    /\ n.down[1].type = "challenge" /\ NoUp(n.up, 1)

Proving(n) == n.far = "challenged" /\ Len(n.down) = 0 /\ Lone(n.up, "proof")

Answered(n) ==
    /\ n.far = "authed" /\ NoUp(n.up, 1) /\ NoDown(n.down, 2)
    /\ Len(n.down) >= 1 => n.down[1].type # "challenge"

Severed(n) == n.far = "gone" /\ NoUp(n.up, 1) /\ NoDown(n.down, 2)

Resuming(n) ==
    InitSent(n) \/ Challenging(n) \/ Proving(n) \/ Answered(n) \/ Severed(n)

\* A socket in order: while it opens, while it waits to be paired, and while its
\* handshake goes on, its attempt is under way.
SocketOK(n) ==
    /\ n.near = "connecting" => Fresh(n)
    /\ n.near = "open" =>
        /\ n.on = "pair" => Pairing(n) /\ n.running
        /\ n.on = "resume" => Resuming(n) /\ (Shaking(n) => n.running)

\* Another socket than s is the current one, and open.
Rival(w, s) == w.sc.ws # s /\ IsOpen(w, w.sc.ws)

\* While no two attempts are under way: a handshake that goes on has no rival, and a
\* connection has its own key.
KeysOK(w) ==
    /\ w.sc.ws # NoSocket => w.net[w.sc.ws].near \in {"open", "closing", "closed"}
    /\ \A s \in Sockets :
         /\ SocketOK(w.net[s])
         /\ w.net[s].near = "open" /\ w.net[s].on = "resume" /\ Shaking(w.net[s])
            => ~Rival(w, s)
    /\ IsConnected(w) => w.sc.key = w.sc.ws

AtMostOne(w) ==
    \A s, t \in Sockets : w.net[s].running /\ w.net[t].running => s = t

\* The messages under way on m are those on n, whatever subscriptions they name, with
\* encrypted messages after them.
Resembles(n, m) ==
    /\ m.near = n.near /\ m.on = n.on /\ m.far = n.far
    /\ Len(m.down) = Len(n.down)
    /\ \A i \in 1 .. Len(n.down) : m.down[i].type = n.down[i].type
    /\ Len(n.up) <= Len(m.up)
    /\ \A i \in 1 .. Len(n.up) : m.up[i].type = n.up[i].type
    /\ \A i \in Len(n.up) + 1 .. Len(m.up) : m.up[i].type \notin UpShake

\* The queues of a socket are sequences of messages.
LEMMA SocketLengths ==
    ASSUME NEW n \in Socket
    PROVE  /\ n.up \in Seq(UpMessage) /\ n.down \in Seq(DownMessage)
           /\ Len(n.up) \in Nat /\ Len(n.down) \in Nat
           /\ \A i \in 1 .. Len(n.up) : n.up[i] \in UpMessage
           /\ \A i \in 1 .. Len(n.down) : n.down[i] \in DownMessage
<1>1. n.up \in Seq(UpMessage) /\ n.down \in Seq(DownMessage)
  BY DEF Socket
<1>2. QED
  BY <1>1

\* The same socket has the same handshake.
LEMMA SameSocketResembles ==
    ASSUME NEW n \in Socket, NEW m \in Socket, SameSocket(n, m)
    PROVE  Resembles(n, m)
<1>1. Len(n.up) \in Nat /\ Len(m.up) \in Nat
  BY SocketLengths
<1>2. CASE m.up = n.up
  BY <1>1, <1>2 DEF SameSocket, Resembles
<1>3. CASE Longer(n.up, m.up)
  <2>1. \A i \in Len(n.up) + 1 .. Len(m.up) : m.up[i].type \notin UpShake
    BY <1>3 DEF Longer, Chatter, UpShake
  <2>2. Len(n.up) <= Len(m.up) /\ \A i \in 1 .. Len(n.up) : m.up[i].type = n.up[i].type
    BY <1>3 DEF Longer
  <2>3. QED
    BY <2>1, <2>2 DEF SameSocket, Resembles
<1>4. QED
  BY <1>2, <1>3 DEF SameSocket

\* A socket that resembles one without a handshake upwards has none upwards.
LEMMA NoUpKept ==
    ASSUME NEW n \in Socket, NEW m \in Socket, Resembles(n, m), NEW k \in Nat \ {0},
           NoUp(n.up, k)
    PROVE  NoUp(m.up, k)
<1>1. Len(n.up) \in Nat /\ Len(m.up) \in Nat
  BY SocketLengths
<1>2. QED
  BY <1>1 DEF NoUp, Resembles

\* A socket that resembles one without a handshake downwards has none downwards.
LEMMA NoDownKept ==
    ASSUME NEW n \in Socket, NEW m \in Socket, Resembles(n, m), NEW k \in Nat \ {0},
           NoDown(n.down, k)
    PROVE  NoDown(m.down, k)
<1>1. Len(n.down) \in Nat /\ Len(m.down) \in Nat
  BY SocketLengths
<1>2. QED
  BY <1>1 DEF NoDown, Resembles

\* A socket that resembles one with a lone message has that message alone.
LEMMA LoneKept ==
    ASSUME NEW n \in Socket, NEW m \in Socket, Resembles(n, m), NEW type,
           Lone(n.up, type)
    PROVE  Lone(m.up, type)
<1>1. Len(n.up) \in Nat /\ Len(m.up) \in Nat
  BY SocketLengths
<1>2. ASSUME NEW i \in 1 .. Len(m.up), m.up[i].type \in UpShake
      PROVE  m.up[i].type = type /\ NoUp(m.up, i + 1)
  <2>1. i \in 1 .. Len(n.up) /\ n.up[i].type = m.up[i].type
    BY <1>1, <1>2 DEF Resembles
  <2>2. n.up[i].type = type /\ NoUp(n.up, i + 1)
    BY <1>2, <2>1 DEF Lone
  <2>3. i + 1 \in Nat \ {0}
    BY <1>1
  <2>4. QED
    BY <2>1, <2>2, <2>3, NoUpKept
<1>3. QED
  BY <1>2 DEF Lone

\* Sockets that resemble each other are at the same place of the handshake.
LEMMA ResemblingShakes ==
    ASSUME NEW n \in Socket, NEW m \in Socket, Resembles(n, m)
    PROVE  /\ Pairing(n) => Pairing(m)
           /\ Resuming(n) => Resuming(m)
           /\ Shaking(m) => Shaking(n)
<1>1. /\ Len(n.up) \in Nat /\ Len(m.up) \in Nat
      /\ Len(n.down) \in Nat /\ Len(m.down) \in Nat
  BY SocketLengths
<1>2. /\ NoUp(n.up, 1) => NoUp(m.up, 1)
      /\ NoUp(n.up, 2) => NoUp(m.up, 2)
      /\ NoDown(n.down, 1) => NoDown(m.down, 1)
      /\ NoDown(n.down, 2) => NoDown(m.down, 2)
  BY NoUpKept, NoDownKept
<1>3. Pairing(n) => Pairing(m)
  BY <1>1, <1>2 DEF Pairing, Resembles
<1>4. InitSent(n) => InitSent(m)
  BY LoneKept DEF InitSent, Resembles
<1>5. Challenging(n) => Challenging(m)
  BY <1>1, <1>2 DEF Challenging, Resembles
<1>6. Proving(n) => Proving(m)
  BY LoneKept DEF Proving, Resembles
<1>7. Answered(n) => Answered(m)
  BY <1>1, <1>2 DEF Answered, Resembles
<1>8. Severed(n) => Severed(m)
  BY <1>1, <1>2 DEF Severed, Resembles
<1>9. Resuming(n) => Resuming(m)
  BY <1>4, <1>5, <1>6, <1>7, <1>8 DEF Resuming
<1>10. Shaking(m) => Shaking(n)
  BY <1>2 DEF Shaking
<1>11. QED
  BY <1>3, <1>9, <1>10

\* What follows the end of attempts that nothing depends on leaves the keys in order.
LEMMA KeysLater ==
    ASSUME NEW w, NEW v, NEW E, ClientOK(w), ClientOK(v), KeysOK(w), Later(w, v, E),
           \A s \in E :
             /\ w.net[s].near # "connecting"
             /\ w.net[s].near = "open" =>
                  w.net[s].on # "pair" /\ ~(w.net[s].on = "resume" /\ Shaking(w.net[s]))
    PROVE  KeysOK(v)
<1>1. \A t \in Sockets : w.net[t] \in Socket /\ v.net[t] \in Socket
  BY DEF ClientOK, Client
<1>2. w.sc.ws \in Sockets \cup {NoSocket} /\ v.sc.ws = w.sc.ws /\ v.sc.key = w.sc.key
      /\ (v.sc.auth = "authenticated" => w.sc.auth = "authenticated")
  BY DEF ClientOK, Client, Secure, Later
<1>3. \A t \in Sockets :
        /\ v.net[t].near = "open" => w.net[t].near = "open"
        /\ w.net[t].near \in {"open", "closing", "closed"} => v.net[t].near = w.net[t].near
  BY DEF Later, SameSocket, Fresh
<1>4. v.sc.ws # NoSocket => v.net[v.sc.ws].near \in {"open", "closing", "closed"}
  BY <1>2, <1>3 DEF KeysOK
<1>5. IsConnected(v) => v.sc.key = v.sc.ws
  BY <1>2, <1>3 DEF KeysOK, IsConnected, IsOpen
<1>6. \A s : Rival(v, s) => Rival(w, s)
  BY <1>2, <1>3 DEF Rival, IsOpen
<1>7. ASSUME NEW s \in Sockets, v.net[s].near = "open"
      PROVE  /\ SocketOK(v.net[s])
             /\ v.net[s].on = "resume" /\ Shaking(v.net[s]) => ~Rival(v, s)
  <2>1. SameSocket(w.net[s], v.net[s]) /\ (s \notin E => v.net[s].running = w.net[s].running)
    BY <1>7 DEF Later, Fresh
  <2>2. Resembles(w.net[s], v.net[s])
    BY <1>1, <2>1, SameSocketResembles
  <2>3. /\ Pairing(w.net[s]) => Pairing(v.net[s])
        /\ Resuming(w.net[s]) => Resuming(v.net[s])
        /\ Shaking(v.net[s]) => Shaking(w.net[s])
    BY <1>1, <2>2, ResemblingShakes
  <2>4. w.net[s].near = "open" /\ w.net[s].on = v.net[s].on
    BY <1>7, <2>1 DEF SameSocket
  <2>5. CASE v.net[s].on = "pair"
    <3>1. s \notin E /\ Pairing(w.net[s]) /\ w.net[s].running
      BY <2>4, <2>5 DEF KeysOK, SocketOK
    <3>2. QED
      BY <1>7, <2>1, <2>3, <2>5, <3>1 DEF SocketOK
  <2>6. CASE v.net[s].on = "resume"
    <3>1. /\ Resuming(w.net[s])
          /\ Shaking(w.net[s]) => w.net[s].running /\ s \notin E /\ ~Rival(w, s)
      BY <2>4, <2>6 DEF KeysOK, SocketOK
    <3>2. QED
      BY <1>6, <1>7, <2>1, <2>3, <2>6, <3>1 DEF SocketOK
  <2>7. CASE v.net[s].on \notin {"pair", "resume"}
    BY <1>7, <2>7 DEF SocketOK
  <2>8. QED
    BY <2>5, <2>6, <2>7
<1>8. ASSUME NEW s \in Sockets, v.net[s].near = "connecting"
      PROVE  SocketOK(v.net[s])
  <2>1. CASE SameSocket(w.net[s], v.net[s])
             /\ (s \notin E => v.net[s].running = w.net[s].running)
    <3>1. w.net[s].near = "connecting"
      BY <1>8, <2>1 DEF SameSocket
    <3>2. Fresh(w.net[s]) /\ s \notin E
      BY <3>1 DEF KeysOK, SocketOK
    <3>3. QED
      BY <1>8, <2>1, <3>1, <3>2 DEF SameSocket, Fresh, SocketOK
  <2>2. CASE Fresh(v.net[s])
    BY <1>8, <2>2 DEF SocketOK
  <2>3. QED
    BY <2>1, <2>2 DEF Later
<1>9. \A s \in Sockets :
         /\ SocketOK(v.net[s])
         /\ v.net[s].near = "open" /\ v.net[s].on = "resume" /\ Shaking(v.net[s])
            => ~Rival(v, s)
  BY <1>7, <1>8 DEF SocketOK
<1>10. QED
  BY <1>4, <1>5, <1>9 DEF KeysOK

\* One socket changes, to one that is in order.
LEMMA KeysOneSocket ==
    ASSUME NEW w, NEW v, ClientOK(w), KeysOK(w), NEW s \in Sockets,
           v.sc = w.sc, \A t \in Sockets \ {s} : v.net[t] = w.net[t],
           SocketOK(v.net[s]),
           w.sc.ws = s => /\ v.net[s].near \in {"open", "closing", "closed"}
                          /\ v.net[s].near = "open" => w.net[s].near = "open",
           v.net[s].near = "open" /\ v.net[s].on = "resume" /\ Shaking(v.net[s])
              => ~Rival(w, s)
    PROVE  KeysOK(v)
<1>1. w.sc.ws \in Sockets \cup {NoSocket}
  BY DEF ClientOK, Client, Secure
<1>2. v.sc.ws # NoSocket => v.net[v.sc.ws].near \in {"open", "closing", "closed"}
  BY <1>1 DEF KeysOK
<1>3. IsOpen(v, v.sc.ws) => IsOpen(w, w.sc.ws)
  BY <1>1 DEF IsOpen
<1>4. IsConnected(v) => v.sc.key = v.sc.ws
  BY <1>3 DEF KeysOK, IsConnected
<1>5. \A t : Rival(v, t) => Rival(w, t)
  BY <1>3 DEF Rival
<1>6. \A t \in Sockets :
         /\ SocketOK(v.net[t])
         /\ v.net[t].near = "open" /\ v.net[t].on = "resume" /\ Shaking(v.net[t])
            => ~Rival(v, t)
  BY <1>5 DEF KeysOK
<1>7. QED
  BY <1>2, <1>4, <1>6 DEF KeysOK

\* Shutting a socket keeps the keys in order.
LEMMA KeysShut ==
    ASSUME NEW w, NEW v, NEW s \in Sockets, ClientOK(w), KeysOK(w), Shut(w, v, s)
    PROVE  KeysOK(v)
<1>1. v.net[s].near \notin {"open", "connecting"}
  BY DEF Shut
<1>2. w.sc.ws = s => v.net[s].near \in {"open", "closing", "closed"}
  BY ClientConstants DEF KeysOK, Shut
<1>3. SocketOK(v.net[s])
  BY <1>1 DEF SocketOK
<1>4. v.sc = w.sc /\ \A t \in Sockets \ {s} : v.net[t] = w.net[t]
  BY DEF Shut
<1>5. QED
  BY <1>1, <1>2, <1>3, <1>4, KeysOneSocket

\* The keys depend on the sockets and the secure connection only.
LEMMA KeysSame ==
    ASSUME NEW w, NEW v, KeysOK(w), v.net = w.net, v.sc = w.sc
    PROVE  KeysOK(v)
  BY DEF KeysOK, IsConnected, IsOpen, Rival

\* Leaving "authenticated" keeps the keys in order.
LEMMA KeysUnauthenticated ==
    ASSUME NEW w, NEW v, KeysOK(w), v.net = w.net, v.sc.ws = w.sc.ws,
           v.sc.auth # "authenticated"
    PROVE  KeysOK(v)
  BY DEF KeysOK, IsConnected, IsOpen, Rival

\* Dropping the current socket keeps the keys in order.
LEMMA KeysNoSocket ==
    ASSUME NEW w, NEW v, KeysOK(w), v.net = w.net, v.sc.ws = NoSocket
    PROVE  KeysOK(v)
  BY DEF KeysOK, IsConnected, IsOpen, Rival

-----------------------------------------------------------------------------
(* The handlers: each leaves the client, the pursuit and, while no two     *)
(* attempts are under way, the keys in order.                              *)

Handled(w, v) ==
    /\ ClientOK(v) /\ Pursuit(v)
    /\ AtMostOne(w) /\ KeysOK(w) => KeysOK(v)

\* The same, where the keys stay in order only under F.
HandledIf(w, v, F) ==
    /\ ClientOK(v) /\ Pursuit(v)
    /\ AtMostOne(w) /\ KeysOK(w) /\ F => KeysOK(v)

\* Its attempt may end: nothing is to come of the socket s.
Spent(w, s) ==
    /\ w.net[s].near # "connecting"
    /\ w.net[s].near = "open" =>
         w.net[s].on # "pair" /\ ~(w.net[s].on = "resume" /\ Shaking(w.net[s]))

\* Settling the attempt of a socket that is spent keeps the keys in order.
LEMMA KeysAfterOne ==
    ASSUME NEW w, NEW v, NEW s, ClientOK(w), KeysOK(w), Fine(w, v, {s}), Spent(w, s)
    PROVE  KeysOK(v)
  BY KeysLater DEF Fine, Spent

\* A change that settles no attempt keeps the client in order.
LEMMA FineAloneIsHandled ==
    ASSUME NEW w, NEW v, ClientOK(w), Pursuit(w), Fine(w, v, {})
    PROVE  Handled(w, v)
<1>1. KeysOK(w) => KeysOK(v)
  BY KeysLater DEF Fine
<1>2. QED
  BY <1>1 DEF Fine, Handled

\* A shut socket is out of use; pursuit and keys are as they were.
LEMMA ShutFacts ==
    ASSUME NEW w, NEW v, NEW s \in Sockets, ClientOK(w), Pursuit(w), Shut(w, v, s)
    PROVE  /\ ClientOK(v) /\ Pursuit(v) /\ v.net[s].near \notin {"open", "connecting"}
           /\ KeysOK(w) => KeysOK(v)
<1>1. KeysOK(w) => KeysOK(v)
  BY KeysShut
<1>2. v.net[s].near \notin {"open", "connecting"}
  BY DEF Shut
<1>3. QED
  BY <1>1, <1>2 DEF Shut, Pursuit

\* An attempt that closes its socket and fails.
LEMMA CloseAndRejectOK ==
    ASSUME NEW w, ClientOK(w), Pursuit(w), NEW s \in Sockets, NEW r \in BOOLEAN
    PROVE  Handled(w, Reject(CloseSocket(w, s), s, r))
<1> DEFINE v == CloseSocket(w, s)
<1>1. Shut(w, v, s)
  BY CloseSocketOK
<1> HIDE DEF v
<1>2. /\ ClientOK(v) /\ Pursuit(v) /\ v.net[s].near \notin {"open", "connecting"}
      /\ KeysOK(w) => KeysOK(v)
  BY <1>1, ShutFacts
<1>3. Fine(v, Reject(v, s, r), {s})
  BY <1>2, RejectOK
<1>4. KeysOK(v) => KeysOK(Reject(v, s, r))
  BY <1>2, <1>3, KeysAfterOne DEF Spent
<1>5. QED
  BY <1>2, <1>3, <1>4 DEF Fine, Handled, v

\* The secure connection with another state.
LEMMA AuthReplaced ==
    ASSUME NEW w, ClientOK(w),
           NEW a \in {"disconnected", "srp_resume_init_sent", "srp_resume_proof_sent",
                      "failed"}
    PROVE  LET v == [w EXCEPT !.sc.auth = a]
           IN /\ ClientOK(v) /\ v.cm = w.cm /\ v.net = w.net /\ v.bus = w.bus
              /\ v.subs = w.subs /\ v.sc.ws = w.sc.ws /\ v.sc.key = w.sc.key
              /\ v.sc.promise = w.sc.promise /\ v.sc.auth = a
              /\ Pursuit(w) => Pursuit(v)
              /\ KeysOK(w) => KeysOK(v)
<1> DEFINE c == [w.sc EXCEPT !.auth = a]
<1> DEFINE v == [w EXCEPT !.sc = c]
<1>1. c \in Secure /\ c.ws = w.sc.ws /\ c.key = w.sc.key /\ c.promise = w.sc.promise
      /\ c.auth = a
  BY DEF ClientOK, Client, Secure
<1> HIDE DEF c
<1>2. ClientOK(v) /\ v.sc = c /\ v.cm = w.cm /\ v.net = w.net /\ v.bus = w.bus
      /\ v.subs = w.subs
  BY <1>1, ScReplaced
<1>3. [w EXCEPT !.sc.auth = a] = v
  BY DEF c
<1> HIDE DEF v
<1>4. Pursuit(w) => Pursuit(v)
  BY <1>2 DEF Pursuit
<1>5. KeysOK(w) => KeysOK(v)
  BY <1>1, <1>2, KeysUnauthenticated
<1>6. QED
  BY <1>1, <1>2, <1>3, <1>4, <1>5

\* A resume that fails keeps the client in order, if the socket is spent.
LEMMA ResumeFailsOK ==
    ASSUME NEW w, ClientOK(w), Pursuit(w), NEW s \in Sockets
    PROVE  HandledIf(w, ResumeFails(w, s), Spent(w, s))
<1> DEFINE v == [w EXCEPT !.sc.auth = "failed"]
<1> DEFINE u == CloseSocket(v, w.sc.ws)
<1>1. /\ ClientOK(v) /\ v.net = w.net /\ v.sc.ws = w.sc.ws /\ Pursuit(v)
      /\ KeysOK(w) => KeysOK(v)
  BY AuthReplaced
<1>2. ResumeFails(w, s) = Reject(u, s, TRUE)
  BY DEF ResumeFails
<1> HIDE DEF v
<1>3. ClientOK(u) /\ Pursuit(u) /\ (KeysOK(v) => KeysOK(u)) /\ (Spent(w, s) => Spent(u, s))
  <2>1. CASE w.sc.ws = NoSocket
    <3>1. u = v
      BY <2>1 DEF CloseSocket
    <3>2. QED
      BY <1>1, <3>1 DEF Spent
  <2>2. CASE w.sc.ws # NoSocket
    <3>1. w.sc.ws \in Sockets
      BY <2>2 DEF ClientOK, Client, Secure
    <3>2. Shut(v, u, w.sc.ws)
      BY <1>1, <3>1, CloseSocketOK
    <3> HIDE DEF u
    <3>3. /\ ClientOK(u) /\ Pursuit(u) /\ u.net[w.sc.ws].near \notin {"open", "connecting"}
          /\ KeysOK(v) => KeysOK(u)
      BY <1>1, <3>1, <3>2, ShutFacts
    <3>4. Spent(w, s) => Spent(u, s)
      BY <1>1, <3>2, <3>3 DEF Spent, Shut
    <3>5. QED
      BY <3>3, <3>4
  <2>3. QED
    BY <2>1, <2>2
<1> HIDE DEF u
<1>4. Fine(u, Reject(u, s, TRUE), {s})
  BY <1>3, RejectOK
<1>5. KeysOK(u) /\ Spent(u, s) => KeysOK(Reject(u, s, TRUE))
  BY <1>3, <1>4, KeysAfterOne
<1>6. QED
  BY <1>1, <1>2, <1>3, <1>4, <1>5 DEF Fine, HandledIf

\* handleSocketClose() of a socket that is closed.
LEMMA HandleSocketCloseOK ==
    ASSUME NEW w, ClientOK(w), Pursuit(w), NEW s \in Sockets, w.net[s].near = "closed"
    PROVE  Handled(w, HandleSocketClose(w, s))
<1> DEFINE c == [w.sc EXCEPT !.ws = NoSocket, !.key = NoSocket]
<1> DEFINE v == [w EXCEPT !.sc = c]
<1>1. c \in Secure /\ c.ws = NoSocket
  BY DEF ClientOK, Client, Secure
<1>2. v = [w EXCEPT !.sc.ws = NoSocket, !.sc.key = NoSocket]
  BY DEF ClientOK, Client
<1>3. HandleSocketClose(w, s) =
        IF w.sc.auth = "authenticated"
        THEN NotifySubscriptionsClosed(
               HandleError([v EXCEPT !.sc.auth = "disconnected"], TRUE))
        ELSE Reject(NotifySubscriptionsClosed([v EXCEPT !.sc.auth = "failed"]), s, TRUE)
  <2> DEFINE x == [w EXCEPT !.sc.ws = NoSocket, !.sc.key = NoSocket]
  <2>1. HandleSocketClose(w, s) =
          IF w.sc.auth = "authenticated"
          THEN NotifySubscriptionsClosed(
                 HandleError([x EXCEPT !.sc.auth = "disconnected"], TRUE))
          ELSE Reject(NotifySubscriptionsClosed([x EXCEPT !.sc.auth = "failed"]), s, TRUE)
    BY DEF HandleSocketClose
  <2> HIDE DEF x, v
  <2>2. x = v
    BY <1>2 DEF x
  <2>3. QED
    BY <2>1, <2>2
<1> HIDE DEF c
<1>4. /\ ClientOK(v) /\ v.sc = c /\ v.cm = w.cm /\ v.net = w.net
  BY <1>1, ScReplaced
<1> HIDE DEF v
<1>5. Pursuit(v)
  BY <1>4 DEF Pursuit
<1>6. KeysOK(w) => KeysOK(v)
  BY <1>1, <1>4, KeysNoSocket
<1>7. CASE w.sc.auth = "authenticated"
  <2> DEFINE a == [v EXCEPT !.sc.auth = "disconnected"]
  <2> DEFINE b == HandleError(a, TRUE)
  <2>1. ClientOK(a) /\ Pursuit(a) /\ (KeysOK(v) => KeysOK(a))
    BY <1>4, <1>5, AuthReplaced
  <2>2. HandleSocketClose(w, s) = NotifySubscriptionsClosed(b)
    BY <1>3, <1>7
  <2> HIDE DEF a
  <2>3. OnlyManager(a, b) /\ Pursuit(b)
    BY <2>1, HandleErrorOK
  <2> HIDE DEF b
  <2>4. ClientOK(b) /\ (KeysOK(a) => KeysOK(b))
    BY <2>3, KeysSame DEF OnlyManager
  <2> DEFINE d == NotifySubscriptionsClosed(b)
  <2>5. Calm(b, d)
    BY <2>4, NotifySubscriptionsClosedOK
  <2> HIDE DEF d
  <2>6. ClientOK(d) /\ Pursuit(d) /\ Later(b, d, {})
    BY <2>3, <2>5, CalmIsLater DEF Calm
  <2>7. KeysOK(b) => KeysOK(d)
    BY <2>4, <2>6, KeysLater
  <2>8. HandleSocketClose(w, s) = d
    BY <2>2 DEF d
  <2>9. QED
    BY <1>6, <2>1, <2>4, <2>6, <2>7, <2>8 DEF Handled
<1>8. CASE w.sc.auth # "authenticated"
  <2> DEFINE a == [v EXCEPT !.sc.auth = "failed"]
  <2> DEFINE b == NotifySubscriptionsClosed(a)
  <2>1. ClientOK(a) /\ Pursuit(a) /\ a.net = v.net /\ (KeysOK(v) => KeysOK(a))
    BY <1>4, <1>5, AuthReplaced
  <2>2. HandleSocketClose(w, s) = Reject(b, s, TRUE)
    BY <1>3, <1>8
  <2> HIDE DEF a
  <2>3. Calm(a, b)
    BY <2>1, NotifySubscriptionsClosedOK
  <2> HIDE DEF b
  <2>4. ClientOK(b) /\ Pursuit(b) /\ Later(a, b, {})
    BY <2>1, <2>3, CalmIsLater DEF Calm
  <2>5. KeysOK(a) => KeysOK(b)
    BY <2>1, <2>4, KeysLater
  <2>6. b.net[s].near \notin {"open", "connecting"}
    BY <1>4, <2>1, <2>3 DEF Calm, SameSocket
  <2>7. Fine(b, Reject(b, s, TRUE), {s})
    BY <2>4, RejectOK
  <2>8. KeysOK(b) => KeysOK(Reject(b, s, TRUE))
    <3>1. Spent(b, s)
      BY <2>6 DEF Spent
    <3>2. QED
      BY <2>4, <2>7, <3>1, KeysAfterOne
  <2>9. QED
    BY <1>6, <2>1, <2>2, <2>4, <2>5, <2>7, <2>8 DEF Fine, Handled
<1>9. QED
  BY <1>7, <1>8

\* handleClose() of any socket, an old one too, keeps the client in order.
LEMMA OnCloseOK ==
    ASSUME NEW w, ClientOK(w), Pursuit(w), NEW s \in Sockets,
           w.net[s].near \in {"open", "closing"}
    PROVE  Handled(w, OnClose(w, s))
<1> DEFINE n == [w.net[s] EXCEPT !.near = "closed"]
<1> DEFINE v == [w EXCEPT !.net[s] = n]
<1>1. n \in Socket /\ n.near = "closed" /\ n.waiters = w.net[s].waiters
      /\ IsFiniteSet(n.waiters)
  BY DEF ClientOK, Client, Socket, Awaited
<1>2. v = [w EXCEPT !.net[s].near = "closed"]
  OBVIOUS
<1>3. OnClose(w, s) \in {v, Reject(v, s, TRUE), HandleSocketClose(v, s)}
  <2> DEFINE x == [w EXCEPT !.net[s].near = "closed"]
  <2>1. x = v
    BY <1>2
  <2>2. OnClose(w, s) \in {x, Reject(x, s, TRUE), HandleSocketClose(x, s)}
    <3> HIDE DEF v, n
    <3>1. CASE w.net[s].on = "pair"
      BY <3>1 DEF OnClose
    <3>2. CASE w.net[s].on \in {"resume", "message"}
      BY <3>2 DEF OnClose
    <3>3. CASE w.net[s].on \notin {"pair", "resume", "message"}
      BY <3>3 DEF OnClose
    <3>4. QED
      BY <3>1, <3>2, <3>3
  <2> HIDE DEF x, v
  <2>3. QED
    BY <2>1, <2>2
<1> HIDE DEF n
<1>4. /\ ClientOK(v) /\ v.net[s] = n /\ \A t \in Sockets \ {s} : v.net[t] = w.net[t]
      /\ v.cm = w.cm /\ v.sc = w.sc /\ v.bus = w.bus /\ v.subs = w.subs
  BY <1>1, NetReplaced
<1> HIDE DEF v
<1>5. Pursuit(v)
  BY <1>4 DEF Pursuit
<1>6. SocketOK(v.net[s]) /\ v.net[s].near = "closed"
  BY <1>1, <1>4 DEF SocketOK
<1>7. KeysOK(w) => KeysOK(v)
  BY <1>4, <1>6, KeysOneSocket
<1>8. CASE OnClose(w, s) = v
  BY <1>4, <1>5, <1>7, <1>8 DEF Handled
<1>9. CASE OnClose(w, s) = Reject(v, s, TRUE)
  <2>1. Fine(v, Reject(v, s, TRUE), {s})
    BY <1>4, <1>5, RejectOK
  <2>2. KeysOK(v) => KeysOK(Reject(v, s, TRUE))
    BY <1>4, <1>6, <2>1, KeysAfterOne DEF Spent
  <2>3. QED
    BY <1>5, <1>7, <1>9, <2>1, <2>2 DEF Fine, Handled
<1>10. CASE OnClose(w, s) = HandleSocketClose(v, s)
  <2>1. Handled(v, HandleSocketClose(v, s))
    BY <1>4, <1>5, <1>6, HandleSocketCloseOK
  <2>2. AtMostOne(w) => AtMostOne(v)
    <3>1. \A t \in Sockets : v.net[t].running = w.net[t].running
      <4>1. n.running = w.net[s].running
        BY DEF n, ClientOK, Client, Socket
      <4>2. QED
        BY <1>4, <4>1
    <3>2. QED
      BY <3>1 DEF AtMostOne
  <2>3. QED
    BY <1>7, <1>10, <2>1, <2>2 DEF Handled
<1>11. QED
  BY <1>3, <1>8, <1>9, <1>10

-----------------------------------------------------------------------------
(* Messages at the phone.                                                  *)

\* What the next message m of the socket s says of the socket, once it is read.
Reading(n, m) ==
    /\ n.on = "pair" =>
         /\ n.running /\ NoUp(n.up, 1) /\ NoDown(n.down, 1)
         /\ n.far \in {"server", "gone"} /\ (n.far = "server" => Len(n.down) = 0)
         /\ m.type \in {"connected", "offline", "unknown", "close"}
    /\ n.on = "resume" =>
         /\ ~Shaking(n)
         /\ m.type = "challenge" =>
              n.running /\ (n.far = "gone" \/ (n.far = "challenged" /\ Len(n.down) = 0))

\* Taking the first message off a queue.
LEMMA TailFacts ==
    ASSUME NEW n \in Socket, n.down # <<>>
    PROVE  /\ Head(n.down) = n.down[1] /\ n.down[1] \in DownMessage
           /\ Tail(n.down) \in Seq(DownMessage)
           /\ Len(n.down) \in Nat \ {0} /\ Len(Tail(n.down)) = Len(n.down) - 1
           /\ \A i \in 1 .. Len(Tail(n.down)) : Tail(n.down)[i] = n.down[i + 1]
<1>1. n.down \in Seq(DownMessage)
  BY DEF Socket
<1>2. QED
  BY <1>1

\* Reading one message of a socket in order moves its handshake on by that message.
LEMMA ReadOK ==
    ASSUME NEW n \in Socket, n.near = "open", n.down # <<>>
    PROVE  LET m == [n EXCEPT !.down = Tail(@)]
           IN /\ m \in Socket /\ m.near = n.near /\ m.on = n.on /\ m.far = n.far
              /\ m.up = n.up /\ m.running = n.running /\ m.waiters = n.waiters
              /\ SocketOK(n) => SocketOK(m) /\ Reading(m, Head(n.down))
              /\ n.on = "resume" /\ SocketOK(n) /\ Head(n.down).type \in DownShake
                 => Shaking(n)
              /\ Shaking(m) => Shaking(n)
<1> DEFINE m == [n EXCEPT !.down = Tail(n.down)]
<1> DEFINE h == Head(n.down)
<1>1. /\ h = n.down[1]
      /\ Tail(n.down) \in Seq(DownMessage)
      /\ Len(n.down) \in Nat \ {0} /\ Len(Tail(n.down)) = Len(n.down) - 1
      /\ \A i \in 1 .. Len(Tail(n.down)) : Tail(n.down)[i] = n.down[i + 1]
  BY TailFacts
<1>2. /\ m \in Socket /\ m.near = n.near /\ m.on = n.on /\ m.far = n.far
      /\ m.up = n.up /\ m.running = n.running /\ m.waiters = n.waiters
      /\ m.down = Tail(n.down)
  BY <1>1 DEF Socket
<1> HIDE DEF m, h
<1>3. /\ Len(m.down) = Len(n.down) - 1 /\ Len(n.down) \in Nat \ {0}
      /\ \A i \in 1 .. Len(m.down) : m.down[i] = n.down[i + 1]
  BY <1>1, <1>2
<1>4. NoDown(n.down, 2) => NoDown(m.down, 1)
  <2>1. ASSUME NoDown(n.down, 2), NEW i \in 1 .. Len(m.down)
        PROVE  m.down[i].type \notin DownShake
    <3>1. i + 1 \in 2 .. Len(n.down)
      BY <1>3
    <3>2. QED
      BY <1>3, <2>1, <3>1 DEF NoDown
  <2>2. QED
    BY <2>1 DEF NoDown
<1>5. NoDown(m.down, 1) => NoDown(m.down, 2)
  BY <1>3 DEF NoDown
<1>6. Shaking(m) => Shaking(n)
  <2>1. NoDown(n.down, 1) => NoDown(n.down, 2)
    BY <1>3 DEF NoDown
  <2>2. QED
    BY <1>2, <1>4, <2>1 DEF Shaking
<1>7. ASSUME SocketOK(n), n.on = "pair"
      PROVE  SocketOK(m) /\ Reading(m, h)
  <2>1. Pairing(n) /\ n.running
    BY <1>7 DEF SocketOK
  <2>2. \A i \in 1 .. Len(m.down) :
          m.down[i].type \in {"connected", "offline", "unknown", "close"}
    <3>1. ASSUME NEW i \in 1 .. Len(m.down)
          PROVE  m.down[i].type \in {"connected", "offline", "unknown", "close"}
      <4>1. i + 1 \in 1 .. Len(n.down)
        BY <1>3
      <4>2. QED
        BY <1>3, <2>1, <4>1 DEF Pairing
    <3>2. QED
      BY <3>1
  <2>3. h.type \in {"connected", "offline", "unknown", "close"}
    <3>1. 1 \in 1 .. Len(n.down)
      BY <1>3
    <3>2. QED
      BY <1>1, <2>1, <3>1 DEF Pairing
  <2>4. n.far \in {"server", "gone"} /\ (n.far = "server" => Len(m.down) = 0)
    <3>1. Len(n.down) # 0 /\ (Len(n.down) <= 1 => Len(m.down) = 0)
      <4> DEFINE j == Len(m.down)
      <4> DEFINE k == Len(n.down)
      <4>1. j = k - 1 /\ k \in Nat /\ k # 0
        BY <1>3
      <4> HIDE DEF j, k
      <4>2. k # 0 /\ (k <= 1 => j = 0)
        BY <4>1
      <4>3. QED
        BY <4>2 DEF j, k
    <3>2. QED
      BY <2>1, <3>1 DEF Pairing
  <2>5. NoDown(m.down, 1)
    BY <2>2 DEF NoDown, DownShake
  <2>6. Pairing(m)
    BY <1>2, <2>1, <2>2, <2>4 DEF Pairing
  <2>7. NoUp(m.up, 1)
    BY <1>2, <2>1 DEF Pairing
  <2>8. QED
    BY <1>2, <1>7, <2>1, <2>3, <2>4, <2>5, <2>6, <2>7 DEF SocketOK, Reading
<1>8. ASSUME SocketOK(n), n.on = "resume"
      PROVE  /\ SocketOK(m) /\ Reading(m, h)
             /\ h.type \in DownShake => Shaking(n)
  <2>1. Resuming(n) /\ (Shaking(n) => n.running)
    BY <1>8 DEF SocketOK
  <2>2. Challenging(n) \/ Answered(n) \/ Severed(n)
    BY <1>3, <2>1 DEF Resuming, InitSent, Proving
  <2>3. NoUp(m.up, 1)
    BY <1>2, <2>2 DEF Challenging, Answered, Severed
  <2>4. NoDown(m.down, 1)
    <3>1. CASE Challenging(n)
      BY <1>3, <3>1 DEF Challenging, NoDown
    <3>2. CASE Answered(n) \/ Severed(n)
      BY <1>4, <3>2 DEF Answered, Severed
    <3>3. QED
      BY <2>2, <3>1, <3>2
  <2>5. ~Shaking(m)
    BY <2>3, <2>4 DEF Shaking
  <2>6. h.type \in DownShake => Shaking(n)
    <3>1. 1 \in 1 .. Len(n.down)
      BY <1>3
    <3>2. QED
      BY <1>1, <3>1 DEF Shaking, NoDown
  <2>7. h.type = "challenge" => n.far = "gone" \/ (n.far = "challenged" /\ Len(m.down) = 0)
    BY <1>1, <1>3, <2>2 DEF Challenging, Answered, Severed
  <2>8. Resuming(m)
    <3>1. CASE Challenging(n)
      <4>1. m.far = "challenged" /\ Len(m.down) = 0
        BY <1>2, <1>3, <3>1 DEF Challenging
      <4>2. Lone(m.up, "proof")
        BY <2>3 DEF NoUp, Lone
      <4>3. QED
        BY <4>1, <4>2 DEF Resuming, Proving
    <3>2. CASE Answered(n)
      <4>1. Len(m.down) >= 1 => m.down[1].type # "challenge"
        BY <1>3, <2>4 DEF NoDown, DownShake
      <4>2. Answered(m)
        BY <1>2, <1>5, <2>3, <2>4, <3>2, <4>1 DEF Answered
      <4>3. QED
        BY <4>2 DEF Resuming
    <3>3. CASE Severed(n)
      BY <1>2, <1>5, <2>3, <2>4, <3>3 DEF Severed, Resuming
    <3>4. QED
      BY <2>2, <3>1, <3>2, <3>3
  <2>9. "challenge" \in DownShake
    BY DEF DownShake
  <2>10. Reading(m, h)
    BY <1>2, <1>8, <2>1, <2>5, <2>6, <2>7, <2>9 DEF Reading
  <2>11. QED
    BY <1>2, <1>8, <2>1, <2>5, <2>6, <2>8, <2>10 DEF SocketOK
<1>9. ASSUME SocketOK(n)
      PROVE  SocketOK(m) /\ Reading(m, h)
  BY <1>2, <1>7, <1>8, <1>9 DEF SocketOK, Reading
<1>10. QED
  BY <1>2, <1>6, <1>8, <1>9 DEF m, h

\* One more message under way to the server.
LEMMA PushFacts ==
    ASSUME NEW n \in Socket, NEW type \in Up
    PROVE  /\ Push(n, type) \in Socket
           /\ Push(n, type).waiters = n.waiters /\ Push(n, type).running = n.running
           /\ Push(n, type).near = n.near /\ Push(n, type).on = n.on
           /\ Push(n, type).far = n.far /\ Push(n, type).down = n.down
           /\ n.near # "open" \/ n.far = "gone" => Push(n, type) = n
           /\ NoUp(n.up, 1) => Lone(Push(n, type).up, type)
<1> DEFINE x == Msg(type, NoSub)
<1>1. n.up \in Seq(UpMessage) /\ Len(n.up) \in Nat
  BY SocketLengths
<1>2. x \in UpMessage /\ x.type = type
  BY DEF Msg, UpMessage
<1>3. Push(n, type) = PushAll(n, <<x>>)
  BY DEF Push
<1> HIDE DEF x
<1>4. CASE ~(n.near = "open" /\ n.far # "gone")
  <2>1. Push(n, type) = n
    BY <1>3, <1>4 DEF PushAll
  <2>2. NoUp(n.up, 1) => Lone(n.up, type)
    BY DEF NoUp, Lone
  <2>3. QED
    BY <2>1, <2>2
<1>5. CASE n.near = "open" /\ n.far # "gone"
  <2> DEFINE q == n.up \o <<x>>
  <2>1. Push(n, type) = [n EXCEPT !.up = q]
    BY <1>3, <1>5 DEF PushAll
  <2>2. q \in Seq(UpMessage) /\ Len(q) = Len(n.up) + 1
        /\ (\A i \in 1 .. Len(n.up) : q[i] = n.up[i]) /\ q[Len(n.up) + 1] = x
    BY <1>1, <1>2
  <2> HIDE DEF q
  <2>3. /\ Push(n, type) \in Socket
        /\ Push(n, type).waiters = n.waiters /\ Push(n, type).running = n.running
        /\ Push(n, type).near = n.near /\ Push(n, type).on = n.on
        /\ Push(n, type).far = n.far /\ Push(n, type).down = n.down
        /\ Push(n, type).up = q
    BY <2>1, <2>2 DEF Socket
  <2>4. ASSUME NoUp(n.up, 1)
        PROVE  Lone(q, type)
    <3>1. ASSUME NEW i \in 1 .. Len(q), q[i].type \in UpShake
          PROVE  q[i].type = type /\ NoUp(q, i + 1)
      <4>1. i \notin 1 .. Len(n.up)
        BY <2>2, <2>4, <3>1 DEF NoUp
      <4>2. i = Len(n.up) + 1 /\ i = Len(q)
        BY <1>1, <2>2, <4>1
      <4>3. NoUp(q, i + 1)
        BY <1>1, <2>2, <4>2 DEF NoUp
      <4>4. QED
        BY <1>2, <2>2, <4>2, <4>3
    <3>2. QED
      BY <3>1 DEF Lone
  <2>5. QED
    BY <1>5, <2>3, <2>4
<1>6. QED
  BY <1>4, <1>5

\* Sending the first message of the handshake keeps the client in order.
LEMMA ResumeOnExistingSocketOK ==
    ASSUME NEW w, ClientOK(w), Pursuit(w), NEW s \in Sockets, w.net[s].near = "open",
           w.net[s].on = "pair", NEW m
    PROVE  HandledIf(w, ResumeOnExistingSocket(w, s), Reading(w.net[s], m))
<1> DEFINE k == [w.net[s] EXCEPT !.on = "resume", !.timer = TRUE]
<1> DEFINE n == Push(k, "init")
<1> DEFINE c == [w.sc EXCEPT !.ws = s, !.auth = "srp_resume_init_sent"]
<1> DEFINE u == [w EXCEPT !.sc = c]
<1> DEFINE v == [u EXCEPT !.net[s] = n]
<1>1. ResumeOnExistingSocket(w, s) = v
  <2> DEFINE x == [w EXCEPT !.sc.ws = s, !.sc.auth = "srp_resume_init_sent",
                            !.net[s] = Push([@ EXCEPT !.on = "resume", !.timer = TRUE],
                                            "init")]
  <2>1. ResumeOnExistingSocket(w, s) = x
    BY DEF ResumeOnExistingSocket
  <2> HIDE DEF n
  <2>2. x = [u EXCEPT !.net[s] = Push(k, "init")]
    BY DEF ClientOK, Client
  <2> HIDE DEF x, k, u
  <2>3. QED
    BY <2>1, <2>2 DEF n
<1>2. /\ k \in Socket /\ k.on = "resume" /\ k.near = "open" /\ k.far = w.net[s].far
      /\ k.up = w.net[s].up /\ k.down = w.net[s].down /\ k.running = w.net[s].running
      /\ IsFiniteSet(k.waiters)
  BY DEF ClientOK, Client, Socket, Awaited
<1> HIDE DEF k
<1>3. /\ n \in Socket /\ n.waiters = k.waiters /\ n.running = k.running
      /\ n.near = "open" /\ n.on = "resume" /\ n.far = k.far /\ n.down = k.down
      /\ k.far = "gone" => n = k
      /\ NoUp(k.up, 1) => Lone(n.up, "init")
  <2>1. "init" \in Up
    BY DEF Up
  <2>2. QED
    BY <1>2, <2>1, PushFacts
<1> HIDE DEF n
<1>4. c \in Secure /\ c.ws = s /\ c.auth = "srp_resume_init_sent"
  BY DEF ClientOK, Client, Secure
<1> HIDE DEF c
<1>5. ClientOK(u) /\ u.sc = c /\ u.cm = w.cm /\ u.net = w.net
  BY <1>4, ScReplaced
<1> HIDE DEF u
<1>6. /\ ClientOK(v) /\ v.net[s] = n /\ \A t \in Sockets \ {s} : v.net[t] = u.net[t]
      /\ v.cm = u.cm /\ v.sc = u.sc
  <2>1. n \in Socket /\ IsFiniteSet(n.waiters) /\ ClientOK(u)
    BY <1>2, <1>3, <1>5
  <2>2. QED
    BY <2>1, NetReplaced
<1> HIDE DEF v
<1>7. Pursuit(v)
  BY <1>5, <1>6 DEF Pursuit
<1>8. ASSUME AtMostOne(w), KeysOK(w), Reading(w.net[s], m)
      PROVE  KeysOK(v)
  <2>1. /\ w.net[s].running /\ NoUp(k.up, 1) /\ NoDown(k.down, 1)
        /\ k.far \in {"server", "gone"} /\ (k.far = "server" => Len(k.down) = 0)
    BY <1>2, <1>8 DEF Reading
  <2>2. NoDown(n.down, 2)
    BY <1>3, <2>1 DEF NoDown
  <2>3. Resuming(n)
    <3>1. CASE k.far = "server"
      BY <1>3, <2>1, <3>1 DEF Resuming, InitSent
    <3>2. CASE k.far = "gone"
      BY <1>3, <2>1, <2>2, <3>2 DEF Resuming, Severed
    <3>3. QED
      BY <2>1, <3>1, <3>2
  <2>4. SocketOK(n)
    BY <1>2, <1>3, <2>1, <2>3 DEF SocketOK
  <2>5. v.sc.ws = s /\ v.sc.auth # "authenticated" /\ v.net[s].near = "open"
    BY <1>3, <1>4, <1>5, <1>6
  <2>6. ~Rival(v, s)
    BY <2>5 DEF Rival
  <2>7. ASSUME NEW t \in Sockets, t # s
        PROVE  SocketOK(v.net[t])
               /\ ~(v.net[t].near = "open" /\ v.net[t].on = "resume" /\ Shaking(v.net[t]))
    <3>1. v.net[t] = w.net[t]
      BY <1>5, <1>6, <2>7
    <3>2. ~w.net[t].running
      BY <1>8, <2>1, <2>7 DEF AtMostOne
    <3>3. SocketOK(w.net[t])
      BY <1>8 DEF KeysOK
    <3>4. QED
      BY <3>1, <3>2, <3>3 DEF SocketOK
  <2>8. ~IsConnected(v)
    BY <2>5 DEF IsConnected
  <2>9. \A t \in Sockets :
           /\ SocketOK(v.net[t])
           /\ v.net[t].near = "open" /\ v.net[t].on = "resume" /\ Shaking(v.net[t])
              => ~Rival(v, t)
    BY <1>6, <2>4, <2>6, <2>7
  <2>10. QED
    BY <2>5, <2>8, <2>9 DEF KeysOK
<1>9. QED
  BY <1>1, <1>6, <1>7, <1>8 DEF HandledIf

\* Answering the challenge keeps the client in order, unless the socket has a rival.
LEMMA ResumeChallengedOK ==
    ASSUME NEW w, ClientOK(w), Pursuit(w), NEW s \in Sockets, w.net[s].near = "open",
           w.net[s].on = "resume", NEW m, m.type = "challenge"
    PROVE  HandledIf(w, ResumeChallenged(w, s), Reading(w.net[s], m) /\ ~Rival(w, s))
<1> DEFINE v == [w EXCEPT !.sc.auth = "srp_resume_proof_sent"]
<1> DEFINE t == w.sc.ws
<1> DEFINE type == IF t = s THEN "proof" ELSE "badproof"
<1> DEFINE n == Push(v.net[t], type)
<1> DEFINE u == [v EXCEPT !.net[t] = n]
<1>1. ResumeChallenged(w, s) = IF t = NoSocket THEN v ELSE u
  <2> HIDE DEF type
  <2>1. v.sc.ws = w.sc.ws
    BY AuthReplaced
  <2>2. QED
    BY <2>1 DEF ResumeChallenged, type
<1>2. /\ ClientOK(v) /\ v.net = w.net /\ v.sc.ws = w.sc.ws /\ Pursuit(v)
      /\ KeysOK(w) => KeysOK(v)
  BY AuthReplaced
<1>3. CASE t = NoSocket
  BY <1>1, <1>2, <1>3 DEF HandledIf
<1>4. CASE t # NoSocket
  <2>1. t \in Sockets /\ v.net[t] \in Socket /\ IsFiniteSet(v.net[t].waiters)
    BY <1>2, <1>4 DEF ClientOK, Client, Secure, Awaited
  <2>2. type \in Up
    BY DEF Up
  <2> HIDE DEF type, v
  <2>3. /\ n \in Socket /\ n.waiters = v.net[t].waiters /\ n.running = v.net[t].running
        /\ n.near = v.net[t].near /\ n.on = v.net[t].on
        /\ n.far = v.net[t].far /\ n.down = v.net[t].down
        /\ v.net[t].near # "open" \/ v.net[t].far = "gone" => n = v.net[t]
        /\ NoUp(v.net[t].up, 1) => Lone(n.up, type)
    BY <2>1, <2>2, PushFacts
  <2> HIDE DEF n
  <2>4. /\ ClientOK(u) /\ u.net[t] = n /\ \A z \in Sockets \ {t} : u.net[z] = v.net[z]
        /\ u.cm = v.cm /\ u.sc = v.sc
    <3>1. n \in Socket /\ IsFiniteSet(n.waiters) /\ t \in Sockets
      BY <2>1, <2>3
    <3> HIDE DEF t
    <3>2. QED
      BY <1>2, <3>1, NetReplaced
  <2>5. Pursuit(u)
    BY <1>2, <2>4 DEF Pursuit
  <2> HIDE DEF u
  <2>6. ASSUME AtMostOne(w), KeysOK(w), Reading(w.net[s], m), ~Rival(w, s)
        PROVE  KeysOK(u)
    <3>1. KeysOK(v) /\ Reading(w.net[s], m) /\ ~Rival(w, s)
      BY <1>2, <2>6
    <3>2. CASE t = s
      <4>1. /\ v.net[s].running /\ ~Shaking(v.net[s])
            /\ v.net[s].far = "gone" \/ (v.net[s].far = "challenged" /\ Len(v.net[s].down) = 0)
        BY <1>2, <3>1 DEF Reading
      <4>2. SocketOK(v.net[s])
        BY <3>1 DEF KeysOK
      <4>3. SocketOK(n)
        <5>1. CASE v.net[s].far = "gone"
          BY <2>3, <3>2, <4>2, <5>1
        <5>2. CASE v.net[s].far = "challenged" /\ Len(v.net[s].down) = 0
          <6>1. Lone(n.up, "proof")
            BY <2>3, <3>2, <4>1 DEF Shaking, type
          <6>2. Proving(n)
            BY <2>3, <3>2, <5>2, <6>1 DEF Proving
          <6>3. n.running /\ n.on = "resume" /\ n.near = "open"
            BY <1>2, <2>3, <3>2, <4>1
          <6>4. QED
            BY <6>2, <6>3 DEF SocketOK, Resuming
        <5>3. QED
          BY <4>1, <5>1, <5>2
      <4>4. ~Rival(v, s)
        BY <1>2, <3>2 DEF Rival
      <4>5. n.near = "open" /\ v.net[s].near = "open"
        BY <1>2, <2>3, <3>2
      <4>6. QED
        BY <1>2, <2>4, <3>1, <3>2, <4>3, <4>4, <4>5, KeysOneSocket
    <3>3. CASE t # s
      <4>1. w.net[t].near # "open"
        BY <1>4, <3>1, <3>3 DEF Rival, IsOpen
      <4>2. n = v.net[t]
        BY <1>2, <2>3, <4>1
      <4>3. u.net = v.net
        <5>1. u.net \in [Sockets -> Socket] /\ v.net \in [Sockets -> Socket]
          BY <1>2, <2>4 DEF ClientOK, Client
        <5>2. \A z \in Sockets : u.net[z] = v.net[z]
          BY <2>4, <4>2
        <5>3. QED
          BY <5>1, <5>2
      <4>4. QED
        BY <2>4, <3>1, <4>3, KeysSame
    <3>4. QED
      BY <3>2, <3>3
  <2>7. QED
    BY <1>1, <1>4, <2>4, <2>5, <2>6 DEF HandledIf
<1>5. QED
  BY <1>3, <1>4

\* The current socket is used for encrypted messages from now on.
LEMMA KeysTalking ==
    ASSUME NEW w, NEW v, KeysOK(w), NEW t \in Sockets, w.sc.ws = t, v.sc.ws = t,
           \A z \in Sockets \ {t} : v.net[z] = w.net[z],
           v.net[t].near = w.net[t].near, v.net[t].on = "message",
           IsConnected(v) => v.sc.key = t
    PROVE  KeysOK(v)
<1>1. \A z : Rival(v, z) => Rival(w, z)
  BY DEF Rival, IsOpen
<1>2. SocketOK(v.net[t])
  BY ClientConstants DEF KeysOK, SocketOK
<1>3. \A z \in Sockets :
         /\ SocketOK(v.net[z])
         /\ v.net[z].near = "open" /\ v.net[z].on = "resume" /\ Shaking(v.net[z])
            => ~Rival(v, z)
  BY <1>1, <1>2 DEF KeysOK
<1>4. v.net[t].near \in {"open", "closing", "closed"}
  BY ClientConstants DEF KeysOK
<1>5. QED
  BY <1>3, <1>4 DEF KeysOK

\* A resumed session keeps the client in order: the key is that of its socket.
LEMMA SessionResumedOK ==
    ASSUME NEW w, ClientOK(w), Pursuit(w), Room(w), NEW s \in Sockets,
           w.net[s].near = "open", w.net[s].on = "resume"
    PROVE  HandledIf(w, SessionResumed(w, s), ~Shaking(w.net[s]) /\ ~Rival(w, s))
<1> DEFINE c == [w.sc EXCEPT !.key = s, !.auth = "authenticated"]
<1> DEFINE v == [w EXCEPT !.sc = c]
<1> DEFINE t == w.sc.ws
<1> DEFINE n == [v.net[t] EXCEPT !.on = "message"]
<1> DEFINE u == [v EXCEPT !.net[t] = n]
<1> DEFINE k == Push(u.net[t], "garbled")
<1> DEFINE y == [u EXCEPT !.net[t] = k]
<1> DEFINE x == IF t = NoSocket THEN v ELSE IF t = s THEN u ELSE y
<1>1. SessionResumed(w, s) = Resolve(x, s)
  <2> DEFINE a == [w EXCEPT !.sc.key = s, !.sc.auth = "authenticated"]
  <2> DEFINE b == IF w.sc.ws = NoSocket THEN a ELSE [a EXCEPT !.net[w.sc.ws].on = "message"]
  <2>1. SessionResumed(w, s) =
          Resolve(IF w.sc.ws \in {s, NoSocket} THEN b
                  ELSE [b EXCEPT !.net[w.sc.ws] = Push(@, "garbled")], s)
    BY DEF SessionResumed
  <2>2. a = v
    BY DEF ClientOK, Client
  <2> HIDE DEF a, v
  <2>3. b = IF t = NoSocket THEN v ELSE u
    BY <2>2
  <2> HIDE DEF b, u, k
  <2>4. s # NoSocket
    BY ClientConstants
  <2>5. (IF w.sc.ws \in {s, NoSocket} THEN b
         ELSE [b EXCEPT !.net[w.sc.ws] = Push(@, "garbled")]) = x
    <3>1. CASE t = NoSocket
      BY <2>3, <3>1
    <3>2. CASE t = s
      BY <2>3, <2>4, <3>2
    <3>3. CASE t # NoSocket /\ t # s
      <4>1. b = u
        BY <2>3, <3>3
      <4>2. x = [u EXCEPT !.net[t] = Push(u.net[t], "garbled")]
        BY <3>3 DEF k
      <4>3. QED
        BY <3>3, <4>1, <4>2
    <3>4. QED
      BY <3>1, <3>2, <3>3
  <2> HIDE DEF x
  <2>6. QED
    BY <2>1, <2>5
<1>2. c \in Secure /\ c.ws = t /\ c.key = s /\ c.auth = "authenticated"
  BY DEF ClientOK, Client, Secure
<1> HIDE DEF c
<1>3. ClientOK(v) /\ v.sc = c /\ v.cm = w.cm /\ v.net = w.net /\ v.subs = w.subs
  BY <1>2, ScReplaced
<1> HIDE DEF v
<1>4. Pursuit(v) /\ Room(v)
  BY <1>3 DEF Pursuit, Room
<1>5. /\ ClientOK(x) /\ Pursuit(x) /\ Room(x)
      /\ KeysOK(w) /\ ~Shaking(w.net[s]) /\ ~Rival(w, s) => KeysOK(x) /\ Spent(x, s)
  <2>1. CASE t = NoSocket
    <3>1. x = v
      BY <2>1
    <3>2. KeysOK(w) => KeysOK(v)
      BY <1>2, <1>3, <2>1, KeysNoSocket
    <3>3. QED
      BY <1>3, <1>4, <3>1, <3>2 DEF Spent
  <2>2. CASE t # NoSocket
    <3>1. /\ t \in Sockets /\ v.net[t] = w.net[t] /\ v.net[t] \in Socket
          /\ IsFiniteSet(v.net[t].waiters)
      BY <1>3, <2>2 DEF ClientOK, Client, Secure, Awaited
    <3>2. /\ n \in Socket /\ n.on = "message" /\ n.near = w.net[t].near
          /\ n.waiters = v.net[t].waiters
      BY <3>1 DEF Socket
    <3> HIDE DEF n, t
    <3>3. /\ ClientOK(u) /\ u.net[t] = n /\ \A z \in Sockets \ {t} : u.net[z] = v.net[z]
          /\ u.cm = v.cm /\ u.sc = v.sc /\ u.subs = v.subs
      <4>1. IsFiniteSet(n.waiters) /\ n \in Socket /\ t \in Sockets
        BY <3>1, <3>2
      <4>2. QED
        BY <1>3, <4>1, NetReplaced
    <3> HIDE DEF u
    <3>4. w.sc.ws = t /\ u.sc.ws = t /\ u.sc.key = s
      BY <1>2, <1>3, <3>3 DEF t
    <3>5. CASE t = s
      <4>1. x = u
        BY <2>2, <3>5 DEF t
      <4>2. KeysOK(w) => KeysOK(u)
        BY <1>3, <3>1, <3>2, <3>3, <3>4, <3>5, KeysTalking
      <4>3. Spent(u, s)
        BY <3>2, <3>3, <3>5 DEF Spent
      <4>4. Pursuit(u)
        BY <1>4, <3>3 DEF Pursuit
      <4>5. \A z \in Sockets : u.net[z].near = w.net[z].near
        BY <1>3, <3>2, <3>3
      <4>6. Room(u)
        BY <1>3, <3>3, <4>5 DEF Room
      <4>7. QED
        BY <3>3, <4>1, <4>2, <4>3, <4>4, <4>6
    <3>6. CASE t # s
      <4>1. x = y
        BY <2>2, <3>6 DEF t
      <4>2. /\ k \in Socket /\ k.waiters = n.waiters /\ k.near = n.near /\ k.on = n.on
        <5>1. "garbled" \in Up
          BY DEF Up
        <5>2. QED
          BY <3>2, <3>3, <5>1, PushFacts
      <4> HIDE DEF k
      <4>3. /\ ClientOK(y) /\ y.net[t] = k
            /\ \A z \in Sockets \ {t} : y.net[z] = u.net[z]
            /\ y.cm = u.cm /\ y.sc = u.sc /\ y.subs = u.subs
        <5>1. IsFiniteSet(k.waiters) /\ k \in Socket /\ t \in Sockets /\ ClientOK(u)
          BY <3>1, <3>2, <3>3, <4>2
        <5>2. QED
          BY <5>1, NetReplaced
      <4> HIDE DEF y
      <4>4. ~Rival(w, s) => w.net[t].near # "open"
        BY <2>2, <3>4, <3>6 DEF Rival, IsOpen, t
      <4>5. ~Rival(w, s) => ~IsConnected(y)
        BY <3>2, <3>3, <3>4, <4>2, <4>3, <4>4 DEF IsConnected, IsOpen
      <4>6. KeysOK(w) /\ ~Rival(w, s) => KeysOK(y)
        <5>1. \A z \in Sockets \ {t} : y.net[z] = w.net[z]
          BY <1>3, <3>3, <4>3
        <5>2. y.net[t].near = w.net[t].near /\ y.net[t].on = "message" /\ y.sc.ws = t
          BY <3>2, <3>4, <4>2, <4>3
        <5>3. QED
          BY <3>1, <3>4, <4>5, <5>1, <5>2, KeysTalking
      <4>7. ~Shaking(w.net[s]) => Spent(y, s)
        <5>1. y.net[s] = w.net[s]
          BY <1>3, <3>3, <3>6, <4>3
        <5>2. QED
          BY <5>1 DEF Spent
      <4>8. Pursuit(y)
        BY <1>4, <3>3, <4>3 DEF Pursuit
      <4>9. \A z \in Sockets : y.net[z].near = w.net[z].near
        BY <1>3, <3>2, <3>3, <4>2, <4>3
      <4>10. Room(y)
        BY <1>3, <3>3, <4>3, <4>9 DEF Room
      <4>11. QED
        BY <4>1, <4>3, <4>6, <4>7, <4>8, <4>10
    <3>7. QED
      BY <3>5, <3>6
  <2>3. QED
    BY <2>1, <2>2
<1> HIDE DEF x
<1>6. Fine(x, Resolve(x, s), {s})
  BY <1>5, ResolveOK
<1>7. KeysOK(x) /\ Spent(x, s) => KeysOK(Resolve(x, s))
  BY <1>5, <1>6, KeysAfterOne
<1>8. QED
  BY <1>1, <1>5, <1>6, <1>7 DEF Fine, HandledIf

\* A message of the relay while the socket waits to be paired.
LEMMA OnPairMessageOK ==
    ASSUME NEW w, ClientOK(w), Pursuit(w), NEW s \in Sockets, w.net[s].near = "open",
           w.net[s].on = "pair", NEW m
    PROVE  HandledIf(w, OnPairMessage(w, s, m), Reading(w.net[s], m))
<1>1. CASE m.type \in {"offline", "unknown"}
  <2>1. OnPairMessage(w, s, m) = Reject(CloseSocket(w, s), s, m.type # "unknown")
    BY <1>1 DEF OnPairMessage
  <2>2. (m.type # "unknown") \in BOOLEAN
    OBVIOUS
  <2>3. QED
    BY <2>1, <2>2, CloseAndRejectOK DEF Handled, HandledIf
<1>2. CASE m.type \notin {"offline", "unknown"}
  <2>1. OnPairMessage(w, s, m) = ResumeOnExistingSocket(w, s)
    BY <1>2 DEF OnPairMessage
  <2>2. QED
    BY <2>1, ResumeOnExistingSocketOK
<1>3. QED
  BY <1>1, <1>2

\* A message over a connection, that of an old socket too.
LEMMA OnMessageOK ==
    ASSUME NEW w, ClientOK(w), Pursuit(w), Room(w), NEW s \in Sockets, NEW m
    PROVE  Handled(w, OnMessage(w, s, m))
<1>1. CASE OnMessage(w, s, m) = w
  BY <1>1 DEF Handled
<1>2. CASE OnMessage(w, s, m) = MarkConnected(w)
  BY <1>2, MarkConnectedOK, FineAloneIsHandled
<1>3. CASE OnMessage(w, s, m) = [w EXCEPT !.cm.ping = FALSE]
  <2> DEFINE c == [w.cm EXCEPT !.ping = FALSE]
  <2> DEFINE v == [w EXCEPT !.cm = c]
  <2>1. OnMessage(w, s, m) = v
    BY <1>3
  <2>2. /\ c \in Manager /\ c.timer = w.cm.timer /\ c.current = w.cm.current
        /\ c.started = w.cm.started /\ c.state = w.cm.state
    BY DEF ClientOK, Client, Manager
  <2> HIDE DEF c
  <2>3. ClientOK(v) /\ v.cm = c /\ v.sc = w.sc /\ v.net = w.net
    BY <2>2, CmReplaced
  <2> HIDE DEF v
  <2>4. Pursuit(v)
    BY <2>2, <2>3 DEF Pursuit
  <2>5. KeysOK(w) => KeysOK(v)
    BY <2>3, KeysSame
  <2>6. QED
    BY <2>1, <2>3, <2>4, <2>5 DEF Handled
<1>4. OnMessage(w, s, m) \in {w, MarkConnected(w), [w EXCEPT !.cm.ping = FALSE]}
  <2>1. CASE w.sc.key # s
    BY <2>1 DEF OnMessage
  <2>2. CASE w.sc.key = s /\ m.type = "opened" /\ m.sub \in w.subs
    BY <2>2 DEF OnMessage
  <2>3. CASE w.sc.key = s /\ m.type = "pong" /\ IsLastPong(w.net[s])
    BY <2>3 DEF OnMessage
  <2>4. CASE /\ w.sc.key = s /\ ~(m.type = "opened" /\ m.sub \in w.subs)
             /\ ~(m.type = "pong" /\ IsLastPong(w.net[s]))
    BY <2>4 DEF OnMessage
  <2>5. QED
    BY <2>1, <2>2, <2>3, <2>4
<1>5. QED
  BY <1>1, <1>2, <1>3, <1>4


\* Resume messages set the timer of their socket first.
LEMMA OnResumeMessageOK ==
    ASSUME NEW w, ClientOK(w), Pursuit(w), Room(w), NEW s \in Sockets,
           w.net[s].near = "open", w.net[s].on = "resume", NEW m
    PROVE  HandledIf(w, OnResumeMessage(w, s, m),
                     Reading(w.net[s], m) /\ (m.type \in DownShake => ~Rival(w, s)))
<1> DEFINE n == [w.net[s] EXCEPT !.timer = TRUE]
<1> DEFINE v == [w EXCEPT !.net[s] = n]
<1>1. /\ n \in Socket /\ SameSocket(w.net[s], n) /\ SameSocket(n, w.net[s])
      /\ n.running = w.net[s].running /\ n.near = "open" /\ n.on = "resume" /\ n.far = w.net[s].far
      /\ n.up = w.net[s].up /\ n.down = w.net[s].down
      /\ IsFiniteSet(n.waiters)
  BY DEF ClientOK, Client, Socket, Awaited, SameSocket
<1>2. OnResumeMessage(w, s, m) =
        CASE m.type = "challenge" -> ResumeChallenged(v, s)
          [] m.type = "resumed" -> SessionResumed(v, s)
          [] OTHER -> ResumeFails(v, s)
  BY DEF OnResumeMessage
<1> HIDE DEF n
<1>3. /\ ClientOK(v) /\ v.net[s] = n /\ \A t \in Sockets \ {s} : v.net[t] = w.net[t]
      /\ v.cm = w.cm /\ v.sc = w.sc /\ v.bus = w.bus /\ v.subs = w.subs
  BY <1>1, NetReplaced
<1> HIDE DEF v
<1>4. \A t \in Sockets : /\ SameSocket(w.net[t], v.net[t]) /\ SameSocket(v.net[t], w.net[t])
                         /\ v.net[t].running = w.net[t].running
  BY <1>1, <1>3, SameSocketReflexive
<1>5. \A t \in Sockets : v.net[t].near = w.net[t].near
  BY <1>4 DEF SameSocket
<1>6. /\ Pursuit(v) /\ Room(v) /\ (AtMostOne(v) <=> AtMostOne(w))
      /\ v.net[s].on = "resume" /\ v.net[s].near = "open"
  BY <1>1, <1>3, <1>4, <1>5 DEF Pursuit, Room, AtMostOne
<1>7. KeysOK(v) <=> KeysOK(w)
  <2>1. Later(w, v, {}) /\ Later(v, w, {})
    BY <1>3, <1>4 DEF Later
  <2>2. QED
    BY <1>3, <2>1, KeysLater
<1>8. Rival(v, s) => Rival(w, s)
  <2>1. w.sc.ws \in Sockets \cup {NoSocket}
    BY DEF ClientOK, Client, Secure
  <2>2. QED
    BY <1>3, <1>5, <2>1 DEF Rival, IsOpen
<1>9. Reading(w.net[s], m) => Reading(v.net[s], m)
  BY <1>1, <1>3 DEF Reading, Shaking
<1> DEFINE F == Reading(v.net[s], m) /\ (m.type \in DownShake => ~Rival(v, s))
<1>10. HandledIf(v, OnResumeMessage(w, s, m), F)
  <2>1. CASE m.type = "challenge"
    <3>1. OnResumeMessage(w, s, m) = ResumeChallenged(v, s)
      BY <1>2, <2>1
    <3>2. HandledIf(v, ResumeChallenged(v, s), Reading(v.net[s], m) /\ ~Rival(v, s))
      BY <1>3, <1>6, <2>1, ResumeChallengedOK
    <3>3. F => Reading(v.net[s], m) /\ ~Rival(v, s)
      BY <2>1 DEF DownShake
    <3>4. QED
      BY <3>1, <3>2, <3>3 DEF HandledIf
  <2>2. CASE m.type = "resumed"
    <3>1. OnResumeMessage(w, s, m) = SessionResumed(v, s)
      BY <1>2, <2>2
    <3>2. HandledIf(v, SessionResumed(v, s), ~Shaking(v.net[s]) /\ ~Rival(v, s))
      BY <1>3, <1>6, SessionResumedOK
    <3>3. F => ~Shaking(v.net[s]) /\ ~Rival(v, s)
      BY <1>6, <2>2 DEF DownShake, Reading
    <3>4. QED
      BY <3>1, <3>2, <3>3 DEF HandledIf
  <2>3. CASE m.type \notin {"challenge", "resumed"}
    <3>1. OnResumeMessage(w, s, m) = ResumeFails(v, s)
      BY <1>2, <2>3
    <3>2. HandledIf(v, ResumeFails(v, s), Spent(v, s))
      BY <1>3, <1>6, ResumeFailsOK
    <3>3. F => Spent(v, s)
      BY <1>6 DEF Reading, Spent
    <3>4. QED
      BY <3>1, <3>2, <3>3 DEF HandledIf
  <2>4. QED
    BY <2>1, <2>2, <2>3
<1>11. QED
  BY <1>6, <1>7, <1>8, <1>9, <1>10 DEF HandledIf

\* A message is read, and its handler runs.
LEMMA ReceivedOK ==
    ASSUME NEW w, ClientOK(w), Pursuit(w), Room(w), NEW s \in Sockets,
           w.net[s].near = "open", w.net[s].down # <<>>
    PROVE  LET m == Head(w.net[s].down)
               v == [w EXCEPT !.net[s].down = Tail(@)]
           IN Handled(w, CASE m.type = "close" -> OnClose(v, s)
                           [] m.type # "close" /\ w.net[s].on = "pair" -> OnPairMessage(v, s, m)
                           [] m.type # "close" /\ w.net[s].on = "resume" -> OnResumeMessage(v, s, m)
                           [] m.type # "close" /\ w.net[s].on = "message" -> OnMessage(v, s, m)
                           [] OTHER -> v)
<1> DEFINE m == Head(w.net[s].down)
<1> DEFINE n == [w.net[s] EXCEPT !.down = Tail(@)]
<1> DEFINE v == [w EXCEPT !.net[s] = n]
<1> DEFINE u == CASE m.type = "close" -> OnClose(v, s)
                  [] m.type # "close" /\ w.net[s].on = "pair" -> OnPairMessage(v, s, m)
                  [] m.type # "close" /\ w.net[s].on = "resume" -> OnResumeMessage(v, s, m)
                  [] m.type # "close" /\ w.net[s].on = "message" -> OnMessage(v, s, m)
                  [] OTHER -> v
<1>1. w.net[s] \in Socket
  BY DEF ClientOK, Client
<1>2. /\ n \in Socket /\ n.near = w.net[s].near /\ n.on = w.net[s].on
      /\ n.running = w.net[s].running /\ n.waiters = w.net[s].waiters
      /\ SocketOK(w.net[s]) => SocketOK(n) /\ Reading(n, m)
      /\ w.net[s].on = "resume" /\ SocketOK(w.net[s]) /\ m.type \in DownShake
         => Shaking(w.net[s])
      /\ Shaking(n) => Shaking(w.net[s])
  BY <1>1, ReadOK
<1>3. IsFiniteSet(n.waiters)
  BY <1>2 DEF ClientOK, Awaited
<1>4. v = [w EXCEPT !.net[s].down = Tail(@)]
  OBVIOUS
<1> HIDE DEF n, m
<1>5. /\ ClientOK(v) /\ v.net[s] = n /\ \A t \in Sockets \ {s} : v.net[t] = w.net[t]
      /\ v.cm = w.cm /\ v.sc = w.sc /\ v.bus = w.bus /\ v.subs = w.subs
  BY <1>2, <1>3, NetReplaced
<1> HIDE DEF v
<1>6. \A t \in Sockets : v.net[t].near = w.net[t].near /\ v.net[t].running = w.net[t].running
  BY <1>2, <1>5
<1>7. Pursuit(v) /\ Room(v) /\ (AtMostOne(w) => AtMostOne(v))
  BY <1>5, <1>6 DEF Pursuit, Room, AtMostOne
<1>8. Rival(v, s) => Rival(w, s)
  <2>1. w.sc.ws \in Sockets \cup {NoSocket}
    BY DEF ClientOK, Client, Secure
  <2>2. QED
    BY <1>5, <1>6, <2>1 DEF Rival, IsOpen
<1>9. KeysOK(w) => /\ KeysOK(v) /\ Reading(n, m)
                   /\ n.on = "resume" /\ m.type \in DownShake => ~Rival(v, s)
  <2>1. ASSUME KeysOK(w)
        PROVE  /\ SocketOK(n) /\ Reading(n, m)
               /\ n.on = "resume" /\ m.type \in DownShake => ~Rival(w, s)
               /\ n.on = "resume" /\ Shaking(n) => ~Rival(w, s)
    BY <1>2, <2>1 DEF KeysOK
  <2>2. ASSUME KeysOK(w)
        PROVE  KeysOK(v)
    <3>1. w.sc.ws = s => /\ v.net[s].near \in {"open", "closing", "closed"}
                         /\ v.net[s].near = "open" => w.net[s].near = "open"
      BY <1>6
    <3>2. QED
      BY <1>2, <1>5, <2>1, <2>2, <3>1, KeysOneSocket
  <2>3. QED
    BY <1>8, <2>1, <2>2
<1>10. Handled(w, u)
  <2>1. ASSUME NEW x, Handled(v, x)
        PROVE  Handled(w, x)
    BY <1>7, <1>9, <2>1 DEF Handled
  <2>2. CASE m.type = "close"
    <3>1. u = OnClose(v, s)
      BY <2>2
    <3>2. Handled(v, OnClose(v, s))
      BY <1>5, <1>6, <1>7, OnCloseOK
    <3>3. QED
      BY <2>1, <3>1, <3>2
  <2>3. CASE m.type # "close" /\ w.net[s].on = "pair"
    <3>1. u = OnPairMessage(v, s, m)
      BY <2>3
    <3>2. HandledIf(v, OnPairMessage(v, s, m), Reading(v.net[s], m))
      BY <1>2, <1>5, <1>6, <1>7, <2>3, OnPairMessageOK
    <3>3. QED
      BY <1>5, <1>7, <1>9, <3>1, <3>2 DEF Handled, HandledIf
  <2>4. CASE m.type # "close" /\ w.net[s].on = "resume"
    <3>1. u = OnResumeMessage(v, s, m)
      BY <2>4
    <3>2. HandledIf(v, OnResumeMessage(v, s, m),
                    Reading(v.net[s], m) /\ (m.type \in DownShake => ~Rival(v, s)))
      BY <1>2, <1>5, <1>6, <1>7, <2>4, OnResumeMessageOK
    <3>3. QED
      BY <1>2, <1>5, <1>7, <1>9, <2>4, <3>1, <3>2 DEF Handled, HandledIf
  <2>5. CASE m.type # "close" /\ w.net[s].on = "message"
    <3>1. u = OnMessage(v, s, m)
      BY <2>5
    <3>2. Handled(v, OnMessage(v, s, m))
      BY <1>5, <1>7, OnMessageOK
    <3>3. QED
      BY <2>1, <3>1, <3>2
  <2>6. CASE m.type # "close" /\ w.net[s].on \notin {"pair", "resume", "message"}
    <3>1. u = v
      BY <2>6
    <3>2. QED
      BY <1>5, <1>7, <1>9, <3>1 DEF Handled
  <2>7. QED
    BY <2>2, <2>3, <2>4, <2>5, <2>6
<1>11. QED
  BY <1>4, <1>10 DEF m
-----------------------------------------------------------------------------
(* The manager's own attempts.                                             *)

\* executeReconnect() lets go of the old socket first.
LEMMA OldSocketClosed ==
    ASSUME NEW w, ClientOK(w)
    PROVE  LET old == w.sc.ws
               v == IF old = NoSocket THEN w
                    ELSE [w EXCEPT !.net[old] = Close([@ EXCEPT !.on = "none"]),
                                   !.sc.ws = NoSocket]
           IN /\ ClientOK(v) /\ v.cm = w.cm /\ v.sc.ws = NoSocket
              /\ \A s \in Sockets : w.net[s].near = "none" => v.net[s].near = "none"
              /\ KeysOK(w) => KeysOK(v)
<1> DEFINE old == w.sc.ws
<1>1. CASE old = NoSocket
  BY <1>1
<1>2. CASE old # NoSocket
  <2> DEFINE k == [w.net[old] EXCEPT !.on = "none"]
  <2> DEFINE n == Close(k)
  <2> DEFINE a == [w EXCEPT !.net[old] = n]
  <2> DEFINE c == [w.sc EXCEPT !.ws = NoSocket]
  <2> DEFINE v == [a EXCEPT !.sc = c]
  <2>1. old \in Sockets /\ w.net[old] \in Socket /\ IsFiniteSet(w.net[old].waiters)
    BY <1>2 DEF ClientOK, Client, Secure, Awaited
  <2>2. k \in Socket /\ k.near = w.net[old].near /\ IsFiniteSet(k.waiters)
    BY <2>1 DEF Socket
  <2>3. v = [w EXCEPT !.net[old] = Close([@ EXCEPT !.on = "none"]), !.sc.ws = NoSocket]
    <3> DEFINE x == [w EXCEPT !.net[old] = Close([@ EXCEPT !.on = "none"]),
                              !.sc.ws = NoSocket]
    <3>1. x = [w EXCEPT !.net[old] = Close(k), !.sc.ws = NoSocket]
      OBVIOUS
    <3> HIDE DEF k, n, x
    <3>2. x = [w EXCEPT !.net[old] = n, !.sc.ws = NoSocket]
      BY <3>1 DEF n
    <3>3. v = [w EXCEPT !.net[old] = n, !.sc.ws = NoSocket]
      BY DEF ClientOK, Client
    <3> HIDE DEF v
    <3>4. v = x
      BY <3>2, <3>3
    <3>5. QED
      BY <3>4 DEF x
  <2> HIDE DEF k
  <2>4. /\ n \in Socket /\ n.waiters = k.waiters
        /\ n.near = IF w.net[old].near \in {"connecting", "open"} THEN "closing"
                    ELSE w.net[old].near
    BY <2>2, CloseOK
  <2> HIDE DEF n, old
  <2>5. /\ ClientOK(a) /\ a.net[old] = n /\ \A t \in Sockets \ {old} : a.net[t] = w.net[t]
        /\ a.cm = w.cm /\ a.sc = w.sc
    <3>1. n \in Socket /\ IsFiniteSet(n.waiters) /\ old \in Sockets
      BY <2>1, <2>2, <2>4
    <3>2. QED
      BY <3>1, NetReplaced
  <2> HIDE DEF a
  <2>6. c \in Secure /\ c.ws = NoSocket
    BY DEF ClientOK, Client, Secure
  <2> HIDE DEF c
  <2>7. ClientOK(v) /\ v.sc = c /\ v.cm = a.cm /\ v.net = a.net
    BY <2>5, <2>6, ScReplaced
  <2> HIDE DEF v
  <2>8. KeysOK(w) => KeysOK(a)
    <3>1. SocketOK(n) /\ n.near \notin {"open", "connecting"}
      BY <2>4 DEF SocketOK
    <3>2. KeysOK(w) => n.near \in {"open", "closing", "closed"}
      BY <1>2, <2>4 DEF KeysOK, old
    <3>3. QED
      BY <2>1, <2>5, <3>1, <3>2, KeysOneSocket
  <2>9. KeysOK(a) => KeysOK(v)
    BY <2>6, <2>7, KeysNoSocket
  <2>10. \A s \in Sockets : w.net[s].near = "none" => v.net[s].near = "none"
    BY <2>4, <2>5, <2>7
  <2>11. QED
    BY <1>2, <2>3, <2>5, <2>6, <2>7, <2>8, <2>9, <2>10 DEF old
<1>3. QED
  BY <1>1, <1>2

\* executeReconnect() replaces the timer by one attempt.
LEMMA ExecuteReconnectOK ==
    ASSUME NEW w, ClientOK(w), Free(w), w.cm.started, w.cm.state = "reconnecting",
           ~w.cm.timer
    PROVE  Handled(w, ExecuteReconnect(w))
<1> DEFINE old == w.sc.ws
<1> DEFINE v == IF old = NoSocket THEN w
                ELSE [w EXCEPT !.net[old] = Close([@ EXCEPT !.on = "none"]),
                               !.sc.ws = NoSocket]
<1> DEFINE b == NotifySubscriptionsClosed(v)
<1> DEFINE u == [b EXCEPT !.sc.auth = "disconnected", !.sc.promise = NoSocket]
<1> DEFINE t == NewAttempt(u, "manager")
<1> DEFINE x == [t EXCEPT !.cm.current = t.sc.promise]
<1>1. ExecuteReconnect(w) = x
  BY DEF ExecuteReconnect
<1>2. /\ ClientOK(v) /\ v.cm = w.cm /\ v.sc.ws = NoSocket
      /\ \A s \in Sockets : w.net[s].near = "none" => v.net[s].near = "none"
      /\ KeysOK(w) => KeysOK(v)
  BY OldSocketClosed
<1> HIDE DEF v
<1>3. Calm(v, b)
  BY <1>2, NotifySubscriptionsClosedOK
<1> HIDE DEF b
<1>4. /\ ClientOK(b) /\ b.cm = w.cm /\ b.sc.ws = NoSocket
      /\ \A s \in Sockets : w.net[s].near = "none" => b.net[s].near = "none"
      /\ KeysOK(w) => KeysOK(b)
  <2>1. Later(v, b, {})
    BY <1>3, CalmIsLater
  <2>2. ClientOK(b) /\ (KeysOK(v) => KeysOK(b))
    BY <1>2, <1>3, <2>1, KeysLater DEF Calm
  <2>3. b.cm = w.cm /\ b.sc.ws = NoSocket
    BY <1>2, <1>3 DEF Calm
  <2>4. \A s \in Sockets : b.net[s].near = v.net[s].near
    BY <1>3 DEF Calm, SameSocket
  <2>5. QED
    BY <1>2, <2>2, <2>3, <2>4
<1>5. /\ ClientOK(u) /\ u.cm = w.cm /\ Free(u) /\ (KeysOK(w) => KeysOK(u))
  <2> DEFINE c == [b.sc EXCEPT !.auth = "disconnected", !.promise = NoSocket]
  <2>1. c \in Secure /\ c.ws = NoSocket
    BY <1>4 DEF ClientOK, Client, Secure
  <2>2. u = [b EXCEPT !.sc = c]
    OBVIOUS
  <2> HIDE DEF c, u
  <2>3. ClientOK(u) /\ u.sc = c /\ u.cm = b.cm /\ u.net = b.net
    BY <1>4, <2>1, <2>2, ScReplaced
  <2>4. KeysOK(b) => KeysOK(u)
    BY <2>1, <2>3, KeysNoSocket
  <2>5. QED
    BY <1>4, <2>3, <2>4 DEF Free
<1> HIDE DEF u
<1>6. Asked(u, t)
  BY <1>5, NewAttemptOK DEF Waiter
<1> HIDE DEF t
<1>7. /\ ClientOK(t) /\ t.cm = w.cm /\ t.sc.promise \in Sockets
      /\ KeysOK(w) => KeysOK(t)
  BY <1>5, <1>6, KeysLater DEF Asked
<1> DEFINE d == [t.cm EXCEPT !.current = t.sc.promise]
<1>8. /\ d \in Manager /\ d.current = t.sc.promise /\ d.timer = w.cm.timer
      /\ d.started = w.cm.started /\ d.state = w.cm.state
  BY <1>7 DEF ClientOK, Client, Manager
<1>9. x = [t EXCEPT !.cm = d]
  OBVIOUS
<1> HIDE DEF d, x
<1>10. ClientOK(x) /\ x.cm = d /\ x.sc = t.sc /\ x.net = t.net
  BY <1>7, <1>8, <1>9, CmReplaced
<1>11. Pursuit(x)
  BY <1>7, <1>8, <1>10, ClientConstants DEF Pursuit
<1>12. KeysOK(t) => KeysOK(x)
  BY <1>10, KeysSame
<1>13. QED
  BY <1>1, <1>7, <1>10, <1>11, <1>12 DEF Handled

\* The bus connects, or stops.
LEMMA ConnectOK ==
    ASSUME NEW w, ClientOK(w), Pursuit(w), Room(w), ~w.cm.started
    PROVE  Handled(w, SubscribeActivity([w EXCEPT !.cm.started = TRUE,
                                                  !.cm.state = "connected"]))
<1> DEFINE c == [w.cm EXCEPT !.started = TRUE, !.state = "connected"]
<1> DEFINE v == [w EXCEPT !.cm.started = TRUE, !.cm.state = "connected"]
<1>1. v = [w EXCEPT !.cm = c]
  OBVIOUS
<1>2. /\ c \in Manager /\ c.timer = w.cm.timer /\ c.current = w.cm.current
      /\ c.state = "connected"
  BY DEF ClientOK, Client, Manager
<1> HIDE DEF c, v
<1>3. ClientOK(v) /\ v.cm = c /\ v.sc = w.sc /\ v.net = w.net /\ v.subs = w.subs
  BY <1>1, <1>2, CmReplaced
<1>4. Pursuit(v) /\ Room(v)
  BY <1>2, <1>3 DEF Pursuit, Room
<1>5. Fine(v, SubscribeActivity(v), {})
  BY <1>3, <1>4, SubscribeActivityOK
<1>6. KeysOK(w) => KeysOK(v)
  BY <1>3, KeysSame
<1>7. KeysOK(v) => KeysOK(SubscribeActivity(v))
  BY <1>3, <1>5, KeysLater DEF Fine
<1>8. Handled(w, SubscribeActivity(v))
  BY <1>4, <1>5, <1>6, <1>7 DEF Fine, Handled
<1>9. QED
  BY <1>8 DEF v

\* A step of the manager and the bus alone.
LEMMA ManagerStepOK ==
    ASSUME NEW w, NEW v, ClientOK(v), Pursuit(v), v.sc = w.sc, v.net = w.net
    PROVE  Handled(w, v)
<1>1. KeysOK(w) => KeysOK(v)
  BY KeysSame
<1>2. QED
  BY <1>1 DEF Handled

\* stop() and the end of the bus's subscription leave no pursuit.
LEMMA DisconnectOK ==
    ASSUME NEW w, ClientOK(w)
    PROVE  Handled(w, [w EXCEPT !.bus = NoSub, !.subs = @ \ {w.bus},
                                !.cm = [Stopped EXCEPT !.attempts = w.cm.attempts]])
<1> DEFINE c == [Stopped EXCEPT !.attempts = w.cm.attempts]
<1> DEFINE a == [w EXCEPT !.bus = NoSub]
<1> DEFINE b == [a EXCEPT !.subs = @ \ {w.bus}]
<1> DEFINE v == [b EXCEPT !.cm = c]
<1>1. c \in Manager /\ ~c.timer /\ ~c.started /\ c.current = NoSocket
  BY DEF ClientOK, Client, Manager, Stopped
<1>2. v = [w EXCEPT !.bus = NoSub, !.subs = @ \ {w.bus}, !.cm = c]
  BY DEF ClientOK, Client
<1> HIDE DEF c
<1>3. ClientOK(a) /\ a.sc = w.sc /\ a.net = w.net
  BY BusReplaced
<1> HIDE DEF a
<1>4. ClientOK(b) /\ b.sc = w.sc /\ b.net = w.net
  <2>1. a.subs \ {w.bus} \in SUBSET Subs
    BY <1>3 DEF ClientOK, Client
  <2>2. QED
    BY <1>3, <2>1, SubsReplaced
<1> HIDE DEF b
<1>5. ClientOK(v) /\ v.cm = c /\ v.sc = w.sc /\ v.net = w.net
  BY <1>1, <1>4, CmReplaced
<1> HIDE DEF v
<1>6. Handled(w, v)
  BY <1>1, <1>5, ManagerStepOK DEF Pursuit
<1>7. QED
  BY <1>2, <1>6 DEF c
-----------------------------------------------------------------------------
(* One socket at a time: timers, the relay and the server.                 *)

\* A socket goes on, in order if it was, and begins no handshake.
SocketStep(n, m) ==
    /\ m \in Socket /\ m.near = n.near /\ m.on = n.on /\ m.running = n.running
    /\ m.waiters = n.waiters
    /\ SocketOK(n) =>
         /\ SocketOK(m)
         /\ m.near = "open" /\ m.on = "resume" /\ Shaking(m) => Shaking(n)

\* A step of one socket's other end keeps the client in order.
LEMMA AtOK ==
    ASSUME NEW w, ClientOK(w), Pursuit(w), NEW s \in Sockets, NEW n,
           SocketStep(w.net[s], n)
    PROVE  LET v == [w EXCEPT !.net[s] = n]
           IN /\ Handled(w, v) /\ v.net[s] = n /\ v.cm = w.cm /\ v.sc = w.sc
              /\ (AtMostOne(w) => AtMostOne(v))
<1> DEFINE v == [w EXCEPT !.net[s] = n]
<1>1. n \in Socket /\ IsFiniteSet(n.waiters)
  BY DEF SocketStep, ClientOK, Awaited
<1>2. /\ ClientOK(v) /\ v.net[s] = n /\ \A t \in Sockets \ {s} : v.net[t] = w.net[t]
      /\ v.cm = w.cm /\ v.sc = w.sc
  BY <1>1, NetReplaced
<1> HIDE DEF v
<1>3. Pursuit(v)
  BY <1>2 DEF Pursuit
<1>4. KeysOK(w) => KeysOK(v)
  <2>1. ASSUME KeysOK(w)
        PROVE  /\ SocketOK(n) /\ n.near = w.net[s].near
               /\ n.near = "open" /\ n.on = "resume" /\ Shaking(n) => ~Rival(w, s)
    <3>1. SocketOK(w.net[s])
      BY <2>1 DEF KeysOK
    <3>2. QED
      BY <2>1, <3>1 DEF KeysOK, SocketStep
  <2>2. ASSUME KeysOK(w)
        PROVE  KeysOK(v)
    <3>1. w.sc.ws = s => n.near \in {"open", "closing", "closed"}
      BY <2>1, <2>2, ClientConstants DEF KeysOK
    <3>2. QED
      BY <1>2, <2>1, <2>2, <3>1, KeysOneSocket
  <2>3. QED
    BY <2>2
<1>5. AtMostOne(w) => AtMostOne(v)
  <2>1. \A t \in Sockets : v.net[t].running = w.net[t].running
    BY <1>2 DEF SocketStep
  <2>2. QED
    BY <2>1 DEF AtMostOne
<1>6. Handled(w, v)
  BY <1>2, <1>3, <1>4 DEF Handled
<1>7. QED
  BY <1>2, <1>5, <1>6 DEF v

\* A socket that opens waits to be paired, with its attempt under way.
LEMMA OpensOK ==
    ASSUME NEW w, ClientOK(w), Pursuit(w), NEW s \in Sockets,
           w.net[s].near = "connecting"
    PROVE  Handled(w, [w EXCEPT !.net[s].near = "open", !.net[s].far = "relay",
                                !.net[s].on = "pair"])
<1> DEFINE n == [w.net[s] EXCEPT !.near = "open", !.far = "relay", !.on = "pair"]
<1> DEFINE v == [w EXCEPT !.net[s] = n]
<1>1. v = [w EXCEPT !.net[s].near = "open", !.net[s].far = "relay", !.net[s].on = "pair"]
  BY DEF ClientOK, Client
<1>2. /\ n \in Socket /\ n.near = "open" /\ n.far = "relay" /\ n.on = "pair"
      /\ n.up = w.net[s].up /\ n.down = w.net[s].down
      /\ n.running = w.net[s].running /\ IsFiniteSet(n.waiters)
  BY DEF ClientOK, Client, Socket, Awaited
<1> HIDE DEF n
<1>3. /\ ClientOK(v) /\ v.net[s] = n /\ \A t \in Sockets \ {s} : v.net[t] = w.net[t]
      /\ v.cm = w.cm /\ v.sc = w.sc
  BY <1>2, NetReplaced
<1> HIDE DEF v
<1>4. Pursuit(v)
  BY <1>3 DEF Pursuit
<1>5. ASSUME KeysOK(w)
      PROVE  KeysOK(v)
  <2>1. Fresh(w.net[s])
    BY <1>5 DEF KeysOK, SocketOK
  <2>2. Pairing(n) /\ n.running
    BY <1>2, <2>1 DEF Fresh, Pairing, NoUp
  <2>3. SocketOK(n)
    BY <1>2, <2>2 DEF SocketOK
  <2>4. w.sc.ws # s
    BY <1>5, ClientConstants DEF KeysOK
  <2>5. QED
    BY <1>2, <1>3, <1>5, <2>3, <2>4, KeysOneSocket
<1>6. QED
  BY <1>1, <1>3, <1>4, <1>5 DEF Handled

\* The handlers of a socket that does not open are taken off.
LEMMA OpenFailsOK ==
    ASSUME NEW w, ClientOK(w), Pursuit(w), NEW s \in Sockets,
           w.net[s].near = "connecting"
    PROVE  Handled(w, Reject(CloseSocket([w EXCEPT !.net[s].on = "none"], s), s, TRUE))
<1> DEFINE n == [w.net[s] EXCEPT !.on = "none"]
<1> DEFINE v == [w EXCEPT !.net[s] = n]
<1>1. v = [w EXCEPT !.net[s].on = "none"]
  OBVIOUS
<1>2. /\ n \in Socket /\ n.near = "connecting" /\ n.far = w.net[s].far
      /\ n.up = w.net[s].up /\ n.down = w.net[s].down
      /\ n.running = w.net[s].running /\ IsFiniteSet(n.waiters)
  BY DEF ClientOK, Client, Socket, Awaited
<1> HIDE DEF n
<1>3. /\ ClientOK(v) /\ v.net[s] = n /\ \A t \in Sockets \ {s} : v.net[t] = w.net[t]
      /\ v.cm = w.cm /\ v.sc = w.sc
  BY <1>2, NetReplaced
<1> HIDE DEF v
<1>4. Pursuit(v)
  BY <1>3 DEF Pursuit
<1>5. ASSUME KeysOK(w)
      PROVE  KeysOK(v)
  <2>1. Fresh(w.net[s])
    BY <1>5 DEF KeysOK, SocketOK
  <2>2. SocketOK(n)
    BY <1>2, <2>1 DEF Fresh, SocketOK
  <2>3. w.sc.ws # s
    BY <1>5, ClientConstants DEF KeysOK
  <2>4. QED
    BY <1>2, <1>3, <1>5, <2>2, <2>3, KeysOneSocket
<1>6. AtMostOne(w) => AtMostOne(v)
  <2>1. \A t \in Sockets : v.net[t].running = w.net[t].running
    BY <1>2, <1>3
  <2>2. QED
    BY <2>1 DEF AtMostOne
<1>7. Handled(v, Reject(CloseSocket(v, s), s, TRUE))
  BY <1>3, <1>4, CloseAndRejectOK
<1>8. Handled(w, Reject(CloseSocket(v, s), s, TRUE))
  BY <1>5, <1>6, <1>7 DEF Handled
<1>9. QED
  BY <1>1, <1>8

\* The resume timer, in time or late, keeps the client in order.
LEMMA ResumeTimeoutOK ==
    ASSUME NEW w, ClientOK(w), Pursuit(w), NEW s \in Sockets
    PROVE  LET v == [w EXCEPT !.net[s].timer = FALSE]
           IN /\ Handled(w, v)
              /\ Handled(w, Reject(CloseSocket([v EXCEPT !.sc.auth = "failed"], s), s, TRUE))
<1> DEFINE n == [w.net[s] EXCEPT !.timer = FALSE]
<1> DEFINE v == [w EXCEPT !.net[s] = n]
<1>1. v = [w EXCEPT !.net[s].timer = FALSE]
  OBVIOUS
<1>2. SocketStep(w.net[s], n)
  <2>1. /\ n \in Socket /\ n.near = w.net[s].near /\ n.on = w.net[s].on
        /\ n.running = w.net[s].running /\ n.waiters = w.net[s].waiters
        /\ SameSocket(w.net[s], n)
    <3> DEFINE a == w.net[s]
    <3>1. a \in Socket
      BY DEF ClientOK, Client
    <3> HIDE DEF a
    <3>2. LET b == [a EXCEPT !.timer = FALSE]
          IN  /\ b \in Socket /\ b.near = a.near /\ b.on = a.on
              /\ b.running = a.running /\ b.waiters = a.waiters
              /\ b.far = a.far /\ b.down = a.down /\ b.up = a.up
      BY <3>1 DEF Socket
    <3> QED BY <3>2 DEF a, SameSocket
  <2>2. w.net[s] \in Socket
    BY DEF ClientOK, Client
  <2> HIDE DEF n
  <2>3. Resembles(w.net[s], n)
    BY <2>1, <2>2, SameSocketResembles
  <2>4. /\ Pairing(w.net[s]) => Pairing(n)
        /\ Resuming(w.net[s]) => Resuming(n)
        /\ Shaking(n) => Shaking(w.net[s])
    BY <2>1, <2>2, <2>3, ResemblingShakes
  <2>5. Fresh(w.net[s]) => Fresh(n)
    BY <2>1 DEF SameSocket, Fresh
  <2>6. QED
    BY <2>1, <2>4, <2>5 DEF SocketStep, SocketOK
<1> HIDE DEF n
<1>3. Handled(w, v) /\ (AtMostOne(w) => AtMostOne(v))
  BY <1>2, AtOK
<1> HIDE DEF v
<1> DEFINE u == [v EXCEPT !.sc.auth = "failed"]
<1>4. /\ ClientOK(u) /\ u.net = v.net /\ Pursuit(u) /\ (KeysOK(v) => KeysOK(u))
  BY <1>3, AuthReplaced DEF Handled
<1> HIDE DEF u
<1>5. Handled(u, Reject(CloseSocket(u, s), s, TRUE))
  BY <1>4, CloseAndRejectOK
<1>6. AtMostOne(v) => AtMostOne(u)
  BY <1>4 DEF AtMostOne
<1>7. Handled(w, Reject(CloseSocket(u, s), s, TRUE))
  BY <1>3, <1>4, <1>5, <1>6 DEF Handled
<1>8. QED
  BY <1>1, <1>3, <1>7 DEF u

-----------------------------------------------------------------------------
(* The other end of a socket.                                              *)

\* What the far end does to a socket: it may send, read and hang up.
FarStep(n, m) ==
    /\ m \in Socket /\ m.near = n.near /\ m.on = n.on /\ m.running = n.running
    /\ m.waiters = n.waiters

\* Steps of the other end compose.
LEMMA FarStepsTwice ==
    ASSUME NEW n, NEW m, NEW o, FarStep(n, m), FarStep(m, o)
    PROVE  FarStep(n, o)
  BY DEF FarStep

\* Delivering adds one message at the end of the queue.
LEMMA DeliverOK ==
    ASSUME NEW n \in Socket, NEW type \in Down, NEW q \in Subs \cup {NoSub}
    PROVE  LET m == Deliver(n, type, q)
           IN /\ FarStep(n, m) /\ m.far = n.far /\ m.up = n.up
              /\ Len(m.down) = Len(n.down) + 1
              /\ \A i \in 1 .. Len(n.down) : m.down[i] = n.down[i]
              /\ m.down[Len(n.down) + 1].type = type
<1> DEFINE x == Msg(type, q)
<1> DEFINE d == Append(n.down, x)
<1>1. n.down \in Seq(DownMessage) /\ Len(n.down) \in Nat
  BY SocketLengths
<1>2. x \in DownMessage /\ x.type = type
  BY DEF Msg, DownMessage
<1>3. Deliver(n, type, q) = [n EXCEPT !.down = d]
  BY DEF Deliver
<1> HIDE DEF x
<1>4. /\ d \in Seq(DownMessage) /\ Len(d) = Len(n.down) + 1
      /\ (\A i \in 1 .. Len(n.down) : d[i] = n.down[i]) /\ d[Len(n.down) + 1] = x
  BY <1>1, <1>2
<1> HIDE DEF d
<1>5. Deliver(n, type, q).down = d
  BY <1>3 DEF Socket
<1>6. FarStep(n, Deliver(n, type, q)) /\ Deliver(n, type, q).far = n.far
      /\ Deliver(n, type, q).up = n.up
  BY <1>3, <1>4 DEF Socket, FarStep
<1>7. QED
  BY <1>2, <1>4, <1>5, <1>6

\* Hanging up adds a close at the end of the queue, and loses what is under way upwards.
LEMMA HangupOK ==
    ASSUME NEW n \in Socket
    PROVE  LET m == Hangup(n)
           IN /\ FarStep(n, m) /\ m.far = "gone" /\ m.up = <<>>
              /\ Len(m.down) = Len(n.down) + 1
              /\ \A i \in 1 .. Len(n.down) : m.down[i] = n.down[i]
              /\ m.down[Len(n.down) + 1].type = "close"
<1> DEFINE d == Deliver(n, "close", NoSub)
<1> DEFINE m == [d EXCEPT !.far = "gone", !.up = <<>>]
<1>1. /\ FarStep(n, d) /\ Len(d.down) = Len(n.down) + 1
      /\ \A i \in 1 .. Len(n.down) : d.down[i] = n.down[i]
      /\ d.down[Len(n.down) + 1].type = "close"
  BY DeliverOK DEF Down
<1>2. Hangup(n) = m
  BY DEF Hangup
<1> HIDE DEF d
<1>3. <<>> \in Seq(UpMessage)
  OBVIOUS
<1>4. FarStep(d, m) /\ m.far = "gone" /\ m.up = <<>> /\ m.down = d.down
  BY <1>1, <1>3 DEF FarStep, Socket
<1> HIDE DEF m
<1>5. FarStep(n, m)
  BY <1>1, <1>4, FarStepsTwice
<1>6. QED
  BY <1>1, <1>2, <1>4, <1>5

\* Another message that is no part of a handshake.
LEMMA DownKept ==
    ASSUME NEW n \in Socket, NEW m \in Socket, Len(m.down) = Len(n.down) + 1,
           \A i \in 1 .. Len(n.down) : m.down[i] = n.down[i],
           m.down[Len(n.down) + 1].type \notin DownShake
    PROVE  /\ NoDown(n.down, 1) => NoDown(m.down, 1)
           /\ NoDown(n.down, 2) => NoDown(m.down, 2)
           /\ Len(n.down) <= 1 => NoDown(m.down, 2)
<1>1. Len(n.down) \in Nat
  BY SocketLengths
<1>2. \A i \in 1 .. Len(m.down) : i \in 1 .. Len(n.down) \/ i = Len(n.down) + 1
  BY <1>1
<1>3. QED
  BY <1>1, <1>2 DEF NoDown

\* What arrives while the socket waits to be paired does not disturb it.
LEMMA PairingKept ==
    ASSUME NEW n \in Socket, NEW m \in Socket, Pairing(n),
           Len(m.down) = Len(n.down) + 1,
           \A i \in 1 .. Len(n.down) : m.down[i] = n.down[i],
           m.down[Len(n.down) + 1].type \in {"connected", "offline", "unknown", "close"},
           NoUp(m.up, 1),
           m.far \in {"server", "gone"}, m.far = "server" => Len(n.down) = 0
    PROVE  Pairing(m)
<1>1. Len(n.down) \in Nat
  BY SocketLengths
<1>2. \A i \in 1 .. Len(m.down) : i \in 1 .. Len(n.down) \/ i = Len(n.down) + 1
  BY <1>1
<1>3. \A i \in 1 .. Len(m.down) :
        m.down[i].type \in {"connected", "offline", "unknown", "close"}
  BY <1>2 DEF Pairing
<1>4. QED
  BY <1>1, <1>3 DEF Pairing

\* Losing a connection at any moment keeps its socket in order.
LEMMA HangupStep ==
    ASSUME NEW n \in Socket, n.near # "connecting"
    PROVE  SocketStep(n, Hangup(n))
<1> DEFINE m == Hangup(n)
<1>1. /\ FarStep(n, m) /\ m.far = "gone" /\ m.up = <<>>
      /\ Len(m.down) = Len(n.down) + 1
      /\ \A i \in 1 .. Len(n.down) : m.down[i] = n.down[i]
      /\ m.down[Len(n.down) + 1].type = "close"
  BY HangupOK
<1> HIDE DEF m
<1>2. m \in Socket /\ NoUp(m.up, 1) /\ m.down[Len(n.down) + 1].type \notin DownShake
  BY <1>1 DEF FarStep, NoUp, DownShake
<1>3. Shaking(m) => Shaking(n)
  BY <1>1, <1>2, DownKept DEF Shaking
<1>4. Pairing(n) => Pairing(m)
  BY <1>1, <1>2, PairingKept
<1>5. Resuming(n) => Severed(m)
  <2>1. Resuming(n) => Len(n.down) <= 1 \/ NoDown(n.down, 2)
    <3> DEFINE j == Len(n.down)
    <3>1. Resuming(n) => j \in {0, 1} \/ NoDown(n.down, 2)
      BY DEF Resuming, InitSent, Challenging, Proving, Answered, Severed
    <3> HIDE DEF j
    <3>2. j \in {0, 1} => j <= 1
      OBVIOUS
    <3>3. QED
      BY <3>1, <3>2 DEF j
  <2>2. NoDown(n.down, 2) => NoDown(m.down, 2)
    BY <1>1, <1>2, DownKept
  <2>3. Len(n.down) <= 1 => NoDown(m.down, 2)
    BY <1>1, <1>2, DownKept
  <2>4. QED
    BY <1>1, <1>2, <2>1, <2>2, <2>3 DEF Severed
<1>6. SocketStep(n, m)
  BY <1>1, <1>3, <1>4, <1>5 DEF SocketStep, FarStep, SocketOK, Resuming
<1>7. QED
  BY <1>6 DEF m

\* The relay's answer, paired or refused, keeps the socket in order.
LEMMA RelayStep ==
    ASSUME NEW n \in Socket, n.far = "relay"
    PROVE  /\ SocketStep(n, [Deliver(n, "connected", NoSub) EXCEPT !.far = "server"])
           /\ \A reason \in {"offline", "unknown"} :
                SocketStep(n, Hangup(Deliver(n, reason, NoSub)))
<1>1. SocketOK(n) => /\ n.near # "connecting"
                     /\ n.near = "open" => n.on # "resume"
                     /\ n.near = "open" /\ n.on = "pair" => Pairing(n) /\ n.running
  BY DEF SocketOK, Fresh, Resuming, InitSent, Challenging, Proving, Answered, Severed
<1>2. SocketStep(n, [Deliver(n, "connected", NoSub) EXCEPT !.far = "server"])
  <2> DEFINE d == Deliver(n, "connected", NoSub)
  <2> DEFINE m == [d EXCEPT !.far = "server"]
  <2>1. /\ FarStep(n, d) /\ d.up = n.up /\ Len(d.down) = Len(n.down) + 1
        /\ \A i \in 1 .. Len(n.down) : d.down[i] = n.down[i]
        /\ d.down[Len(n.down) + 1].type = "connected"
    BY DeliverOK DEF Down
  <2> HIDE DEF d
  <2>2. FarStep(d, m) /\ m.far = "server" /\ m.up = d.up /\ m.down = d.down
    BY <2>1 DEF FarStep, Socket
  <2> HIDE DEF m
  <2>3. FarStep(n, m) /\ m \in Socket
    BY <2>1, <2>2, FarStepsTwice DEF FarStep
  <2>4. Pairing(n) => Pairing(m)
    <3>1. Pairing(n) => NoUp(m.up, 1) /\ Len(n.down) = 0
      BY <2>1, <2>2 DEF Pairing
    <3>2. QED
      BY <2>1, <2>2, <2>3, <3>1, PairingKept
  <2>5. SocketStep(n, m)
    BY <1>1, <2>3, <2>4 DEF SocketStep, FarStep, SocketOK
  <2>6. QED
    BY <2>5 DEF m, d
<1>3. ASSUME NEW reason \in {"offline", "unknown"}
      PROVE  SocketStep(n, Hangup(Deliver(n, reason, NoSub)))
  <2> DEFINE d == Deliver(n, reason, NoSub)
  <2> DEFINE m == Hangup(d)
  <2>1. /\ FarStep(n, d) /\ d.up = n.up /\ d.far = n.far /\ Len(d.down) = Len(n.down) + 1
        /\ \A i \in 1 .. Len(n.down) : d.down[i] = n.down[i]
        /\ d.down[Len(n.down) + 1].type = reason
    BY DeliverOK DEF Down
  <2> HIDE DEF d
  <2>2. d \in Socket
    BY <2>1 DEF FarStep
  <2>3. /\ FarStep(d, m) /\ m.far = "gone" /\ m.up = <<>>
        /\ Len(m.down) = Len(d.down) + 1
        /\ \A i \in 1 .. Len(d.down) : m.down[i] = d.down[i]
        /\ m.down[Len(d.down) + 1].type = "close"
    BY <2>2, HangupOK
  <2> HIDE DEF m
  <2>4. FarStep(n, m) /\ m \in Socket
    BY <2>1, <2>3, FarStepsTwice DEF FarStep
  <2>5. ASSUME Pairing(n)
        PROVE  Pairing(m)
    <3>1. Len(n.down) = 0 /\ Len(d.down) = 1 /\ Len(m.down) = 2
      BY <2>1, <2>3, <2>5 DEF Pairing
    <3>2. \A i \in 1 .. 2 : m.down[i].type \in {"connected", "offline", "unknown", "close"}
      BY <2>1, <2>3, <3>1
    <3>3. QED
      BY <2>3, <3>1, <3>2 DEF Pairing, NoUp
  <2>6. SocketStep(n, m)
    BY <1>1, <2>4, <2>5 DEF SocketStep, FarStep, SocketOK
  <2>7. QED
    BY <2>6 DEF m, d
<1>4. QED
  BY <1>2, <1>3

\* The next message to the server is read.
LEMMA ServerReads ==
    ASSUME NEW n \in Socket, n.up # <<>>
    PROVE  LET m == [n EXCEPT !.up = Tail(@)]
               h == Head(n.up)
           IN /\ FarStep(n, m) /\ m.far = n.far /\ m.down = n.down /\ m.subs = n.subs
              /\ h \in UpMessage
              /\ NoUp(n.up, 1) => h.type \notin UpShake /\ NoUp(m.up, 1)
              /\ \A type : Lone(n.up, type) =>
                   /\ h.type \in UpShake => h.type = type /\ NoUp(m.up, 1)
                   /\ Lone(m.up, type)
<1> DEFINE m == [n EXCEPT !.up = Tail(n.up)]
<1> DEFINE h == Head(n.up)
<1>1. n.up \in Seq(UpMessage) /\ n.up # <<>>
  BY DEF Socket
<1>2. /\ h = n.up[1] /\ h \in UpMessage /\ Tail(n.up) \in Seq(UpMessage)
      /\ Len(n.up) \in Nat \ {0} /\ Len(Tail(n.up)) = Len(n.up) - 1
      /\ \A i \in 1 .. Len(Tail(n.up)) : Tail(n.up)[i] = n.up[i + 1]
  BY <1>1
<1>3. /\ FarStep(n, m) /\ m.far = n.far /\ m.down = n.down /\ m.up = Tail(n.up)
      /\ m.subs = n.subs
  BY <1>2 DEF Socket, FarStep
<1> HIDE DEF m, h
<1>4. /\ Len(m.up) = Len(n.up) - 1 /\ Len(n.up) \in Nat \ {0}
      /\ \A i \in 1 .. Len(m.up) : m.up[i] = n.up[i + 1]
  BY <1>2, <1>3
<1>5. ASSUME NEW k \in Nat, NoUp(n.up, k + 1)
      PROVE  NoUp(m.up, k) \/ k = 0
  <2>1. ASSUME NEW i \in k .. Len(m.up), k # 0
        PROVE  m.up[i].type \notin UpShake
    <3>1. i + 1 \in k + 1 .. Len(n.up) /\ i \in 1 .. Len(m.up)
      BY <1>4, <2>1
    <3>2. QED
      BY <1>4, <1>5, <3>1 DEF NoUp
  <2>2. QED
    BY <2>1 DEF NoUp
<1>6. NoUp(n.up, 1) => h.type \notin UpShake /\ NoUp(m.up, 1)
  <2>1. ASSUME NoUp(n.up, 1)
        PROVE  h.type \notin UpShake /\ NoUp(n.up, 2)
    <3>1. 1 \in 1 .. Len(n.up) /\ \A i \in 2 .. Len(n.up) : i \in 1 .. Len(n.up)
      BY <1>4
    <3>2. QED
      BY <1>2, <2>1, <3>1 DEF NoUp
  <2>2. NoUp(n.up, 2) => NoUp(m.up, 1)
    BY <1>5
  <2>3. QED
    BY <2>1, <2>2
<1>7. ASSUME NEW type, Lone(n.up, type)
      PROVE  /\ h.type \in UpShake => h.type = type /\ NoUp(m.up, 1)
             /\ Lone(m.up, type)
  <2>1. ASSUME h.type \in UpShake
        PROVE  h.type = type /\ NoUp(m.up, 1)
    <3>1. 1 \in 1 .. Len(n.up)
      BY <1>4
    <3>2. h.type = type /\ NoUp(n.up, 1 + 1)
      BY <1>2, <1>7, <2>1, <3>1 DEF Lone
    <3>3. QED
      BY <1>5, <3>2
  <2>2. ASSUME NEW i \in 1 .. Len(m.up), m.up[i].type \in UpShake
        PROVE  m.up[i].type = type /\ NoUp(m.up, i + 1)
    <3>1. i + 1 \in 1 .. Len(n.up) /\ m.up[i] = n.up[i + 1]
      BY <1>4
    <3>2. m.up[i].type = type /\ NoUp(n.up, (i + 1) + 1)
      BY <1>7, <2>2, <3>1 DEF Lone
    <3>3. i + 1 \in Nat /\ i + 1 # 0
      BY <1>4
    <3>4. QED
      BY <1>5, <3>2, <3>3
  <2>3. QED
    BY <2>1, <2>2 DEF Lone
<1>8. QED
  BY <1>2, <1>3, <1>6, <1>7 DEF m, h

\* What the server does with a message that is no part of a handshake.
LEMMA HandleEncryptedOK ==
    ASSUME NEW n \in Socket, NEW m \in UpMessage
    PROVE  LET o == HandleEncrypted(n, m)
           IN /\ FarStep(n, o)
              /\ n.far # "authed" => o = n
              /\ n.far = "authed" =>
                   /\ o.far \in {"authed", "gone"}
                   /\ o.up \in {n.up, <<>>}
                   /\ Len(o.down) = Len(n.down) + 1
                   /\ \A i \in 1 .. Len(n.down) : o.down[i] = n.down[i]
                   /\ o.down[Len(n.down) + 1].type \in {"close", "pong", "opened"}
<1> DEFINE o == HandleEncrypted(n, m)
<1>1. CASE n.far # "authed"
  BY <1>1 DEF HandleEncrypted, FarStep
<1>2. CASE n.far = "authed" /\ m.type = "garbled"
  <2>1. o = Hangup(n)
    BY <1>2 DEF HandleEncrypted
  <2> HIDE DEF o
  <2>2. FarStep(n, o) /\ o.far = "gone" /\ o.up = <<>> /\ Len(o.down) = Len(n.down) + 1
        /\ (\A i \in 1 .. Len(n.down) : o.down[i] = n.down[i])
        /\ o.down[Len(n.down) + 1].type = "close"
    BY <2>1, HangupOK
  <2>3. QED
    BY <1>2, <2>2 DEF o
<1>3. CASE n.far = "authed" /\ m.type = "ping"
  <2>1. o = Deliver(n, "pong", NoSub)
    BY <1>3 DEF HandleEncrypted
  <2> HIDE DEF o
  <2>2. FarStep(n, o) /\ o.far = n.far /\ o.up = n.up /\ Len(o.down) = Len(n.down) + 1
        /\ (\A i \in 1 .. Len(n.down) : o.down[i] = n.down[i])
        /\ o.down[Len(n.down) + 1].type = "pong"
    BY <2>1, DeliverOK DEF Down
  <2>3. QED
    BY <1>3, <2>2 DEF o
<1>4. CASE n.far = "authed" /\ m.type \notin {"garbled", "ping"}
  <2> DEFINE d == Deliver(n, "opened", m.sub)
  <2> DEFINE S == d.subs \cup {m.sub}
  <2>1. o = [d EXCEPT !.subs = S]
    BY <1>4 DEF HandleEncrypted
  <2>2. m.sub \in Subs \cup {NoSub}
    BY DEF UpMessage
  <2>3. FarStep(n, d) /\ d.far = n.far /\ d.up = n.up /\ Len(d.down) = Len(n.down) + 1
        /\ (\A i \in 1 .. Len(n.down) : d.down[i] = n.down[i])
        /\ d.down[Len(n.down) + 1].type = "opened"
    BY <2>2, DeliverOK DEF Down
  <2> HIDE DEF d, o
  <2>4. S \in SUBSET (Subs \cup {NoSub})
    BY <2>2, <2>3 DEF FarStep, Socket
  <2> HIDE DEF S
  <2>5. FarStep(d, o) /\ o.far = d.far /\ o.up = d.up /\ o.down = d.down
    BY <2>1, <2>3, <2>4 DEF FarStep, Socket
  <2>6. FarStep(n, o)
    BY <2>3, <2>5, FarStepsTwice
  <2>7. QED
    BY <1>4, <2>3, <2>5, <2>6 DEF o
<1>5. QED
  BY <1>1, <1>2, <1>3, <1>4

\* From n to o the server answers, and the far end becomes f.
Answers(n, o, type, f) ==
    /\ FarStep(n, o) /\ o.far = f /\ o.up = n.up
    /\ Len(o.down) = Len(n.down) + 1
    /\ o.down[Len(n.down) + 1].type = type

\* One answer of the server, and where it leaves the server's end.
LEMMA AnswerOK ==
    ASSUME NEW n \in Socket, NEW type \in Down,
           NEW f \in {"server", "challenged", "authed"}
    PROVE  Answers(n, [Deliver(n, type, NoSub) EXCEPT !.far = f], type, f)
<1> DEFINE d == Deliver(n, type, NoSub)
<1> DEFINE o == [d EXCEPT !.far = f]
<1>1. /\ FarStep(n, d) /\ d.up = n.up /\ Len(d.down) = Len(n.down) + 1
      /\ (\A i \in 1 .. Len(n.down) : d.down[i] = n.down[i])
      /\ d.down[Len(n.down) + 1].type = type
  BY DeliverOK
<1> HIDE DEF d
<1>2. FarStep(d, o) /\ o.far = f /\ o.up = d.up /\ o.down = d.down
  BY <1>1 DEF FarStep, Socket
<1> HIDE DEF o
<1>3. FarStep(n, o)
  BY <1>1, <1>2, FarStepsTwice
<1>4. QED
  BY <1>1, <1>2, <1>3 DEF o, d, Answers

\* The first message of a handshake, and the second.
LEMMA HandleSrpResumeInitOK ==
    ASSUME NEW n \in Socket
    PROVE  LET o == HandleSrpResumeInit(n)
           IN /\ FarStep(n, o)
              /\ n.far = "server" => Answers(n, o, "challenge", "challenged")
<1>1. CASE n.far = "authed"
  <2>1. HandleSrpResumeInit(n) = Deliver(n, "invalid", NoSub)
    BY <1>1 DEF HandleSrpResumeInit
  <2>2. QED
    BY <1>1, <2>1, DeliverOK DEF Down
<1>2. CASE n.far # "authed"
  <2>1. HandleSrpResumeInit(n) = [Deliver(n, "challenge", NoSub) EXCEPT !.far = "challenged"]
    BY <1>2 DEF HandleSrpResumeInit
  <2>2. "challenge" \in Down
    BY DEF Down
  <2>3. Answers(n, HandleSrpResumeInit(n), "challenge", "challenged")
    BY <2>1, <2>2, AnswerOK
  <2>4. QED
    BY <2>3 DEF Answers
<1>3. QED
  BY <1>1, <1>2

\* handleSrpResume() answers a proof once, and only after its challenge.
LEMMA HandleSrpResumeOK ==
    ASSUME NEW n \in Socket, NEW type
    PROVE  LET o == HandleSrpResume(n, type)
           IN /\ FarStep(n, o)
              /\ n.far = "challenged" /\ type = "proof" =>
                   Answers(n, o, "resumed", "authed")
<1>1. CASE n.far = "challenged" /\ type = "proof"
  <2>1. HandleSrpResume(n, type) = [Deliver(n, "resumed", NoSub) EXCEPT !.far = "authed"]
    BY <1>1 DEF HandleSrpResume
  <2>2. "resumed" \in Down
    BY DEF Down
  <2>3. Answers(n, HandleSrpResume(n, type), "resumed", "authed")
    BY <2>1, <2>2, AnswerOK
  <2>4. QED
    BY <2>3 DEF Answers
<1>2. CASE n.far = "challenged" /\ type # "proof"
  <2>1. HandleSrpResume(n, type) = [Deliver(n, "invalid", NoSub) EXCEPT !.far = "server"]
    BY <1>2 DEF HandleSrpResume
  <2>2. "invalid" \in Down
    BY DEF Down
  <2>3. Answers(n, HandleSrpResume(n, type), "invalid", "server")
    BY <2>1, <2>2, AnswerOK
  <2>4. QED
    BY <1>2, <2>3 DEF Answers
<1>3. CASE n.far # "challenged"
  <2>1. HandleSrpResume(n, type) = Deliver(n, "invalid", NoSub)
    BY <1>3 DEF HandleSrpResume
  <2>2. QED
    BY <1>3, <2>1, DeliverOK DEF Down
<1>4. QED
  BY <1>1, <1>2, <1>3

\* The server and the handshake of a socket: what it has read, n, and what it makes of
\* it, o, leave the socket in order.
LEMMA ServerStep ==
    ASSUME NEW k \in Socket, k.up # <<>>, k.far \in {"server", "challenged", "authed"}
    PROVE  LET m == Head(k.up)
               n == [k EXCEPT !.up = Tail(@)]
           IN SocketStep(k, CASE m.type = "init" -> HandleSrpResumeInit(n)
                              [] m.type \in {"proof", "badproof"} -> HandleSrpResume(n, m.type)
                              [] OTHER -> HandleEncrypted(n, m))
<1> DEFINE m == Head(k.up)
<1> DEFINE n == [k EXCEPT !.up = Tail(@)]
<1> DEFINE o == CASE m.type = "init" -> HandleSrpResumeInit(n)
                  [] m.type \in {"proof", "badproof"} -> HandleSrpResume(n, m.type)
                  [] OTHER -> HandleEncrypted(n, m)
<1>1. /\ FarStep(k, n) /\ n.far = k.far /\ n.down = k.down /\ m \in UpMessage
      /\ NoUp(k.up, 1) => m.type \notin UpShake /\ NoUp(n.up, 1)
      /\ \A type : Lone(k.up, type) =>
           /\ m.type \in UpShake => m.type = type /\ NoUp(n.up, 1)
           /\ Lone(n.up, type)
  BY ServerReads
<1>2. /\ m.type = "init" => o = HandleSrpResumeInit(n)
      /\ m.type \in {"proof", "badproof"} => o = HandleSrpResume(n, m.type)
      /\ m.type \notin UpShake => o = HandleEncrypted(n, m)
  <2> HIDE DEF m, n
  <2>1. QED
    BY DEF UpShake
<1> HIDE DEF m, n, o
<1>3. n \in Socket
  BY <1>1 DEF FarStep
<1>4. FarStep(n, HandleSrpResumeInit(n)) /\ FarStep(n, HandleSrpResume(n, m.type))
      /\ FarStep(n, HandleEncrypted(n, m))
  BY <1>1, <1>3, HandleSrpResumeInitOK, HandleSrpResumeOK, HandleEncryptedOK
<1>5. FarStep(k, o) /\ o \in Socket
  <2>1. FarStep(n, o)
    BY <1>2, <1>4 DEF UpShake
  <2>2. QED
    BY <1>1, <2>1, FarStepsTwice DEF FarStep
<1>6. Len(k.down) \in Nat
  BY SocketLengths
<1>7. ASSUME SocketOK(k), k.near = "open", k.on = "pair"
      PROVE  SocketOK(o)
  <2>1. Pairing(k) /\ k.running
    BY <1>7 DEF SocketOK
  <2>2. m.type \notin UpShake /\ NoUp(n.up, 1) /\ k.far # "authed"
    BY <1>1, <2>1 DEF Pairing
  <2>3. o = n
    BY <1>1, <1>2, <1>3, <2>2, HandleEncryptedOK
  <2>4. Pairing(n)
    BY <1>1, <2>1, <2>2 DEF Pairing
  <2>5. QED
    BY <1>1, <1>7, <2>1, <2>3, <2>4 DEF SocketOK, FarStep
<1>8. ASSUME SocketOK(k), k.near = "open", k.on = "resume"
      PROVE  Resuming(o) /\ (Shaking(o) => Shaking(k))
  <2>1. Resuming(k)
    BY <1>8 DEF SocketOK
  <2>2. CASE InitSent(k)
    <3>1. n.far = "server" /\ Len(n.down) = 0 /\ Lone(n.up, "init")
          /\ (m.type \in UpShake => m.type = "init" /\ NoUp(n.up, 1))
      BY <1>1, <2>2 DEF InitSent
    <3>2. CASE m.type \in UpShake
      <4>1. o = HandleSrpResumeInit(n) /\ NoUp(n.up, 1)
        BY <1>2, <3>1, <3>2
      <4>2. o.far = "challenged" /\ o.up = n.up /\ Len(o.down) = 1
            /\ o.down[1].type = "challenge"
        <5>1. Answers(n, o, "challenge", "challenged")
          BY <1>3, <3>1, <4>1, HandleSrpResumeInitOK
        <5>2. QED
          BY <3>1, <5>1 DEF Answers
      <4>3. Challenging(o)
        BY <4>1, <4>2 DEF Challenging
      <4>4. Shaking(k)
        <5>1. NoUp(k.up, 1) => m.type \notin UpShake
          BY <1>1
        <5>2. QED
          BY <3>2, <5>1 DEF Shaking
      <4>5. QED
        BY <4>3, <4>4 DEF Resuming
    <3>3. CASE m.type \notin UpShake
      <4>1. o = n
        BY <1>1, <1>2, <1>3, <3>1, <3>3, HandleEncryptedOK
      <4>2. InitSent(o)
        BY <3>1, <4>1 DEF InitSent
      <4>3. NoUp(k.up, 1) => NoUp(o.up, 1)
        BY <1>1, <4>1
      <4>4. NoDown(o.down, 1)
        BY <3>1, <4>1 DEF NoDown
      <4>5. QED
        BY <4>2, <4>3, <4>4 DEF Resuming, Shaking
    <3>4. QED
      BY <3>2, <3>3
  <2>3. CASE Challenging(k)
    <3>1. m.type \notin UpShake /\ NoUp(n.up, 1) /\ n.far = "challenged"
      BY <1>1, <2>3 DEF Challenging
    <3>2. o = n
      BY <1>1, <1>2, <1>3, <3>1, HandleEncryptedOK
    <3>3. Challenging(o) /\ (Shaking(o) => Shaking(k))
      BY <1>1, <2>3, <3>1, <3>2 DEF Challenging, Shaking
    <3>4. QED
      BY <3>3 DEF Resuming
  <2>4. CASE Proving(k)
    <3>1. n.far = "challenged" /\ Len(n.down) = 0 /\ Lone(n.up, "proof")
          /\ (m.type \in UpShake => m.type = "proof" /\ NoUp(n.up, 1))
      BY <1>1, <2>4 DEF Proving
    <3>2. CASE m.type \in UpShake
      <4>1. o = HandleSrpResume(n, m.type) /\ NoUp(n.up, 1) /\ m.type = "proof"
        BY <1>2, <3>1, <3>2
      <4>2. o.far = "authed" /\ o.up = n.up /\ Len(o.down) = 1
            /\ o.down[1].type = "resumed"
        <5>1. Answers(n, o, "resumed", "authed")
          BY <1>3, <3>1, <4>1, HandleSrpResumeOK
        <5>2. QED
          BY <3>1, <5>1 DEF Answers
      <4>3. Answered(o)
        BY <4>1, <4>2 DEF Answered, NoDown
      <4>4. Shaking(k)
        <5>1. NoUp(k.up, 1) => m.type \notin UpShake
          BY <1>1
        <5>2. QED
          BY <3>2, <5>1 DEF Shaking
      <4>5. QED
        BY <4>3, <4>4 DEF Resuming
    <3>3. CASE m.type \notin UpShake
      <4>1. o = n
        BY <1>1, <1>2, <1>3, <3>1, <3>3, HandleEncryptedOK
      <4>2. Proving(o)
        BY <3>1, <4>1 DEF Proving
      <4>3. NoUp(k.up, 1) => NoUp(o.up, 1)
        BY <1>1, <4>1
      <4>4. NoDown(o.down, 1)
        BY <3>1, <4>1 DEF NoDown
      <4>5. QED
        BY <4>2, <4>3, <4>4 DEF Resuming, Shaking
    <3>4. QED
      BY <3>2, <3>3
  <2>5. CASE Answered(k)
    <3>1. m.type \notin UpShake /\ NoUp(n.up, 1) /\ n.far = "authed" /\ NoDown(n.down, 2)
          /\ (Len(n.down) >= 1 => n.down[1].type # "challenge")
      BY <1>1, <2>5 DEF Answered
    <3>2. o = HandleEncrypted(n, m)
      BY <1>2, <3>1
    <3>3. /\ o.far \in {"authed", "gone"} /\ o.up \in {n.up, <<>>}
          /\ Len(o.down) = Len(n.down) + 1
          /\ \A i \in 1 .. Len(n.down) : o.down[i] = n.down[i]
          /\ o.down[Len(n.down) + 1].type \in {"close", "pong", "opened"}
      BY <1>1, <1>3, <3>1, <3>2, HandleEncryptedOK
    <3>4. NoUp(o.up, 1)
      BY <3>1, <3>3 DEF NoUp
    <3>5. /\ NoDown(n.down, 1) => NoDown(o.down, 1)
          /\ NoDown(n.down, 2) => NoDown(o.down, 2)
      BY <1>3, <1>5, <3>3, DownKept DEF DownShake
    <3>6. o.down[1].type # "challenge"
      BY <1>1, <1>6, <3>1, <3>3
    <3>7. Answered(o) \/ Severed(o)
      BY <3>1, <3>3, <3>4, <3>5, <3>6 DEF Answered, Severed
    <3>8. Shaking(o) => Shaking(k)
      BY <1>1, <3>4, <3>5 DEF Shaking
    <3>9. QED
      BY <3>7, <3>8 DEF Resuming
  <2>6. CASE Severed(k)
    BY <2>6 DEF Severed
  <2>7. QED
    BY <2>1, <2>2, <2>3, <2>4, <2>5, <2>6 DEF Resuming
<1>9. SocketOK(k) => k.near # "connecting"
  BY DEF SocketOK, Fresh
<1>10. SocketStep(k, o)
  <2>1. ASSUME SocketOK(k)
        PROVE  /\ SocketOK(o)
               /\ o.near = "open" /\ o.on = "resume" /\ Shaking(o) => Shaking(k)
    <3>1. k.near # "connecting" /\ o.near = k.near /\ o.on = k.on /\ o.running = k.running
      BY <1>5, <1>9, <2>1 DEF FarStep
    <3>2. CASE k.near = "open" /\ k.on = "pair"
      BY <1>7, <2>1, <3>1, <3>2
    <3>3. CASE k.near = "open" /\ k.on = "resume"
      <4>1. Resuming(o) /\ (Shaking(o) => Shaking(k)) /\ (Shaking(k) => k.running)
        BY <1>8, <2>1, <3>3 DEF SocketOK
      <4>2. QED
        BY <3>1, <3>3, <4>1 DEF SocketOK
    <3>4. CASE ~(k.near = "open" /\ k.on \in {"pair", "resume"})
      BY <3>1, <3>4 DEF SocketOK
    <3>5. QED
      BY <3>2, <3>3, <3>4
  <2>2. QED
    BY <1>5, <2>1 DEF SocketStep, FarStep
<1>11. QED
  BY <1>10 DEF o, n, m

-----------------------------------------------------------------------------
(* The steps of the manager and of its callers.                            *)

\* Flags of the manager that the pursuit does not depend on.
LEMMA FlagOK ==
    ASSUME NEW w, ClientOK(w), NEW c \in Manager,
           c.timer = w.cm.timer, c.current = w.cm.current, c.started = w.cm.started,
           c.state = w.cm.state
    PROVE  LET v == [w EXCEPT !.cm = c]
           IN /\ ClientOK(v) /\ v.cm = c /\ v.sc = w.sc /\ v.net = w.net
              /\ Pursuit(w) => Pursuit(v)
              /\ KeysOK(w) => KeysOK(v)
<1> DEFINE v == [w EXCEPT !.cm = c]
<1>1. ClientOK(v) /\ v.cm = c /\ v.sc = w.sc /\ v.net = w.net
  BY CmReplaced
<1> HIDE DEF v
<1>2. Pursuit(w) => Pursuit(v)
  BY <1>1 DEF Pursuit
<1>3. KeysOK(w) => KeysOK(v)
  BY <1>1, KeysSame
<1>4. QED
  BY <1>1, <1>2, <1>3 DEF v

\* forceReconnect() keeps the client in order at any moment.
LEMMA ForceReconnectHandled ==
    ASSUME NEW w, ClientOK(w)
    PROVE  Handled(w, ForceReconnect(w))
<1> DEFINE v == ForceReconnect(w)
<1>1. OnlyManager(w, v) /\ Pursuit(v)
  BY ForceReconnectOK
<1> HIDE DEF v
<1>2. KeysOK(w) => KeysOK(v)
  BY <1>1, KeysSame DEF OnlyManager
<1>3. Handled(w, v)
  BY <1>1, <1>2 DEF Handled, OnlyManager
<1>4. QED
  BY <1>3 DEF v

\* A missed pong keeps the client in order.
LEMMA PongMissedOK ==
    ASSUME NEW w, ClientOK(w)
    PROVE  Handled(w, ForceReconnect([w EXCEPT !.cm.ping = FALSE]))
<1> DEFINE c == [w.cm EXCEPT !.ping = FALSE]
<1> DEFINE v == [w EXCEPT !.cm = c]
<1>1. /\ c \in Manager /\ c.timer = w.cm.timer /\ c.current = w.cm.current
      /\ c.started = w.cm.started /\ c.state = w.cm.state
  BY DEF ClientOK, Client, Manager
<1>2. v = [w EXCEPT !.cm.ping = FALSE]
  OBVIOUS
<1> HIDE DEF c
<1>3. ClientOK(v) /\ v.net = w.net /\ (KeysOK(w) => KeysOK(v))
  BY <1>1, FlagOK
<1> HIDE DEF v
<1>4. Handled(v, ForceReconnect(v))
  BY <1>3, ForceReconnectHandled
<1>5. AtMostOne(w) => AtMostOne(v)
  BY <1>3 DEF AtMostOne
<1>6. Handled(w, ForceReconnect(v))
  BY <1>3, <1>4, <1>5 DEF Handled
<1>7. QED
  BY <1>2, <1>6

\* A ping keeps the client in order.
LEMMA PingOK ==
    ASSUME NEW w, ClientOK(w), Pursuit(w), CanSend(w)
    PROVE  Handled(w, [Send(w, "ping", <<NoSub>>) EXCEPT !.cm.ping = TRUE])
<1> DEFINE v == Send(w, "ping", <<NoSub>>)
<1>1. <<NoSub>> \in Seq(Subs \cup {NoSub})
  OBVIOUS
<1>2. Calm(w, v)
  BY <1>1, SendOK
<1> HIDE DEF v
<1>3. ClientOK(v) /\ Pursuit(v) /\ (KeysOK(w) => KeysOK(v))
  <2>1. Later(w, v, {})
    BY <1>2, CalmIsLater
  <2>2. QED
    BY <1>2, <2>1, KeysLater DEF Calm
<1> DEFINE c == [v.cm EXCEPT !.ping = TRUE]
<1> DEFINE u == [v EXCEPT !.cm = c]
<1>4. /\ c \in Manager /\ c.timer = v.cm.timer /\ c.current = v.cm.current
      /\ c.started = v.cm.started /\ c.state = v.cm.state
  BY <1>3 DEF ClientOK, Client, Manager
<1>5. u = [v EXCEPT !.cm.ping = TRUE]
  OBVIOUS
<1> HIDE DEF c
<1>6. ClientOK(u) /\ Pursuit(u) /\ (KeysOK(v) => KeysOK(u))
  BY <1>3, <1>4, FlagOK
<1> HIDE DEF u
<1>7. Handled(w, u)
  BY <1>3, <1>6 DEF Handled
<1>8. QED
  BY <1>5, <1>7 DEF v

\* A heartbeat keeps the client in order.
LEMMA HeartbeatOK ==
    ASSUME NEW w, ClientOK(w), Pursuit(w)
    PROVE  Handled(w, [w EXCEPT !.cm.heartbeat = TRUE])
<1> DEFINE c == [w.cm EXCEPT !.heartbeat = TRUE]
<1> DEFINE v == [w EXCEPT !.cm = c]
<1>1. /\ c \in Manager /\ c.timer = w.cm.timer /\ c.current = w.cm.current
      /\ c.started = w.cm.started /\ c.state = w.cm.state
  BY DEF ClientOK, Client, Manager
<1>2. v = [w EXCEPT !.cm.heartbeat = TRUE]
  OBVIOUS
<1> HIDE DEF c
<1>3. ClientOK(v) /\ Pursuit(v) /\ (KeysOK(w) => KeysOK(v))
  BY <1>1, FlagOK
<1> HIDE DEF v
<1>4. Handled(w, v)
  BY <1>3 DEF Handled
<1>5. QED
  BY <1>2, <1>4

\* An API call that finds no connection keeps the client in order.
LEMMA FetchOK ==
    ASSUME NEW w, ClientOK(w), Pursuit(w), Free(w)
    PROVE  Handled(w, Await(w, "fetch"))
<1> DEFINE v == Await(w, "fetch")
<1>1. "fetch" \in Waiter
  BY DEF Waiter
<1>2. Asked(w, v)
  BY <1>1, AwaitOK
<1> HIDE DEF v
<1>3. ClientOK(v) /\ Pursuit(v) /\ Later(w, v, {})
  BY <1>2 DEF Asked, Pursuit
<1>4. KeysOK(w) => KeysOK(v)
  BY <1>3, KeysLater
<1>5. Handled(w, v)
  BY <1>3, <1>4 DEF Handled
<1>6. QED
  BY <1>5 DEF v

\* The backoff timer fires only while no attempt is under way.
LEMMA BackoffTimerOK ==
    ASSUME NEW w, ClientOK(w), Pursuit(w), Free(w), w.cm.timer
    PROVE  LET v == [w EXCEPT !.cm.timer = FALSE]
           IN w.cm.current = NoSocket /\ Handled(w, ExecuteReconnect(v))
<1> DEFINE c == [w.cm EXCEPT !.timer = FALSE]
<1> DEFINE v == [w EXCEPT !.cm = c]
<1>1. w.cm.current = NoSocket /\ w.cm.started /\ w.cm.state = "reconnecting"
  BY DEF Pursuit
<1>2. c \in Manager /\ ~c.timer /\ c.started = w.cm.started /\ c.state = w.cm.state
  BY DEF ClientOK, Client, Manager
<1>3. v = [w EXCEPT !.cm.timer = FALSE]
  OBVIOUS
<1> HIDE DEF c
<1>4. ClientOK(v) /\ v.cm = c /\ v.sc = w.sc /\ v.net = w.net
  BY <1>2, CmReplaced
<1> HIDE DEF v
<1>5. Free(v) /\ (KeysOK(w) => KeysOK(v)) /\ (AtMostOne(w) => AtMostOne(v))
  BY <1>4, KeysSame DEF Free, AtMostOne
<1>6. Handled(v, ExecuteReconnect(v))
  BY <1>1, <1>2, <1>4, <1>5, ExecuteReconnectOK
<1>7. Handled(w, ExecuteReconnect(v))
  BY <1>5, <1>6 DEF Handled
<1>8. QED
  BY <1>1, <1>3, <1>7

-----------------------------------------------------------------------------
(* What is forgotten after a step.                                         *)

Tidied(w) ==
    [cm |-> w.cm,
     sc |-> [w.sc EXCEPT !.key = IF @ \in Sockets /\ IsGarbage(w, @) THEN OldKey ELSE @],
     net |-> [s \in Sockets |-> IF IsGarbage(w, s) THEN Unused ELSE Forget(w, w.net[s])],
     bus |-> w.bus, subs |-> w.subs]

\* An id is known, or it is forgotten.
LEMMA KnownOK ==
    ASSUME NEW w, NEW q
    PROVE  Known(w, q) \in {q, NoSub}
  BY DEF Known

\* A sequence over M, as a function.
LEMMA SeqFacts ==
    ASSUME NEW M, NEW a \in Seq(M)
    PROVE  Len(a) \in Nat /\ DOMAIN a = 1 .. Len(a) /\ \A i \in 1 .. Len(a) : a[i] \in M
  OBVIOUS

\* A message with a forgotten id is a message of the same type.
LEMMA RenamedMessage ==
    ASSUME NEW w, NEW x, x \in UpMessage \/ x \in DownMessage
    PROVE  LET y == [x EXCEPT !.sub = Known(w, x.sub)]
           IN /\ x \in UpMessage => y \in UpMessage
              /\ x \in DownMessage => y \in DownMessage
              /\ y.type = x.type
<1>1. x.sub \in Subs \cup {NoSub}
  BY DEF UpMessage, DownMessage
<1>2. Known(w, x.sub) \in Subs \cup {NoSub}
  BY <1>1, KnownOK
<1>3. QED
  BY <1>2 DEF UpMessage, DownMessage

\* Queues with forgotten ids have the same messages otherwise.
LEMMA RenamedOK ==
    ASSUME NEW w, NEW M \in {UpMessage, DownMessage}, NEW a \in Seq(M)
    PROVE  /\ Renamed(w, a) \in Seq(M)
           /\ Len(Renamed(w, a)) = Len(a)
           /\ \A i \in 1 .. Len(a) : Renamed(w, a)[i].type = a[i].type
<1> DEFINE b == Renamed(w, a)
<1>1. Len(a) \in Nat /\ DOMAIN a = 1 .. Len(a) /\ \A i \in 1 .. Len(a) : a[i] \in M
  BY SeqFacts
<1>2. b = [i \in 1 .. Len(a) |-> [a[i] EXCEPT !.sub = Known(w, a[i].sub)]]
  BY <1>1 DEF Renamed
<1> HIDE DEF b
<1>3. ASSUME NEW i \in 1 .. Len(a)
      PROVE  b[i] \in M /\ b[i].type = a[i].type
  <2>1. b[i] = [a[i] EXCEPT !.sub = Known(w, a[i].sub)]
    BY <1>2
  <2>2. a[i] \in M
    BY <1>1
  <2> DEFINE x == a[i]
  <2> DEFINE y == [x EXCEPT !.sub = Known(w, x.sub)]
  <2>3. x \in UpMessage \/ x \in DownMessage
    BY <2>2
  <2>4. /\ x \in UpMessage => y \in UpMessage
        /\ x \in DownMessage => y \in DownMessage
        /\ y.type = x.type
    BY <2>3, RenamedMessage
  <2>5. b[i] = y /\ x = a[i]
    BY <2>1
  <2>6. M = UpMessage \/ M = DownMessage
    OBVIOUS
  <2> HIDE DEF x, y
  <2>7. QED
    BY <2>2, <2>4, <2>5, <2>6
<1>4. b \in [1 .. Len(a) -> M]
  BY <1>2, <1>3
<1>5. b \in Seq(M) /\ Len(b) = Len(a)
  BY <1>1, <1>4
<1>6. QED
  BY <1>3, <1>5 DEF b

\* Forgetting ids leaves the socket as it is otherwise.
LEMMA ForgetOK ==
    ASSUME NEW w, w.subs \subseteq Subs, NEW n \in Socket, IsFiniteSet(n.waiters)
    PROVE  LET m == Forget(w, n)
           IN /\ m \in Socket /\ m.subs \subseteq Subs /\ IsFiniteSet(m.waiters)
              /\ m.running = n.running /\ Resembles(n, m) /\ (Fresh(n) => Fresh(m))
<1> DEFINE W == {Known(w, q) : q \in n.waiters}
<1> DEFINE u == Renamed(w, n.up)
<1> DEFINE d == Renamed(w, n.down)
<1> DEFINE S == n.subs \cap w.subs
<1> DEFINE m == [n EXCEPT !.waiters = W, !.subs = S, !.up = u, !.down = d]
<1>1. n.up \in Seq(UpMessage) /\ n.down \in Seq(DownMessage)
      /\ Len(n.up) \in Nat /\ Len(n.down) \in Nat
  BY SocketLengths
<1>2. u \in Seq(UpMessage) /\ Len(u) = Len(n.up)
      /\ \A i \in 1 .. Len(n.up) : u[i].type = n.up[i].type
  BY <1>1, RenamedOK
<1>3. d \in Seq(DownMessage) /\ Len(d) = Len(n.down)
      /\ \A i \in 1 .. Len(n.down) : d[i].type = n.down[i].type
  BY <1>1, RenamedOK
<1>4. W \subseteq n.waiters \cup {NoSub}
  BY KnownOK
<1>5. W \in SUBSET Waiter
  BY <1>4 DEF Socket, Waiter
<1>6. IsFiniteSet(W)
  <2>1. IsFiniteSet(n.waiters \cup {NoSub})
    BY FS_AddElement
  <2> HIDE DEF W
  <2>2. QED
    BY <1>4, <2>1, FS_Subset
<1>7. S \subseteq Subs
  OBVIOUS
<1>8. Forget(w, n) = m
  <2> DEFINE x == [n EXCEPT !.waiters = {Known(w, q) : q \in @}, !.subs = @ \cap w.subs,
                            !.up = Renamed(w, @), !.down = Renamed(w, @)]
  <2>1. Forget(w, n) = x
    BY DEF Forget
  <2>2. x = m
    BY DEF Socket
  <2>3. QED
    BY <2>1, <2>2
<1> HIDE DEF W, S, u, d
<1>9. /\ m \in Socket /\ m.waiters = W /\ m.subs = S /\ m.up = u /\ m.down = d
      /\ m.running = n.running /\ m.near = n.near /\ m.on = n.on /\ m.far = n.far
  BY <1>2, <1>3, <1>5, <1>7 DEF Socket
<1> HIDE DEF m
<1>10. Resembles(n, m)
  BY <1>1, <1>2, <1>3, <1>9 DEF Resembles
<1>11. Fresh(n) => Fresh(m)
  <2>1. n.up = <<>> => Len(u) = 0
    BY <1>2
  <2>2. n.down = <<>> => Len(d) = 0
    BY <1>3
  <2>3. (Len(u) = 0 => u = <<>>) /\ (Len(d) = 0 => d = <<>>)
    BY <1>2, <1>3
  <2>4. QED
    BY <1>9, <2>1, <2>2, <2>3 DEF Fresh
<1>12. QED
  BY <1>6, <1>7, <1>8, <1>9, <1>10, <1>11

\* A socket nobody uses is in order.
LEMMA UnusedOK ==
    /\ Unused \in Socket /\ Unused.near = "none" /\ Unused.running = FALSE
    /\ Unused.subs = {} /\ Unused.waiters = {}
<1>1. <<>> \in Seq(UpMessage) /\ <<>> \in Seq(DownMessage)
  OBVIOUS
<1>2. QED
  BY <1>1 DEF Unused, Socket

\* Forgetting leaves the client, the pursuit and the keys in order.
LEMMA TidiedOK ==
    ASSUME NEW w, ClientOK(w), Pursuit(w)
    PROVE  LET v == Tidied(w)
           IN /\ ClientOK(v) /\ Pursuit(v)
              /\ \A s \in Sockets : v.net[s].subs \subseteq Subs
              /\ KeysOK(w) => KeysOK(v)
              /\ AtMostOne(w) => AtMostOne(v)
<1> DEFINE v == Tidied(w)
<1> DEFINE key == IF w.sc.key \in Sockets /\ IsGarbage(w, w.sc.key) THEN OldKey ELSE w.sc.key
<1>1. /\ v.cm = w.cm /\ v.bus = w.bus /\ v.subs = w.subs
      /\ v.sc = [w.sc EXCEPT !.key = key]
      /\ v.net = [s \in Sockets |-> IF IsGarbage(w, s) THEN Unused ELSE Forget(w, w.net[s])]
      /\ v = [cm |-> v.cm, sc |-> v.sc, net |-> v.net, bus |-> v.bus, subs |-> v.subs]
  BY DEF Tidied
<1> HIDE DEF v
<1>2. /\ v.sc \in Secure /\ v.sc.ws = w.sc.ws /\ v.sc.auth = w.sc.auth /\ v.sc.key = key
  BY <1>1 DEF ClientOK, Client, Secure
<1>3. \A s \in Sockets : w.net[s] \in Socket /\ IsFiniteSet(w.net[s].waiters)
  BY DEF ClientOK, Client, Awaited
<1>4. w.subs \subseteq Subs
  BY DEF ClientOK, Client
<1>5. ASSUME NEW s \in Sockets
      PROVE  /\ v.net[s] \in Socket /\ IsFiniteSet(v.net[s].waiters)
             /\ v.net[s].subs \subseteq Subs
             /\ IF IsGarbage(w, s) THEN v.net[s].near = "none" /\ v.net[s].running = FALSE
                ELSE /\ v.net[s].running = w.net[s].running
                     /\ Resembles(w.net[s], v.net[s])
                     /\ Fresh(w.net[s]) => Fresh(v.net[s])
  <2>1. CASE IsGarbage(w, s)
    <3>1. v.net[s] = Unused
      BY <1>1, <2>1
    <3>2. IsFiniteSet({})
      BY FS_EmptySet
    <3>3. QED
      BY <2>1, <3>1, <3>2, UnusedOK
  <2>2. CASE ~IsGarbage(w, s)
    <3>1. v.net[s] = Forget(w, w.net[s])
      BY <1>1, <2>2
    <3>2. QED
      BY <1>3, <1>4, <2>2, <3>1, ForgetOK
  <2>3. QED
    BY <2>1, <2>2
<1>6. ClientOK(v)
  <2>1. v.net \in [Sockets -> Socket]
    BY <1>1, <1>5
  <2>2. v \in Client
    <3>1. v.cm \in Manager /\ v.bus \in Subs \cup {NoSub} /\ v.subs \in SUBSET Subs
      BY <1>1 DEF ClientOK, Client
    <3>2. QED
      BY <1>1, <1>2, <2>1, <3>1 DEF Client
  <2>3. QED
    BY <1>5, <2>2 DEF ClientOK, Awaited
<1>7. Pursuit(v)
  BY <1>1 DEF Pursuit
<1>8. AtMostOne(w) => AtMostOne(v)
  BY <1>5 DEF AtMostOne
<1>9. ASSUME KeysOK(w)
      PROVE  KeysOK(v)
  <2>1. w.sc.ws \in Sockets \cup {NoSocket}
    BY DEF ClientOK, Client, Secure
  <2>2. w.sc.ws # NoSocket => ~IsGarbage(w, w.sc.ws)
    BY DEF IsGarbage
  <2>3. w.sc.ws # NoSocket => v.net[w.sc.ws].near = w.net[w.sc.ws].near
    BY <1>5, <2>1, <2>2 DEF Resembles
  <2>4. v.sc.ws # NoSocket => v.net[v.sc.ws].near \in {"open", "closing", "closed"}
    BY <1>2, <1>9, <2>3 DEF KeysOK
  <2>5. IsConnected(v) => v.sc.key = v.sc.ws
    <3>1. ASSUME IsConnected(v)
          PROVE  v.sc.key = v.sc.ws
      <4>1. IsConnected(w) /\ w.sc.ws # NoSocket
        BY <1>2, <2>3, <3>1 DEF IsConnected, IsOpen
      <4>2. w.sc.key = w.sc.ws
        BY <1>9, <4>1 DEF KeysOK
      <4>3. QED
        BY <1>2, <2>2, <4>1, <4>2
    <3>2. QED
      BY <3>1
  <2>6. \A s : Rival(v, s) => Rival(w, s)
    BY <1>2, <2>3 DEF Rival, IsOpen
  <2>7. ASSUME NEW s \in Sockets
        PROVE  /\ SocketOK(v.net[s])
               /\ v.net[s].near = "open" /\ v.net[s].on = "resume" /\ Shaking(v.net[s])
                  => ~Rival(v, s)
    <3>1. CASE IsGarbage(w, s)
      BY <1>5, <3>1 DEF SocketOK
    <3>2. CASE ~IsGarbage(w, s)
      <4>1. /\ Resembles(w.net[s], v.net[s]) /\ v.net[s].running = w.net[s].running
            /\ Fresh(w.net[s]) => Fresh(v.net[s])
        BY <1>5, <3>2
      <4>2. /\ Pairing(w.net[s]) => Pairing(v.net[s])
            /\ Resuming(w.net[s]) => Resuming(v.net[s])
            /\ Shaking(v.net[s]) => Shaking(w.net[s])
        BY <1>3, <1>5, <4>1, ResemblingShakes
      <4>3. /\ SocketOK(w.net[s])
            /\ w.net[s].near = "open" /\ w.net[s].on = "resume" /\ Shaking(w.net[s])
               => ~Rival(w, s)
        BY <1>9 DEF KeysOK
      <4>4. v.net[s].near = w.net[s].near /\ v.net[s].on = w.net[s].on
        BY <4>1 DEF Resembles
      <4>5. SocketOK(v.net[s])
        BY <4>1, <4>2, <4>3, <4>4 DEF SocketOK
      <4>6. QED
        BY <2>6, <4>2, <4>3, <4>4, <4>5
    <3>3. QED
      BY <3>1, <3>2
  <2>8. QED
    BY <2>4, <2>5, <2>7 DEF KeysOK
<1>10. QED
  BY <1>5, <1>6, <1>7, <1>8, <1>9 DEF v

\* At most one of finitely many.
LEMMA OneOfFew ==
    ASSUME NEW S \in SUBSET Sockets, Cardinality(S) <= 1, NEW s \in S, NEW t \in S
    PROVE  s = t
<1> DEFINE T == {s}
<1>1. IsFiniteSet(S)
  BY FS_Subset, ClientConstants
<1>2. Cardinality(S) \in Nat
  BY <1>1, FS_CardinalityType
<1>3. T \in SUBSET S /\ Cardinality(T) = 1
  BY FS_Singleton
<1> HIDE DEF T
<1>4. Cardinality(T) <= Cardinality(S) /\ (Cardinality(S) = Cardinality(T) => S = T)
  BY <1>1, <1>3, FS_Subset
<1>5. S = T
  BY <1>2, <1>3, <1>4
<1>6. QED
  BY <1>5 DEF T

-----------------------------------------------------------------------------
(* The invariant, and the actions.                                         *)

ClientInvariant ==
    /\ ClientOK(Now) /\ Pursuit(Now)
    /\ \A s \in Sockets : net[s].subs \subseteq Subs
    /\ alone => KeysOK(Now) /\ AtMostOne(Now)

\* Every action hands a state that is in order to Become.
Orderly == \E w : Become(w) /\ Handled(Now, w)

\* An action that hands an orderly state to Become keeps the invariant.
LEMMA BecomeOK ==
    ASSUME ClientInvariant, Orderly
    PROVE  ClientInvariant'
<1>1. PICK w : Become(w) /\ Handled(Now, w)
  BY DEF Orderly
<1> DEFINE v == Tidied(w)
<1>2. Now' = v
  BY <1>1 DEF Become, Now, Tidied
<1>3. ClientOK(w) /\ Pursuit(w)
  BY <1>1 DEF Handled
<1>4. /\ ClientOK(v) /\ Pursuit(v)
      /\ \A s \in Sockets : v.net[s].subs \subseteq Subs
      /\ KeysOK(w) => KeysOK(v)
      /\ AtMostOne(w) => AtMostOne(v)
  BY <1>3, TidiedOK
<1>5. net' = v.net
  BY <1>1 DEF Become, Tidied
<1> HIDE DEF v
<1>6. ASSUME alone'
      PROVE  KeysOK(w) /\ AtMostOne(w)
  <2> DEFINE S == {s \in Sockets : w.net[s].running}
  <2>1. alone /\ Cardinality(S) <= 1
    BY <1>1, <1>6 DEF Become
  <2>2. AtMostOne(w)
    <3>1. ASSUME NEW s \in Sockets, NEW t \in Sockets, w.net[s].running, w.net[t].running
          PROVE  s = t
      <4>1. s \in S /\ t \in S /\ S \in SUBSET Sockets
        BY <3>1
      <4> HIDE DEF S
      <4>2. QED
        BY <2>1, <4>1, OneOfFew
    <3>2. QED
      BY <3>1 DEF AtMostOne
  <2>3. KeysOK(w)
    BY <1>1, <2>1 DEF ClientInvariant, Handled
  <2>4. QED
    BY <2>2, <2>3
<1>7. ClientOK(Now)' /\ Pursuit(Now)'
  BY <1>2, <1>4 DEF ClientOK, Pursuit, Awaited
<1>8. (\A s \in Sockets : net[s].subs \subseteq Subs)'
  BY <1>4, <1>5
<1>9. alone' => KeysOK(Now)' /\ AtMostOne(Now)'
  BY <1>2, <1>4, <1>6
<1>10. QED
  BY <1>7, <1>8, <1>9 DEF ClientInvariant

\* The guards that keep a socket and an id in reserve do so.
LEMMA RoomLeft ==
    ASSUME SocketsLeft(1) \/ SocketsLeft(2)
    PROVE  Free(Now) /\ (SubsLeft => Room(Now))
<1> DEFINE S == {s \in Sockets : net[s].near = "none"}
<1>1. IsFiniteSet(S)
  BY FS_Subset, ClientConstants
<1>2. Cardinality(S) >= 1 /\ Cardinality({}) = 0
  <2>1. Cardinality(S) \in Nat
    BY <1>1, FS_CardinalityType
  <2>2. QED
    BY <2>1, FS_EmptySet DEF SocketsLeft
<1>3. S # {}
  BY <1>2
<1>4. QED
  BY <1>3 DEF Free, Room, SubsLeft, Now

\* Every action of ConnectionManager and of the bus hands on a state in order.
LEMMA ManagerActions ==
    ASSUME ClientInvariant,
           Connect \/ Disconnect \/ Fetch \/ Heartbeat \/ BecomeVisible
             \/ BackoffTimer \/ CheckStale \/ PongTimeout
    PROVE  Orderly
<1>1. ClientOK(Now) /\ Pursuit(Now)
  BY DEF ClientInvariant
<1>2. Now.cm = cm /\ Now.sc = sc /\ Now.net = net /\ Now.bus = bus /\ Now.subs = subs
  BY DEF Now
<1>3. CASE Connect
  <2>1. ~Now.cm.started /\ Room(Now)
    BY <1>2, <1>3, RoomLeft DEF Connect
  <2>2. Handled(Now, SubscribeActivity([Now EXCEPT !.cm.started = TRUE,
                                                   !.cm.state = "connected"]))
    BY <1>1, <2>1, ConnectOK
  <2>3. Become(SubscribeActivity([Now EXCEPT !.cm.started = TRUE, !.cm.state = "connected"]))
    BY <1>3 DEF Connect
  <2>4. QED
    BY <2>2, <2>3 DEF Orderly
<1>4. CASE Disconnect
  <2>1. Handled(Now, [Now EXCEPT !.bus = NoSub, !.subs = @ \ {bus},
                                 !.cm = [Stopped EXCEPT !.attempts = cm.attempts]])
    BY <1>1, <1>2, DisconnectOK
  <2>2. Become([Now EXCEPT !.bus = NoSub, !.subs = @ \ {bus},
                           !.cm = [Stopped EXCEPT !.attempts = cm.attempts]])
    BY <1>4 DEF Disconnect
  <2>3. QED
    BY <2>1, <2>2 DEF Orderly
<1>5. CASE Fetch
  <2>1. Free(Now)
    BY <1>5, RoomLeft DEF Fetch
  <2>2. Handled(Now, Await(Now, "fetch"))
    BY <1>1, <2>1, FetchOK
  <2>3. QED
    BY <1>5, <2>2 DEF Fetch, Orderly
<1>6. CASE Heartbeat
  <2>1. Handled(Now, [Now EXCEPT !.cm.heartbeat = TRUE])
    BY <1>1, HeartbeatOK
  <2>2. QED
    BY <1>6, <2>1 DEF Heartbeat, Orderly
<1>7. CASE BecomeVisible
  <2>1. CASE CanSend(Now)
    <3>1. Handled(Now, [Send(Now, "ping", <<NoSub>>) EXCEPT !.cm.ping = TRUE])
      BY <1>1, <2>1, PingOK
    <3>2. QED
      BY <1>7, <2>1, <3>1 DEF BecomeVisible, Orderly
  <2>2. CASE ~CanSend(Now)
    <3>1. Handled(Now, ForceReconnect([Now EXCEPT !.cm.ping = FALSE]))
      BY <1>1, PongMissedOK
    <3>2. QED
      BY <1>7, <2>2, <3>1 DEF BecomeVisible, Orderly
  <2>3. QED
    BY <2>1, <2>2
<1>8. CASE BackoffTimer
  <2>1. Free(Now) /\ Now.cm.timer
    BY <1>2, <1>8, RoomLeft DEF BackoffTimer
  <2>2. Now.cm.current = NoSocket
        /\ Handled(Now, ExecuteReconnect([Now EXCEPT !.cm.timer = FALSE]))
    BY <1>1, <2>1, BackoffTimerOK
  <2>3. Become(ExecuteReconnect([Now EXCEPT !.cm.timer = FALSE]))
    BY <1>2, <1>8, <2>2 DEF BackoffTimer
  <2>4. QED
    BY <2>2, <2>3 DEF Orderly
<1>9. CASE CheckStale
  <2>1. Handled(Now, ForceReconnect(Now))
    BY <1>1, ForceReconnectHandled
  <2>2. QED
    BY <1>9, <2>1 DEF CheckStale, Orderly
<1>10. CASE PongTimeout
  <2>1. Handled(Now, ForceReconnect([Now EXCEPT !.cm.ping = FALSE]))
    BY <1>1, PongMissedOK
  <2>2. QED
    BY <1>10, <2>1 DEF PongTimeout, Orderly
<1>11. QED
  BY <1>3, <1>4, <1>5, <1>6, <1>7, <1>8, <1>9, <1>10

\* Every event of a client's socket hands on a state in order.
LEMMA SocketActions ==
    ASSUME ClientInvariant, NEW s \in Sockets,
           Opens(s) \/ OpenFails(s) \/ PairTimeout(s) \/ ResumeTimeout(s)
             \/ Receives(s) \/ CloseEvent(s)
    PROVE  Orderly
<1>1. ClientOK(Now) /\ Pursuit(Now)
  BY DEF ClientInvariant
<1>2. Now.cm = cm /\ Now.sc = sc /\ Now.net = net
  BY DEF Now
<1>3. CASE Opens(s)
  <2>1. Handled(Now, [Now EXCEPT !.net[s].near = "open", !.net[s].far = "relay",
                                 !.net[s].on = "pair"])
    BY <1>1, <1>2, <1>3, OpensOK DEF Opens
  <2>2. QED
    BY <1>3, <2>1 DEF Opens, Orderly
<1>4. CASE OpenFails(s)
  <2>1. Handled(Now, Reject(CloseSocket([Now EXCEPT !.net[s].on = "none"], s), s, TRUE))
    BY <1>1, <1>2, <1>4, OpenFailsOK DEF OpenFails
  <2>2. QED
    BY <1>4, <2>1 DEF OpenFails, Orderly
<1>5. CASE PairTimeout(s)
  <2>1. Handled(Now, Reject(CloseSocket(Now, s), s, TRUE))
    BY <1>1, CloseAndRejectOK
  <2>2. QED
    BY <1>5, <2>1 DEF PairTimeout, Orderly
<1>6. CASE ResumeTimeout(s)
  <2> DEFINE v == [Now EXCEPT !.net[s].timer = FALSE]
  <2> DEFINE u == Reject(CloseSocket([v EXCEPT !.sc.auth = "failed"], s), s, TRUE)
  <2>1. Handled(Now, v) /\ Handled(Now, u)
    BY <1>1, ResumeTimeoutOK
  <2>2. Become(v) \/ Become(u)
    <3>1. Become(IF sc.auth \in {"srp_resume_init_sent", "srp_resume_proof_sent"}
                 THEN u ELSE v)
      BY <1>6 DEF ResumeTimeout
    <3> HIDE DEF u, v
    <3>2. QED
      BY <3>1
  <2> HIDE DEF u, v
  <2>3. QED
    BY <2>1, <2>2 DEF Orderly
<1>7. CASE Receives(s)
  <2>1. Room(Now) /\ Now.net[s].near = "open" /\ Now.net[s].down # <<>>
    BY <1>2, <1>7, RoomLeft DEF Receives
  <2> DEFINE w == Now
  <2> DEFINE m == Head(w.net[s].down)
  <2> DEFINE v == [w EXCEPT !.net[s].down = Tail(@)]
  <2> DEFINE u == CASE m.type = "close" -> OnClose(v, s)
                    [] m.type # "close" /\ w.net[s].on = "pair" -> OnPairMessage(v, s, m)
                    [] m.type # "close" /\ w.net[s].on = "resume" -> OnResumeMessage(v, s, m)
                    [] m.type # "close" /\ w.net[s].on = "message" -> OnMessage(v, s, m)
                    [] OTHER -> v
  <2>2. Handled(Now, u)
    BY <1>1, <2>1, ReceivedOK
  <2>3. Become(u)
    BY <1>2, <1>7 DEF Receives
  <2> HIDE DEF u
  <2>4. QED
    BY <2>2, <2>3 DEF Orderly
<1>8. CASE CloseEvent(s)
  <2>1. Handled(Now, OnClose(Now, s))
    BY <1>1, <1>2, <1>8, OnCloseOK DEF CloseEvent
  <2>2. QED
    BY <1>8, <2>1 DEF CloseEvent, Orderly
<1>9. QED
  BY <1>3, <1>4, <1>5, <1>6, <1>7, <1>8

\* Every step of the relay and of the server hands on a state in order.
LEMMA FarActions ==
    ASSUME ClientInvariant, NEW s \in Sockets,
           RelayPairs(s) \/ RelayRefuses(s) \/ Drop(s) \/ ServerReceives(s)
    PROVE  Orderly
<1>1. ClientOK(Now) /\ Pursuit(Now)
  BY DEF ClientInvariant
<1>2. Now.net = net /\ net[s] \in Socket
  <2>1. Now.net = net
    BY DEF Now
  <2>2. QED
    BY <1>1, <2>1 DEF ClientOK, Client
<1>3. ASSUME NEW n, SocketStep(net[s], n), At(s, n)
      PROVE  Orderly
  <2>1. Handled(Now, [Now EXCEPT !.net[s] = n])
    BY <1>1, <1>2, <1>3, AtOK
  <2>2. QED
    BY <1>3, <2>1 DEF At, Orderly
<1>4. CASE RelayPairs(s)
  <2>1. SocketStep(net[s], [Deliver(net[s], "connected", NoSub) EXCEPT !.far = "server"])
    BY <1>2, <1>4, RelayStep DEF RelayPairs
  <2>2. QED
    BY <1>3, <1>4, <2>1 DEF RelayPairs
<1>5. CASE RelayRefuses(s)
  <2>1. PICK reason \in {"offline", "unknown"} : At(s, Hangup(Deliver(net[s], reason, NoSub)))
    BY <1>5 DEF RelayRefuses
  <2>2. SocketStep(net[s], Hangup(Deliver(net[s], reason, NoSub)))
    BY <1>2, <1>5, RelayStep DEF RelayRefuses
  <2>3. QED
    BY <1>3, <2>1, <2>2
<1>6. CASE Drop(s)
  <2>1. SocketStep(net[s], Hangup(net[s]))
    BY <1>2, <1>6, HangupStep DEF Drop
  <2>2. QED
    BY <1>3, <1>6, <2>1 DEF Drop
<1>7. CASE ServerReceives(s)
  <2> DEFINE m == Head(net[s].up)
  <2> DEFINE n == [net[s] EXCEPT !.up = Tail(@)]
  <2> DEFINE o == CASE m.type = "init" -> HandleSrpResumeInit(n)
                    [] m.type \in {"proof", "badproof"} -> HandleSrpResume(n, m.type)
                    [] OTHER -> HandleEncrypted(n, m)
  <2>1. SocketStep(net[s], o)
    BY <1>2, <1>7, ServerStep DEF ServerReceives
  <2>2. At(s, o)
    BY <1>7 DEF ServerReceives
  <2> HIDE DEF o
  <2>3. QED
    BY <1>3, <2>1, <2>2
<1>8. QED
  BY <1>4, <1>5, <1>6, <1>7

-----------------------------------------------------------------------------
(* The initial state, every step, and what the invariant says.             *)

\* The client starts authenticated on one open socket, with nothing under way.
LEMMA InitOK == Init => ClientInvariant
<1> SUFFICES ASSUME Init PROVE ClientInvariant
  OBVIOUS
<1>1. PICK s \in Sockets :
        /\ sc = [ws |-> s, auth |-> "authenticated", key |-> s, promise |-> NoSocket]
        /\ net = [t \in Sockets |->
                    IF t = s THEN [Unused EXCEPT !.near = "open", !.on = "message",
                                                 !.far = "authed"]
                    ELSE Unused]
  BY DEF Init
<1>2. cm = Stopped /\ bus = NoSub /\ subs = {}
  BY DEF Init
<1>3. Now.cm = cm /\ Now.sc = sc /\ Now.net = net /\ Now.bus = bus /\ Now.subs = subs
      /\ Now = [cm |-> cm, sc |-> sc, net |-> net, bus |-> bus, subs |-> subs]
  BY DEF Now
<1>4. cm \in Manager
  BY <1>2, ClientConstants DEF Manager, Stopped
<1>5. sc \in Secure
  BY <1>1 DEF Secure
<1>6. ASSUME NEW t \in Sockets
      PROVE  /\ net[t] \in Socket /\ net[t].running = FALSE
             /\ net[t].subs = {} /\ net[t].waiters = {}
             /\ net[t].near = (IF t = s THEN "open" ELSE "none")
             /\ net[t].on \notin {"pair", "resume"}
  <2> DEFINE n == [Unused EXCEPT !.near = "open", !.on = "message", !.far = "authed"]
  <2>1. /\ n \in Socket /\ n.running = FALSE /\ n.subs = {} /\ n.waiters = {}
        /\ n.near = "open" /\ n.on = "message"
    BY UnusedOK DEF Socket
  <2>2. Unused.on = "none"
    BY DEF Unused
  <2>3. net[t] = IF t = s THEN n ELSE Unused
    BY <1>1
  <2> HIDE DEF n
  <2>4. QED
    BY <2>1, <2>2, <2>3, UnusedOK
<1>7. net \in [Sockets -> Socket]
  BY <1>1, <1>6
<1>8. ClientOK(Now)
  <2>1. Now \in Client
    BY <1>2, <1>3, <1>4, <1>5, <1>7 DEF Client
  <2>2. IsFiniteSet({})
    BY FS_EmptySet
  <2>3. QED
    BY <1>3, <1>6, <2>1, <2>2 DEF ClientOK, Awaited
<1>9. Pursuit(Now)
  BY <1>2, <1>3 DEF Pursuit, Stopped
<1>10. KeysOK(Now)
  <2>1. \A t \in Sockets : SocketOK(net[t])
    BY <1>6 DEF SocketOK
  <2>2. sc.ws = s /\ sc.key = s /\ net[s].near = "open"
    BY <1>1, <1>6
  <2>3. QED
    BY <1>3, <1>6, <2>1, <2>2 DEF KeysOK
<1>11. AtMostOne(Now)
  BY <1>3, <1>6 DEF AtMostOne
<1>12. QED
  BY <1>6, <1>8, <1>9, <1>10, <1>11 DEF ClientInvariant

\* Every step of the manager, of a socket, of the relay and of the server keeps the
\* invariant.
LEMMA StepOK == ClientInvariant /\ [Next]_vars => ClientInvariant'
<1> SUFFICES ASSUME ClientInvariant, [Next]_vars PROVE ClientInvariant'
  OBVIOUS
<1>1. CASE Connect \/ Disconnect \/ Fetch \/ Heartbeat \/ BecomeVisible
             \/ BackoffTimer \/ CheckStale \/ PongTimeout
  BY <1>1, ManagerActions, BecomeOK
<1>2. ASSUME NEW s \in Sockets,
             Opens(s) \/ OpenFails(s) \/ PairTimeout(s) \/ ResumeTimeout(s)
               \/ Receives(s) \/ CloseEvent(s)
      PROVE  ClientInvariant'
  BY <1>2, SocketActions, BecomeOK
<1>3. ASSUME NEW s \in Sockets,
             RelayPairs(s) \/ RelayRefuses(s) \/ Drop(s) \/ ServerReceives(s)
      PROVE  ClientInvariant'
  BY <1>3, FarActions, BecomeOK
<1>4. CASE UNCHANGED vars
  <2>1. Now' = Now /\ alone' = alone /\ net' = net
    BY <1>4 DEF vars, Now
  <2>2. ClientOK(Now)' /\ Pursuit(Now)'
    BY <2>1 DEF ClientInvariant, ClientOK, Pursuit, Awaited
  <2>3. KeysOK(Now) /\ AtMostOne(Now) => KeysOK(Now)' /\ AtMostOne(Now)'
    BY <2>1
  <2>4. QED
    BY <2>1, <2>2, <2>3 DEF ClientInvariant
<1>5. QED
  BY <1>1, <1>2, <1>3, <1>4 DEF Next

\* The state of the client is in order at all times, whatever order opens, closes,
\* timeouts, messages, forced reconnects and stops come in.
THEOREM ClientInvariantHolds == Spec => []ClientInvariant
<1>1. QED
  BY InitOK, StepOK, PTL DEF Spec

\* Every variable of the client, of its sockets and of the server's end has its type, and
\* the attempts of ConnectionManager.ts stay within maxAttempts.
THEOREM TypeCorrect == Spec => []TypeOK
<1>1. ClientInvariant => TypeOK
  <2> SUFFICES ASSUME ClientInvariant PROVE TypeOK
    OBVIOUS
  <2>1. Now.cm = cm /\ Now.sc = sc /\ Now.net = net /\ Now.bus = bus /\ Now.subs = subs
    BY DEF Now
  <2>2. cm \in Manager /\ sc \in Secure /\ net \in [Sockets -> Socket]
        /\ bus \in Subs \cup {NoSub} /\ subs \subseteq Subs
    BY <2>1 DEF ClientInvariant, ClientOK, Client
  <2>3. ASSUME NEW s \in Sockets
        PROVE  /\ net[s] \in Socket
               /\ net[s].subs \subseteq Subs /\ net[s].waiters \subseteq Waiter
               /\ net[s].up \in Seq([type : Up, sub : Subs \cup {NoSub}])
               /\ net[s].down \in Seq([type : Down, sub : Subs \cup {NoSub}])
    <3>1. net[s] \in Socket
      BY <2>2
    <3>2. QED
      BY <3>1 DEF ClientInvariant, Socket, UpMessage, DownMessage
  <2>4. QED
    BY <2>2, <2>3 DEF TypeOK, Manager, Secure, Socket
<1>2. QED
  BY <1>1, ClientInvariantHolds, PTL

\* A manager that reconnects pursues one way to get there, and any other pursues none:
\* handleClose, forceReconnect, connectOnce, the late result of an attempt and stop() never
\* leave a timer behind a connection nor a reconnection without a timer or an attempt.
THEOREM PursuesOnce == Spec => []OnePursuit
<1>1. ClientInvariant => OnePursuit
  BY DEF ClientInvariant, Pursuit, OnePursuit, Now
<1>2. QED
  BY <1>1, ClientInvariantHolds, PTL

\* While attempts have not overlapped, the client encrypts with the key of the socket it
\* sends on, for any number of sockets whose late messages are still handled.
THEOREM KeyIsOfItsSocket == Spec => []KeyFits
<1>1. ClientInvariant => KeyFits
  BY DEF ClientInvariant, KeysOK, KeyFits, Now
<1>2. QED
  BY <1>1, ClientInvariantHolds, PTL

-----------------------------------------------------------------------------
(* What brings a client that is not at rest on.                            *)

\* The close of the other end is under way.
Closes(n) == \E i \in 1 .. Len(n.down) : n.down[i].type = "close"

\* A socket in order for those who wait for it: a timer is that of an attempt under way,
\* a connection that is lost says so, during pairing and handshake comes only what
\* belongs to them, and what the server calls open it has opened.
Telling(n) ==
    /\ n.timer => n.running
    /\ n.near = "open" =>
         /\ n.far = "gone" => Closes(n)
         /\ n.on = "pair" =>
              /\ Len(n.up) = 0
              /\ \A i \in 2 .. Len(n.down) : n.down[i].type = "close"
         /\ n.on = "resume" =>
              /\ \A i \in 1 .. Len(n.down) : n.down[i].type \in DownShake \cup {"close"}
              /\ \A i \in 1 .. Len(n.up) : n.up[i].type \in {"init", "proof", "garbled"}
    /\ \A i \in 1 .. Len(n.down) :
         n.down[i].type = "opened" /\ n.down[i].sub \in Subs => n.down[i].sub \in n.subs

\* An event of the socket will bring its attempt on.
GoesOn(n) ==
    \/ n.near = "connecting"
    \/ /\ n.near = "open" /\ n.on = "pair"
       /\ n.far = "relay" \/ Len(n.down) > 0
    \/ /\ n.near = "open" /\ n.on = "resume"
       /\ Shaking(n) \/ n.far = "gone"

\* An older socket closed late and took the connection's socket from the attempt s.
Orphaned(w, s) ==
    /\ w.net[s].near = "open" /\ w.net[s].on = "resume" /\ w.sc.ws = NoSocket
    /\ \/ w.sc.auth = "failed"
       \/ w.sc.auth = "srp_resume_proof_sent" /\ w.net[s].timer

\* The attempt s goes on, if it is not orphaned.
Going(w, s) ==
    /\ w.net[s].near = "open" /\ w.net[s].on = "resume" => w.sc.ws \in {s, NoSocket}
    /\ GoesOn(w.net[s]) \/ Orphaned(w, s)

\* How the sockets and the connection are linked.
SocketLinked(w, s) ==
    /\ Telling(w.net[s])
    /\ w.net[s].running <=> w.sc.promise = s
    /\ w.net[s].near = "open" /\ w.net[s].on = "pair" => w.sc.ws # s
    /\ w.sc.key = s =>
         /\ w.net[s].near \notin {"none", "connecting"} /\ w.net[s].on # "pair"
         /\ w.net[s].on = "resume" => w.sc.ws # s
         /\ w.net[s].near = "open" /\ w.net[s].on = "message" =>
              w.sc.ws = s /\ w.sc.auth = "authenticated"

\* The attempt, the sockets, the connection and the bus agree, but for whether the
\* attempts of E go on.
Tied(w, E) ==
    /\ \A s \in Sockets : /\ SocketLinked(w, s)
                          /\ w.net[s].running /\ s \notin E => Going(w, s)
    /\ w.sc.auth = "authenticated" => w.sc.promise = NoSocket
    /\ IsConnected(w) =>
         w.net[w.sc.ws].on = "message" /\ w.net[w.sc.ws].far \in {"authed", "gone"}
    /\ w.bus # NoSub => w.bus \in w.subs

\* The manager awaits the attempt under way, and the bus then has no subscription.
Aimed(w) == w.cm.current # NoSocket => w.cm.current = w.sc.promise /\ w.bus = NoSub

Linked(w) == Tied(w, {}) /\ Aimed(w)

\* One of the subscriptions S is open at the server, or asked for, or will be refused.
Heard(n, S) ==
    \/ n.far = "gone"
    \/ n.subs \cap S # {}
    \/ \E i \in 1 .. Len(n.up) : n.up[i].type = "subscribe" /\ n.up[i].sub \in S

\* The bus awaits an attempt, or the server knows of a subscription.
Served(w) ==
    /\ w.bus # NoSub
    /\ \/ w.sc.promise # NoSocket /\ w.bus \in w.net[w.sc.promise].waiters
       \/ IsConnected(w) /\ Heard(w.net[w.sc.ws], w.subs)

\* A connection that is shown, and of which nothing was heard yet.
Shown(w) == w.cm.started /\ w.cm.state = "connected" /\ ~w.cm.heartbeat

RestOK(w) == Linked(w) /\ (Shown(w) => Served(w))

-----------------------------------------------------------------------------
(* The other end of a socket, for those who wait.                          *)

\* From n to m whatever was to come of the socket still is.
Keeps(n, m) ==
    /\ m.near = n.near /\ m.on = n.on /\ m.running = n.running /\ m.timer = n.timer
    /\ Telling(n) => Telling(m)
    /\ GoesOn(n) => GoesOn(m)
    /\ n.far \in {"authed", "gone"} => m.far \in {"authed", "gone"}

\* The same for its subscribers.
Serves(n, m) ==
    /\ m.waiters = n.waiters
    /\ \A S : n.far \in {"authed", "gone"} /\ Heard(n, S) => Heard(m, S)

\* Delivering puts the message behind those under way, and changes nothing else.
LEMMA DeliveredIs ==
    ASSUME NEW n \in Socket, NEW type \in Down, NEW q \in Subs \cup {NoSub}
    PROVE  LET m == Deliver(n, type, q)
           IN /\ m \in Socket /\ m = [n EXCEPT !.down = m.down]
              /\ Len(m.down) = Len(n.down) + 1
              /\ \A i \in 1 .. Len(n.down) : m.down[i] = n.down[i]
              /\ m.down[Len(n.down) + 1] = Msg(type, q)
<1> DEFINE x == Msg(type, q)
<1> DEFINE d == Append(n.down, x)
<1>1. n.down \in Seq(DownMessage)
  BY SocketLengths
<1>2. x \in DownMessage
  BY DEF Msg, DownMessage
<1>3. Deliver(n, type, q) = [n EXCEPT !.down = d]
  BY DEF Deliver
<1> HIDE DEF x
<1>4. /\ d \in Seq(DownMessage) /\ Len(d) = Len(n.down) + 1
      /\ (\A i \in 1 .. Len(n.down) : d[i] = n.down[i]) /\ d[Len(n.down) + 1] = x
  BY <1>1, <1>2
<1> HIDE DEF d
<1>5. Deliver(n, type, q).down = d /\ Deliver(n, type, q) \in Socket
  BY <1>3, <1>4 DEF Socket
<1>6. QED
  BY <1>3, <1>4, <1>5 DEF x

\* A message for whoever waits: n with one more message x under way downwards, the far
\* end in any state that fits.
LEMMA GrownTelling ==
    ASSUME NEW n \in Socket, NEW m \in Socket, NEW x, Telling(n),
           m.near = n.near, m.on = n.on, m.running = n.running, m.timer = n.timer,
           Len(m.down) = Len(n.down) + 1,
           \A i \in 1 .. Len(n.down) : m.down[i] = n.down[i],
           m.down[Len(n.down) + 1] = x,
           \A i \in 1 .. Len(m.up) : \E j \in 1 .. Len(n.up) : m.up[i] = n.up[j],
           n.subs \subseteq m.subs,
           x.type = "opened" /\ x.sub \in Subs => x.sub \in m.subs,
           n.near = "open" /\ m.far = "gone" => x.type = "close",
           n.near = "open" /\ n.on = "pair" => x.type = "close" \/ Len(n.down) = 0,
           n.near = "open" /\ n.on = "resume" => x.type \in DownShake \cup {"close"}
    PROVE  Telling(m)
<1>1. Len(n.down) \in Nat /\ Len(n.up) \in Nat /\ Len(m.up) \in Nat
  BY SocketLengths
<1>2. \A i \in 1 .. Len(m.down) : i \in 1 .. Len(n.down) \/ i = Len(n.down) + 1
  BY <1>1
<1>3. Len(n.down) + 1 \in 1 .. Len(m.down)
  BY <1>1
<1>4. m.timer => m.running
  BY DEF Telling
<1>5. \A i \in 1 .. Len(m.down) :
        m.down[i].type = "opened" /\ m.down[i].sub \in Subs => m.down[i].sub \in m.subs
  BY <1>2 DEF Telling
<1>6. ASSUME n.near = "open", m.far = "gone" PROVE Closes(m)
  BY <1>3, <1>6 DEF Closes
<1>7. ASSUME n.near = "open", n.on = "pair"
      PROVE  /\ Len(m.up) = 0
             /\ \A i \in 2 .. Len(m.down) : m.down[i].type = "close"
  <2>1. Len(m.up) = 0
    BY <1>1, <1>7 DEF Telling
  <2>2. ASSUME NEW i \in 2 .. Len(m.down) PROVE m.down[i].type = "close"
    <3>1. CASE i \in 2 .. Len(n.down)
      BY <1>1, <1>7, <3>1 DEF Telling
    <3>2. CASE i = Len(n.down) + 1
      <4>1. Len(n.down) # 0
        BY <1>1, <3>2
      <4> QED BY <1>7, <3>2, <4>1
    <3> QED BY <1>1, <3>1, <3>2
  <2> QED BY <2>1, <2>2
<1>8. ASSUME n.near = "open", n.on = "resume"
      PROVE  /\ \A i \in 1 .. Len(m.down) : m.down[i].type \in DownShake \cup {"close"}
             /\ \A i \in 1 .. Len(m.up) : m.up[i].type \in {"init", "proof", "garbled"}
  BY <1>2, <1>8 DEF Telling
<1> QED BY <1>4, <1>5, <1>6, <1>7, <1>8 DEF Telling

\* A close behind what is under way is heard by whoever waits.
LEMMA HangupKeeps ==
    ASSUME NEW n \in Socket
    PROVE  LET m == Hangup(n)
           IN /\ m \in Socket /\ Serves(n, m)
              /\ n.near = "open" => Keeps(n, m)
              /\ Telling(n) => Telling(m)
              /\ m.near = n.near /\ m.on = n.on /\ m.running = n.running
              /\ m.timer = n.timer /\ m.far = "gone"
<1> DEFINE d == Deliver(n, "close", NoSub)
<1> DEFINE m == [d EXCEPT !.far = "gone", !.up = <<>>]
<1>1. /\ d \in Socket /\ d = [n EXCEPT !.down = d.down]
      /\ Len(d.down) = Len(n.down) + 1
      /\ \A i \in 1 .. Len(n.down) : d.down[i] = n.down[i]
      /\ d.down[Len(n.down) + 1] = Msg("close", NoSub)
  BY DeliveredIs DEF Down
<1>2. Hangup(n) = m
  BY DEF Hangup
<1> HIDE DEF d
<1>3. /\ m \in Socket /\ m.near = n.near /\ m.on = n.on /\ m.running = n.running
      /\ m.timer = n.timer /\ m.far = "gone" /\ m.up = <<>> /\ m.down = d.down
      /\ m.waiters = n.waiters /\ m.subs = n.subs
  <2>1. <<>> \in Seq(UpMessage)
    OBVIOUS
  <2> QED BY <1>1, <2>1 DEF Socket
<1> HIDE DEF m
<1>4. Msg("close", NoSub).type = "close"
  BY DEF Msg
<1>5. Telling(n) => Telling(m)
  BY <1>1, <1>3, <1>4, GrownTelling
<1>6. Serves(n, m)
  BY <1>3 DEF Serves, Heard
<1>7. n.near = "open" => (GoesOn(n) => GoesOn(m))
  <2>1. Len(m.down) > 0
    BY <1>1, <1>3, SocketLengths
  <2> QED BY <1>3, <2>1 DEF GoesOn
<1>8. QED
  BY <1>2, <1>3, <1>5, <1>6, <1>7 DEF Keeps

\* What is kept by two steps is kept by both.
LEMMA KeepsTwice ==
    ASSUME NEW n, NEW m, NEW o, Keeps(n, m), Keeps(m, o), Serves(n, m), Serves(m, o)
    PROVE  Keeps(n, o) /\ Serves(n, o)
<1>1. Keeps(n, o)
  BY DEF Keeps
<1>2. Serves(n, o)
  BY DEF Keeps, Serves
<1> QED BY <1>1, <1>2

\* The relay pairs the socket of an attempt that waits for it, or refuses it.
LEMMA RelayKeeps ==
    ASSUME NEW n \in Socket, SocketOK(n), n.far = "relay"
    PROVE  /\ LET m == [Deliver(n, "connected", NoSub) EXCEPT !.far = "server"]
              IN Keeps(n, m) /\ Serves(n, m)
           /\ \A reason \in {"offline", "unknown"} :
                LET m == Hangup(Deliver(n, reason, NoSub))
                IN Keeps(n, m) /\ Serves(n, m)
<1>1. /\ n.near # "connecting"
      /\ n.near = "open" => n.on # "resume"
      /\ n.near = "open" /\ n.on = "pair" => Len(n.down) = 0
  BY DEF SocketOK, Fresh, Pairing, Resuming, InitSent, Challenging, Proving, Answered, Severed
<1>2. ASSUME NEW type \in {"connected", "offline", "unknown"},
             NEW f \in {"relay", "server"}
      PROVE  LET m == [Deliver(n, type, NoSub) EXCEPT !.far = f]
             IN Keeps(n, m) /\ Serves(n, m) /\ m \in Socket
  <2> DEFINE d == Deliver(n, type, NoSub)
  <2> DEFINE m == [d EXCEPT !.far = f]
  <2>1. /\ d \in Socket /\ d = [n EXCEPT !.down = d.down]
        /\ Len(d.down) = Len(n.down) + 1
        /\ \A i \in 1 .. Len(n.down) : d.down[i] = n.down[i]
        /\ d.down[Len(n.down) + 1] = Msg(type, NoSub)
    BY DeliveredIs DEF Down
  <2> HIDE DEF d
  <2>2. /\ m \in Socket /\ m.near = n.near /\ m.on = n.on /\ m.running = n.running
        /\ m.timer = n.timer /\ m.far = f /\ m.up = n.up /\ m.down = d.down
        /\ m.waiters = n.waiters /\ m.subs = n.subs
    BY <2>1 DEF Socket
  <2> HIDE DEF m
  <2>3. Msg(type, NoSub).type = type
    BY DEF Msg
  <2>4. Telling(n) => Telling(m)
    BY <1>1, <2>1, <2>2, <2>3, GrownTelling
  <2>5. GoesOn(n) => GoesOn(m)
    <3>1. Len(m.down) > 0
      BY <2>1, <2>2, SocketLengths
    <3> QED BY <1>1, <2>2, <3>1 DEF GoesOn
  <2>6. Keeps(n, m)
    BY <2>2, <2>4, <2>5 DEF Keeps
  <2>7. Serves(n, m)
    BY <2>2 DEF Serves
  <2> QED BY <2>2, <2>6, <2>7 DEF m, d
<1>3. LET m == [Deliver(n, "connected", NoSub) EXCEPT !.far = "server"]
      IN Keeps(n, m) /\ Serves(n, m)
  BY <1>2
<1>4. ASSUME NEW reason \in {"offline", "unknown"}
      PROVE  LET m == Hangup(Deliver(n, reason, NoSub))
             IN Keeps(n, m) /\ Serves(n, m)
  <2> DEFINE d == Deliver(n, reason, NoSub)
  <2> DEFINE o == Hangup(d)
  <2>1. d = [d EXCEPT !.far = "relay"] /\ d.near = n.near /\ d \in Socket /\ d.on = n.on
    BY DeliveredIs DEF Down, Socket
  <2>2. Keeps(n, d) /\ Serves(n, d)
    BY <1>2, <2>1
  <2> HIDE DEF d
  <2>3. /\ o \in Socket /\ Serves(d, o) /\ (d.near = "open" => Keeps(d, o))
        /\ (Telling(d) => Telling(o))
        /\ o.near = d.near /\ o.on = d.on /\ o.running = d.running
        /\ o.timer = d.timer /\ o.far = "gone"
    BY <2>1, HangupKeeps
  <2> HIDE DEF o
  <2>4. d.near # "open" => ~GoesOn(d)
    BY <1>1, <2>1 DEF GoesOn
  <2>5. Keeps(d, o)
    BY <2>3, <2>4 DEF Keeps
  <2>6. Keeps(n, o) /\ Serves(n, o)
    BY <2>2, <2>3, <2>5, KeepsTwice
  <2> QED BY <2>6 DEF o, d
<1> QED BY <1>3, <1>4

\* The server takes the next message h of the socket k, which leaves n.
LEMMA ServerTakes ==
    ASSUME NEW k \in Socket, k.up # <<>>
    PROVE  LET n == [k EXCEPT !.up = Tail(@)]
               h == Head(k.up)
           IN /\ n \in Socket /\ n = [k EXCEPT !.up = n.up] /\ h \in UpMessage /\ h = k.up[1]
              /\ Len(k.up) \in Nat \ {0} /\ Len(n.up) = Len(k.up) - 1
              /\ \A i \in 1 .. Len(n.up) : n.up[i] = k.up[i + 1]
<1>1. k.up \in Seq(UpMessage) /\ k.up # <<>>
  BY DEF Socket
<1>2. /\ Head(k.up) = k.up[1] /\ Head(k.up) \in UpMessage /\ Tail(k.up) \in Seq(UpMessage)
      /\ Len(k.up) \in Nat \ {0} /\ Len(Tail(k.up)) = Len(k.up) - 1
      /\ \A i \in 1 .. Len(Tail(k.up)) : Tail(k.up)[i] = k.up[i + 1]
  BY <1>1
<1>3. /\ [k EXCEPT !.up = Tail(@)] \in Socket /\ [k EXCEPT !.up = Tail(@)].up = Tail(k.up)
  BY <1>2 DEF Socket
<1> QED BY <1>2, <1>3

\* What the server makes of the message h: an answer x on a connection that stays, a
\* hangup, an opened subscription, or nothing.
ServerMakes(n, h, o) ==
    \/ /\ n.far # "authed" /\ h.type \notin UpShake /\ o = n
    \/ /\ n.far = "authed" /\ h.type = "garbled" /\ o = Hangup(n)
    \/ /\ n.far = "authed" /\ h.type = "ping" /\ o = Deliver(n, "pong", NoSub)
    \/ /\ n.far = "authed" /\ h.type = "subscribe"
       /\ o = [Deliver(n, "opened", h.sub) EXCEPT !.subs = @ \cup {h.sub}]
    \/ /\ n.far = "authed" /\ h.type \in UpShake /\ o = Deliver(n, "invalid", NoSub)
    \/ /\ n.far # "authed" /\ h.type = "init"
       /\ o = [Deliver(n, "challenge", NoSub) EXCEPT !.far = "challenged"]
    \/ /\ n.far = "challenged" /\ h.type = "proof"
       /\ o = [Deliver(n, "resumed", NoSub) EXCEPT !.far = "authed"]
    \/ /\ n.far = "challenged" /\ h.type = "badproof"
       /\ o = [Deliver(n, "invalid", NoSub) EXCEPT !.far = "server"]
    \/ /\ n.far \notin {"authed", "challenged"} /\ h.type \in {"proof", "badproof"}
       /\ o = Deliver(n, "invalid", NoSub)

\* The handlers of the server do one of these.
LEMMA ServerCases ==
    ASSUME NEW n \in Socket, NEW h \in UpMessage
    PROVE  ServerMakes(n, h, CASE h.type = "init" -> HandleSrpResumeInit(n)
                               [] h.type \in {"proof", "badproof"} -> HandleSrpResume(n, h.type)
                               [] OTHER -> HandleEncrypted(n, h))
<1> DEFINE o == CASE h.type = "init" -> HandleSrpResumeInit(n)
                  [] h.type \in {"proof", "badproof"} -> HandleSrpResume(n, h.type)
                  [] OTHER -> HandleEncrypted(n, h)
<1>1. h.type \in {"init", "proof", "badproof", "subscribe", "ping", "garbled"}
  BY DEF UpMessage, Up
<1>2. CASE h.type = "init"
  <2>1. o = HandleSrpResumeInit(n)
    BY <1>2
  <2> HIDE DEF o
  <2>2. ServerMakes(n, h, o)
    BY <1>2, <2>1 DEF ServerMakes, HandleSrpResumeInit, UpShake
  <2> QED BY <2>2 DEF o
<1>3. CASE h.type = "proof"
  <2>1. o = HandleSrpResume(n, "proof")
    BY <1>3
  <2> HIDE DEF o
  <2>2. ServerMakes(n, h, o)
    BY <1>3, <2>1 DEF ServerMakes, HandleSrpResume, UpShake
  <2> QED BY <2>2 DEF o
<1>4. CASE h.type = "badproof"
  <2>1. o = HandleSrpResume(n, "badproof")
    BY <1>4
  <2> HIDE DEF o
  <2>2. ServerMakes(n, h, o)
    BY <1>4, <2>1 DEF ServerMakes, HandleSrpResume, UpShake
  <2> QED BY <2>2 DEF o
<1>5. CASE h.type \in {"subscribe", "ping", "garbled"}
  <2>1. o = HandleEncrypted(n, h)
    BY <1>5
  <2> HIDE DEF o
  <2>2. ServerMakes(n, h, o)
    BY <1>5, <2>1 DEF ServerMakes, HandleEncrypted, UpShake
  <2> QED BY <2>2 DEF o
<1> QED BY <1>1, <1>2, <1>3, <1>4, <1>5

\* The server has taken the first message h of k, which leaves n, and what it makes of
\* it, o, has one more message x on its way back.
LEMMA AnswerKeeps ==
    ASSUME NEW k \in Socket, NEW n \in Socket, NEW o \in Socket, NEW x,
           Telling(k), k.near # "connecting", k.near = "open" => k.on # "pair",
           n.near = k.near, n.on = k.on, n.running = k.running, n.timer = k.timer,
           n.waiters = k.waiters, n.subs = k.subs, n.far = k.far, n.down = k.down,
           Len(k.up) \in Nat \ {0}, Len(n.up) = Len(k.up) - 1,
           \A i \in 1 .. Len(n.up) : n.up[i] = k.up[i + 1],
           o.near = n.near, o.on = n.on, o.running = n.running, o.timer = n.timer,
           o.waiters = n.waiters, o.up = n.up, n.subs \subseteq o.subs,
           Len(o.down) = Len(n.down) + 1,
           \A i \in 1 .. Len(n.down) : o.down[i] = n.down[i],
           o.down[Len(n.down) + 1] = x,
           o.far # "gone", k.far = "authed" => o.far = "authed", k.far # "gone",
           k.near = "open" /\ k.on = "resume" => x.type \in DownShake,
           x.type = "opened" /\ x.sub \in Subs => x.sub \in o.subs,
           k.far = "authed" /\ k.up[1].type = "subscribe" => k.up[1].sub \in o.subs
    PROVE  Keeps(k, o) /\ Serves(k, o)
<1>2. \A i \in 1 .. Len(n.up) : i + 1 \in 1 .. Len(k.up) /\ n.up[i] = k.up[i + 1]
  BY SocketLengths
<1>3. Telling(n)
  BY <1>2 DEF Telling, Closes
<1>4. Telling(o)
  <2>1. \A i \in 1 .. Len(o.up) : \E j \in 1 .. Len(n.up) : o.up[i] = n.up[j]
    OBVIOUS
  <2>2. n.near = "open" /\ n.on = "pair" => x.type = "close" \/ Len(n.down) = 0
    OBVIOUS
  <2>3. /\ n.near = "open" /\ o.far = "gone" => x.type = "close"
        /\ n.near = "open" /\ n.on = "resume" => x.type \in DownShake \cup {"close"}
        /\ x.type = "opened" /\ x.sub \in Subs => x.sub \in o.subs
    OBVIOUS
  <2>4. /\ o.near = n.near /\ o.on = n.on /\ o.running = n.running /\ o.timer = n.timer
        /\ Len(o.down) = Len(n.down) + 1 /\ o.down[Len(n.down) + 1] = x
        /\ \A i \in 1 .. Len(n.down) : o.down[i] = n.down[i]
        /\ n.subs \subseteq o.subs
    OBVIOUS
  <2> QED BY <1>3, <2>1, <2>2, <2>3, <2>4, GrownTelling
<1>5. GoesOn(k) => GoesOn(o)
  <2>1. ASSUME k.near = "open", k.on = "resume" PROVE Shaking(o)
    <3>1. Len(n.down) + 1 \in 1 .. Len(o.down)
      BY SocketLengths
    <3> QED BY <2>1, <3>1 DEF Shaking, NoDown
  <2> QED BY <2>1 DEF GoesOn
<1>6. Keeps(k, o)
  BY <1>4, <1>5 DEF Keeps
<1>7. ASSUME NEW S, k.far = "authed", Heard(k, S) PROVE Heard(o, S)
  <2>1. CASE k.subs \cap S # {}
    BY <2>1 DEF Heard
  <2>2. ASSUME NEW i \in 1 .. Len(k.up), k.up[i].type = "subscribe", k.up[i].sub \in S
        PROVE  Heard(o, S)
    <3>1. CASE i = 1
      BY <1>7, <2>2, <3>1 DEF Heard
    <3>2. CASE i # 1
      <4>1. i - 1 \in 1 .. Len(n.up) /\ (i - 1) + 1 = i
        BY <3>2
      <4>2. n.up[i - 1] = k.up[i]
        BY <4>1
      <4> QED BY <2>2, <4>1, <4>2 DEF Heard
    <3> QED BY <3>1, <3>2
  <2> QED BY <1>7, <2>1, <2>2 DEF Heard
<1> QED BY <1>6, <1>7 DEF Serves

\* The answer (type, q) is under way from n to o, behind whatever was.
Replies(n, o, type, q, f, S) ==
    /\ o \in Socket /\ o.near = n.near /\ o.on = n.on /\ o.running = n.running
    /\ o.timer = n.timer /\ o.waiters = n.waiters /\ o.up = n.up /\ o.far = f /\ o.subs = S
    /\ Len(o.down) = Len(n.down) + 1
    /\ \A i \in 1 .. Len(n.down) : o.down[i] = n.down[i]
    /\ o.down[Len(n.down) + 1] = Msg(type, q)

\* What is delivered replies, whatever becomes of the far end.
LEMMA DeliverReplies ==
    ASSUME NEW n \in Socket, NEW type \in Down, NEW q \in Subs \cup {NoSub},
           NEW f \in {"none", "relay", "server", "challenged", "authed", "gone"}
    PROVE  LET d == Deliver(n, type, q)
           IN /\ Replies(n, d, type, q, n.far, n.subs)
              /\ Replies(n, [d EXCEPT !.far = f], type, q, f, n.subs)
              /\ Replies(n, [d EXCEPT !.subs = @ \cup {q}], type, q, n.far, n.subs \cup {q})
<1> DEFINE d == Deliver(n, type, q)
<1>1. /\ d \in Socket /\ d = [n EXCEPT !.down = d.down]
      /\ Len(d.down) = Len(n.down) + 1
      /\ \A i \in 1 .. Len(n.down) : d.down[i] = n.down[i]
      /\ d.down[Len(n.down) + 1] = Msg(type, q)
  BY DeliveredIs
<1> HIDE DEF d
<1>2. /\ d.near = n.near /\ d.on = n.on /\ d.running = n.running /\ d.far = n.far
      /\ d.timer = n.timer /\ d.waiters = n.waiters /\ d.up = n.up /\ d.subs = n.subs
  BY <1>1 DEF Socket
<1>3. Replies(n, d, type, q, n.far, n.subs)
  BY <1>1, <1>2 DEF Replies
<1>4. Replies(n, [d EXCEPT !.far = f], type, q, f, n.subs)
  <2> DEFINE o == [d EXCEPT !.far = f]
  <2>1. /\ o \in Socket /\ o.near = d.near /\ o.on = d.on /\ o.running = d.running
        /\ o.timer = d.timer /\ o.waiters = d.waiters /\ o.up = d.up
        /\ o.far = f /\ o.subs = d.subs /\ o.down = d.down
    BY <1>1 DEF Socket
  <2> HIDE DEF o
  <2>2. Replies(n, o, type, q, f, n.subs)
    BY <1>1, <1>2, <2>1 DEF Replies
  <2> QED BY <2>2 DEF o
<1>5. Replies(n, [d EXCEPT !.subs = @ \cup {q}], type, q, n.far, n.subs \cup {q})
  <2> DEFINE o == [d EXCEPT !.subs = @ \cup {q}]
  <2>1. /\ o \in Socket /\ o.near = d.near /\ o.on = d.on /\ o.running = d.running
        /\ o.timer = d.timer /\ o.waiters = d.waiters /\ o.up = d.up
        /\ o.far = d.far /\ o.subs = d.subs \cup {q} /\ o.down = d.down
    BY <1>1 DEF Socket
  <2> HIDE DEF o
  <2>2. Replies(n, o, type, q, n.far, n.subs \cup {q})
    BY <1>1, <1>2, <2>1 DEF Replies
  <2> QED BY <2>2 DEF o
<1> QED BY <1>3, <1>4, <1>5 DEF d

\* What the server reads and answers: whatever was to come of the socket still is.
LEMMA ServerKeeps ==
    ASSUME NEW k \in Socket, SocketOK(k), Telling(k), k.up # <<>>,
           k.far \in {"server", "challenged", "authed"}, NEW o,
           ServerMakes([k EXCEPT !.up = Tail(@)], Head(k.up), o)
    PROVE  Keeps(k, o) /\ Serves(k, o)
<1> DEFINE n == [k EXCEPT !.up = Tail(@)]
<1> DEFINE h == Head(k.up)
<1>1. /\ n \in Socket /\ n = [k EXCEPT !.up = n.up] /\ h \in UpMessage /\ h = k.up[1]
      /\ Len(k.up) \in Nat \ {0} /\ Len(n.up) = Len(k.up) - 1
      /\ \A i \in 1 .. Len(n.up) : n.up[i] = k.up[i + 1]
  BY ServerTakes
<1>2. ServerMakes(n, h, o)
  OBVIOUS
<1> HIDE DEF n, h
<1>3. /\ n.near = k.near /\ n.on = k.on /\ n.running = k.running /\ n.timer = k.timer
      /\ n.waiters = k.waiters /\ n.subs = k.subs /\ n.far = k.far /\ n.down = k.down
  BY <1>1 DEF Socket
<1>4. k.near # "connecting" /\ (k.near = "open" => k.on # "pair")
  BY <1>1 DEF SocketOK, Fresh, Telling
<1>5. 1 \in 1 .. Len(k.up)
  BY <1>1
<1>6. ASSUME k.near = "open", k.on = "resume"
      PROVE  /\ h.type \in UpShake => \/ h.type = "init" /\ k.far = "server"
                                      \/ h.type = "proof" /\ k.far = "challenged"
             /\ h.type \notin UpShake => h.type = "garbled"
  <2>1. Resuming(k)
    BY <1>6 DEF SocketOK
  <2>2. h.type \in {"init", "proof", "garbled"}
    BY <1>1, <1>5, <1>6 DEF Telling
  <2>3. NoUp(k.up, 1) => h.type \notin UpShake
    BY <1>1, <1>5 DEF NoUp
  <2>4. \A type : Lone(k.up, type) => (h.type \in UpShake => h.type = type)
    BY <1>1, <1>5 DEF Lone
  <2> QED
    BY <2>1, <2>2, <2>3, <2>4
       DEF Resuming, InitSent, Challenging, Proving, Answered, Severed, UpShake
<1>7. CASE n.far # "authed" /\ h.type \notin UpShake /\ o = n
  <2>1. \A i \in 1 .. Len(n.up) : i + 1 \in 1 .. Len(k.up) /\ n.up[i] = k.up[i + 1]
    BY <1>1
  <2>2. Telling(n)
    BY <1>1, <1>3, <1>4, <2>1 DEF Telling, Closes
  <2>3. ~NoUp(k.up, 1) => ~NoUp(n.up, 1)
    <3>1. ASSUME NEW i \in 1 .. Len(k.up), k.up[i].type \in UpShake
          PROVE  i - 1 \in 1 .. Len(n.up) /\ n.up[i - 1].type \in UpShake
      <4>1. i # 1
        BY <1>1, <1>7, <3>1
      <4>2. i - 1 \in 1 .. Len(n.up) /\ (i - 1) + 1 = i
        BY <1>1, <4>1
      <4> QED BY <1>1, <3>1, <4>2
    <3> QED BY <3>1 DEF NoUp
  <2>4. GoesOn(k) => GoesOn(n)
    BY <1>3, <1>4, <2>3 DEF GoesOn, Shaking
  <2>5. Keeps(k, n) /\ Serves(k, n)
    BY <1>3, <1>7, <2>2, <2>4 DEF Keeps, Serves
  <2> QED BY <1>7, <2>5
<1>8. CASE n.far = "authed" /\ h.type = "garbled" /\ o = Hangup(n)
  <2>1. \A i \in 1 .. Len(n.up) : i + 1 \in 1 .. Len(k.up) /\ n.up[i] = k.up[i + 1]
    BY <1>1
  <2>2. Telling(n)
    BY <1>1, <1>3, <1>4, <2>1 DEF Telling, Closes
  <2>3. /\ o \in Socket /\ Serves(n, o) /\ Telling(o)
        /\ o.near = n.near /\ o.on = n.on /\ o.running = n.running
        /\ o.timer = n.timer /\ o.far = "gone"
    BY <1>1, <1>8, <2>2, HangupKeeps
  <2>4. Keeps(k, o)
    BY <1>3, <1>4, <2>3 DEF Keeps, GoesOn
  <2>5. Serves(k, o)
    BY <1>3, <2>3 DEF Serves, Heard
  <2> QED BY <2>4, <2>5
<1>9. ASSUME NEW type \in Down \ {"close"}, NEW q \in Subs \cup {NoSub},
             NEW f \in {"server", "challenged", "authed"}, NEW S, n.subs \subseteq S,
             Replies(n, o, type, q, f, S), n.far = "authed" => f = "authed",
             k.near = "open" /\ k.on = "resume" => type \in DownShake,
             type = "opened" => q \in S,
             h.type = "subscribe" /\ k.far = "authed" => h.sub \in S
      PROVE  Keeps(k, o) /\ Serves(k, o)
  <2>1. /\ o \in Socket /\ o.near = n.near /\ o.on = n.on /\ o.running = n.running
        /\ o.timer = n.timer /\ o.waiters = n.waiters /\ o.up = n.up
        /\ o.far = f /\ o.subs = S
        /\ Len(o.down) = Len(n.down) + 1
        /\ \A i \in 1 .. Len(n.down) : o.down[i] = n.down[i]
        /\ o.down[Len(n.down) + 1] = Msg(type, q)
    BY <1>9 DEF Replies
  <2>2. Msg(type, q).type = type /\ Msg(type, q).sub = q
    BY DEF Msg
  <2>3. o.far # "gone" /\ (k.far = "authed" => o.far = "authed") /\ k.far # "gone"
    BY <1>3, <1>9, <2>1
  <2>4. k.near = "open" /\ k.on = "resume" => Msg(type, q).type \in DownShake
    BY <1>9, <2>2
  <2>5. Msg(type, q).type = "opened" /\ Msg(type, q).sub \in Subs => Msg(type, q).sub \in o.subs
    BY <1>9, <2>1, <2>2
  <2>6. k.far = "authed" /\ k.up[1].type = "subscribe" => k.up[1].sub \in o.subs
    BY <1>1, <1>9, <2>1
  <2> QED BY <1>1, <1>3, <1>4, <1>9, <2>1, <2>3, <2>4, <2>5, <2>6, AnswerKeeps
<1>10. h.sub \in Subs \cup {NoSub}
  BY <1>1 DEF UpMessage
<1>11. {"pong", "opened", "invalid", "challenge", "resumed"} \subseteq Down \ {"close"}
  BY DEF Down
<1>12. n.far \in {"server", "challenged", "authed"} /\ n \in Socket
  BY <1>1, <1>3
<1>20. ASSUME NEW type \in Down, NEW q \in Subs \cup {NoSub}
       PROVE  LET d == Deliver(n, type, q)
              IN /\ Replies(n, d, type, q, n.far, n.subs)
                 /\ Replies(n, [d EXCEPT !.far = "server"], type, q, "server", n.subs)
                 /\ Replies(n, [d EXCEPT !.far = "challenged"], type, q, "challenged", n.subs)
                 /\ Replies(n, [d EXCEPT !.far = "authed"], type, q, "authed", n.subs)
                 /\ Replies(n, [d EXCEPT !.subs = @ \cup {q}], type, q, n.far,
                            n.subs \cup {q})
  BY <1>12, DeliverReplies
<1>13. CASE n.far = "authed" /\ h.type = "ping" /\ o = Deliver(n, "pong", NoSub)
  <2>1. Replies(n, o, "pong", NoSub, "authed", n.subs)
    BY <1>11, <1>13, <1>20
  <2>2. ~(k.near = "open" /\ k.on = "resume") /\ h.type # "subscribe"
    BY <1>6, <1>13 DEF UpShake
  <2> QED BY <1>9, <1>11, <1>13, <2>1, <2>2
<1>14. CASE /\ n.far = "authed" /\ h.type = "subscribe"
            /\ o = [Deliver(n, "opened", h.sub) EXCEPT !.subs = @ \cup {h.sub}]
  <2>1. Replies(n, o, "opened", h.sub, "authed", n.subs \cup {h.sub})
    BY <1>10, <1>11, <1>14, <1>20
  <2>2. ~(k.near = "open" /\ k.on = "resume")
    BY <1>6, <1>14 DEF UpShake
  <2>3. "opened" \in Down \ {"close"} /\ h.sub \in n.subs \cup {h.sub}
        /\ n.subs \subseteq n.subs \cup {h.sub}
    BY <1>11
  <2> DEFINE S == n.subs \cup {h.sub}
  <2>4. Replies(n, o, "opened", h.sub, "authed", S) /\ n.subs \subseteq S /\ h.sub \in S
    BY <2>1
  <2> HIDE DEF S
  <2> QED BY <1>9, <1>10, <2>2, <2>3, <2>4
<1>15. CASE n.far = "authed" /\ h.type \in UpShake /\ o = Deliver(n, "invalid", NoSub)
  <2>1. Replies(n, o, "invalid", NoSub, "authed", n.subs)
    BY <1>11, <1>15, <1>20
  <2>2. ~(k.near = "open" /\ k.on = "resume")
    BY <1>3, <1>6, <1>15
  <2>3. h.type # "subscribe"
    BY <1>15 DEF UpShake
  <2> QED BY <1>9, <1>11, <1>15, <2>1, <2>2, <2>3
<1>16. CASE /\ n.far # "authed" /\ h.type = "init"
            /\ o = [Deliver(n, "challenge", NoSub) EXCEPT !.far = "challenged"]
  <2>1. Replies(n, o, "challenge", NoSub, "challenged", n.subs)
    BY <1>11, <1>16, <1>20
  <2>2. "challenge" \in DownShake
    BY DEF DownShake
  <2> QED BY <1>9, <1>11, <1>16, <2>1, <2>2
<1>17. CASE /\ n.far = "challenged" /\ h.type = "proof"
            /\ o = [Deliver(n, "resumed", NoSub) EXCEPT !.far = "authed"]
  <2>1. Replies(n, o, "resumed", NoSub, "authed", n.subs)
    BY <1>11, <1>17, <1>20
  <2>2. "resumed" \in DownShake
    BY DEF DownShake
  <2> QED BY <1>9, <1>11, <1>17, <2>1, <2>2
<1>18. CASE /\ n.far = "challenged" /\ h.type = "badproof"
            /\ o = [Deliver(n, "invalid", NoSub) EXCEPT !.far = "server"]
  <2>1. Replies(n, o, "invalid", NoSub, "server", n.subs)
    BY <1>11, <1>18, <1>20
  <2>2. ~(k.near = "open" /\ k.on = "resume")
    BY <1>6, <1>18 DEF UpShake
  <2> QED BY <1>9, <1>11, <1>18, <2>1, <2>2
<1>19. CASE /\ n.far \notin {"authed", "challenged"} /\ h.type \in {"proof", "badproof"}
            /\ o = Deliver(n, "invalid", NoSub)
  <2>1. Replies(n, o, "invalid", NoSub, n.far, n.subs)
    BY <1>11, <1>12, <1>19, <1>20
  <2>2. ~(k.near = "open" /\ k.on = "resume")
    BY <1>3, <1>6, <1>19 DEF UpShake
  <2>3. h.type # "subscribe" /\ "invalid" \in Down \ {"close"} /\ "invalid" # "opened"
    BY <1>11, <1>19
  <2> QED BY <1>9, <1>12, <1>19, <2>1, <2>2, <2>3
<1> QED
  BY <1>2, <1>7, <1>8, <1>13, <1>14, <1>15, <1>16, <1>17, <1>18, <1>19 DEF ServerMakes

-----------------------------------------------------------------------------
(* Those who are told of a failure.                                        *)

\* The manager does not show a connection that it did not show before.
LEMMA ScheduleReconnectShows ==
    ASSUME NEW w, ClientOK(w), w.cm.state # "connected"
    PROVE  ScheduleReconnect(w).cm.state # "connected"
<1>0. w \in Client /\ w.cm \in Manager
  BY DEF ClientOK, Client
<1>1. CASE ~w.cm.started
  BY <1>1 DEF ScheduleReconnect
<1>2. CASE w.cm.started /\ w.cm.attempts >= MaxAttempts
  <2>1. ScheduleReconnect(w) = [w EXCEPT !.cm.state = "disconnected"]
    BY <1>2 DEF ScheduleReconnect
  <2>2. [w EXCEPT !.cm.state = "disconnected"].cm = [w.cm EXCEPT !.state = "disconnected"]
    BY <1>0 DEF Client
  <2>3. [w.cm EXCEPT !.state = "disconnected"].state = "disconnected"
    BY <1>0 DEF Manager
  <2> QED BY <2>1, <2>2, <2>3
<1>3. CASE w.cm.started /\ ~(w.cm.attempts >= MaxAttempts)
  <2> DEFINE c == [w.cm EXCEPT !.attempts = @ + 1, !.timer = TRUE]
  <2>1. ScheduleReconnect(w) = [w EXCEPT !.cm.attempts = @ + 1, !.cm.timer = TRUE]
    BY <1>3 DEF ScheduleReconnect
  <2>2. [w EXCEPT !.cm.attempts = @ + 1, !.cm.timer = TRUE].cm = c
    BY <1>0 DEF Client
  <2>3. c.state = w.cm.state
    BY <1>0 DEF Manager
  <2> QED BY <2>1, <2>2, <2>3
<1> QED BY <1>1, <1>2, <1>3

\* startReconnecting() shows no connection, and an attempt that is awaited still is.
LEMMA StartReconnectingShows ==
    ASSUME NEW w, ClientOK(w)
    PROVE  /\ StartReconnecting(w).cm.state # "connected"
           /\ StartReconnecting(w).cm.current = w.cm.current
<1> DEFINE c == [w.cm EXCEPT !.ping = FALSE, !.state = "reconnecting"]
<1> DEFINE v == [w EXCEPT !.cm = c]
<1>1. c \in Manager /\ c.current = w.cm.current /\ c.state = "reconnecting"
  BY DEF ClientOK, Client, Manager
<1>2. StartReconnecting(w) = ScheduleReconnect(v)
  BY DEF StartReconnecting
<1>3. ClientOK(v) /\ v.cm = c
  BY <1>1, CmReplaced
<1> HIDE DEF c, v
<1> QED BY <1>1, <1>2, <1>3, ScheduleReconnectOK, ScheduleReconnectShows

\* Nor does handleError().
LEMMA HandleErrorShows ==
    ASSUME NEW w, ClientOK(w), NEW r \in BOOLEAN
    PROVE  /\ HandleError(w, r).cm.state # "connected"
           /\ HandleError(w, r).cm.current = w.cm.current
<1>1. CASE w.cm.state = "reconnecting"
  BY <1>1 DEF HandleError
<1>2. CASE w.cm.state # "reconnecting" /\ r
  BY <1>2, StartReconnectingShows DEF HandleError
<1>3. CASE w.cm.state # "reconnecting" /\ ~r
  <2>1. HandleError(w, r) = [w EXCEPT !.cm.state = "disconnected"]
    BY <1>3 DEF HandleError
  <2> QED BY <2>1 DEF ClientOK, Client, Manager
<1> QED BY <1>1, <1>2, <1>3

\* forceReconnect() shows no connection, and awaits no attempt.
LEMMA ForceReconnectShows ==
    ASSUME NEW w, ClientOK(w)
    PROVE  /\ ForceReconnect(w).cm.state # "connected"
           /\ ForceReconnect(w).cm.current = NoSocket
<1> DEFINE c == [w.cm EXCEPT !.attempts = 0, !.timer = FALSE, !.current = NoSocket]
<1> DEFINE v == [w EXCEPT !.cm = c]
<1>1. c \in Manager /\ c.current = NoSocket
  <2>1. 0 \in 0 .. MaxAttempts
    BY ClientConstants
  <2> QED BY <2>1 DEF ClientOK, Client, Manager
<1>2. ForceReconnect(w) = StartReconnecting(v)
  BY DEF ForceReconnect
<1>3. ClientOK(v) /\ v.cm = c
  BY <1>1, CmReplaced
<1> HIDE DEF c, v
<1> QED BY <1>1, <1>2, <1>3, StartReconnectingShows

\* A manager whose attempt has failed awaits none, and shows no connection.
LEMMA AttemptFailedShows ==
    ASSUME NEW w, ClientOK(w), w.cm.state # "connected", NEW r \in BOOLEAN
    PROVE  /\ AttemptFailed(w, r).cm.state # "connected"
           /\ AttemptFailed(w, r).cm.current = NoSocket
           /\ AttemptFailed(w, r).sc = w.sc /\ AttemptFailed(w, r).net = w.net
           /\ AttemptFailed(w, r).bus = w.bus /\ AttemptFailed(w, r).subs = w.subs
<1> DEFINE c == [w.cm EXCEPT !.current = NoSocket]
<1> DEFINE v == [w EXCEPT !.cm = c]
<1>1. c \in Manager /\ c.current = NoSocket /\ c.state = w.cm.state
  BY DEF ClientOK, Client, Manager
<1>2. ClientOK(v) /\ v.cm = c /\ v.sc = w.sc /\ v.net = w.net /\ v.bus = w.bus
      /\ v.subs = w.subs
  BY <1>1, CmReplaced
<1>3. CASE r
  <2>1. AttemptFailed(w, r) = ScheduleReconnect(v)
    BY <1>3 DEF AttemptFailed
  <2> HIDE DEF c, v
  <2> QED BY <1>1, <1>2, <2>1, ScheduleReconnectOK, ScheduleReconnectShows DEF OnlyManager
<1>4. CASE ~r
  <2> DEFINE d == [v.cm EXCEPT !.state = "disconnected"]
  <2>1. AttemptFailed(w, r) = [v EXCEPT !.cm = d]
    BY <1>4 DEF AttemptFailed
  <2> HIDE DEF v
  <2>2. d \in Manager /\ d.current = NoSocket /\ d.state = "disconnected"
    BY <1>1, <1>2 DEF ClientOK, Client, Manager
  <2> HIDE DEF c, d
  <2> QED BY <1>2, <2>1, <2>2, CmReplaced
<1> QED BY <1>3, <1>4

\* From w to v at most subscriptions were told of a failure: then the bus has none any
\* more, and the manager shows no connection.
Told(w, v) ==
    /\ ClientOK(v) /\ v.sc = w.sc /\ v.net = w.net
    /\ v.cm.started = w.cm.started /\ v.cm.current = w.cm.current
    /\ Pursuit(w) => Pursuit(v)
    /\ \/ v = w
       \/ v.bus = NoSub /\ v.cm.state # "connected"

\* onError of the bus tells it.
LEMMA OnErrorTold ==
    ASSUME NEW w, ClientOK(w), NEW r \in BOOLEAN
    PROVE  /\ Told(w, OnError(w, r)) /\ OnError(w, r).bus = NoSub
           /\ OnError(w, r).cm.state # "connected" /\ OnError(w, r).subs = w.subs
<1> DEFINE v == [w EXCEPT !.bus = NoSub]
<1>1. /\ ClientOK(v) /\ v.bus = NoSub /\ v.cm = w.cm /\ v.sc = w.sc /\ v.net = w.net
      /\ v.subs = w.subs
  BY BusReplaced
<1>2. OnError(w, r) = HandleError(v, r)
  BY DEF OnError
<1> HIDE DEF v
<1>3. Pursuit(w) => Pursuit(v)
  BY <1>1 DEF Pursuit
<1> QED BY <1>1, <1>2, <1>3, HandleErrorOK, HandleErrorShows DEF OnlyManager, Told

\* So does a subscription that fails.
LEMMA SubscribeFailedTold ==
    ASSUME NEW w, ClientOK(w), NEW Q, NEW r \in BOOLEAN
    PROVE  LET v == SubscribeFailed(w, Q, r)
           IN /\ Told(w, v)
              /\ Q = {} => v = w
              /\ Q # {} => v.bus = NoSub /\ v.cm.state # "connected"
<1>1. CASE Q = {}
  <2>1. SubscribeFailed(w, Q, r) = w
    BY <1>1 DEF SubscribeFailed
  <2> QED BY <1>1, <2>1 DEF Told
<1>2. CASE Q # {}
  <2> DEFINE v == [w EXCEPT !.subs = @ \ Q]
  <2>1. w.subs \ Q \in SUBSET Subs
    BY DEF ClientOK, Client
  <2>2. /\ ClientOK(v) /\ v.bus = w.bus /\ v.cm = w.cm /\ v.sc = w.sc /\ v.net = w.net
    BY <2>1, SubsReplaced
  <2>3. SubscribeFailed(w, Q, r) = OnError(v, r)
    BY <1>2 DEF SubscribeFailed
  <2> HIDE DEF v
  <2>4. Pursuit(w) => Pursuit(v)
    BY <2>2 DEF Pursuit
  <2> QED BY <1>2, <2>2, <2>3, <2>4, OnErrorTold DEF Told
<1> QED BY <1>1, <1>2

\* After notifySubscriptionsClosed() the bus has no subscription.
LEMMA NotifyTold ==
    ASSUME NEW w, ClientOK(w)
    PROVE  LET v == NotifySubscriptionsClosed(w)
           IN /\ Told(w, v)
              /\ w.subs = {} => v = w
              /\ w.subs # {} => v.bus = NoSub /\ v.cm.state # "connected"
<1>1. CASE w.subs = {}
  <2>1. NotifySubscriptionsClosed(w) = w
    BY <1>1 DEF NotifySubscriptionsClosed
  <2> QED BY <1>1, <2>1 DEF Told
<1>2. CASE w.subs # {}
  <2> DEFINE v == [w EXCEPT !.subs = {}]
  <2> DEFINE u == OnError(v, TRUE)
  <2>1. /\ ClientOK(v) /\ v.bus = w.bus /\ v.cm = w.cm /\ v.sc = w.sc /\ v.net = w.net
    BY SubsReplaced
  <2>2. NotifySubscriptionsClosed(w) = OnError(u, TRUE)
    BY <1>2 DEF NotifySubscriptionsClosed
  <2> HIDE DEF v
  <2>3. Pursuit(w) => Pursuit(v)
    BY <2>1 DEF Pursuit
  <2>4. Told(v, u)
    BY <2>1, OnErrorTold
  <2> HIDE DEF u
  <2>5. ClientOK(u)
    BY <2>4 DEF Told
  <2>6. Told(u, OnError(u, TRUE)) /\ OnError(u, TRUE).bus = NoSub
        /\ OnError(u, TRUE).cm.state # "connected"
    BY <2>5, OnErrorTold
  <2> QED BY <1>2, <2>1, <2>2, <2>3, <2>4, <2>6 DEF Told
<1> QED BY <1>1, <1>2

\* What depends on sockets and connection only is the same.
LEMMA TiedSame ==
    ASSUME NEW w, NEW v, NEW E, Tied(w, E), v.sc = w.sc, v.net = w.net,
           v.bus # NoSub => v.bus \in v.subs
    PROVE  Tied(v, E) /\ (IsConnected(v) <=> IsConnected(w))
<1>1. IsConnected(v) <=> IsConnected(w)
  BY DEF IsConnected, IsOpen
<1>2. \A s \in Sockets : SocketLinked(v, s) <=> SocketLinked(w, s)
  BY DEF SocketLinked
<1>3. \A s \in Sockets : Going(v, s) <=> Going(w, s)
  BY DEF Going, Orphaned
<1> QED BY <1>1, <1>2, <1>3 DEF Tied

\* Telling the subscriptions changes nothing between sockets and connection.
LEMMA ToldTied ==
    ASSUME NEW w, NEW v, NEW E, Told(w, v), Tied(w, E)
    PROVE  /\ Tied(v, E) /\ (Aimed(w) => Aimed(v))
           /\ (Shown(w) => Served(w)) => (Shown(v) => Served(v))
<1>1. CASE v = w
  BY <1>1
<1>2. CASE v.bus = NoSub /\ v.cm.state # "connected"
  <2>1. Tied(v, E)
    BY <1>2, TiedSame DEF Told
  <2> QED BY <1>2, <2>1 DEF Told, Aimed, Shown
<1> QED BY <1>1, <1>2 DEF Told

-----------------------------------------------------------------------------
(* The end of an attempt, for those who wait.                              *)

\* An attempt that goes on has a socket that is connecting or open.
LEMMA GoingFacts ==
    ASSUME NEW w, NEW E, Tied(w, E), NEW s \in Sockets, w.net[s].running, s \notin E
    PROVE  /\ w.net[s].near \in {"connecting", "open"}
           /\ w.net[s].near = "open" => w.net[s].on \in {"pair", "resume"}
  BY DEF Tied, Going, GoesOn, Orphaned

\* From w to u the attempt s was settled, and nothing else happened.
SettledFrom(w, u, s) ==
    /\ ClientOK(u) /\ u.cm = w.cm /\ u.bus = w.bus /\ u.subs = w.subs
    /\ u.sc.ws = w.sc.ws /\ u.sc.key = w.sc.key /\ u.sc.auth = w.sc.auth
    /\ u.sc.promise = NoSocket
    /\ \A t \in Sockets \ {s} : u.net[t] = w.net[t]
    /\ u.net[s].near = w.net[s].near /\ u.net[s].on = w.net[s].on
    /\ u.net[s].far = w.net[s].far /\ u.net[s].up = w.net[s].up
    /\ u.net[s].down = w.net[s].down /\ u.net[s].subs = w.net[s].subs
    /\ u.net[s].running = FALSE /\ u.net[s].timer = FALSE
    /\ u.net[s].waiters = {}

\* Settling an attempt touches that attempt only.
LEMMA SettledIs ==
    ASSUME NEW w, ClientOK(w), NEW s \in Sockets
    PROVE  SettledFrom(w, Settled(w, s), s)
<1> DEFINE n == [w.net[s] EXCEPT !.running = FALSE, !.waiters = {}, !.timer = FALSE]
<1> DEFINE c == [w.sc EXCEPT !.promise = NoSocket]
<1> DEFINE u == [w EXCEPT !.sc = c]
<1> DEFINE v == [u EXCEPT !.net[s] = n]
<1>1. Settled(w, s) = v
  <2> DEFINE x == [w EXCEPT !.sc.promise = NoSocket, !.net[s].running = FALSE,
                            !.net[s].waiters = {}, !.net[s].timer = FALSE]
  <2>1. x = v
    BY DEF ClientOK, Client
  <2>2. Settled(w, s) = x
    BY DEF Settled
  <2> HIDE DEF x, v
  <2> QED BY <2>1, <2>2
<1>2. /\ n \in Socket /\ n.waiters = {} /\ n.near = w.net[s].near /\ n.on = w.net[s].on
      /\ n.far = w.net[s].far /\ n.up = w.net[s].up /\ n.down = w.net[s].down
      /\ n.subs = w.net[s].subs /\ n.running = FALSE /\ n.timer = FALSE
  <2> DEFINE m == w.net[s]
  <2>1. m \in Socket
    BY DEF ClientOK, Client
  <2> HIDE DEF m
  <2>2. LET o == [m EXCEPT !.running = FALSE, !.waiters = {}, !.timer = FALSE]
        IN /\ o \in Socket /\ o.waiters = {} /\ o.near = m.near /\ o.on = m.on
           /\ o.far = m.far /\ o.up = m.up /\ o.down = m.down
           /\ o.subs = m.subs /\ o.running = FALSE /\ o.timer = FALSE
    BY <2>1 DEF Socket
  <2> QED BY <2>2 DEF m
<1>3. /\ c \in Secure /\ c.ws = w.sc.ws /\ c.key = w.sc.key /\ c.auth = w.sc.auth
      /\ c.promise = NoSocket
  BY DEF ClientOK, Client, Secure
<1> HIDE DEF n, c
<1>4. /\ ClientOK(u) /\ u.sc = c /\ u.cm = w.cm /\ u.net = w.net /\ u.subs = w.subs
      /\ u.bus = w.bus
  BY <1>3, ScReplaced
<1> HIDE DEF u
<1>5. IsFiniteSet(n.waiters)
  BY <1>2, FS_EmptySet
<1>6. /\ ClientOK(v) /\ v.net[s] = n /\ \A t \in Sockets \ {s} : v.net[t] = u.net[t]
      /\ v.cm = u.cm /\ v.sc = u.sc /\ v.subs = u.subs /\ v.bus = u.bus
  BY <1>2, <1>4, <1>5, NetReplaced
<1> HIDE DEF v
<1>7. SettledFrom(w, v, s)
  BY <1>2, <1>3, <1>4, <1>6 DEF SettledFrom
<1> QED BY <1>1, <1>7

\* Once the only attempt is settled, there is none.
LEMMA SettledTied ==
    ASSUME NEW w, ClientOK(w), NEW s \in Sockets, Tied(w, {s}), w.net[s].running
    PROVE  Tied(Settled(w, s), {}) /\ \A t \in Sockets : ~Settled(w, s).net[t].running
<1> DEFINE u == Settled(w, s)
<1>0. SettledFrom(w, u, s)
  BY SettledIs
<1>1. /\ u.bus = w.bus /\ u.subs = w.subs
      /\ u.sc.ws = w.sc.ws /\ u.sc.key = w.sc.key /\ u.sc.auth = w.sc.auth
      /\ u.sc.promise = NoSocket
      /\ \A t \in Sockets \ {s} : u.net[t] = w.net[t]
      /\ u.net[s].near = w.net[s].near /\ u.net[s].on = w.net[s].on
      /\ u.net[s].far = w.net[s].far /\ u.net[s].up = w.net[s].up
      /\ u.net[s].down = w.net[s].down /\ u.net[s].subs = w.net[s].subs
      /\ u.net[s].running = FALSE /\ u.net[s].timer = FALSE
  BY <1>0 DEF SettledFrom
<1> HIDE DEF u
<1>2. w.sc.promise = s
  BY DEF Tied, SocketLinked
<1>3. \A t \in Sockets : ~u.net[t].running
  BY <1>1, <1>2 DEF Tied, SocketLinked
<1>4. Telling(u.net[s])
  BY <1>1 DEF Tied, SocketLinked, Telling, Closes
<1>5. \A t \in Sockets : Telling(u.net[t])
  BY <1>1, <1>4 DEF Tied, SocketLinked
<1>6. \A t \in Sockets : /\ u.net[t].near = w.net[t].near /\ u.net[t].on = w.net[t].on
                         /\ u.net[t].far = w.net[t].far
  BY <1>1
<1>7. \A t \in Sockets : SocketLinked(u, t)
  BY <1>1, <1>3, <1>5, <1>6, ClientConstants DEF Tied, SocketLinked
<1>8. IsConnected(u) => IsConnected(w) /\ u.sc.ws \in Sockets
  BY <1>1, <1>6 DEF IsConnected, IsOpen, ClientOK, Client, Secure
<1>9. Tied(u, {})
  BY <1>1, <1>3, <1>6, <1>7, <1>8 DEF Tied
<1> QED BY <1>3, <1>9 DEF u

\* Whoever awaited a rejected attempt is told, and the manager tries again or gives up.
LEMMA RejectRests ==
    ASSUME NEW w, ClientOK(w), Pursuit(w), NEW s \in Sockets, NEW r \in BOOLEAN,
           Tied(w, {s}), Aimed(w), Shown(w) => Served(w)
    PROVE  RestOK(Reject(w, s, r))
<1>1. CASE ~w.net[s].running
  <2>1. Reject(w, s, r) = w
    BY <1>1 DEF Reject
  <2>2. Tied(w, {})
    BY <1>1 DEF Tied
  <2> QED BY <2>1, <2>2 DEF RestOK, Linked
<1>2. CASE w.net[s].running
  <2> DEFINE u == Settled(w, s)
  <2> DEFINE Q == Subscribers(w, s)
  <2> DEFINE v == SubscribeFailed(u, Q, r)
  <2>1. Reject(w, s, r) = IF w.cm.current = s THEN AttemptFailed(v, r) ELSE v
    BY <1>2 DEF Reject
  <2>2. /\ ClientOK(u) /\ u.cm = w.cm /\ u.bus = w.bus /\ u.subs = w.subs
        /\ u.sc.promise = NoSocket
    BY SettledIs DEF SettledFrom
  <2>3. Tied(u, {})
    BY <1>2, SettledTied
  <2>4. w.sc.promise = s /\ ~IsConnected(w) /\ w.cm.current \in {s, NoSocket}
    BY <1>2, ClientConstants DEF Tied, SocketLinked, Aimed, IsConnected
  <2>5. w.bus \in Subs \cup {NoSub}
    BY DEF ClientOK, Client
  <2>6. Shown(w) => Q # {}
    BY <2>4, <2>5, ClientConstants DEF Served, Subscribers
  <2> HIDE DEF u, Q
  <2>7. /\ Told(u, v) /\ (Q = {} => v = u)
        /\ (Q # {} => v.bus = NoSub /\ v.cm.state # "connected")
    BY <2>2, SubscribeFailedTold
  <2> HIDE DEF v
  <2>8. Tied(v, {}) /\ ClientOK(v)
    BY <2>3, <2>7, ToldTied DEF Told
  <2>9. ~Shown(v)
    BY <2>2, <2>6, <2>7 DEF Shown
  <2>10. CASE w.cm.current # s
    <3>1. v.cm.current = NoSocket
      BY <2>2, <2>4, <2>7, <2>10 DEF Told
    <3> QED BY <2>1, <2>8, <2>9, <2>10, <3>1 DEF RestOK, Linked, Aimed
  <2>11. CASE w.cm.current = s
    <3> DEFINE x == AttemptFailed(v, r)
    <3>1. w.cm.state = "reconnecting"
      BY <2>11, ClientConstants DEF Pursuit
    <3>2. v.cm.state # "connected"
      BY <2>2, <2>7, <3>1 DEF Told
    <3>3. /\ x.cm.state # "connected" /\ x.cm.current = NoSocket
          /\ x.sc = v.sc /\ x.net = v.net /\ x.bus = v.bus /\ x.subs = v.subs
      BY <2>8, <3>2, AttemptFailedShows
    <3> HIDE DEF x
    <3>4. Tied(x, {})
        <4>1. v.bus # NoSub => v.bus \in v.subs
        BY <2>8 DEF Tied
      <4> QED BY <2>8, <3>3, <4>1, TiedSame
    <3>5. RestOK(x)
      BY <3>3, <3>4 DEF RestOK, Linked, Aimed, Shown
    <3> QED BY <2>1, <2>11, <3>5 DEF x
  <2> QED BY <2>10, <2>11
<1> QED BY <1>1, <1>2

\* A socket that has been closed at this end keeps nobody waiting but its own attempt.
LEMMA ClosedTied ==
    ASSUME NEW w, NEW v, NEW s \in Sockets, ClientOK(w), ClientOK(v),
           \A t \in Sockets \ {s} : v.net[t] = w.net[t],
           v.sc.ws \in {w.sc.ws, NoSocket}, v.sc.promise = w.sc.promise,
           v.sc.key = w.sc.key, v.bus = w.bus, v.subs = w.subs,
           v.sc.auth = w.sc.auth, v.sc.ws = NoSocket => w.sc.ws \in {s, NoSocket},
           v.net[s].near \in {"closing", "closed"}, w.net[s].near # "none",
           v.net[s].running = w.net[s].running, v.net[s].timer = w.net[s].timer,
           \A i \in 1 .. Len(v.net[s].down) :
             v.net[s].down[i].type = "opened" /\ v.net[s].down[i].sub \in Subs
               => v.net[s].down[i].sub \in v.net[s].subs,
           v.net[s].on \in {w.net[s].on, "none"},
           Tied(w, {}) \/ Tied(w, {s})
    PROVE  Tied(v, {s})
<1>0. Tied(w, {s})
  BY DEF Tied
<1>1. Telling(v.net[s])
  <2>1. Telling(w.net[s])
    BY <1>0 DEF Tied, SocketLinked
  <2> QED BY <2>1 DEF Telling
<1>2. \A t \in Sockets : Telling(v.net[t])
  BY <1>0, <1>1 DEF Tied, SocketLinked
<1>3. \A t \in Sockets \ {s} : SocketLinked(v, t)
  <2> TAKE t \in Sockets \ {s}
  <2>1. SocketLinked(w, t) /\ v.net[t] = w.net[t]
    BY <1>0 DEF Tied
  <2> QED BY <1>2, <2>1, ClientConstants DEF SocketLinked
<1>4. SocketLinked(v, s)
  <2>1. SocketLinked(w, s)
    BY <1>0 DEF Tied
  <2> QED BY <1>1, <2>1, ClientConstants DEF SocketLinked
<1>5. ASSUME NEW t \in Sockets \ {s}, v.net[t].running PROVE Going(v, t)
  <2>1. Going(w, t) /\ v.net[t] = w.net[t]
    BY <1>0, <1>5 DEF Tied
  <2> QED BY <2>1 DEF Going, Orphaned
<1>6. IsConnected(v) => IsConnected(w) /\ v.sc.ws = w.sc.ws /\ v.sc.ws \in Sockets \ {s}
  BY DEF IsConnected, IsOpen, ClientOK, Client, Secure
<1> QED BY <1>0, <1>3, <1>4, <1>5, <1>6 DEF Tied

\* From w to v the socket s was closed at this end.
ShutDown(w, v, s) ==
    /\ ClientOK(v) /\ v.cm = w.cm /\ v.sc = w.sc /\ v.bus = w.bus /\ v.subs = w.subs
    /\ \A t \in Sockets \ {s} : v.net[t] = w.net[t]
    /\ v.net[s].near = "closing" /\ v.net[s].on = w.net[s].on
    /\ v.net[s].running = w.net[s].running /\ v.net[s].timer = w.net[s].timer
    /\ v.net[s].waiters = w.net[s].waiters /\ v.net[s].subs = w.net[s].subs
    /\ Len(v.net[s].down) = 0

\* close() drops what is under way to this end.
LEMMA CloseIs ==
    ASSUME NEW n \in Socket, n.near \in {"connecting", "open"}
    PROVE  LET m == Close(n)
           IN /\ m \in Socket /\ m.near = "closing" /\ m.on = n.on
              /\ m.running = n.running /\ m.timer = n.timer /\ m.waiters = n.waiters
              /\ m.subs = n.subs /\ Len(m.down) = 0
<1>1. <<>> \in Seq(UpMessage) /\ <<>> \in Seq(DownMessage) /\ Len(<<>>) = 0
  OBVIOUS
<1>2. Close(n) = [n EXCEPT !.near = "closing", !.far = "gone", !.up = <<>>, !.down = <<>>]
  BY DEF Close
<1> QED BY <1>1, <1>2 DEF Socket

\* Closing an open socket shuts it down.
LEMMA CloseSocketIs ==
    ASSUME NEW w, ClientOK(w), NEW s \in Sockets, w.net[s].near \in {"connecting", "open"}
    PROVE  ShutDown(w, CloseSocket(w, s), s)
<1> DEFINE n == Close(w.net[s])
<1> DEFINE v == [w EXCEPT !.net[s] = n]
<1>1. CloseSocket(w, s) = v
  BY ClientConstants DEF CloseSocket
<1>2. w.net[s] \in Socket /\ IsFiniteSet(w.net[s].waiters)
  BY DEF ClientOK, Client, Awaited
<1>3. /\ n \in Socket /\ n.near = "closing" /\ n.on = w.net[s].on
      /\ n.running = w.net[s].running /\ n.timer = w.net[s].timer
      /\ n.waiters = w.net[s].waiters /\ n.subs = w.net[s].subs /\ Len(n.down) = 0
  BY <1>2, CloseIs
<1> HIDE DEF n
<1>4. /\ ClientOK(v) /\ v.net[s] = n /\ \A t \in Sockets \ {s} : v.net[t] = w.net[t]
      /\ v.cm = w.cm /\ v.sc = w.sc /\ v.bus = w.bus /\ v.subs = w.subs
  BY <1>2, <1>3, NetReplaced
<1> HIDE DEF v
<1> QED BY <1>1, <1>3, <1>4 DEF ShutDown

\* An attempt that is given up: its socket is closed, and whoever awaits it is told.
LEMMA CloseRejectRests ==
    ASSUME NEW w, ClientOK(w), Pursuit(w), NEW s \in Sockets, NEW r \in BOOLEAN,
           Tied(w, {s}), Aimed(w), Shown(w) => Served(w), w.net[s].running,
           w.net[s].near \in {"connecting", "open"}
    PROVE  RestOK(Reject(CloseSocket(w, s), s, r))
<1> DEFINE v == CloseSocket(w, s)
<1>1. ShutDown(w, v, s)
  BY CloseSocketIs
<1> HIDE DEF v
<1>2. /\ ClientOK(v) /\ v.cm = w.cm /\ v.sc = w.sc /\ v.bus = w.bus /\ v.subs = w.subs
      /\ \A t \in Sockets \ {s} : v.net[t] = w.net[t]
      /\ v.net[s].near = "closing" /\ v.net[s].on = w.net[s].on
      /\ v.net[s].running = w.net[s].running /\ v.net[s].timer = w.net[s].timer
      /\ v.net[s].waiters = w.net[s].waiters /\ v.net[s].subs = w.net[s].subs
      /\ Len(v.net[s].down) = 0
  BY <1>1 DEF ShutDown
<1>3. Pursuit(v) /\ Aimed(v)
  BY <1>2 DEF Pursuit, Aimed
<1>4. Tied(v, {s})
  <2>1. v.sc.ws = NoSocket => w.sc.ws \in {s, NoSocket}
    BY <1>2
  <2>2. \A i \in 1 .. Len(v.net[s].down) : FALSE
    BY <1>2
  <2> QED BY <1>2, <2>1, <2>2, ClosedTied
<1>5. w.sc.promise = s /\ ~IsConnected(w)
  BY ClientConstants DEF Tied, SocketLinked, IsConnected
<1>6. Shown(v) => Served(v)
  BY <1>2, <1>5 DEF Shown, Served
<1> QED BY <1>2, <1>3, <1>4, <1>6, RejectRests DEF v

\* While an attempt is under way, the state of the connection may change.
LEMMA UnauthTied ==
    ASSUME NEW w, NEW v, NEW s \in Sockets, Tied(w, {s}), w.net[s].running,
           v.net = w.net, v.sc.ws = w.sc.ws, v.sc.promise = w.sc.promise,
           v.sc.key = w.sc.key, v.sc.auth # "authenticated",
           v.bus = w.bus, v.subs = w.subs
    PROVE  Tied(v, {s})
<1>1. w.sc.promise = s /\ w.sc.auth # "authenticated"
  BY ClientConstants DEF Tied, SocketLinked
<1>2. \A t \in Sockets : SocketLinked(v, t)
  BY <1>1 DEF Tied, SocketLinked
<1>3. \A t \in Sockets : v.net[t].running => t = s
  BY <1>1 DEF Tied, SocketLinked
<1>4. ~IsConnected(v)
  BY DEF IsConnected
<1> QED BY <1>2, <1>3, <1>4 DEF Tied

\* handleSocketClose() tells everybody, unless the attempt goes on that an older
\* socket's close does not concern.
LEMMA HandleSocketCloseRests ==
    ASSUME NEW w, ClientOK(w), Pursuit(w), NEW s \in Sockets, Tied(w, {s}), Aimed(w),
           Shown(w) => w.bus # NoSub, w.net[s].near = "closed"
    PROVE  RestOK(HandleSocketClose(w, s))
<1> DEFINE v == [w EXCEPT !.sc.ws = NoSocket, !.sc.key = NoSocket]
<1>1. ASSUME NEW a \in {"disconnected", "failed"}
      PROVE  LET u == [v EXCEPT !.sc.auth = a]
             IN /\ ClientOK(u) /\ u.cm = w.cm /\ u.net = w.net /\ u.bus = w.bus
                /\ u.subs = w.subs /\ u.sc.ws = NoSocket /\ u.sc.key = NoSocket
                /\ u.sc.promise = w.sc.promise /\ u.sc.auth = a
  <2> DEFINE c == [w.sc EXCEPT !.ws = NoSocket, !.key = NoSocket, !.auth = a]
  <2> DEFINE u == [v EXCEPT !.sc.auth = a]
  <2>1. /\ c \in Secure /\ c.ws = NoSocket /\ c.key = NoSocket /\ c.auth = a
        /\ c.promise = w.sc.promise
    BY DEF ClientOK, Client, Secure
  <2>2. u = [w EXCEPT !.sc = c]
    BY DEF ClientOK, Client, Secure
  <2> HIDE DEF c, u
  <2>3. /\ ClientOK(u) /\ u.sc = c /\ u.cm = w.cm /\ u.net = w.net /\ u.bus = w.bus
        /\ u.subs = w.subs
    BY <2>1, <2>2, ScReplaced
  <2> QED BY <2>1, <2>3 DEF u
<1>2. CASE w.sc.auth = "authenticated"
  <2> DEFINE u == [v EXCEPT !.sc.auth = "disconnected"]
  <2> DEFINE h == HandleError(u, TRUE)
  <2>1. HandleSocketClose(w, s) = NotifySubscriptionsClosed(h)
    BY <1>2 DEF HandleSocketClose
  <2>2. /\ ClientOK(u) /\ u.cm = w.cm /\ u.net = w.net /\ u.bus = w.bus
        /\ u.subs = w.subs /\ u.sc.ws = NoSocket /\ u.sc.key = NoSocket
        /\ u.sc.promise = w.sc.promise /\ u.sc.auth = "disconnected"
    BY <1>1
  <2> HIDE DEF u
  <2>3. u.sc.promise = NoSocket /\ u.cm.current = NoSocket
    BY <1>2, <2>2 DEF Tied, Aimed
  <2>4. Tied(u, {})
    <3>1. \A t \in Sockets : ~u.net[t].running
      BY <2>2, <2>3, ClientConstants DEF Tied, SocketLinked
    <3>2. \A t \in Sockets : SocketLinked(u, t)
      BY <2>2, <2>3, <3>1, ClientConstants DEF Tied, SocketLinked
    <3>3. ~IsConnected(u)
      BY <2>2 DEF IsConnected
    <3> QED BY <2>2, <3>1, <3>2, <3>3 DEF Tied
  <2>5. /\ ClientOK(h) /\ h.sc = u.sc /\ h.net = u.net /\ h.bus = u.bus /\ h.subs = u.subs
        /\ h.cm.state # "connected" /\ h.cm.current = NoSocket
    BY <2>2, <2>3, HandleErrorOK, HandleErrorShows DEF OnlyManager
  <2> HIDE DEF h
  <2>6. Tied(h, {}) /\ Aimed(h) /\ ~Shown(h)
    <3>1. h.bus # NoSub => h.bus \in h.subs
      BY <2>4, <2>5 DEF Tied
    <3> QED BY <2>4, <2>5, <3>1, TiedSame DEF Aimed, Shown
  <2> QED BY <2>1, <2>5, <2>6, NotifyTold, ToldTied DEF RestOK, Linked
<1>3. CASE w.sc.auth # "authenticated"
  <2> DEFINE u == [v EXCEPT !.sc.auth = "failed"]
  <2> DEFINE h == NotifySubscriptionsClosed(u)
  <2>1. HandleSocketClose(w, s) = Reject(h, s, TRUE)
    BY <1>3 DEF HandleSocketClose
  <2>2. /\ ClientOK(u) /\ u.cm = w.cm /\ u.net = w.net /\ u.bus = w.bus
        /\ u.subs = w.subs /\ u.sc.ws = NoSocket /\ u.sc.key = NoSocket
        /\ u.sc.promise = w.sc.promise /\ u.sc.auth = "failed"
    BY <1>1
  <2> HIDE DEF u
  <2>3. Tied(u, {s})
    <3>1. \A t \in Sockets : SocketLinked(u, t)
      BY <2>2, ClientConstants DEF Tied, SocketLinked
    <3>2. ASSUME NEW t \in Sockets \ {s}, u.net[t].running PROVE Going(u, t)
      <4>1. Going(w, t)
        BY <2>2, <3>2 DEF Tied
      <4> QED BY <2>2, <4>1 DEF Going, Orphaned
    <3>3. ~IsConnected(u)
      BY <2>2 DEF IsConnected
    <3> QED BY <2>2, <3>1, <3>2, <3>3 DEF Tied
  <2>4. Aimed(u) /\ Pursuit(u)
    BY <2>2 DEF Aimed, Pursuit
  <2>5. /\ Told(u, h) /\ (u.subs = {} => h = u)
        /\ (u.subs # {} => h.bus = NoSub /\ h.cm.state # "connected")
    BY <2>2, NotifyTold
  <2> HIDE DEF h
  <2>6. Tied(h, {s}) /\ Aimed(h) /\ Pursuit(h) /\ ClientOK(h)
    BY <2>3, <2>4, <2>5, ToldTied DEF Told
  <2>7. ~Shown(h)
    BY <2>2, <2>3, <2>5 DEF Shown, Tied
  <2> QED BY <2>1, <2>6, <2>7, RejectRests
<1> QED BY <1>2, <1>3

\* The close event of the socket s, which y has seen and w not.
LEMMA ClosedRests ==
    ASSUME NEW w, NEW y, NEW s \in Sockets, ClientOK(w), ClientOK(y), Pursuit(w), RestOK(w),
           w.net[s].near \in {"open", "closing"},
           y.cm = w.cm, y.sc = w.sc, y.bus = w.bus, y.subs = w.subs,
           \A t \in Sockets \ {s} : y.net[t] = w.net[t],
           y.net[s].near = "closed", y.net[s].on = w.net[s].on,
           y.net[s].running = w.net[s].running, y.net[s].timer = w.net[s].timer,
           y.net[s].waiters = w.net[s].waiters,
           \A i \in 1 .. Len(y.net[s].down) :
             y.net[s].down[i].type = "opened" /\ y.net[s].down[i].sub \in Subs
               => y.net[s].down[i].sub \in y.net[s].subs
    PROVE  /\ w.net[s].on = "pair" => RestOK(Reject(y, s, TRUE))
           /\ w.net[s].on \in {"resume", "message"} => RestOK(HandleSocketClose(y, s))
           /\ w.net[s].on \notin {"pair", "resume", "message"} => RestOK(y)
<1>1. Tied(w, {}) /\ Aimed(w) /\ (Shown(w) => Served(w))
  BY DEF RestOK, Linked
<1>2. Tied(y, {s})
  BY <1>1, ClosedTied
<1>3. Aimed(y) /\ Pursuit(y)
  BY <1>1 DEF Aimed, Pursuit
<1>4. Shown(y) => y.bus # NoSub
  BY <1>1 DEF Shown, Served
<1>5. ASSUME w.net[s].on # "message" PROVE Shown(y) => Served(y)
  <2>1. IsConnected(w) => w.sc.ws \in Sockets \ {s}
    BY <1>1, <1>5 DEF Tied, IsConnected, IsOpen, ClientOK, Client, Secure
  <2>2. w.sc.promise \in Sockets \cup {NoSocket}
    BY DEF ClientOK, Client, Secure
  <2>3. IsConnected(w) => IsConnected(y) /\ y.net[y.sc.ws] = w.net[w.sc.ws]
    BY <2>1 DEF IsConnected, IsOpen
  <2> QED BY <1>1, <2>2, <2>3 DEF Shown, Served
<1>6. ASSUME w.net[s].on \notin {"pair", "resume", "message"} PROVE Tied(y, {})
  <2>1. ~y.net[s].running
    BY <1>1, <1>6, GoingFacts
  <2> QED BY <1>2, <2>1 DEF Tied
<1>7. w.net[s].on = "pair" => RestOK(Reject(y, s, TRUE))
  BY <1>2, <1>3, <1>5, RejectRests
<1>8. w.net[s].on \in {"resume", "message"} => RestOK(HandleSocketClose(y, s))
  BY <1>2, <1>3, <1>4, HandleSocketCloseRests
<1> QED BY <1>3, <1>5, <1>6, <1>7, <1>8 DEF RestOK, Linked

-----------------------------------------------------------------------------
(* More messages to the server.                                            *)

\* Where one socket keeps what was to come of it, all that wait go on.
LEMMA KeptTied ==
    ASSUME NEW w, ClientOK(w), NEW v, NEW E, NEW s \in Sockets, Tied(w, E),
           v.sc = w.sc, v.bus = w.bus, v.subs = w.subs,
           \A t \in Sockets \ {s} : v.net[t] = w.net[t], Keeps(w.net[s], v.net[s])
    PROVE  Tied(v, E) /\ (IsConnected(v) <=> IsConnected(w))
<1>1. /\ v.net[s].near = w.net[s].near /\ v.net[s].on = w.net[s].on
      /\ v.net[s].running = w.net[s].running /\ v.net[s].timer = w.net[s].timer
      /\ Telling(w.net[s]) => Telling(v.net[s])
      /\ GoesOn(w.net[s]) => GoesOn(v.net[s])
      /\ w.net[s].far \in {"authed", "gone"} => v.net[s].far \in {"authed", "gone"}
  BY DEF Keeps
<1>2. \A t \in Sockets :
        /\ v.net[t].near = w.net[t].near /\ v.net[t].on = w.net[t].on
        /\ v.net[t].running = w.net[t].running /\ v.net[t].timer = w.net[t].timer
        /\ Telling(w.net[t]) => Telling(v.net[t])
        /\ GoesOn(w.net[t]) => GoesOn(v.net[t])
        /\ w.net[t].far \in {"authed", "gone"} => v.net[t].far \in {"authed", "gone"}
  BY <1>1
<1>3. \A t \in Sockets : SocketLinked(w, t) => SocketLinked(v, t)
  BY <1>2 DEF SocketLinked
<1>4. \A t \in Sockets : Going(w, t) => Going(v, t)
  BY <1>2 DEF Going, Orphaned
<1>5. (IsConnected(v) <=> IsConnected(w)) /\ (IsConnected(w) => w.sc.ws \in Sockets)
  BY <1>2 DEF IsConnected, IsOpen, ClientOK, Client, Secure
<1> QED BY <1>2, <1>3, <1>4, <1>5 DEF Tied

\* And the bus is served as before.
LEMMA KeptServed ==
    ASSUME NEW w, ClientOK(w), NEW v, NEW E, NEW s \in Sockets, Tied(w, E),
           v.sc = w.sc, v.bus = w.bus, v.subs = w.subs,
           \A t \in Sockets \ {s} : v.net[t] = w.net[t],
           Keeps(w.net[s], v.net[s]), Serves(w.net[s], v.net[s]), Served(w)
    PROVE  Served(v)
<1>1. IsConnected(v) <=> IsConnected(w)
  BY KeptTied
<1>2. \A t \in Sockets : v.net[t].waiters = w.net[t].waiters
  BY DEF Serves
<1>3. w.sc.ws \in Sockets \cup {NoSocket} /\ w.sc.promise \in Sockets \cup {NoSocket}
  BY DEF ClientOK, Client, Secure
<1>4. ASSUME IsConnected(w), Heard(w.net[w.sc.ws], w.subs)
      PROVE  Heard(v.net[w.sc.ws], w.subs)
  <2>1. w.sc.ws \in Sockets /\ w.net[w.sc.ws].far \in {"authed", "gone"}
    BY <1>3, <1>4 DEF Tied, IsConnected, IsOpen
  <2>2. CASE w.sc.ws = s
    BY <1>4, <2>1, <2>2 DEF Serves
  <2>3. CASE w.sc.ws # s
    BY <1>4, <2>1, <2>3
  <2> QED BY <2>2, <2>3
<1> QED BY <1>1, <1>2, <1>3, <1>4 DEF Served

\* What one socket goes through alone, the client rests on as before.
LEMMA KeptRests ==
    ASSUME NEW w, ClientOK(w), NEW v, NEW s \in Sockets, RestOK(w),
           v.sc = w.sc, v.cm = w.cm, v.bus = w.bus, v.subs = w.subs,
           \A t \in Sockets \ {s} : v.net[t] = w.net[t],
           Keeps(w.net[s], v.net[s]), Serves(w.net[s], v.net[s])
    PROVE  RestOK(v)
<1>1. Tied(v, {}) /\ (Served(w) => Served(v))
  BY KeptTied, KeptServed DEF RestOK, Linked
<1> QED BY <1>1 DEF RestOK, Linked, Aimed, Shown

\* The messages ms were put into the socket n, if it is open at both ends.
Pushed(n, m, ms) ==
    /\ m \in Socket /\ m.near = n.near /\ m.on = n.on /\ m.far = n.far /\ m.down = n.down
    /\ m.running = n.running /\ m.timer = n.timer /\ m.waiters = n.waiters
    /\ m.subs = n.subs
    /\ n.near # "open" \/ n.far = "gone" => m.up = n.up
    /\ n.near = "open" /\ n.far # "gone" =>
         /\ Len(m.up) = Len(n.up) + Len(ms)
         /\ \A i \in 1 .. Len(n.up) : m.up[i] = n.up[i]
         /\ \A i \in 1 .. Len(ms) : m.up[Len(n.up) + i] = ms[i]

\* PushAll() does just that.
LEMMA PushAllIs ==
    ASSUME NEW n \in Socket, NEW ms \in Seq(UpMessage)
    PROVE  Pushed(n, PushAll(n, ms), ms)
<1>1. CASE ~(n.near = "open" /\ n.far # "gone")
  <2>1. PushAll(n, ms) = n
    BY <1>1 DEF PushAll
  <2> QED BY <1>1, <2>1 DEF Pushed
<1>2. CASE n.near = "open" /\ n.far # "gone"
  <2> DEFINE q == n.up \o ms
  <2>1. PushAll(n, ms) = [n EXCEPT !.up = q]
    BY <1>2 DEF PushAll
  <2>2. n.up \in Seq(UpMessage)
    BY DEF Socket
  <2>3. /\ q \in Seq(UpMessage) /\ Len(q) = Len(n.up) + Len(ms)
        /\ \A i \in 1 .. Len(n.up) : q[i] = n.up[i]
        /\ \A i \in 1 .. Len(ms) : q[Len(n.up) + i] = ms[i]
    BY <2>2
  <2> HIDE DEF q
  <2> DEFINE m == PushAll(n, ms)
  <2>4. /\ m \in Socket /\ m.waiters = n.waiters
        /\ m.running = n.running /\ m.near = n.near /\ m.timer = n.timer
        /\ m.on = n.on /\ m.far = n.far /\ m.subs = n.subs
        /\ m.down = n.down /\ m.up = q
    BY <2>1, <2>3 DEF Socket
  <2> HIDE DEF m
  <2>5. Pushed(n, m, ms)
    BY <1>2, <2>3, <2>4 DEF Pushed
  <2> QED BY <2>5 DEF m
<1> QED BY <1>1, <1>2

\* What is sent keeps what was to come: during a handshake only its own messages and
\* such as nobody can read are sent.
LEMMA PushKeeps ==
    ASSUME NEW n \in Socket, NEW m, NEW ms \in Seq(UpMessage), Pushed(n, m, ms),
           n.near = "open" => n.on # "pair",
           n.near = "open" /\ n.on = "resume" =>
             \A i \in 1 .. Len(ms) : ms[i].type \in {"init", "proof", "garbled"}
    PROVE  Keeps(n, m) /\ Serves(n, m)
<1>1. /\ m \in Socket /\ m.near = n.near /\ m.on = n.on /\ m.far = n.far /\ m.down = n.down
      /\ m.running = n.running /\ m.timer = n.timer /\ m.waiters = n.waiters
      /\ m.subs = n.subs
  BY DEF Pushed
<1>2. Len(n.up) \in Nat /\ Len(ms) \in Nat /\ Len(m.up) \in Nat
  BY <1>1, SocketLengths
<1>3. \A i \in 1 .. Len(n.up) : i \in 1 .. Len(m.up) /\ m.up[i] = n.up[i]
  BY <1>2 DEF Pushed
<1>4. ASSUME NEW i \in 1 .. Len(m.up), i \notin 1 .. Len(n.up)
      PROVE  \E j \in 1 .. Len(ms) : m.up[i] = ms[j]
  <2>1. n.near = "open" /\ n.far # "gone"
    BY <1>2, <1>4 DEF Pushed
  <2>2. i - Len(n.up) \in 1 .. Len(ms) /\ Len(n.up) + (i - Len(n.up)) = i
    BY <1>2, <1>4, <2>1 DEF Pushed
  <2> QED BY <2>1, <2>2 DEF Pushed
<1>5. Telling(n) => Telling(m)
  BY <1>1, <1>3, <1>4 DEF Telling, Closes
<1>6. Shaking(n) => Shaking(m)
  BY <1>1, <1>3 DEF Shaking, NoUp
<1>7. Keeps(n, m)
  BY <1>1, <1>5, <1>6 DEF Keeps, GoesOn
<1>8. Serves(n, m)
  BY <1>1, <1>3 DEF Serves, Heard
<1> QED BY <1>7, <1>8

\* A finite set in some order has each of its elements.
LEMMA SetToSeqCovers ==
    ASSUME NEW Q, IsFiniteSet(Q), NEW q \in Q
    PROVE  \E i \in 1 .. Len(SetToSeq(Q)) : SetToSeq(Q)[i] = q
<1> DEFINE S == 1 .. Cardinality(Q)
<1>1. Cardinality(Q) \in Nat /\ ExistsBijection(S, Q)
  BY FS_CardinalityType
<1>2. PICK f \in [S -> Q] : IsInjective(f)
  <2>1. PICK f \in Bijection(S, Q) : TRUE
    BY <1>1 DEF ExistsBijection
  <2>2. f \in [S -> Q] /\ \A a, b \in S : f[a] = f[b] => a = b
    BY <2>1 DEF Bijection, Injection, Surjection, IsInjective
  <2>3. IsInjective(f)
    BY <2>2 DEF IsInjective
  <2> QED BY <2>2, <2>3
<1> DEFINE g == SetToSeq(Q)
<1>3. g \in [S -> Q] /\ IsInjective(g)
  BY <1>2 DEF SetToSeq
<1> HIDE DEF g
<1>4. g \in Injection(S, Q)
  BY <1>3 DEF Injection, IsInjective
<1>5. IsFiniteSet(S) /\ Cardinality(S) = Cardinality(Q)
  BY <1>1, FS_Interval
<1> HIDE DEF S
<1>6. g \in Surjection(S, Q)
  BY <1>4, <1>5, FS_Injection
<1>7. \E i \in S : g[i] = q
  BY <1>6 DEF Surjection
<1>8. Len(g) = Cardinality(Q)
  BY <1>1, <1>3 DEF S
<1> QED BY <1>7, <1>8 DEF S, g

\* Sending over the current socket: nobody that waits is worse off, and what is
\* subscribed under the right key is heard of.
LEMMA SendRests ==
    ASSUME NEW w, ClientOK(w), NEW E, Tied(w, E), CanSend(w),
           NEW type \in {"subscribe", "ping"}, NEW qs \in Seq(Subs \cup {NoSub})
    PROVE  LET v == Send(w, type, qs)
           IN /\ ClientOK(v) /\ v.sc = w.sc /\ v.cm = w.cm /\ v.bus = w.bus
              /\ v.subs = w.subs /\ Tied(v, E) /\ (IsConnected(v) <=> IsConnected(w))
              /\ Served(w) => Served(v)
              /\ type = "subscribe" /\ w.sc.key = w.sc.ws =>
                   \A i \in 1 .. Len(qs) : \A S : qs[i] \in S => Heard(v.net[w.sc.ws], S)
              /\ \A t \in Sockets : v.net[t].near = w.net[t].near
<1> DEFINE s == w.sc.ws
<1> DEFINE ty == IF w.sc.key = w.sc.ws THEN type ELSE "garbled"
<1> DEFINE ms == [i \in DOMAIN qs |-> Msg(ty, qs[i])]
<1> DEFINE n == PushAll(w.net[s], ms)
<1> DEFINE v == [w EXCEPT !.net[s] = n]
<1>1. s \in Sockets /\ w.net[s] \in Socket /\ IsFiniteSet(w.net[s].waiters)
      /\ w.net[s].near = "open"
  BY DEF CanSend, IsOpen, ClientOK, Client, Secure, Awaited
<1>2. Send(w, type, qs) = v
  BY DEF Send
<1>3. /\ ms \in Seq(UpMessage) /\ Len(ms) = Len(qs)
      /\ \A i \in 1 .. Len(qs) : ms[i].type = ty /\ ms[i].sub = qs[i]
  <2>1. Len(qs) \in Nat /\ DOMAIN qs = 1 .. Len(qs)
        /\ \A i \in DOMAIN qs : qs[i] \in Subs \cup {NoSub}
    OBVIOUS
  <2>2. ty \in Up
    BY DEF Up
  <2> HIDE DEF ty
  <2>3. ms \in [1 .. Len(qs) -> UpMessage]
    BY <2>1, <2>2 DEF UpMessage, Msg
  <2>4. \A i \in 1 .. Len(qs) : ms[i].type = ty /\ ms[i].sub = qs[i]
    BY <2>1 DEF Msg
  <2> HIDE DEF ms
  <2> QED BY <2>1, <2>3, <2>4
<1> HIDE DEF ms
<1>4. Pushed(w.net[s], n, ms)
  BY <1>1, <1>3, PushAllIs
<1> HIDE DEF n
<1>5. n \in Socket /\ IsFiniteSet(n.waiters) /\ n.near = w.net[s].near
  BY <1>1, <1>4 DEF Pushed
<1> HIDE DEF s
<1>6. /\ ClientOK(v) /\ v.net[s] = n /\ \A t \in Sockets \ {s} : v.net[t] = w.net[t]
      /\ v.cm = w.cm /\ v.sc = w.sc /\ v.bus = w.bus /\ v.subs = w.subs
  BY <1>1, <1>5, NetReplaced
<1> HIDE DEF v
<1>7. SocketLinked(w, s)
  BY <1>1 DEF Tied
<1>8. w.net[s].on # "pair" /\ (w.net[s].on = "resume" => w.sc.key # s)
  BY <1>1, <1>7 DEF SocketLinked, s
<1>9. w.net[s].on = "resume" => \A i \in 1 .. Len(ms) : ms[i].type = "garbled"
  BY <1>3, <1>8 DEF ty, s
<1>10. Keeps(w.net[s], v.net[s]) /\ Serves(w.net[s], v.net[s])
  BY <1>1, <1>3, <1>4, <1>6, <1>8, <1>9, PushKeeps
<1>11. Tied(v, E) /\ (IsConnected(v) <=> IsConnected(w)) /\ (Served(w) => Served(v))
  BY <1>1, <1>6, <1>10, KeptTied, KeptServed
<1>12. ASSUME type = "subscribe", w.sc.key = w.sc.ws, NEW i \in 1 .. Len(qs), NEW S,
              qs[i] \in S
       PROVE  Heard(n, S)
  <2>1. ms[i].type = "subscribe" /\ ms[i].sub \in S /\ i \in 1 .. Len(ms)
    BY <1>3, <1>12 DEF ty
  <2>2. CASE w.net[s].far = "gone"
    BY <1>4, <2>2 DEF Pushed, Heard
  <2>3. CASE w.net[s].far # "gone"
    <3>1. Len(w.net[s].up) \in Nat /\ Len(ms) \in Nat
      BY <1>1, <1>3, SocketLengths
    <3>2. /\ n.up[Len(w.net[s].up) + i] = ms[i]
          /\ Len(w.net[s].up) + i \in 1 .. Len(n.up)
      BY <1>1, <1>4, <2>1, <2>3, <3>1 DEF Pushed
    <3> QED BY <2>1, <3>2 DEF Heard
  <2> QED BY <2>2, <2>3
<1>13. \A t \in Sockets : v.net[t].near = w.net[t].near
  BY <1>5, <1>6
<1>14. /\ ClientOK(v) /\ v.sc = w.sc /\ v.cm = w.cm /\ v.bus = w.bus
       /\ v.subs = w.subs /\ Tied(v, E) /\ (IsConnected(v) <=> IsConnected(w))
       /\ Served(w) => Served(v)
       /\ type = "subscribe" /\ w.sc.key = w.sc.ws =>
            \A i \in 1 .. Len(qs) : \A S : qs[i] \in S => Heard(v.net[w.sc.ws], S)
       /\ \A t \in Sockets : v.net[t].near = w.net[t].near
  BY <1>6, <1>11, <1>12, <1>13 DEF s
<1> QED BY <1>2, <1>14

\* The current socket exists, and who is connected encrypts with its key.
Keyed(w) ==
    /\ w.sc.ws # NoSocket => w.net[w.sc.ws].near \in {"open", "closing", "closed"}
    /\ IsConnected(w) => w.sc.key = w.sc.ws

\* From w to v an attempt for who began, on a socket that was free.
Began(w, v, who) ==
    /\ ClientOK(v) /\ v.cm = w.cm /\ v.bus = w.bus /\ v.subs = w.subs
    /\ v.sc.ws = w.sc.ws /\ v.sc.key = w.sc.key /\ v.sc.auth = "connecting"
    /\ v.sc.promise \in Sockets /\ w.net[v.sc.promise].near = "none"
    /\ \A t \in Sockets \ {v.sc.promise} : v.net[t] = w.net[t]
    /\ LET n == v.net[v.sc.promise]
       IN /\ n.near = "connecting" /\ n.on = "open" /\ Len(n.down) = 0
          /\ n.running /\ ~n.timer /\ n.waiters = {who}

\* reconnectThroughRelay() begins one.
LEMMA NewAttemptIs ==
    ASSUME NEW w, ClientOK(w), Free(w), NEW who \in Waiter
    PROVE  Began(w, NewAttempt(w, who), who)
<1> DEFINE s == FreeSocket(w)
<1> DEFINE n == [Unused EXCEPT !.near = "connecting", !.on = "open",
                               !.running = TRUE, !.waiters = {who}]
<1> DEFINE c == [w.sc EXCEPT !.promise = s, !.auth = "connecting"]
<1> DEFINE u == [w EXCEPT !.sc = c]
<1> DEFINE v == [u EXCEPT !.net[s] = n]
<1>1. s \in Sockets /\ w.net[s].near = "none"
  BY FreeSocketOK
<1>2. n \in Socket /\ n.near = "connecting" /\ n.on = "open" /\ Len(n.down) = 0
      /\ n.running /\ ~n.timer /\ n.waiters = {who}
  BY FreshSocket DEF Unused
<1>3. NewAttempt(w, who) = v
  BY DEF NewAttempt
<1> HIDE DEF n, s
<1>4. /\ c \in Secure /\ c.promise = s /\ c.auth = "connecting" /\ c.ws = w.sc.ws
      /\ c.key = w.sc.key
  BY <1>1 DEF ClientOK, Client, Secure
<1> HIDE DEF c
<1>5. /\ ClientOK(u) /\ u.sc = c /\ u.cm = w.cm /\ u.net = w.net /\ u.bus = w.bus
      /\ u.subs = w.subs
  BY <1>4, ScReplaced
<1>6. IsFiniteSet(n.waiters)
  BY <1>2, FS_Singleton
<1> HIDE DEF u
<1>7. /\ ClientOK(v) /\ v.net[s] = n /\ \A t \in Sockets \ {s} : v.net[t] = u.net[t]
      /\ v.cm = u.cm /\ v.sc = u.sc /\ v.bus = u.bus /\ v.subs = u.subs
  <2>1. s \in Sockets /\ n \in Socket /\ ClientOK(u)
    BY <1>1, <1>2, <1>5
  <2> QED BY <1>6, <2>1, NetReplaced
<1> HIDE DEF v
<1>8. Began(w, v, who)
  BY <1>1, <1>2, <1>4, <1>5, <1>7 DEF Began
<1> QED BY <1>3, <1>8

\* An attempt that begins while there is none and no connection goes on.
LEMMA BeganTied ==
    ASSUME NEW w, NEW v, NEW who, Began(w, v, who), Tied(w, {}), Keyed(w),
           w.sc.promise = NoSocket, ~IsConnected(w)
    PROVE  Tied(v, {}) /\ ~IsConnected(v)
<1> DEFINE s == v.sc.promise
<1>1. /\ v.cm = w.cm /\ v.bus = w.bus /\ v.subs = w.subs
      /\ v.sc.ws = w.sc.ws /\ v.sc.key = w.sc.key /\ v.sc.auth = "connecting"
      /\ s \in Sockets /\ w.net[s].near = "none"
      /\ \A t \in Sockets \ {s} : v.net[t] = w.net[t]
      /\ v.net[s].near = "connecting" /\ v.net[s].on = "open" /\ Len(v.net[s].down) = 0
      /\ v.net[s].running /\ ~v.net[s].timer
  BY DEF Began
<1>2. \A t \in Sockets : SocketLinked(w, t) /\ ~w.net[t].running
  BY ClientConstants DEF Tied, SocketLinked
<1>3. ASSUME NEW t \in Sockets \ {s} PROVE SocketLinked(v, t)
  <2>1. SocketLinked(w, t) /\ v.net[t] = w.net[t] /\ ~w.net[t].running
    BY <1>1, <1>2
  <2>2. ~(w.sc.key = t /\ w.net[t].near = "open" /\ w.net[t].on = "message")
    BY <2>1, ClientConstants DEF SocketLinked, IsConnected, IsOpen
  <2> QED BY <1>1, <2>1, <2>2 DEF SocketLinked
<1>4. SocketLinked(v, s)
  <2>1. w.sc.key # s /\ w.sc.ws # s
    BY <1>1, <1>2, ClientConstants DEF SocketLinked, Keyed
  <2>2. Telling(v.net[s])
    BY <1>1 DEF Telling
  <2> QED BY <1>1, <2>1, <2>2 DEF SocketLinked
<1>5. \A t \in Sockets : v.net[t].running => t = s
  BY <1>1, <1>2
<1>6. Going(v, s)
  BY <1>1 DEF Going, GoesOn
<1>7. ~IsConnected(v)
  BY <1>1 DEF IsConnected
<1>8. w.bus # NoSub => w.bus \in w.subs
  BY DEF Tied
<1> HIDE DEF s
<1> QED BY <1>1, <1>3, <1>4, <1>5, <1>6, <1>7, <1>8 DEF Tied

\* Whoever finds no connection awaits the attempt under way, or a new one.
LEMMA AwaitRests ==
    ASSUME NEW w, ClientOK(w), Free(w), NEW who \in Waiter, Tied(w, {}), Keyed(w),
           ~IsConnected(w)
    PROVE  LET v == Await(w, who)
           IN /\ ClientOK(v) /\ v.cm = w.cm /\ v.bus = w.bus /\ v.subs = w.subs
              /\ Tied(v, {}) /\ v.sc.promise # NoSocket
              /\ who \in v.net[v.sc.promise].waiters
              /\ w.sc.promise # NoSocket =>
                   /\ v.sc = w.sc
                   /\ w.net[w.sc.promise].waiters \subseteq v.net[v.sc.promise].waiters
<1>1. CASE w.sc.promise = NoSocket
  <2> DEFINE v == NewAttempt(w, who)
  <2>1. Await(w, who) = v
    BY <1>1 DEF Await
  <2>2. Began(w, v, who)
    BY NewAttemptIs
  <2> HIDE DEF v
  <2>3. Tied(v, {})
    BY <1>1, <2>2, BeganTied
  <2> QED BY <1>1, <2>1, <2>2, <2>3, ClientConstants DEF Began
<1>2. CASE w.sc.promise # NoSocket
  <2> DEFINE s == w.sc.promise
  <2> DEFINE n == [w.net[s] EXCEPT !.waiters = @ \cup {who}]
  <2> DEFINE v == [w EXCEPT !.net[s] = n]
  <2>1. s \in Sockets /\ w.net[s] \in Socket /\ IsFiniteSet(w.net[s].waiters)
    BY <1>2 DEF ClientOK, Client, Secure, Awaited
  <2>2. IsFiniteSet(w.net[s].waiters \cup {who})
    BY <2>1, FS_AddElement
  <2>3. Await(w, who) = v
    BY <1>2 DEF Await
  <2>4. n \in Socket /\ n.waiters = w.net[s].waiters \cup {who} /\ Keeps(w.net[s], n)
    <3> DEFINE k == w.net[s]
    <3>1. k \in Socket
      BY <2>1
    <3> HIDE DEF k
    <3>2. LET m == [k EXCEPT !.waiters = @ \cup {who}]
          IN /\ m \in Socket /\ m.waiters = k.waiters \cup {who} /\ m.near = k.near
             /\ m.on = k.on /\ m.far = k.far /\ m.up = k.up /\ m.down = k.down
             /\ m.subs = k.subs /\ m.running = k.running /\ m.timer = k.timer
      BY <3>1 DEF Socket
    <3> DEFINE m == [k EXCEPT !.waiters = @ \cup {who}]
    <3> HIDE DEF m
    <3>3. Keeps(k, m)
      <4>1. /\ m.near = k.near /\ m.on = k.on /\ m.far = k.far /\ m.up = k.up
            /\ m.down = k.down /\ m.subs = k.subs /\ m.running = k.running
            /\ m.timer = k.timer
        BY <3>2 DEF m
      <4> QED BY <4>1 DEF Keeps, Telling, Closes, GoesOn, Shaking
    <3> QED BY <3>2, <3>3 DEF m, k
  <2> HIDE DEF n, s
  <2>7. IsFiniteSet(n.waiters) /\ s \in Sockets /\ n \in Socket
    BY <2>1, <2>2, <2>4
  <2>5. /\ ClientOK(v) /\ v.net[s] = n /\ \A t \in Sockets \ {s} : v.net[t] = w.net[t]
        /\ v.cm = w.cm /\ v.sc = w.sc /\ v.bus = w.bus /\ v.subs = w.subs
    BY <2>7, NetReplaced
  <2> HIDE DEF v
  <2>6. Tied(v, {})
    BY <2>1, <2>4, <2>5, KeptTied
  <2> QED BY <1>2, <2>3, <2>4, <2>5, <2>6 DEF s
<1> QED BY <1>1, <1>2

\* Once the bus has subscribed it is served: the subscription is sent, or it awaits an
\* attempt.
LEMMA SubscribeActivityRests ==
    ASSUME NEW w, ClientOK(w), Room(w), Keyed(w), Tied(w, {}), w.cm.current = NoSocket
    PROVE  RestOK(SubscribeActivity(w))
<1> DEFINE q == FreeSub(w)
<1> DEFINE v == [w EXCEPT !.bus = q, !.subs = @ \cup {q}]
<1>1. q \in Subs
  BY DEF Room, FreeSub, ClientOK, Client
<1>2. SubscribeActivity(w) = IF IsConnected(v) THEN SendSubscribe(v, {q}) ELSE Await(v, q)
  BY DEF SubscribeActivity
<1> HIDE DEF q
<1>3. /\ ClientOK(v) /\ v.bus = q /\ v.subs = w.subs \cup {q} /\ v.cm = w.cm
      /\ v.sc = w.sc /\ v.net = w.net
  BY <1>1 DEF ClientOK, Client, Awaited
<1> HIDE DEF v
<1>4. Tied(v, {}) /\ (IsConnected(v) <=> IsConnected(w)) /\ Keyed(v) /\ Free(v)
  <2>1. Tied(v, {}) /\ (IsConnected(v) <=> IsConnected(w))
    BY <1>3, TiedSame
  <2> QED BY <1>3, <2>1 DEF Keyed, Free, Room
<1>5. v.bus # NoSub /\ v.bus = q /\ q \in v.subs /\ v.cm.current = NoSocket
  BY <1>1, <1>3, ClientConstants
<1>6. CASE IsConnected(v)
  <2> DEFINE qs == SetToSeq({q})
  <2> DEFINE u == Send(v, "subscribe", qs)
  <2>1. CanSend(v)
    BY <1>4, <1>6, ClientConstants DEF CanSend, Keyed, IsConnected, IsOpen, ClientOK, Client, Secure
  <2>2. SubscribeActivity(w) = u
    BY <1>2, <1>6, <2>1 DEF SendSubscribe
  <2>3. IsFiniteSet({q})
    BY FS_Singleton
  <2>4. qs \in Seq(Subs \cup {NoSub}) /\ \E i \in 1 .. Len(qs) : qs[i] = q
    <3>1. qs \in Seq({q}) /\ \E i \in 1 .. Len(qs) : qs[i] = q
      BY <2>3, SetToSeqType, SetToSeqCovers
    <3> HIDE DEF qs
    <3> QED BY <1>1, <3>1
  <2> HIDE DEF qs
  <2>5. /\ u.sc = v.sc /\ u.cm = v.cm /\ u.bus = v.bus
        /\ u.subs = v.subs /\ Tied(u, {}) /\ (IsConnected(u) <=> IsConnected(v))
        /\ v.sc.key = v.sc.ws =>
             \A i \in 1 .. Len(qs) : \A S : qs[i] \in S => Heard(u.net[v.sc.ws], S)
    BY <1>3, <1>4, <2>1, <2>4, SendRests
  <2> HIDE DEF u
  <2>6. v.sc.key = v.sc.ws
    BY <1>4, <1>6 DEF Keyed
  <2>7. Served(u)
    BY <1>5, <1>6, <2>4, <2>5, <2>6 DEF Served
  <2> QED BY <1>5, <2>2, <2>5, <2>7 DEF RestOK, Linked, Aimed
<1>7. CASE ~IsConnected(v)
  <2> DEFINE u == Await(v, q)
  <2>1. SubscribeActivity(w) = u
    BY <1>2, <1>7
  <2>2. q \in Waiter
    BY <1>1 DEF Waiter
  <2>3. /\ u.cm = v.cm /\ u.bus = v.bus /\ u.subs = v.subs
        /\ Tied(u, {}) /\ u.sc.promise # NoSocket
        /\ q \in u.net[u.sc.promise].waiters
    BY <1>3, <1>4, <1>7, <2>2, AwaitRests
  <2> HIDE DEF u
  <2> QED BY <1>5, <2>1, <2>3 DEF RestOK, Linked, Aimed, Served
<1> QED BY <1>6, <1>7

\* After markConnected() the bus is served, or a heartbeat has been heard.
LEMMA MarkConnectedRests ==
    ASSUME NEW w, ClientOK(w), Room(w), Keyed(w), Tied(w, {}), Shown(w) => Served(w),
           w.bus # NoSub => Served(w)
    PROVE  RestOK(MarkConnected(w))
<1> DEFINE c == [w.cm EXCEPT !.attempts = 0, !.current = NoSocket, !.timer = FALSE,
                             !.state = "connected"]
<1> DEFINE v == [w EXCEPT !.cm = c]
<1>1. MarkConnected(w) = IF w.cm.state # "connected" /\ w.cm.started /\ w.bus = NoSub
                         THEN SubscribeActivity(v) ELSE v
  BY DEF MarkConnected, ClientOK, Client, Manager
<1>2. /\ c \in Manager /\ c.current = NoSocket /\ c.started = w.cm.started
      /\ c.heartbeat = w.cm.heartbeat
  <2>1. 0 \in 0 .. MaxAttempts
    BY ClientConstants
  <2> QED BY <2>1 DEF ClientOK, Client, Manager
<1> HIDE DEF c
<1>3. /\ ClientOK(v) /\ v.cm = c /\ v.sc = w.sc /\ v.net = w.net /\ v.bus = w.bus
      /\ v.subs = w.subs
  BY <1>2, CmReplaced
<1> HIDE DEF v
<1>4. Tied(v, {}) /\ Keyed(v) /\ Room(v) /\ (Served(w) => Served(v))
  <2>1. Tied(v, {}) /\ (IsConnected(v) <=> IsConnected(w))
    <3>1. v.bus # NoSub => v.bus \in v.subs
      BY <1>3 DEF Tied
    <3> QED BY <1>3, <3>1, TiedSame
  <2> QED BY <1>3, <2>1 DEF Keyed, Room, Served
<1>5. CASE w.cm.state # "connected" /\ w.cm.started /\ w.bus = NoSub
  BY <1>1, <1>2, <1>3, <1>4, <1>5, SubscribeActivityRests
<1>6. CASE ~(w.cm.state # "connected" /\ w.cm.started /\ w.bus = NoSub)
  <2>1. Shown(v) => Served(v)
    BY <1>2, <1>3, <1>4, <1>6 DEF Shown, Served
  <2> QED BY <1>1, <1>2, <1>3, <1>4, <1>6, <2>1 DEF RestOK, Linked, Aimed
<1> QED BY <1>5, <1>6

\* Whoever awaited the attempt s subscribes; u is the state in which s is settled and
\* its connection, if it still has its socket, is made.
LEMMA ResolveRests ==
    ASSUME NEW w, ClientOK(w), Pursuit(w), Room(w), NEW s \in Sockets, w.net[s].running,
           Tied(Settled(w, s), {}), Keyed(w), w.sc.auth = "authenticated",
           w.cm.current \in {s, NoSocket}, w.cm.current = s => w.bus = NoSub,
           Shown(w) => w.bus # NoSub /\ w.bus \in Subscribers(w, s)
    PROVE  RestOK(Resolve(w, s))
<1> DEFINE u == Settled(w, s)
<1> DEFINE Q == Subscribers(w, s)
<1> DEFINE v == SendSubscribe(u, Q)
<1>1. Resolve(w, s) = IF w.cm.current = s THEN MarkConnected(v) ELSE v
  BY DEF Resolve
<1>2. SettledFrom(w, u, s) /\ Tied(u, {})
  BY SettledIs
<1>3. Q \in SUBSET (Subs \cup {NoSub}) /\ IsFiniteSet(Q)
  BY SubscribersOK
<1> HIDE DEF u, Q
<1>4. /\ ClientOK(u) /\ u.cm = w.cm /\ u.bus = w.bus /\ u.subs = w.subs
      /\ u.sc.ws = w.sc.ws /\ u.sc.key = w.sc.key /\ u.sc.auth = w.sc.auth
      /\ u.sc.promise = NoSocket
      /\ \A t \in Sockets : u.net[t].near = w.net[t].near
  <2>1. \A t \in Sockets : t = s \/ t \in Sockets \ {s}
    OBVIOUS
  <2> QED BY <1>2, <2>1 DEF SettledFrom
<1>5. Keyed(u) /\ Room(u) /\ Pursuit(u)
  <2>1. u.sc.ws \in Sockets \cup {NoSocket}
    BY <1>4 DEF ClientOK, Client, Secure
  <2>2. IsConnected(u) => IsConnected(w)
    BY <1>4, <2>1 DEF IsConnected, IsOpen
  <2> QED BY <1>4, <2>1, <2>2 DEF Keyed, Room, Pursuit
<1>6. CanSend(u) <=> IsConnected(u)
  BY <1>4, <1>5, ClientConstants DEF CanSend, IsConnected, Keyed, IsOpen
<1>7. /\ Tied(v, {}) /\ (IsConnected(v) => IsConnected(u)) /\ v.sc = u.sc
      /\ \A t \in Sockets : v.net[t].near = u.net[t].near
      /\ v.cm.current = w.cm.current /\ v.bus \in {w.bus, NoSub}
      /\ Shown(v) => Served(v)
  <2>1. CASE IsConnected(u)
    <3> DEFINE qs == SetToSeq(Q)
    <3>1. v = Send(u, "subscribe", qs)
      BY <1>6, <2>1 DEF SendSubscribe
    <3>2. qs \in Seq(Subs \cup {NoSub})
      <4>1. qs \in Seq(Q)
        BY <1>3, SetToSeqType
      <4> HIDE DEF qs
      <4> QED BY <1>3, <4>1
    <3>3. \A q \in Q : \E i \in 1 .. Len(qs) : qs[i] = q
      BY <1>3, SetToSeqCovers
    <3> HIDE DEF qs, v
    <3>4. /\ v.sc = u.sc /\ v.cm = u.cm /\ v.bus = u.bus
          /\ v.subs = u.subs /\ Tied(v, {}) /\ (IsConnected(v) <=> IsConnected(u))
          /\ u.sc.key = u.sc.ws =>
               \A i \in 1 .. Len(qs) : \A S : qs[i] \in S => Heard(v.net[u.sc.ws], S)
          /\ \A t \in Sockets : v.net[t].near = u.net[t].near
      BY <1>2, <1>4, <1>6, <2>1, <3>1, <3>2, SendRests
    <3>5. u.sc.key = u.sc.ws
      BY <1>5, <2>1 DEF Keyed
    <3>6. ASSUME Shown(v) PROVE Served(v)
      <4>1. v.bus \in Q
        BY <1>4, <3>4, <3>6 DEF Shown, Q
      <4>2. v.bus # NoSub
        BY <1>4, <3>4, <3>6 DEF Shown
      <4>3. v.bus \in v.subs
        BY <3>4, <4>2 DEF Tied
      <4>4. Heard(v.net[u.sc.ws], v.subs)
        BY <3>3, <3>4, <3>5, <4>1, <4>3
      <4> QED BY <2>1, <3>4, <4>2, <4>4 DEF Served
    <3> QED BY <1>4, <3>4, <3>6 DEF Shown
  <2>2. CASE ~IsConnected(u)
    <3>1. v = SubscribeFailed(u, Q, TRUE)
      BY <1>6, <2>2 DEF SendSubscribe
    <3> HIDE DEF v
    <3>2. /\ Told(u, v) /\ (Q = {} => v = u)
          /\ (Q # {} => v.bus = NoSub /\ v.cm.state # "connected")
      BY <1>4, <3>1, SubscribeFailedTold
    <3>3. Tied(v, {})
      BY <1>2, <3>2, ToldTied
    <3>4. ~Shown(v)
      BY <1>4, <3>2 DEF Shown, Q
    <3>5. IsConnected(v) => IsConnected(u)
      BY <3>2 DEF Told, IsConnected, IsOpen
    <3> QED BY <1>4, <3>2, <3>3, <3>4, <3>5 DEF Told
  <2> QED BY <2>1, <2>2
<1>8. ClientOK(v) /\ Room(v)
  <2>1. Calm(u, v)
    BY <1>3, <1>4, SendSubscribeOK
  <2> QED BY <1>4, <1>5, <2>1, RoomKept DEF Calm
<1>9. Keyed(v)
  <2>1. u.sc.ws \in Sockets \cup {NoSocket}
    BY <1>4 DEF ClientOK, Client, Secure
  <2> QED BY <1>5, <1>7, <2>1 DEF Keyed
<1> HIDE DEF v
<1>10. CASE w.cm.current = s
  <2>1. v.bus = NoSub
    BY <1>7, <1>10
  <2> QED BY <1>1, <1>7, <1>8, <1>9, <1>10, <2>1, MarkConnectedRests
<1>11. CASE w.cm.current = NoSocket
  <2>1. w.cm.current # s
    BY <1>11, ClientConstants
  <2> QED BY <1>1, <1>7, <1>11, <2>1 DEF RestOK, Linked, Aimed
<1> QED BY <1>10, <1>11

-----------------------------------------------------------------------------
(* Messages at the phone, for those who wait.                              *)

\* From w to v the next message of the socket s was read.
HasRead(w, v, s) ==
    LET n == w.net[s]
        m == v.net[s]
    IN /\ ClientOK(v) /\ v.cm = w.cm /\ v.sc = w.sc /\ v.bus = w.bus /\ v.subs = w.subs
       /\ \A t \in Sockets \ {s} : v.net[t] = w.net[t]
       /\ m.near = n.near /\ m.on = n.on /\ m.far = n.far /\ m.up = n.up
       /\ m.subs = n.subs /\ m.running = n.running /\ m.waiters = n.waiters
       /\ m.timer = n.timer
       /\ \A i \in 1 .. Len(m.down) :
            i + 1 \in 2 .. Len(n.down) /\ m.down[i] = n.down[i + 1]
       /\ \A i \in 2 .. Len(n.down) : i - 1 \in 1 .. Len(m.down)

\* Receiving begins with that.
LEMMA ReadIs ==
    ASSUME NEW w, ClientOK(w), NEW s \in Sockets, w.net[s].down # <<>>
    PROVE  HasRead(w, [w EXCEPT !.net[s].down = Tail(@)], s)
<1> DEFINE k == w.net[s]
<1> DEFINE n == [w.net[s] EXCEPT !.down = Tail(@)]
<1> DEFINE v == [w EXCEPT !.net[s] = n]
<1>1. k \in Socket /\ IsFiniteSet(k.waiters) /\ k.down # <<>>
  BY DEF ClientOK, Client, Awaited
<1>2. /\ Tail(k.down) \in Seq(DownMessage)
      /\ Len(k.down) \in Nat \ {0} /\ Len(Tail(k.down)) = Len(k.down) - 1
      /\ \A i \in 1 .. Len(Tail(k.down)) : Tail(k.down)[i] = k.down[i + 1]
  BY <1>1, TailFacts
<1>3. [w EXCEPT !.net[s].down = Tail(@)] = v
  OBVIOUS
<1>4. n = [k EXCEPT !.down = Tail(k.down)]
  OBVIOUS
<1> HIDE DEF k, n
<1>5. /\ n \in Socket /\ n.near = k.near /\ n.on = k.on /\ n.far = k.far
      /\ n.up = k.up /\ n.subs = k.subs /\ n.running = k.running
      /\ n.waiters = k.waiters /\ n.timer = k.timer /\ n.down = Tail(k.down)
  BY <1>1, <1>2, <1>4 DEF Socket
<1>6. n \in Socket /\ IsFiniteSet(n.waiters)
  BY <1>1, <1>5
<1>7. /\ ClientOK(v) /\ v.net[s] = n /\ \A t \in Sockets \ {s} : v.net[t] = w.net[t]
      /\ v.cm = w.cm /\ v.sc = w.sc /\ v.bus = w.bus /\ v.subs = w.subs
  BY <1>6, NetReplaced
<1> HIDE DEF v
<1>8. /\ \A i \in 1 .. Len(n.down) :
           i + 1 \in 2 .. Len(k.down) /\ n.down[i] = k.down[i + 1]
      /\ \A i \in 2 .. Len(k.down) : i - 1 \in 1 .. Len(n.down)
  <2>1. Len(n.down) = Len(k.down) - 1 /\ Len(k.down) \in Nat
    BY <1>2, <1>5
  <2>2. \A i \in 1 .. Len(n.down) : n.down[i] = k.down[i + 1]
    BY <1>2, <1>5
  <2>3. \A i \in 1 .. Len(n.down) : i + 1 \in 2 .. Len(k.down)
    BY <2>1
  <2>4. \A i \in 2 .. Len(k.down) : i - 1 \in 1 .. Len(n.down)
    BY <2>1
  <2> QED BY <2>2, <2>3, <2>4
<1>9. HasRead(w, v, s)
  BY <1>5, <1>7, <1>8 DEF HasRead, k
<1> QED BY <1>3, <1>9

\* Who reads a message that is no close is told as much as before, and in an order that
\* leaves no answer to the pairing behind.
LEMMA ReadTelling ==
    ASSUME NEW w, NEW v, ClientOK(w), NEW s \in Sockets, HasRead(w, v, s),
           w.net[s].near = "open", w.net[s].down # <<>>, Telling(w.net[s])
    PROVE  /\ Head(w.net[s].down).type # "close" => Telling(v.net[s])
           /\ w.net[s].on = "pair" =>
                \A i \in 1 .. Len(v.net[s].down) : v.net[s].down[i].type = "close"
           /\ w.net[s].on = "resume" =>
                Head(w.net[s].down).type \in DownShake \cup {"close"}
           /\ Head(w.net[s].down).type = "opened" /\ Head(w.net[s].down).sub \in Subs =>
                Head(w.net[s].down).sub \in w.net[s].subs
           /\ \A i \in 1 .. Len(v.net[s].down) :
                v.net[s].down[i].type = "opened" /\ v.net[s].down[i].sub \in Subs
                  => v.net[s].down[i].sub \in v.net[s].subs
<1> DEFINE n == w.net[s]
<1> DEFINE m == v.net[s]
<1>1. n \in Socket /\ n.down # <<>> /\ n.near = "open" /\ Telling(n)
  BY DEF ClientOK, Client
<1>2. Head(n.down) = n.down[1] /\ Len(n.down) \in Nat \ {0}
  BY <1>1, TailFacts
<1>3. /\ m.near = n.near /\ m.on = n.on /\ m.far = n.far /\ m.up = n.up
      /\ m.subs = n.subs /\ m.running = n.running /\ m.waiters = n.waiters
      /\ m.timer = n.timer
      /\ \A i \in 1 .. Len(m.down) :
           i + 1 \in 2 .. Len(n.down) /\ m.down[i] = n.down[i + 1]
      /\ \A i \in 2 .. Len(n.down) : i - 1 \in 1 .. Len(m.down)
  BY DEF HasRead
<1> HIDE DEF n, m
<1>4. 1 \in 1 .. Len(n.down)
  BY <1>2
<1>5. \A i \in 2 .. Len(n.down) : i \in 1 .. Len(n.down)
  BY <1>2
<1>6. n.on = "pair" => \A i \in 1 .. Len(m.down) : m.down[i].type = "close"
  BY <1>1, <1>3 DEF Telling
<1>7. n.on = "resume" => /\ n.down[1].type \in DownShake \cup {"close"}
                         /\ \A i \in 1 .. Len(m.down) :
                              m.down[i].type \in DownShake \cup {"close"}
  BY <1>1, <1>3, <1>4, <1>5 DEF Telling
<1>8. n.down[1].type = "opened" /\ n.down[1].sub \in Subs => n.down[1].sub \in n.subs
  BY <1>1, <1>4 DEF Telling
<1>9. \A i \in 1 .. Len(m.down) :
        m.down[i].type = "opened" /\ m.down[i].sub \in Subs => m.down[i].sub \in m.subs
  BY <1>1, <1>3, <1>5 DEF Telling
<1>10. ASSUME n.down[1].type # "close", Closes(n) PROVE Closes(m)
  <2>1. PICK i \in 1 .. Len(n.down) : n.down[i].type = "close"
    BY <1>10 DEF Closes
  <2>2. i \in 2 .. Len(n.down)
    BY <1>2, <1>10, <2>1
  <2>3. i - 1 \in 1 .. Len(m.down) /\ (i - 1) + 1 = i
    BY <1>3, <2>2
  <2>4. m.down[i - 1].type = "close"
    BY <1>3, <2>1, <2>3
  <2> QED BY <2>3, <2>4 DEF Closes
<1>11. n.on = "pair" => \A i \in 2 .. Len(m.down) : m.down[i].type = "close"
  <2>1. \A i \in 2 .. Len(m.down) : i \in 1 .. Len(m.down)
    <3>1. m \in Socket
      BY DEF m, HasRead, ClientOK, Client
    <3>2. Len(m.down) \in Nat
      BY <3>1, SocketLengths
    <3> QED BY <3>2
  <2> QED BY <1>6, <2>1
<1>12. n.down[1].type # "close" => Telling(m)
  BY <1>1, <1>3, <1>7, <1>9, <1>10, <1>11 DEF Telling
<1> QED BY <1>2, <1>6, <1>7, <1>8, <1>9, <1>12 DEF n, m

\* Reading a message that is no close leaves all but the attempt of its socket as it was.
LEMMA ReadRests ==
    ASSUME NEW w, NEW v, ClientOK(w), NEW s \in Sockets, HasRead(w, v, s), RestOK(w),
           w.net[s].near = "open", w.net[s].down # <<>>,
           Head(w.net[s].down).type # "close"
    PROVE  /\ Tied(v, {s}) /\ Aimed(v) /\ (Shown(v) => Served(v))
           /\ w.net[s].on \notin {"pair", "resume"} => Tied(v, {})
<1>1. Tied(w, {}) /\ Aimed(w) /\ (Shown(w) => Served(w))
  BY DEF RestOK, Linked
<1>2. /\ ClientOK(v) /\ v.cm = w.cm /\ v.sc = w.sc /\ v.bus = w.bus /\ v.subs = w.subs
      /\ \A t \in Sockets \ {s} : v.net[t] = w.net[t]
      /\ v.net[s].near = w.net[s].near /\ v.net[s].on = w.net[s].on
      /\ v.net[s].far = w.net[s].far /\ v.net[s].running = w.net[s].running
      /\ v.net[s].timer = w.net[s].timer /\ v.net[s].waiters = w.net[s].waiters
      /\ v.net[s].subs = w.net[s].subs /\ v.net[s].up = w.net[s].up
  BY DEF HasRead
<1>3. Telling(w.net[s])
  BY <1>1 DEF Tied, SocketLinked
<1>4. Telling(v.net[s])
  BY <1>3, ReadTelling
<1>5. \A t \in Sockets :
        /\ v.net[t].near = w.net[t].near /\ v.net[t].on = w.net[t].on
        /\ v.net[t].far = w.net[t].far /\ v.net[t].running = w.net[t].running
        /\ v.net[t].timer = w.net[t].timer /\ v.net[t].waiters = w.net[t].waiters
        /\ v.net[t].subs = w.net[t].subs /\ v.net[t].up = w.net[t].up
        /\ Telling(v.net[t])
  BY <1>1, <1>2, <1>4 DEF Tied, SocketLinked
<1>6. \A t \in Sockets : SocketLinked(v, t)
  BY <1>1, <1>2, <1>5 DEF Tied, SocketLinked
<1>7. ASSUME NEW t \in Sockets \ {s}, v.net[t].running PROVE Going(v, t)
  <2>1. Going(w, t) /\ v.net[t] = w.net[t]
    BY <1>1, <1>2, <1>7 DEF Tied
  <2> QED BY <1>2, <2>1 DEF Going, Orphaned
<1>8. w.sc.ws \in Sockets \cup {NoSocket} /\ w.sc.promise \in Sockets \cup {NoSocket}
  BY DEF ClientOK, Client, Secure
<1>9. (IsConnected(v) <=> IsConnected(w)) /\ (IsConnected(w) => w.sc.ws \in Sockets)
  BY <1>2, <1>5, <1>8 DEF IsConnected, IsOpen
<1>10. Tied(v, {s})
  BY <1>1, <1>2, <1>5, <1>6, <1>7, <1>9 DEF Tied
<1>11. Served(w) => Served(v)
  <2>1. w.sc.promise # NoSocket =>
          v.net[w.sc.promise].waiters = w.net[w.sc.promise].waiters
    BY <1>5, <1>8
  <2>2. ASSUME IsConnected(w), Heard(w.net[w.sc.ws], w.subs)
        PROVE  Heard(v.net[w.sc.ws], w.subs)
    <3>1. LET n == w.net[w.sc.ws]
              m == v.net[w.sc.ws]
          IN m.far = n.far /\ m.subs = n.subs /\ m.up = n.up
      BY <1>5, <1>9, <2>2
    <3> QED BY <2>2, <3>1 DEF Heard
  <2> QED BY <1>2, <1>9, <2>1, <2>2 DEF Served
<1>12. w.net[s].on \notin {"pair", "resume"} => ~v.net[s].running
  BY <1>1, <1>2, GoingFacts
<1>13. w.net[s].on \notin {"pair", "resume"} => Tied(v, {})
  BY <1>10, <1>12 DEF Tied
<1> QED BY <1>1, <1>2, <1>10, <1>11, <1>13 DEF Aimed, Shown

\* The resume handshake begins on the socket of the attempt, which goes on.
LEMMA ResumeOnExistingSocketRests ==
    ASSUME NEW w, ClientOK(w), NEW s \in Sockets, Tied(w, {s}), Aimed(w),
           Shown(w) => Served(w), w.net[s].near = "open", w.net[s].on = "pair",
           w.net[s].running,
           \A i \in 1 .. Len(w.net[s].down) : w.net[s].down[i].type = "close"
    PROVE  RestOK(ResumeOnExistingSocket(w, s))
<1> DEFINE k == [w.net[s] EXCEPT !.on = "resume", !.timer = TRUE]
<1> DEFINE n == Push(k, "init")
<1> DEFINE c == [w.sc EXCEPT !.ws = s, !.auth = "srp_resume_init_sent"]
<1> DEFINE u == [w EXCEPT !.sc = c]
<1> DEFINE v == [u EXCEPT !.net[s] = n]
<1>1. ResumeOnExistingSocket(w, s) = v
  <2> DEFINE x == [w EXCEPT !.sc.ws = s, !.sc.auth = "srp_resume_init_sent",
                            !.net[s] = Push([@ EXCEPT !.on = "resume", !.timer = TRUE],
                                            "init")]
  <2>1. ResumeOnExistingSocket(w, s) = x
    BY DEF ResumeOnExistingSocket
  <2> HIDE DEF n
  <2>2. x = [u EXCEPT !.net[s] = Push(k, "init")]
    BY DEF ClientOK, Client
  <2> HIDE DEF x, k, u
  <2> QED BY <2>1, <2>2 DEF n
<1>2. /\ k \in Socket /\ k.on = "resume" /\ k.near = "open" /\ k.far = w.net[s].far
      /\ k.up = w.net[s].up /\ k.down = w.net[s].down /\ k.running = w.net[s].running
      /\ k.waiters = w.net[s].waiters /\ k.subs = w.net[s].subs /\ k.timer = TRUE
      /\ IsFiniteSet(k.waiters)
  BY DEF ClientOK, Client, Socket, Awaited
<1> HIDE DEF k
<1> DEFINE ms == <<Msg("init", NoSub)>>
<1>3. ms \in Seq(UpMessage) /\ Len(ms) = 1 /\ ms[1].type = "init"
  BY DEF Msg, UpMessage, Up
<1>4. Pushed(k, n, ms)
  <2>1. n = PushAll(k, ms)
    BY DEF Push
  <2> HIDE DEF n, ms
  <2> QED BY <1>2, <1>3, <2>1, PushAllIs
<1> HIDE DEF n, ms
<1>5. /\ n \in Socket /\ n.near = "open" /\ n.on = "resume" /\ n.far = w.net[s].far
      /\ n.down = w.net[s].down /\ n.running /\ n.timer /\ n.waiters = w.net[s].waiters
      /\ n.subs = w.net[s].subs
  BY <1>2, <1>4 DEF Pushed
<1>6. c \in Secure /\ c.ws = s /\ c.auth = "srp_resume_init_sent" /\ c.key = w.sc.key
      /\ c.promise = w.sc.promise
  BY DEF ClientOK, Client, Secure
<1> HIDE DEF c
<1>7. /\ ClientOK(u) /\ u.sc = c /\ u.cm = w.cm /\ u.net = w.net /\ u.bus = w.bus
      /\ u.subs = w.subs
  BY <1>6, ScReplaced
<1> HIDE DEF u
<1>8. /\ ClientOK(v) /\ v.net[s] = n /\ \A t \in Sockets \ {s} : v.net[t] = w.net[t]
      /\ v.cm = w.cm /\ v.sc = c /\ v.bus = w.bus /\ v.subs = w.subs
  <2>1. n \in Socket /\ IsFiniteSet(n.waiters) /\ ClientOK(u)
    BY <1>2, <1>5, <1>7
  <2> QED BY <1>7, <2>1, NetReplaced
<1> HIDE DEF v
<1>9. Telling(w.net[s]) /\ w.sc.promise = s /\ w.sc.auth # "authenticated"
      /\ w.sc.key # s
  BY ClientConstants DEF Tied, SocketLinked
<1>10. Len(n.up) \in Nat /\ Len(k.up) = 0
  BY <1>2, <1>5, <1>9, SocketLengths DEF Telling
<1>11. n.far # "gone" => Len(n.up) = 1 /\ n.up[1].type = "init"
  <2>1. ASSUME n.far # "gone"
        PROVE  Len(n.up) = Len(k.up) + Len(ms) /\ n.up[Len(k.up) + 1] = ms[1]
    BY <1>2, <1>3, <1>5, <2>1, <1>4 DEF Pushed
  <2> QED BY <1>3, <1>10, <2>1
<1>12. n.far = "gone" => Len(n.up) = 0
  BY <1>2, <1>4, <1>5, <1>10 DEF Pushed
<1>13. Telling(n)
  <2>1. n.far = "gone" => Closes(n)
    BY <1>5, <1>9 DEF Telling, Closes
  <2>2. \A i \in 1 .. Len(n.up) : n.up[i].type \in {"init", "proof", "garbled"}
    BY <1>11, <1>12
  <2>3. \A i \in 1 .. Len(n.down) : n.down[i].type = "close"
    BY <1>5
  <2> QED BY <1>5, <2>1, <2>2, <2>3 DEF Telling
<1>14. GoesOn(n)
  <2>1. n.far # "gone" => Shaking(n)
    BY <1>11 DEF Shaking, NoUp, UpShake
  <2> QED BY <1>5, <2>1 DEF GoesOn
<1>15. \A t \in Sockets : v.net[t].running => t = s
  BY <1>8, <1>9 DEF Tied, SocketLinked
<1>16. \A t \in Sockets \ {s} : SocketLinked(v, t)
  <2> TAKE t \in Sockets \ {s}
  <2>1. SocketLinked(w, t) /\ v.net[t] = w.net[t]
    BY <1>8 DEF Tied
  <2> QED BY <1>6, <1>8, <1>9, <2>1 DEF SocketLinked
<1>17. SocketLinked(v, s)
  BY <1>5, <1>6, <1>8, <1>9, <1>13 DEF SocketLinked
<1>18. Going(v, s)
  BY <1>6, <1>8, <1>14 DEF Going
<1>19. ~IsConnected(v) /\ ~IsConnected(w)
  BY <1>6, <1>8, <1>9 DEF IsConnected
<1>20. Tied(v, {})
  BY <1>6, <1>8, <1>15, <1>16, <1>17, <1>18, <1>19 DEF Tied
<1>21. Served(w) => Served(v)
  BY <1>5, <1>6, <1>8, <1>9, <1>19 DEF Served
<1>22. RestOK(v)
  BY <1>6, <1>8, <1>20, <1>21 DEF RestOK, Linked, Aimed, Shown
<1> QED BY <1>1, <1>22

\* The answer to the pairing, for those who wait.
LEMMA OnPairMessageRests ==
    ASSUME NEW w, ClientOK(w), Pursuit(w), NEW s \in Sockets, Tied(w, {s}), Aimed(w),
           Shown(w) => Served(w), w.net[s].near = "open", w.net[s].on = "pair",
           w.net[s].running,
           \A i \in 1 .. Len(w.net[s].down) : w.net[s].down[i].type = "close",
           NEW m
    PROVE  RestOK(OnPairMessage(w, s, m))
<1>1. CASE m.type \in {"offline", "unknown"}
  <2> DEFINE r == m.type # "unknown"
  <2>1. OnPairMessage(w, s, m) = Reject(CloseSocket(w, s), s, r)
    BY <1>1 DEF OnPairMessage
  <2>2. r \in BOOLEAN
    OBVIOUS
  <2> HIDE DEF r
  <2>3. RestOK(Reject(CloseSocket(w, s), s, r))
    BY <2>2, CloseRejectRests
  <2> QED BY <2>1, <2>3
<1>2. CASE m.type \notin {"offline", "unknown"}
  <2>1. OnPairMessage(w, s, m) = ResumeOnExistingSocket(w, s)
    BY <1>2 DEF OnPairMessage
  <2> QED BY <2>1, ResumeOnExistingSocketRests
<1> QED BY <1>1, <1>2

\* The attempt that was challenged sends its proof, or is orphaned.
LEMMA ResumeChallengedRests ==
    ASSUME NEW w, ClientOK(w), NEW s \in Sockets, Tied(w, {s}), Aimed(w),
           Shown(w) => Served(w), w.net[s].near = "open", w.net[s].on = "resume",
           w.net[s].running, w.net[s].timer, w.sc.ws \in {s, NoSocket}
    PROVE  RestOK(ResumeChallenged(w, s))
<1> DEFINE v == [w EXCEPT !.sc.auth = "srp_resume_proof_sent"]
<1>1. /\ ClientOK(v) /\ v.cm = w.cm /\ v.net = w.net /\ v.bus = w.bus
      /\ v.subs = w.subs /\ v.sc.ws = w.sc.ws /\ v.sc.key = w.sc.key
      /\ v.sc.promise = w.sc.promise /\ v.sc.auth = "srp_resume_proof_sent"
  BY AuthReplaced
<1>2. ResumeChallenged(w, s) =
        IF w.sc.ws = NoSocket THEN v
        ELSE [v EXCEPT !.net[w.sc.ws] =
                Push(@, IF w.sc.ws = s THEN "proof" ELSE "badproof")]
  BY DEF ResumeChallenged
<1> HIDE DEF v
<1>3. Tied(v, {s})
  BY <1>1, UnauthTied
<1>4. ~IsConnected(v) /\ ~IsConnected(w) /\ w.sc.promise = s
  BY <1>1, ClientConstants DEF IsConnected, Tied, SocketLinked
<1>5. Aimed(v) /\ (Shown(v) => Served(v))
  BY <1>1, <1>4 DEF Aimed, Shown, Served
<1>6. CASE w.sc.ws = NoSocket
  <2>1. Going(v, s)
    BY <1>1, <1>6 DEF Going, Orphaned
  <2>2. Tied(v, {})
    BY <1>3, <2>1 DEF Tied
  <2> QED BY <1>2, <1>5, <1>6, <2>2 DEF RestOK, Linked
<1>7. CASE w.sc.ws = s
  <2> DEFINE k == v.net[s]
  <2> DEFINE n == Push(k, "proof")
  <2> DEFINE u == [v EXCEPT !.net[s] = n]
  <2> DEFINE ms == <<Msg("proof", NoSub)>>
  <2>1. ResumeChallenged(w, s) = u
    BY <1>2, <1>7, ClientConstants
  <2>2. ms \in Seq(UpMessage) /\ Len(ms) = 1 /\ ms[1].type = "proof"
    BY DEF Msg, UpMessage, Up
  <2>3. k \in Socket /\ IsFiniteSet(k.waiters) /\ k.near = "open" /\ k.on = "resume"
    BY <1>1 DEF ClientOK, Client, Awaited
  <2>4. n = PushAll(k, ms)
    BY DEF Push
  <2> HIDE DEF n, ms, k
  <2>5. Pushed(k, n, ms)
    BY <2>2, <2>3, <2>4, PushAllIs
  <2>6. n \in Socket /\ IsFiniteSet(n.waiters) /\ n.waiters = k.waiters
        /\ n.near = "open" /\ n.on = "resume" /\ n.far = k.far
    BY <2>3, <2>5 DEF Pushed
  <2>7. /\ ClientOK(u) /\ u.net[s] = n /\ \A t \in Sockets \ {s} : u.net[t] = v.net[t]
        /\ u.cm = v.cm /\ u.sc = v.sc /\ u.bus = v.bus /\ u.subs = v.subs
    BY <1>1, <2>6, NetReplaced
  <2> HIDE DEF u
  <2>8. Keeps(k, n) /\ Serves(k, n)
    <3>1. \A i \in 1 .. Len(ms) : ms[i].type \in {"init", "proof", "garbled"}
      BY <2>2
    <3> QED BY <2>2, <2>3, <2>5, <3>1, PushKeeps
  <2>9. Tied(u, {s})
    BY <1>1, <1>3, <2>7, <2>8, KeptTied DEF k
  <2>10. n.far # "gone" => Shaking(n)
    <3>1. ASSUME n.far # "gone" PROVE Shaking(n)
      <4>1. Len(n.up) = Len(k.up) + 1 /\ n.up[Len(k.up) + 1].type = "proof"
        BY <2>2, <2>3, <2>5, <2>6, <3>1 DEF Pushed
      <4>2. Len(k.up) + 1 \in 1 .. Len(n.up)
        BY <2>3, <4>1, SocketLengths
      <4> QED BY <4>1, <4>2 DEF Shaking, NoUp, UpShake
    <3> QED BY <3>1
  <2>11. Going(u, s)
    BY <1>1, <1>7, <2>6, <2>7, <2>10 DEF Going, GoesOn
  <2>12. Tied(u, {})
    BY <2>9, <2>11 DEF Tied
  <2>13. u.sc.promise # NoSocket => u.net[u.sc.promise].waiters = v.net[v.sc.promise].waiters
    BY <1>1, <1>4, <2>6, <2>7 DEF k
  <2>14. RestOK(u)
    BY <1>4, <1>5, <2>7, <2>12, <2>13 DEF RestOK, Linked, Aimed, Shown, Served
  <2> QED BY <2>1, <2>14
<1> QED BY <1>6, <1>7

\* The attempt that is resumed makes the connection, if it still has its socket, and
\* whoever awaited it subscribes.
LEMMA SessionResumedRests ==
    ASSUME NEW w, ClientOK(w), Pursuit(w), Room(w), NEW s \in Sockets, Tied(w, {s}),
           Aimed(w), Shown(w) => Served(w), w.net[s].near = "open",
           w.net[s].on = "resume", w.net[s].running,
           w.net[s].far \in {"authed", "gone"}, w.sc.ws \in {s, NoSocket}
    PROVE  RestOK(SessionResumed(w, s))
<1> DEFINE c == [w.sc EXCEPT !.key = s, !.auth = "authenticated"]
<1> DEFINE v == [w EXCEPT !.sc = c]
<1> DEFINE n == [v.net[s] EXCEPT !.on = "message"]
<1> DEFINE u == [v EXCEPT !.net[s] = n]
<1> DEFINE x == IF w.sc.ws = NoSocket THEN v ELSE u
<1>1. SessionResumed(w, s) = Resolve(x, s)
  <2> DEFINE a == [w EXCEPT !.sc.key = s, !.sc.auth = "authenticated"]
  <2> DEFINE b == IF w.sc.ws = NoSocket THEN a ELSE [a EXCEPT !.net[w.sc.ws].on = "message"]
  <2>1. SessionResumed(w, s) =
          Resolve(IF w.sc.ws \in {s, NoSocket} THEN b
                  ELSE [b EXCEPT !.net[w.sc.ws] = Push(@, "garbled")], s)
    BY DEF SessionResumed
  <2>2. a = v
    BY DEF ClientOK, Client
  <2> HIDE DEF a, v
  <2>3. b = x
    BY <2>2, ClientConstants
  <2> HIDE DEF b, x
  <2> QED BY <2>1, <2>3
<1>2. /\ c \in Secure /\ c.ws = w.sc.ws /\ c.key = s /\ c.auth = "authenticated"
      /\ c.promise = w.sc.promise
  BY DEF ClientOK, Client, Secure
<1> HIDE DEF c
<1>3. /\ ClientOK(v) /\ v.sc = c /\ v.cm = w.cm /\ v.net = w.net /\ v.subs = w.subs
      /\ v.bus = w.bus
  BY <1>2, ScReplaced
<1> HIDE DEF v
<1>4. /\ n \in Socket /\ IsFiniteSet(n.waiters) /\ n.near = "open" /\ n.on = "message"
      /\ n.far = w.net[s].far /\ n.up = w.net[s].up /\ n.down = w.net[s].down
      /\ n.running /\ n.timer = w.net[s].timer /\ n.waiters = w.net[s].waiters
      /\ n.subs = w.net[s].subs
  <2> DEFINE k == v.net[s]
  <2>1. k \in Socket /\ IsFiniteSet(k.waiters) /\ k = w.net[s]
    BY <1>3 DEF ClientOK, Client, Awaited
  <2>2. n = [k EXCEPT !.on = "message"]
    OBVIOUS
  <2> HIDE DEF k, n
  <2>3. /\ n \in Socket /\ n.near = k.near /\ n.on = "message"
        /\ n.far = k.far /\ n.up = k.up /\ n.down = k.down
        /\ n.running = k.running /\ n.timer = k.timer /\ n.waiters = k.waiters
        /\ n.subs = k.subs
    BY <2>1, <2>2 DEF Socket
  <2> QED BY <2>1, <2>3
<1> HIDE DEF n
<1>5. /\ ClientOK(u) /\ u.net[s] = n /\ \A t \in Sockets \ {s} : u.net[t] = v.net[t]
      /\ u.cm = v.cm /\ u.sc = v.sc /\ u.bus = v.bus /\ u.subs = v.subs
  BY <1>3, <1>4, NetReplaced
<1> HIDE DEF u
<1>6. /\ ClientOK(x) /\ x.cm = w.cm /\ x.sc = c /\ x.bus = w.bus /\ x.subs = w.subs
      /\ \A t \in Sockets \ {s} : x.net[t] = w.net[t]
      /\ x.net[s].near = "open"
      /\ x.net[s].on = IF w.sc.ws = NoSocket THEN "resume" ELSE "message"
      /\ x.net[s].far = w.net[s].far /\ x.net[s].up = w.net[s].up
      /\ x.net[s].down = w.net[s].down /\ x.net[s].running
      /\ x.net[s].timer = w.net[s].timer /\ x.net[s].waiters = w.net[s].waiters
      /\ x.net[s].subs = w.net[s].subs
  <2>1. CASE w.sc.ws = NoSocket
    BY <1>3, <2>1
  <2>2. CASE w.sc.ws # NoSocket
    BY <1>3, <1>4, <1>5, <2>2
  <2> QED BY <2>1, <2>2
<1> HIDE DEF x
<1>7. w.sc.promise = s /\ ~IsConnected(w) /\ Telling(w.net[s])
  BY ClientConstants DEF Tied, SocketLinked, IsConnected
<1> DEFINE z == Settled(x, s)
<1>8. SettledFrom(x, z, s)
  BY <1>6, SettledIs
<1> HIDE DEF z
<1>9. /\ z.bus = w.bus /\ z.subs = w.subs
      /\ z.sc.ws = w.sc.ws /\ z.sc.key = s /\ z.sc.auth = "authenticated"
      /\ z.sc.promise = NoSocket
      /\ \A t \in Sockets \ {s} : z.net[t] = w.net[t]
      /\ z.net[s].near = "open" /\ z.net[s].on = x.net[s].on
      /\ z.net[s].far = w.net[s].far /\ z.net[s].up = w.net[s].up
      /\ z.net[s].down = w.net[s].down /\ z.net[s].subs = w.net[s].subs
      /\ z.net[s].running = FALSE /\ z.net[s].timer = FALSE
  BY <1>2, <1>6, <1>8 DEF SettledFrom
<1>10. Tied(z, {})
  <2>1. Telling(z.net[s])
    BY <1>6, <1>7, <1>9 DEF Telling, Closes
  <2>2. \A t \in Sockets : ~z.net[t].running
    BY <1>7, <1>9 DEF Tied, SocketLinked
  <2>3. \A t \in Sockets \ {s} : SocketLinked(z, t)
    <3> TAKE t \in Sockets \ {s}
    <3>1. SocketLinked(w, t) /\ z.net[t] = w.net[t] /\ ~z.net[t].running
      BY <1>9, <2>2 DEF Tied
    <3>2. w.sc.ws # t
      BY ClientConstants
    <3> QED BY <1>9, <3>1, <3>2, ClientConstants DEF SocketLinked
  <2>4. SocketLinked(z, s)
    <3>1. z.net[s].on = "resume" => w.sc.ws = NoSocket
      BY <1>6, <1>9
    <3>2. z.net[s].on = "message" => w.sc.ws = s
      BY <1>6, <1>9
    <3>3. z.net[s].on \in {"resume", "message"}
      BY <1>6, <1>9
    <3> QED BY <1>9, <2>1, <3>1, <3>2, <3>3, ClientConstants DEF SocketLinked
  <2>5. IsConnected(z) =>
          z.net[z.sc.ws].on = "message" /\ z.net[z.sc.ws].far \in {"authed", "gone"}
    BY <1>6, <1>9 DEF IsConnected, IsOpen
  <2>6. z.bus # NoSub => z.bus \in z.subs
    BY <1>9 DEF Tied
  <2> QED BY <1>9, <2>2, <2>3, <2>4, <2>5, <2>6 DEF Tied
<1>11. Keyed(x) /\ x.sc.auth = "authenticated"
  BY <1>2, <1>6, ClientConstants DEF Keyed, IsConnected, IsOpen
<1>12. Pursuit(x) /\ Room(x)
  <2>1. \A t \in Sockets : x.net[t].near = w.net[t].near
    BY <1>6
  <2> QED BY <1>6, <2>1 DEF Pursuit, Room
<1>13. /\ x.cm.current \in {s, NoSocket}
       /\ x.cm.current = s => x.bus = NoSub
  BY <1>6, <1>7, ClientConstants DEF Aimed
<1>14. Shown(x) => x.bus # NoSub /\ x.bus \in Subscribers(x, s)
  <2>1. w.bus \in Subs \cup {NoSub}
    BY DEF ClientOK, Client
  <2>2. Shown(w) => w.bus # NoSub /\ w.bus \in w.net[s].waiters
    BY <1>7 DEF Served
  <2> QED BY <1>6, <2>1, <2>2, ClientConstants DEF Shown, Subscribers
<1>15. RestOK(Resolve(x, s))
  BY <1>6, <1>10, <1>11, <1>12, <1>13, <1>14, ResolveRests DEF z
<1> QED BY <1>1, <1>15

\* An answer to the handshake, for those who wait: m was read from the socket s.
LEMMA OnResumeMessageRests ==
    ASSUME NEW w, ClientOK(w), Pursuit(w), Room(w), NEW s \in Sockets, Tied(w, {s}),
           Aimed(w), Shown(w) => Served(w), w.net[s].near = "open",
           w.net[s].on = "resume", w.net[s].running, w.sc.ws \in {s, NoSocket},
           NEW m, m.type \in DownShake,
           m.type = "resumed" => w.net[s].far \in {"authed", "gone"}
    PROVE  RestOK(OnResumeMessage(w, s, m))
<1> DEFINE n == [w.net[s] EXCEPT !.timer = TRUE]
<1> DEFINE v == [w EXCEPT !.net[s] = n]
<1>1. OnResumeMessage(w, s, m) =
        CASE m.type = "challenge" -> ResumeChallenged(v, s)
          [] m.type = "resumed" -> SessionResumed(v, s)
          [] OTHER -> ResumeFails(v, s)
  BY DEF OnResumeMessage
<1>2. /\ n \in Socket /\ IsFiniteSet(n.waiters) /\ n.near = "open" /\ n.on = "resume"
      /\ n.far = w.net[s].far /\ n.up = w.net[s].up /\ n.down = w.net[s].down
      /\ n.running /\ n.timer /\ n.waiters = w.net[s].waiters /\ n.subs = w.net[s].subs
  <2> DEFINE k == w.net[s]
  <2>1. k \in Socket /\ IsFiniteSet(k.waiters)
    BY DEF ClientOK, Client, Awaited
  <2>2. n = [k EXCEPT !.timer = TRUE]
    OBVIOUS
  <2> HIDE DEF k, n
  <2>3. /\ n \in Socket /\ n.near = k.near /\ n.on = k.on
        /\ n.far = k.far /\ n.up = k.up /\ n.down = k.down
        /\ n.running = k.running /\ n.timer = TRUE /\ n.waiters = k.waiters
        /\ n.subs = k.subs
    BY <2>1, <2>2 DEF Socket
  <2> QED BY <2>1, <2>3 DEF k
<1> HIDE DEF n
<1>3. /\ ClientOK(v) /\ v.net[s] = n /\ \A t \in Sockets \ {s} : v.net[t] = w.net[t]
      /\ v.cm = w.cm /\ v.sc = w.sc /\ v.bus = w.bus /\ v.subs = w.subs
  BY <1>2, NetReplaced
<1> HIDE DEF v
<1>4. w.sc.promise = s /\ ~IsConnected(w) /\ Telling(w.net[s])
  BY ClientConstants DEF Tied, SocketLinked, IsConnected
<1>5. Telling(n)
  BY <1>2, <1>4 DEF Telling, Closes
<1>6. Tied(v, {s})
  <2>1. \A t \in Sockets \ {s} : SocketLinked(v, t)
    <3> TAKE t \in Sockets \ {s}
    <3>1. SocketLinked(w, t) /\ v.net[t] = w.net[t]
      BY <1>3 DEF Tied
    <3> QED BY <1>3, <3>1 DEF SocketLinked
  <2>2. SocketLinked(v, s)
    <3>1. SocketLinked(w, s)
      BY DEF Tied
    <3> QED BY <1>2, <1>3, <1>5, <3>1 DEF SocketLinked
  <2>3. \A t \in Sockets : v.net[t].running => t = s
    BY <1>3, <1>4 DEF Tied, SocketLinked
  <2>4. ~IsConnected(v) /\ v.sc.auth # "authenticated"
    BY <1>3, <1>4, ClientConstants DEF IsConnected, Tied
  <2> QED BY <1>3, <2>1, <2>2, <2>3, <2>4 DEF Tied
<1>7. Pursuit(v) /\ Room(v)
  <2>1. \A t \in Sockets : v.net[t].near = w.net[t].near
    BY <1>2, <1>3
  <2> QED BY <1>3, <2>1 DEF Pursuit, Room
<1>8. Aimed(v) /\ (Shown(v) => Served(v))
  BY <1>2, <1>3, <1>4 DEF Aimed, Shown, Served
<1>9. CASE m.type = "challenge"
  <2>1. OnResumeMessage(w, s, m) = ResumeChallenged(v, s)
    BY <1>1, <1>9
  <2> QED BY <1>2, <1>3, <1>6, <1>8, <2>1, ResumeChallengedRests
<1>10. CASE m.type = "resumed"
  <2>1. OnResumeMessage(w, s, m) = SessionResumed(v, s)
    BY <1>1, <1>10
  <2> QED BY <1>2, <1>3, <1>6, <1>7, <1>8, <1>10, <2>1, SessionResumedRests
<1> QED BY <1>9, <1>10 DEF DownShake

\* A message over the connection, for those who wait.
LEMMA OnMessageRests ==
    ASSUME NEW w, ClientOK(w), Room(w), Keyed(w), NEW s \in Sockets, RestOK(w),
           w.net[s].near = "open", w.net[s].on = "message", NEW m,
           m.type = "opened" /\ m.sub \in Subs => m.sub \in w.net[s].subs
    PROVE  RestOK(OnMessage(w, s, m))
<1>1. Tied(w, {}) /\ Aimed(w) /\ (Shown(w) => Served(w))
  BY DEF RestOK, Linked
<1>2. CASE OnMessage(w, s, m) = w
  BY <1>2
<1>3. CASE w.sc.key = s /\ m.type = "opened" /\ m.sub \in w.subs
  <2>1. OnMessage(w, s, m) = MarkConnected(w)
    BY <1>3 DEF OnMessage
  <2>2. w.sc.ws = s /\ IsConnected(w)
    BY <1>1, <1>3, ClientConstants DEF Tied, SocketLinked, IsConnected, IsOpen
  <2>3. Heard(w.net[s], w.subs)
    BY <1>3 DEF Heard, ClientOK, Client
  <2>4. w.bus # NoSub => Served(w)
    BY <2>2, <2>3 DEF Served
  <2> QED BY <1>1, <2>1, <2>4, MarkConnectedRests
<1>4. CASE OnMessage(w, s, m) = [w EXCEPT !.cm.ping = FALSE]
  <2> DEFINE c == [w.cm EXCEPT !.ping = FALSE]
  <2> DEFINE v == [w EXCEPT !.cm = c]
  <2>1. OnMessage(w, s, m) = v
    BY <1>4
  <2>2. /\ c \in Manager /\ c.current = w.cm.current /\ c.heartbeat = w.cm.heartbeat
        /\ c.started = w.cm.started /\ c.state = w.cm.state
    BY DEF ClientOK, Client, Manager
  <2> HIDE DEF c
  <2>3. ClientOK(v) /\ v.cm = c /\ v.sc = w.sc /\ v.net = w.net /\ v.bus = w.bus
        /\ v.subs = w.subs
    BY <2>2, CmReplaced
  <2> HIDE DEF v
  <2>4. v.bus # NoSub => v.bus \in v.subs
    BY <1>1, <2>3 DEF Tied
  <2>5. Tied(v, {}) /\ (IsConnected(v) <=> IsConnected(w))
    BY <1>1, <2>3, <2>4, TiedSame
  <2>6. RestOK(v)
    BY <1>1, <2>2, <2>3, <2>5 DEF RestOK, Linked, Aimed, Shown, Served
  <2> QED BY <2>1, <2>6
<1> QED
  <2>1. CASE w.sc.key # s
    BY <1>2, <2>1 DEF OnMessage
  <2>2. CASE /\ w.sc.key = s /\ ~(m.type = "opened" /\ m.sub \in w.subs)
             /\ m.type = "pong" /\ IsLastPong(w.net[s])
    BY <1>4, <2>2 DEF OnMessage
  <2>3. CASE /\ w.sc.key = s /\ ~(m.type = "opened" /\ m.sub \in w.subs)
             /\ ~(m.type = "pong" /\ IsLastPong(w.net[s]))
    BY <1>2, <2>3 DEF OnMessage
  <2> QED BY <1>3, <2>1, <2>2, <2>3

\* The close event, for those who wait; v is w, or w after the message that brings it.
LEMMA OnCloseRests ==
    ASSUME NEW w, NEW v, NEW s \in Sockets, ClientOK(w), ClientOK(v), Pursuit(w),
           RestOK(w), w.net[s].near \in {"open", "closing"},
           v.cm = w.cm, v.sc = w.sc, v.bus = w.bus, v.subs = w.subs,
           \A t \in Sockets \ {s} : v.net[t] = w.net[t],
           v.net[s].on = w.net[s].on,
           v.net[s].running = w.net[s].running, v.net[s].timer = w.net[s].timer,
           v.net[s].waiters = w.net[s].waiters,
           \A i \in 1 .. Len(v.net[s].down) :
             v.net[s].down[i].type = "opened" /\ v.net[s].down[i].sub \in Subs
               => v.net[s].down[i].sub \in v.net[s].subs
    PROVE  RestOK(OnClose(v, s))
<1> DEFINE x == [v EXCEPT !.net[s].near = "closed"]
<1> DEFINE n == [v.net[s] EXCEPT !.near = "closed"]
<1> DEFINE y == [v EXCEPT !.net[s] = n]
<1>1. /\ v.net[s].on = "pair" => OnClose(v, s) = Reject(x, s, TRUE)
      /\ v.net[s].on \in {"resume", "message"} => OnClose(v, s) = HandleSocketClose(x, s)
      /\ v.net[s].on \notin {"pair", "resume", "message"} => OnClose(v, s) = x
  <2> HIDE DEF x
  <2> QED BY DEF OnClose, x
<1>2. x = y
  OBVIOUS
<1> HIDE DEF x
<1>3. /\ n \in Socket /\ IsFiniteSet(n.waiters) /\ n.near = "closed"
      /\ n.on = v.net[s].on /\ n.running = v.net[s].running
      /\ n.timer = v.net[s].timer /\ n.waiters = v.net[s].waiters
      /\ n.down = v.net[s].down /\ n.subs = v.net[s].subs
  <2> DEFINE k == v.net[s]
  <2>1. k \in Socket /\ IsFiniteSet(k.waiters)
    BY DEF ClientOK, Client, Awaited
  <2>2. n = [k EXCEPT !.near = "closed"]
    OBVIOUS
  <2> HIDE DEF k, n
  <2>3. /\ n \in Socket /\ n.near = "closed" /\ n.on = k.on /\ n.running = k.running
        /\ n.timer = k.timer /\ n.waiters = k.waiters /\ n.down = k.down
        /\ n.subs = k.subs
    BY <2>1, <2>2 DEF Socket
  <2> QED BY <2>1, <2>3 DEF k
<1> HIDE DEF n
<1>4. /\ ClientOK(y) /\ y.net[s] = n /\ \A t \in Sockets \ {s} : y.net[t] = v.net[t]
      /\ y.cm = v.cm /\ y.sc = v.sc /\ y.bus = v.bus /\ y.subs = v.subs
  BY <1>3, NetReplaced
<1> HIDE DEF y
<1>5. /\ w.net[s].on = "pair" => RestOK(Reject(y, s, TRUE))
      /\ w.net[s].on \in {"resume", "message"} => RestOK(HandleSocketClose(y, s))
      /\ w.net[s].on \notin {"pair", "resume", "message"} => RestOK(y)
  <2>1. /\ y.cm = w.cm /\ y.sc = w.sc /\ y.bus = w.bus /\ y.subs = w.subs
        /\ \A t \in Sockets \ {s} : y.net[t] = w.net[t]
        /\ y.net[s].near = "closed" /\ y.net[s].on = w.net[s].on
        /\ y.net[s].running = w.net[s].running /\ y.net[s].timer = w.net[s].timer
        /\ y.net[s].waiters = w.net[s].waiters /\ ClientOK(y)
        /\ y.net[s].down = v.net[s].down /\ y.net[s].subs = v.net[s].subs
    BY <1>3, <1>4
  <2>2. \A i \in 1 .. Len(y.net[s].down) :
          y.net[s].down[i].type = "opened" /\ y.net[s].down[i].sub \in Subs
            => y.net[s].down[i].sub \in y.net[s].subs
    BY <2>1
  <2> QED BY <2>1, <2>2, ClosedRests
<1> QED BY <1>1, <1>2, <1>5

\* Whatever is received, those who wait go on or are told.
LEMMA ReceivedRests ==
    ASSUME NEW w, ClientOK(w), Pursuit(w), Room(w), KeysOK(w), RestOK(w),
           NEW s \in Sockets, w.net[s].near = "open", w.net[s].down # <<>>
    PROVE  LET m == Head(w.net[s].down)
               v == [w EXCEPT !.net[s].down = Tail(@)]
           IN RestOK(CASE m.type = "close" -> OnClose(v, s)
                       [] m.type # "close" /\ w.net[s].on = "pair" -> OnPairMessage(v, s, m)
                       [] m.type # "close" /\ w.net[s].on = "resume" -> OnResumeMessage(v, s, m)
                       [] m.type # "close" /\ w.net[s].on = "message" -> OnMessage(v, s, m)
                       [] OTHER -> v)
<1> DEFINE k == w.net[s]
<1> DEFINE m == Head(k.down)
<1> DEFINE v == [w EXCEPT !.net[s].down = Tail(@)]
<1> DEFINE u == CASE m.type = "close" -> OnClose(v, s)
                  [] m.type # "close" /\ k.on = "pair" -> OnPairMessage(v, s, m)
                  [] m.type # "close" /\ k.on = "resume" -> OnResumeMessage(v, s, m)
                  [] m.type # "close" /\ k.on = "message" -> OnMessage(v, s, m)
                  [] OTHER -> v
<1>1. HasRead(w, v, s)
  BY ReadIs
<1> HIDE DEF v
<1>2. Tied(w, {}) /\ Telling(k) /\ SocketOK(k) /\ k \in Socket
  BY DEF RestOK, Linked, Tied, SocketLinked, KeysOK, ClientOK, Client
<1>3. /\ m.type # "close" => Telling(v.net[s])
      /\ k.on = "pair" => \A i \in 1 .. Len(v.net[s].down) : v.net[s].down[i].type = "close"
      /\ k.on = "resume" => m.type \in DownShake \cup {"close"}
      /\ m.type = "opened" /\ m.sub \in Subs => m.sub \in k.subs
      /\ \A i \in 1 .. Len(v.net[s].down) :
           v.net[s].down[i].type = "opened" /\ v.net[s].down[i].sub \in Subs
             => v.net[s].down[i].sub \in v.net[s].subs
  BY <1>1, <1>2, ReadTelling
<1>4. /\ ClientOK(v) /\ v.cm = w.cm /\ v.sc = w.sc /\ v.bus = w.bus /\ v.subs = w.subs
      /\ \A t \in Sockets \ {s} : v.net[t] = w.net[t]
      /\ v.net[s].near = "open" /\ v.net[s].on = k.on
      /\ v.net[s].far = k.far /\ v.net[s].running = k.running
      /\ v.net[s].timer = k.timer /\ v.net[s].waiters = k.waiters
      /\ v.net[s].subs = k.subs /\ v.net[s].up = k.up
  BY <1>1 DEF HasRead
<1>5. Pursuit(v) /\ Room(v) /\ Keyed(v)
  <2>1. \A t \in Sockets : v.net[t].near = w.net[t].near
    BY <1>4
  <2>2. w.sc.ws \in Sockets \cup {NoSocket}
    BY DEF ClientOK, Client, Secure
  <2>3. IsConnected(v) => IsConnected(w)
    BY <1>4, <2>1, <2>2 DEF IsConnected, IsOpen
  <2> QED BY <1>4, <2>1, <2>2, <2>3 DEF Pursuit, Room, Keyed, KeysOK
<1>6. m = k.down[1] /\ Len(k.down) \in Nat \ {0}
  BY <1>2, TailFacts
<1>7. k.on = "pair" => k.running
  BY <1>2 DEF SocketOK
<1>8. k.on = "resume" /\ m.type # "close" =>
        /\ k.running /\ w.sc.ws \in {s, NoSocket}
        /\ m.type = "resumed" => k.far \in {"authed", "gone"}
  <2>1. ASSUME k.on = "resume", m.type # "close"
        PROVE  /\ k.running /\ w.sc.ws \in {s, NoSocket}
               /\ m.type = "resumed" => k.far \in {"authed", "gone"}
    <3>1. m.type \in DownShake
      BY <1>3, <2>1
    <3>2. 1 \in 1 .. Len(k.down)
      BY <1>6
    <3>3. Shaking(k)
      BY <1>6, <3>1, <3>2 DEF Shaking, NoDown
    <3>4. Resuming(k) /\ k.running
      BY <1>2, <2>1, <3>3 DEF SocketOK
    <3>5. w.sc.ws \in {s, NoSocket}
      BY <1>2, <2>1, <3>4 DEF Tied, Going
    <3>6. m.type = "resumed" => k.far \in {"authed", "gone"}
      BY <1>6, <3>4 DEF Resuming, InitSent, Challenging, Proving, Answered, Severed
    <3> QED BY <3>4, <3>5, <3>6
  <2> QED BY <2>1
<1> HIDE DEF m
<1>9. ASSUME m.type # "close"
      PROVE  /\ Tied(v, {s}) /\ Aimed(v) /\ (Shown(v) => Served(v))
             /\ k.on \notin {"pair", "resume"} => Tied(v, {})
  BY <1>1, <1>9, ReadRests DEF m
<1>10. ASSUME m.type = "close" PROVE RestOK(u)
  <2>1. u = OnClose(v, s)
    BY <1>10
  <2> HIDE DEF u
  <2>2. RestOK(OnClose(v, s))
    BY <1>3, <1>4, OnCloseRests
  <2> QED BY <2>1, <2>2
<1>11. ASSUME m.type # "close" /\ k.on = "pair" PROVE RestOK(u)
  <2>1. u = OnPairMessage(v, s, m)
    BY <1>11
  <2> HIDE DEF u
  <2>2. RestOK(OnPairMessage(v, s, m))
    BY <1>3, <1>4, <1>5, <1>7, <1>9, <1>11, OnPairMessageRests
  <2> QED BY <2>1, <2>2
<1>12. ASSUME m.type # "close" /\ k.on = "resume" PROVE RestOK(u)
  <2>1. u = OnResumeMessage(v, s, m)
    BY <1>12
  <2> HIDE DEF u
  <2>2. RestOK(OnResumeMessage(v, s, m))
    BY <1>3, <1>4, <1>5, <1>8, <1>9, <1>12, OnResumeMessageRests
  <2> QED BY <2>1, <2>2
<1>13. ASSUME m.type # "close" /\ k.on \notin {"pair", "resume"} PROVE RestOK(u)
  <2>1. RestOK(v)
    BY <1>9, <1>13 DEF RestOK, Linked
  <2>2. CASE k.on = "message"
    <3>1. u = OnMessage(v, s, m)
      BY <1>13, <2>2
    <3> HIDE DEF u
    <3>2. RestOK(OnMessage(v, s, m))
      BY <1>3, <1>4, <1>5, <2>1, <2>2, OnMessageRests
    <3> QED BY <3>1, <3>2
  <2>3. CASE k.on # "message"
    <3>1. u = v
      BY <1>13, <2>3
    <3> HIDE DEF u
    <3> QED BY <2>1, <3>1
  <2> QED BY <2>2, <2>3
<1>14. RestOK(u)
  <2> HIDE DEF u
  <2> QED BY <1>10, <1>11, <1>12, <1>13
<1> QED BY <1>14 DEF m, v

-----------------------------------------------------------------------------
(* The sockets' own events, for those who wait.                            *)

\* A socket that opens waits to be paired.
LEMMA OpensRests ==
    ASSUME NEW w, ClientOK(w), KeysOK(w), RestOK(w), NEW s \in Sockets,
           w.net[s].near = "connecting"
    PROVE  RestOK([w EXCEPT !.net[s].near = "open", !.net[s].far = "relay",
                            !.net[s].on = "pair"])
<1> DEFINE k == w.net[s]
<1> DEFINE n == [k EXCEPT !.near = "open", !.far = "relay", !.on = "pair"]
<1> DEFINE v == [w EXCEPT !.net[s] = n]
<1>1. v = [w EXCEPT !.net[s].near = "open", !.net[s].far = "relay", !.net[s].on = "pair"]
  BY DEF ClientOK, Client
<1>2. k \in Socket /\ IsFiniteSet(k.waiters) /\ Fresh(k)
  BY DEF ClientOK, Client, Awaited, KeysOK, SocketOK
<1>3. /\ n \in Socket /\ n.near = "open" /\ n.far = "relay" /\ n.on = "pair"
      /\ n.up = k.up /\ n.down = k.down /\ n.running = k.running /\ n.timer = k.timer
      /\ n.waiters = k.waiters /\ n.subs = k.subs
  <2> HIDE DEF k
  <2> QED BY <1>2 DEF Socket
<1> HIDE DEF n
<1>4. /\ ClientOK(v) /\ v.net[s] = n /\ \A t \in Sockets \ {s} : v.net[t] = w.net[t]
      /\ v.cm = w.cm /\ v.sc = w.sc /\ v.bus = w.bus /\ v.subs = w.subs
  BY <1>2, <1>3, NetReplaced
<1> HIDE DEF v
<1>5. Tied(w, {}) /\ Aimed(w) /\ (Shown(w) => Served(w))
  BY DEF RestOK, Linked
<1>6. w.sc.ws # s /\ w.sc.key # s
  BY <1>5, ClientConstants DEF KeysOK, Tied, SocketLinked
<1>7. Telling(n) /\ GoesOn(n)
  <2>1. Len(n.up) = 0 /\ Len(n.down) = 0
    BY <1>2, <1>3 DEF Fresh
  <2>2. Telling(k)
    BY <1>5 DEF Tied, SocketLinked
  <2> QED BY <1>3, <2>1, <2>2 DEF Telling, GoesOn
<1>8. \A t \in Sockets : SocketLinked(v, t)
  BY <1>3, <1>4, <1>5, <1>6, <1>7 DEF Tied, SocketLinked
<1>9. \A t \in Sockets : v.net[t].running => Going(v, t)
  BY <1>3, <1>4, <1>5, <1>7 DEF Tied, Going, Orphaned
<1>10. (IsConnected(v) <=> IsConnected(w)) /\ (w.sc.ws # NoSocket => v.net[w.sc.ws] = w.net[w.sc.ws])
  BY <1>4, <1>6 DEF IsConnected, IsOpen, ClientOK, Client, Secure
<1>11. Tied(v, {})
  BY <1>4, <1>5, <1>8, <1>9, <1>10 DEF Tied, IsConnected, IsOpen
<1>12. Shown(v) => Served(v)
  <2>1. w.sc.promise \in Sockets \cup {NoSocket}
    BY DEF ClientOK, Client, Secure
  <2>2. w.sc.promise # NoSocket =>
          v.net[w.sc.promise].waiters = w.net[w.sc.promise].waiters
    BY <1>3, <1>4, <2>1
  <2> QED BY <1>4, <1>5, <1>10, <2>2 DEF Shown, Served, IsConnected, IsOpen
<1>13. RestOK(v)
  BY <1>4, <1>5, <1>11, <1>12 DEF RestOK, Linked, Aimed
<1> QED BY <1>1, <1>13

\* A socket that does not open rejects its attempt.
LEMMA OpenFailsRests ==
    ASSUME NEW w, ClientOK(w), Pursuit(w), KeysOK(w), RestOK(w), NEW s \in Sockets,
           w.net[s].near = "connecting"
    PROVE  RestOK(Reject(CloseSocket([w EXCEPT !.net[s].on = "none"], s), s, TRUE))
<1> DEFINE k == w.net[s]
<1> DEFINE n == [k EXCEPT !.on = "none"]
<1> DEFINE v == [w EXCEPT !.net[s] = n]
<1>1. v = [w EXCEPT !.net[s].on = "none"]
  OBVIOUS
<1>2. k \in Socket /\ IsFiniteSet(k.waiters) /\ Fresh(k)
  BY DEF ClientOK, Client, Awaited, KeysOK, SocketOK
<1>3. /\ n \in Socket /\ n.near = "connecting" /\ n.on = "none"
      /\ n.up = k.up /\ n.down = k.down /\ n.running = k.running /\ n.timer = k.timer
      /\ n.waiters = k.waiters /\ n.subs = k.subs /\ n.far = k.far
  <2> HIDE DEF k
  <2> QED BY <1>2 DEF Socket, Fresh
<1> HIDE DEF n
<1>4. /\ ClientOK(v) /\ v.net[s] = n /\ \A t \in Sockets \ {s} : v.net[t] = w.net[t]
      /\ v.cm = w.cm /\ v.sc = w.sc /\ v.bus = w.bus /\ v.subs = w.subs
  BY <1>2, <1>3, NetReplaced
<1> HIDE DEF v
<1>5. Tied(w, {}) /\ Aimed(w) /\ (Shown(w) => Served(w))
  BY DEF RestOK, Linked
<1>6. w.sc.ws # s /\ w.sc.key # s
  BY <1>5, ClientConstants DEF KeysOK, Tied, SocketLinked
<1>7. Telling(n)
  <2>1. Telling(k)
    BY <1>5 DEF Tied, SocketLinked
  <2> QED BY <1>3, <2>1 DEF Telling
<1>8. \A t \in Sockets : SocketLinked(v, t)
  BY <1>3, <1>4, <1>5, <1>6, <1>7 DEF Tied, SocketLinked
<1>9. \A t \in Sockets \ {s} : v.net[t].running => Going(v, t)
  BY <1>4, <1>5 DEF Tied, Going, Orphaned
<1>10. (IsConnected(v) <=> IsConnected(w)) /\ (w.sc.ws # NoSocket => v.net[w.sc.ws] = w.net[w.sc.ws])
  BY <1>4, <1>6 DEF IsConnected, IsOpen, ClientOK, Client, Secure
<1>11. Tied(v, {s})
  BY <1>4, <1>5, <1>8, <1>9, <1>10 DEF Tied, IsConnected, IsOpen
<1>12. Shown(v) => Served(v)
  <2>1. w.sc.promise \in Sockets \cup {NoSocket}
    BY DEF ClientOK, Client, Secure
  <2>2. w.sc.promise # NoSocket =>
          v.net[w.sc.promise].waiters = w.net[w.sc.promise].waiters
    BY <1>3, <1>4, <2>1
  <2> QED BY <1>4, <1>5, <1>10, <2>2 DEF Shown, Served, IsConnected, IsOpen
<1>13. Aimed(v) /\ Pursuit(v) /\ v.net[s].running /\ v.net[s].near = "connecting"
  BY <1>2, <1>3, <1>4, <1>5 DEF Aimed, Pursuit, Fresh
<1>14. RestOK(Reject(CloseSocket(v, s), s, TRUE))
  BY <1>4, <1>11, <1>12, <1>13, CloseRejectRests
<1> QED BY <1>1, <1>14

\* "Waiting for server timed out" rejects its attempt.
LEMMA PairTimeoutRests ==
    ASSUME NEW w, ClientOK(w), Pursuit(w), KeysOK(w), RestOK(w), NEW s \in Sockets,
           w.net[s].near = "open", w.net[s].on = "pair"
    PROVE  RestOK(Reject(CloseSocket(w, s), s, TRUE))
<1>1. Tied(w, {s}) /\ Aimed(w) /\ (Shown(w) => Served(w))
  BY DEF RestOK, Linked, Tied
<1>2. w.net[s].running
  BY DEF KeysOK, SocketOK
<1> QED BY <1>1, <1>2, CloseRejectRests

\* The timer of a resume that is out does not matter to anyone who waits, unless it
\* was to end an attempt without its socket.
LEMMA TimerOffRests ==
    ASSUME NEW w, ClientOK(w), RestOK(w), NEW s \in Sockets, NEW v,
           v = [w EXCEPT !.net[s].timer = FALSE]
    PROVE  /\ ClientOK(v) /\ v.cm = w.cm /\ v.sc = w.sc /\ v.bus = w.bus /\ v.subs = w.subs
           /\ \A t \in Sockets : v.net[t].near = w.net[t].near
           /\ v.net[s].running = w.net[s].running
           /\ Tied(v, {s}) /\ Aimed(v) /\ (Shown(v) => Served(v))
           /\ w.sc.auth # "srp_resume_proof_sent" => RestOK(v)
<1> DEFINE k == w.net[s]
<1> DEFINE n == [k EXCEPT !.timer = FALSE]
<1> DEFINE x == [w EXCEPT !.net[s] = n]
<1>1. v = x
  OBVIOUS
<1>2. k \in Socket /\ IsFiniteSet(k.waiters)
  BY DEF ClientOK, Client, Awaited
<1>3. /\ n \in Socket /\ n.near = k.near /\ n.on = k.on /\ n.far = k.far
      /\ n.up = k.up /\ n.down = k.down /\ n.running = k.running /\ n.timer = FALSE
      /\ n.waiters = k.waiters /\ n.subs = k.subs
  <2> HIDE DEF k
  <2> QED BY <1>2 DEF Socket
<1> HIDE DEF n
<1>4. /\ ClientOK(x) /\ x.net[s] = n /\ \A t \in Sockets \ {s} : x.net[t] = w.net[t]
      /\ x.cm = w.cm /\ x.sc = w.sc /\ x.bus = w.bus /\ x.subs = w.subs
  BY <1>2, <1>3, NetReplaced
<1> HIDE DEF x
<1>5. Tied(w, {}) /\ Aimed(w) /\ (Shown(w) => Served(w))
  BY DEF RestOK, Linked
<1>6. \A t \in Sockets : /\ x.net[t].near = w.net[t].near /\ x.net[t].on = w.net[t].on
                         /\ x.net[t].far = w.net[t].far
                         /\ x.net[t].up = w.net[t].up /\ x.net[t].down = w.net[t].down
                         /\ x.net[t].subs = w.net[t].subs
                         /\ x.net[t].running = w.net[t].running
                         /\ x.net[t].waiters = w.net[t].waiters
                         /\ x.net[t].timer => w.net[t].timer
  BY <1>3, <1>4
<1>7. \A t \in Sockets : Telling(x.net[t])
  <2> SUFFICES ASSUME NEW t \in Sockets PROVE Telling(x.net[t])
    OBVIOUS
  <2> DEFINE a == w.net[t]
  <2> DEFINE b == x.net[t]
  <2>1. Telling(a)
    BY <1>5 DEF Tied, SocketLinked
  <2>2. /\ b.near = a.near /\ b.on = a.on /\ b.far = a.far /\ b.up = a.up
        /\ b.down = a.down /\ b.subs = a.subs /\ b.running = a.running
        /\ b.timer => a.timer
    BY <1>6
  <2> HIDE DEF a, b
  <2>3. Telling(b)
    <3>1. Closes(a) => Closes(b)
      BY <2>2 DEF Closes
    <3>2. b.timer => b.running
      BY <2>1, <2>2 DEF Telling
    <3> QED BY <2>1, <2>2, <3>1, <3>2 DEF Telling
  <2> QED BY <2>3 DEF b
<1>8. \A t \in Sockets : SocketLinked(x, t)
  BY <1>4, <1>5, <1>6, <1>7 DEF Tied, SocketLinked
<1>9. \A t \in Sockets : GoesOn(w.net[t]) => GoesOn(x.net[t])
  BY <1>6 DEF GoesOn, Shaking
<1>10. \A t \in Sockets \ {s} : x.net[t].running => Going(x, t)
  BY <1>4, <1>5, <1>9 DEF Tied, Going, Orphaned
<1>11. ASSUME w.sc.auth # "srp_resume_proof_sent", x.net[s].running PROVE Going(x, s)
  BY <1>4, <1>5, <1>6, <1>9, <1>11 DEF Tied, Going, Orphaned
<1>12. /\ w.sc.ws \in Sockets \cup {NoSocket}
       /\ w.sc.promise \in Sockets \cup {NoSocket}
  BY DEF ClientOK, Client, Secure
<1>13. IsConnected(x) <=> IsConnected(w)
  BY <1>4, <1>6, <1>12 DEF IsConnected, IsOpen
<1>14. IsConnected(w) => w.sc.ws \in Sockets
  BY <1>12 DEF IsConnected, IsOpen
<1>15. Tied(x, {s})
  BY <1>4, <1>5, <1>6, <1>8, <1>10, <1>13, <1>14 DEF Tied
<1>16. w.sc.auth # "srp_resume_proof_sent" => Tied(x, {})
  BY <1>11, <1>15 DEF Tied
<1>17. Shown(x) => Served(x)
  <2>1. IsConnected(w) /\ Heard(w.net[w.sc.ws], w.subs) => Heard(x.net[w.sc.ws], w.subs)
    <3> DEFINE a == w.net[w.sc.ws]
    <3> DEFINE b == x.net[w.sc.ws]
    <3>1. IsConnected(w) => b.far = a.far /\ b.up = a.up /\ b.subs = a.subs
      BY <1>6, <1>14
    <3> HIDE DEF a, b
    <3>2. IsConnected(w) /\ Heard(a, w.subs) => Heard(b, w.subs)
      BY <3>1 DEF Heard
    <3> QED BY <3>2 DEF a, b
  <2> QED BY <1>4, <1>5, <1>6, <1>12, <1>13, <2>1 DEF Shown, Served
<1>18. Aimed(x)
  BY <1>4, <1>5 DEF Aimed
<1> QED BY <1>1, <1>4, <1>6, <1>15, <1>16, <1>17, <1>18 DEF RestOK, Linked

\* The timer of a resume ends its attempt.
LEMMA ResumeTimeoutRests ==
    ASSUME NEW w, ClientOK(w), Pursuit(w), RestOK(w), NEW s \in Sockets, w.net[s].timer
    PROVE  LET v == [w EXCEPT !.net[s].timer = FALSE]
           IN RestOK(IF w.sc.auth \in {"srp_resume_init_sent", "srp_resume_proof_sent"}
                     THEN Reject(CloseSocket([v EXCEPT !.sc.auth = "failed"], s), s, TRUE)
                     ELSE v)
<1> DEFINE v == [w EXCEPT !.net[s].timer = FALSE]
<1>1. /\ ClientOK(v) /\ v.cm = w.cm /\ v.sc = w.sc /\ v.bus = w.bus /\ v.subs = w.subs
      /\ \A t \in Sockets : v.net[t].near = w.net[t].near
      /\ v.net[s].running = w.net[s].running
      /\ Tied(v, {s}) /\ Aimed(v) /\ (Shown(v) => Served(v))
      /\ w.sc.auth # "srp_resume_proof_sent" => RestOK(v)
  BY TimerOffRests
<1> HIDE DEF v
<1>2. ASSUME w.sc.auth \in {"srp_resume_init_sent", "srp_resume_proof_sent"}
      PROVE  RestOK(Reject(CloseSocket([v EXCEPT !.sc.auth = "failed"], s), s, TRUE))
  <2> DEFINE u == [v EXCEPT !.sc.auth = "failed"]
  <2>1. w.net[s].running /\ w.net[s].near \in {"connecting", "open"}
    <3>1. Tied(w, {})
      BY DEF RestOK, Linked
    <3>2. w.net[s].running
      BY <3>1 DEF Tied, SocketLinked, Telling
    <3> QED BY <3>1, <3>2, GoingFacts
  <2>2. /\ ClientOK(u) /\ u.cm = v.cm /\ u.net = v.net /\ u.bus = v.bus
        /\ u.subs = v.subs /\ u.sc.ws = v.sc.ws /\ u.sc.key = v.sc.key
        /\ u.sc.promise = v.sc.promise /\ u.sc.auth = "failed"
    BY <1>1, AuthReplaced
  <2> HIDE DEF u
  <2>3. Tied(u, {s})
    BY <1>1, <2>1, <2>2, UnauthTied
  <2>4. Aimed(u) /\ Pursuit(u)
    BY <1>1, <2>2 DEF Aimed, Pursuit
  <2>5. Shown(u) => Served(u)
    <3>1. ~IsConnected(v)
      BY <1>1, <1>2 DEF IsConnected
    <3> QED BY <1>1, <2>2, <3>1 DEF Shown, Served
  <2>6. RestOK(Reject(CloseSocket(u, s), s, TRUE))
    BY <1>1, <2>1, <2>2, <2>3, <2>4, <2>5, CloseRejectRests
  <2> QED BY <2>6 DEF u
<1>3. w.sc.auth \notin {"srp_resume_init_sent", "srp_resume_proof_sent"} => RestOK(v)
  BY <1>1
<1>4. RestOK(IF w.sc.auth \in {"srp_resume_init_sent", "srp_resume_proof_sent"}
             THEN Reject(CloseSocket([v EXCEPT !.sc.auth = "failed"], s), s, TRUE)
             ELSE v)
  BY <1>2, <1>3
<1> QED BY <1>4 DEF v

-----------------------------------------------------------------------------
(* The other end of a socket, for those who wait.                          *)

\* The other end of a socket leaves those who wait at this end what they wait for.
LEMMA AtRests ==
    ASSUME NEW w, ClientOK(w), RestOK(w), NEW s \in Sockets, NEW n \in Socket,
           Keeps(w.net[s], n), Serves(w.net[s], n)
    PROVE  RestOK([w EXCEPT !.net[s] = n])
<1> DEFINE v == [w EXCEPT !.net[s] = n]
<1>1. IsFiniteSet(n.waiters)
  BY DEF ClientOK, Awaited, Serves
<1>2. /\ v.net[s] = n /\ \A t \in Sockets \ {s} : v.net[t] = w.net[t]
      /\ v.cm = w.cm /\ v.sc = w.sc /\ v.bus = w.bus /\ v.subs = w.subs
  <2> DEFINE x == [w EXCEPT !.net[s] = n]
  <2>1. /\ x.net[s] = n /\ \A t \in Sockets \ {s} : x.net[t] = w.net[t]
        /\ x.cm = w.cm /\ x.sc = w.sc /\ x.bus = w.bus /\ x.subs = w.subs
    <3> HIDE DEF x
    <3> QED BY <1>1, NetReplaced DEF x
  <2>2. v = x
    OBVIOUS
  <2> HIDE DEF v, x
  <2> QED BY <2>1, <2>2
<1> HIDE DEF v
<1>3. RestOK(v)
  BY <1>2, KeptRests
<1> QED BY <1>3 DEF v

\* The relay pairs the socket, refuses it, or loses it.
LEMMA RelayRests ==
    ASSUME NEW w, ClientOK(w), KeysOK(w), RestOK(w), NEW s \in Sockets
    PROVE  /\ w.net[s].far = "relay" =>
                /\ RestOK([w EXCEPT !.net[s] =
                            [Deliver(w.net[s], "connected", NoSub) EXCEPT !.far = "server"]])
                /\ \A reason \in {"offline", "unknown"} :
                     RestOK([w EXCEPT !.net[s] = Hangup(Deliver(w.net[s], reason, NoSub))])
           /\ w.net[s].near = "open" => RestOK([w EXCEPT !.net[s] = Hangup(w.net[s])])
<1> DEFINE k == w.net[s]
<1>1. k \in Socket /\ SocketOK(k) /\ Telling(k)
  BY DEF ClientOK, Client, KeysOK, RestOK, Linked, Tied, SocketLinked
<1>2. ASSUME k.far = "relay"
      PROVE  RestOK([w EXCEPT !.net[s] = [Deliver(k, "connected", NoSub) EXCEPT !.far = "server"]])
  <2> DEFINE n == [Deliver(k, "connected", NoSub) EXCEPT !.far = "server"]
  <2>1. Keeps(k, n) /\ Serves(k, n)
    BY <1>1, <1>2, RelayKeeps
  <2>2. n \in Socket
    <3>1. SocketStep(k, n)
      BY <1>1, <1>2, RelayStep
    <3> QED BY <3>1 DEF SocketStep
  <2> HIDE DEF n
  <2>3. RestOK([w EXCEPT !.net[s] = n])
    BY <2>1, <2>2, AtRests
  <2> QED BY <2>3 DEF n
<1>3. ASSUME k.far = "relay", NEW reason \in {"offline", "unknown"}
      PROVE  RestOK([w EXCEPT !.net[s] = Hangup(Deliver(k, reason, NoSub))])
  <2> DEFINE n == Hangup(Deliver(k, reason, NoSub))
  <2>1. Keeps(k, n) /\ Serves(k, n)
    BY <1>1, <1>3, RelayKeeps
  <2>2. n \in Socket
    <3>1. SocketStep(k, n)
      BY <1>1, <1>3, RelayStep
    <3> QED BY <3>1 DEF SocketStep
  <2> HIDE DEF n
  <2>3. RestOK([w EXCEPT !.net[s] = n])
    BY <2>1, <2>2, AtRests
  <2> QED BY <2>3 DEF n
<1>4. ASSUME k.near = "open" PROVE RestOK([w EXCEPT !.net[s] = Hangup(k)])
  <2> DEFINE n == Hangup(k)
  <2>1. n \in Socket /\ Keeps(k, n) /\ Serves(k, n)
    BY <1>1, <1>4, HangupKeeps
  <2> HIDE DEF n
  <2>2. RestOK([w EXCEPT !.net[s] = n])
    BY <2>1, AtRests
  <2> QED BY <2>2 DEF n
<1> QED BY <1>2, <1>3, <1>4

\* Whatever the server makes of a message, those who wait are served.
LEMMA ServerRests ==
    ASSUME NEW w, ClientOK(w), KeysOK(w), RestOK(w), NEW s \in Sockets,
           w.net[s].far \in {"server", "challenged", "authed"}, w.net[s].up # <<>>
    PROVE  LET m == Head(w.net[s].up)
               n == [w.net[s] EXCEPT !.up = Tail(@)]
           IN RestOK([w EXCEPT !.net[s] =
                CASE m.type = "init" -> HandleSrpResumeInit(n)
                  [] m.type \in {"proof", "badproof"} -> HandleSrpResume(n, m.type)
                  [] OTHER -> HandleEncrypted(n, m)])
<1> DEFINE k == w.net[s]
<1> DEFINE m == Head(k.up)
<1> DEFINE n == [k EXCEPT !.up = Tail(@)]
<1> DEFINE o == CASE m.type = "init" -> HandleSrpResumeInit(n)
                  [] m.type \in {"proof", "badproof"} -> HandleSrpResume(n, m.type)
                  [] OTHER -> HandleEncrypted(n, m)
<1>1. k \in Socket /\ SocketOK(k) /\ Telling(k)
  BY DEF ClientOK, Client, KeysOK, RestOK, Linked, Tied, SocketLinked
<1>2. n \in Socket /\ m \in UpMessage
  BY <1>1, ServerTakes
<1>3. o \in Socket
  <2>1. SocketStep(k, o)
    BY <1>1, ServerStep
  <2> QED BY <2>1 DEF SocketStep
<1>4. ServerMakes(n, m, o)
  <2> HIDE DEF m, n
  <2> QED BY <1>2, ServerCases
<1> HIDE DEF o
<1>5. Keeps(k, o) /\ Serves(k, o)
  BY <1>1, <1>4, ServerKeeps
<1>6. RestOK([w EXCEPT !.net[s] = o])
  BY <1>3, <1>5, AtRests
<1> QED BY <1>6 DEF o

-----------------------------------------------------------------------------
(* The manager and the bus, for those who wait.                            *)

\* A step of the manager alone, which shows no more than before.
LEMMA ManagerRests ==
    ASSUME NEW w, NEW v, RestOK(w), v.sc = w.sc, v.net = w.net, v.bus = w.bus,
           v.subs = w.subs, v.cm.current \in {w.cm.current, NoSocket},
           Shown(v) => Shown(w)
    PROVE  RestOK(v)
<1>1. Tied(w, {}) /\ Aimed(w) /\ (Shown(w) => Served(w))
  BY DEF RestOK, Linked
<1>2. Tied(v, {}) /\ (IsConnected(v) <=> IsConnected(w))
  <2>1. v.bus # NoSub => v.bus \in v.subs
    BY <1>1 DEF Tied
  <2> QED BY <1>1, <2>1, TiedSame
<1>3. Aimed(v)
  BY <1>1 DEF Aimed
<1>4. Served(w) => Served(v)
  BY <1>2 DEF Served
<1> QED BY <1>1, <1>2, <1>3, <1>4 DEF RestOK, Linked

\* forceReconnect() of the manager leaves it showing that it reconnects.
LEMMA ForceReconnectRests ==
    ASSUME NEW w, ClientOK(w), RestOK(w)
    PROVE  RestOK(ForceReconnect(w))
<1> DEFINE v == ForceReconnect(w)
<1>1. OnlyManager(w, v) /\ v.cm.state # "connected"
  BY ForceReconnectOK, ForceReconnectShows
<1> HIDE DEF v
<1>2. RestOK(v)
  BY <1>1, ManagerRests DEF OnlyManager, Shown
<1> QED BY <1>2 DEF v

\* A heartbeat arrives, a pong is awaited or no longer.
LEMMA BeatRests ==
    ASSUME NEW w, ClientOK(w), RestOK(w)
    PROVE  /\ RestOK([w EXCEPT !.cm.heartbeat = TRUE])
           /\ \A p \in BOOLEAN : /\ ClientOK([w EXCEPT !.cm.ping = p])
                                 /\ RestOK([w EXCEPT !.cm.ping = p])
<1>1. RestOK([w EXCEPT !.cm.heartbeat = TRUE])
  <2> DEFINE c == [w.cm EXCEPT !.heartbeat = TRUE]
  <2> DEFINE v == [w EXCEPT !.cm = c]
  <2>1. c \in Manager /\ c.current = w.cm.current /\ c.heartbeat
    BY DEF ClientOK, Client, Manager
  <2>2. v = [w EXCEPT !.cm.heartbeat = TRUE]
    OBVIOUS
  <2> HIDE DEF c
  <2>3. /\ v.cm = c /\ v.sc = w.sc /\ v.net = w.net /\ v.bus = w.bus /\ v.subs = w.subs
    BY <2>1, CmReplaced
  <2> HIDE DEF v
  <2>4. RestOK(v)
    BY <2>1, <2>3, ManagerRests DEF Shown
  <2> QED BY <2>2, <2>4
<1>2. ASSUME NEW p \in BOOLEAN
      PROVE  ClientOK([w EXCEPT !.cm.ping = p]) /\ RestOK([w EXCEPT !.cm.ping = p])
  <2> DEFINE c == [w.cm EXCEPT !.ping = p]
  <2> DEFINE v == [w EXCEPT !.cm = c]
  <2>1. /\ c \in Manager /\ c.current = w.cm.current /\ c.heartbeat = w.cm.heartbeat
        /\ c.started = w.cm.started /\ c.state = w.cm.state
    BY DEF ClientOK, Client, Manager
  <2>2. v = [w EXCEPT !.cm.ping = p]
    OBVIOUS
  <2> HIDE DEF c
  <2>3. /\ v.cm = c /\ v.sc = w.sc /\ v.net = w.net /\ v.bus = w.bus /\ v.subs = w.subs
        /\ ClientOK(v)
    BY <2>1, CmReplaced
  <2> HIDE DEF v
  <2>4. RestOK(v)
    BY <2>1, <2>3, ManagerRests DEF Shown
  <2> QED BY <2>2, <2>3, <2>4
<1> QED BY <1>1, <1>2

\* handleBecameVisible() pings, or reconnects.
LEMMA VisibleRests ==
    ASSUME NEW w, ClientOK(w), RestOK(w)
    PROVE  /\ CanSend(w) => RestOK([Send(w, "ping", <<NoSub>>) EXCEPT !.cm.ping = TRUE])
           /\ RestOK(ForceReconnect([w EXCEPT !.cm.ping = FALSE]))
<1>1. ASSUME CanSend(w) PROVE RestOK([Send(w, "ping", <<NoSub>>) EXCEPT !.cm.ping = TRUE])
  <2> DEFINE qs == <<NoSub>>
  <2> DEFINE v == Send(w, "ping", qs)
  <2>1. qs \in Seq(Subs \cup {NoSub})
    OBVIOUS
  <2>2. Tied(w, {}) /\ Aimed(w) /\ (Shown(w) => Served(w))
    BY DEF RestOK, Linked
  <2> HIDE DEF qs
  <2>3. /\ ClientOK(v) /\ v.sc = w.sc /\ v.cm = w.cm /\ v.bus = w.bus
        /\ v.subs = w.subs /\ Tied(v, {}) /\ (Served(w) => Served(v))
    BY <1>1, <2>1, <2>2, SendRests
  <2> HIDE DEF v
  <2>4. RestOK(v)
    BY <2>2, <2>3 DEF RestOK, Linked, Aimed, Shown
  <2>5. RestOK([v EXCEPT !.cm.ping = TRUE])
    BY <2>3, <2>4, BeatRests
  <2> QED BY <2>5 DEF v, qs
<1>2. RestOK(ForceReconnect([w EXCEPT !.cm.ping = FALSE]))
  <2> DEFINE v == [w EXCEPT !.cm.ping = FALSE]
  <2>1. ClientOK(v) /\ RestOK(v)
    BY BeatRests
  <2> HIDE DEF v
  <2>2. RestOK(ForceReconnect(v))
    BY <2>1, ForceReconnectRests
  <2> QED BY <2>2 DEF v
<1> QED BY <1>1, <1>2

\* connect() of the bus subscribes.
LEMMA ConnectRests ==
    ASSUME NEW w, ClientOK(w), Pursuit(w), Room(w), KeysOK(w), RestOK(w), ~w.cm.started
    PROVE  RestOK(SubscribeActivity([w EXCEPT !.cm.started = TRUE,
                                              !.cm.state = "connected"]))
<1> DEFINE c == [w.cm EXCEPT !.started = TRUE, !.state = "connected"]
<1> DEFINE v == [w EXCEPT !.cm.started = TRUE, !.cm.state = "connected"]
<1>1. v = [w EXCEPT !.cm = c]
  OBVIOUS
<1>2. c \in Manager /\ c.current = w.cm.current
  BY DEF ClientOK, Client, Manager
<1> HIDE DEF c, v
<1>3. /\ ClientOK(v) /\ v.cm = c /\ v.sc = w.sc /\ v.net = w.net /\ v.subs = w.subs
      /\ v.bus = w.bus
  BY <1>1, <1>2, CmReplaced
<1>4. Room(v) /\ v.cm.current = NoSocket
  BY <1>2, <1>3 DEF Pursuit, Room
<1>5. Tied(w, {})
  BY DEF RestOK, Linked
<1>6. Tied(v, {}) /\ (IsConnected(v) <=> IsConnected(w))
  <2>1. v.bus # NoSub => v.bus \in v.subs
    BY <1>3, <1>5 DEF Tied
  <2> QED BY <1>3, <1>5, <2>1, TiedSame
<1>7. Keyed(v)
  BY <1>3, <1>6 DEF Keyed, KeysOK
<1>8. RestOK(SubscribeActivity(v))
  BY <1>3, <1>4, <1>6, <1>7, SubscribeActivityRests
<1> QED BY <1>8 DEF v

\* disconnect() of the bus leaves nobody waiting for it.
LEMMA DisconnectRests ==
    ASSUME NEW w, ClientOK(w), RestOK(w)
    PROVE  RestOK([w EXCEPT !.bus = NoSub, !.subs = @ \ {w.bus},
                            !.cm = [Stopped EXCEPT !.attempts = w.cm.attempts]])
<1> DEFINE c == [Stopped EXCEPT !.attempts = w.cm.attempts]
<1> DEFINE a == [w EXCEPT !.bus = NoSub]
<1> DEFINE b == [a EXCEPT !.subs = @ \ {w.bus}]
<1> DEFINE v == [b EXCEPT !.cm = c]
<1>1. c \in Manager /\ ~c.started /\ c.current = NoSocket
  BY DEF ClientOK, Client, Manager, Stopped
<1>2. v = [w EXCEPT !.bus = NoSub, !.subs = @ \ {w.bus}, !.cm = c]
  BY DEF ClientOK, Client
<1> HIDE DEF c
<1>3. ClientOK(a) /\ a.sc = w.sc /\ a.net = w.net /\ a.bus = NoSub
  BY BusReplaced
<1> HIDE DEF a
<1>4. ClientOK(b) /\ b.sc = w.sc /\ b.net = w.net /\ b.bus = NoSub
  <2>1. a.subs \ {w.bus} \in SUBSET Subs
    BY <1>3 DEF ClientOK, Client
  <2> QED BY <1>3, <2>1, SubsReplaced
<1> HIDE DEF b
<1>5. v.cm = c /\ v.sc = w.sc /\ v.net = w.net /\ v.bus = NoSub
  BY <1>1, <1>4, CmReplaced
<1> HIDE DEF v
<1>6. Tied(v, {})
  BY <1>5, TiedSame DEF RestOK, Linked
<1>7. RestOK(v)
  BY <1>1, <1>5, <1>6 DEF RestOK, Linked, Aimed, Shown
<1> QED BY <1>2, <1>7 DEF c

\* A call that waits for the connection disturbs nobody who does.
LEMMA FetchRests ==
    ASSUME NEW w, ClientOK(w), Free(w), KeysOK(w), RestOK(w), ~IsConnected(w)
    PROVE  RestOK(Await(w, "fetch"))
<1> DEFINE v == Await(w, "fetch")
<1>1. Tied(w, {}) /\ Aimed(w) /\ (Shown(w) => Served(w))
  BY DEF RestOK, Linked
<1>2. Keyed(w)
  BY DEF Keyed, KeysOK
<1>3. /\ ClientOK(v) /\ v.cm = w.cm /\ v.bus = w.bus /\ v.subs = w.subs
      /\ Tied(v, {}) /\ v.sc.promise # NoSocket
      /\ w.sc.promise # NoSocket =>
           /\ v.sc = w.sc
           /\ w.net[w.sc.promise].waiters \subseteq v.net[v.sc.promise].waiters
  BY <1>1, <1>2, AwaitRests DEF Waiter
<1> HIDE DEF v
<1>4. Aimed(v)
  BY <1>1, <1>3 DEF Aimed
<1>5. Shown(v) => Served(v)
  BY <1>1, <1>3 DEF Shown, Served
<1>6. RestOK(v)
  BY <1>3, <1>4, <1>5 DEF RestOK, Linked
<1> QED BY <1>6 DEF v

-----------------------------------------------------------------------------
(* A reconnection, for those who wait.                                     *)

\* executeReconnect() closes the socket it finds, and only its attempt may not go on.
LEMMA OldSocketTied ==
    ASSUME NEW w, ClientOK(w), KeysOK(w), Tied(w, {})
    PROVE  LET old == w.sc.ws
               v == IF old = NoSocket THEN w
                    ELSE [w EXCEPT !.net[old] = Close([@ EXCEPT !.on = "none"]),
                                   !.sc.ws = NoSocket]
           IN /\ ClientOK(v) /\ v.cm = w.cm /\ v.sc.ws = NoSocket /\ v.bus = w.bus
              /\ v.subs = w.subs /\ Tied(v, {old})
              /\ \A t \in Sockets : v.net[t].running => v.net[t].near # "none"
              /\ \A t \in Sockets : w.net[t].near = "none" => v.net[t].near = "none"
<1> DEFINE old == w.sc.ws
<1>1. \A t \in Sockets : w.net[t].running => w.net[t].near # "none"
  BY GoingFacts
<1>2. CASE old = NoSocket
  <2>1. Tied(w, {old})
    BY DEF Tied
  <2> QED BY <1>1, <1>2, <2>1
<1>3. CASE old # NoSocket
  <2> DEFINE k == [w.net[old] EXCEPT !.on = "none"]
  <2> DEFINE n == Close(k)
  <2> DEFINE a == [w EXCEPT !.net[old] = n]
  <2> DEFINE c == [w.sc EXCEPT !.ws = NoSocket]
  <2> DEFINE v == [a EXCEPT !.sc = c]
  <2>1. /\ old \in Sockets /\ w.net[old] \in Socket /\ IsFiniteSet(w.net[old].waiters)
        /\ w.net[old].near \in {"open", "closing", "closed"} /\ Telling(w.net[old])
    BY <1>3 DEF ClientOK, Client, Secure, Awaited, KeysOK, Tied, SocketLinked
  <2>2. /\ k \in Socket /\ k.near = w.net[old].near /\ IsFiniteSet(k.waiters)
        /\ k.on = "none" /\ k.running = w.net[old].running
        /\ k.timer = w.net[old].timer /\ k.down = w.net[old].down
        /\ k.subs = w.net[old].subs
    <3> DEFINE z == w.net[old]
    <3>1. z \in Socket /\ IsFiniteSet(z.waiters)
      BY <2>1
    <3>2. k = [z EXCEPT !.on = "none"]
      OBVIOUS
    <3> HIDE DEF z, k
    <3>3. /\ k \in Socket /\ k.near = z.near /\ IsFiniteSet(k.waiters)
          /\ k.on = "none" /\ k.running = z.running /\ k.timer = z.timer
          /\ k.down = z.down /\ k.subs = z.subs
      BY <3>1, <3>2 DEF Socket
    <3> QED BY <3>3 DEF z
  <2>3. v = [w EXCEPT !.net[old] = Close([@ EXCEPT !.on = "none"]), !.sc.ws = NoSocket]
    <3> DEFINE x == [w EXCEPT !.net[old] = Close([@ EXCEPT !.on = "none"]),
                              !.sc.ws = NoSocket]
    <3>1. x = [w EXCEPT !.net[old] = Close(k), !.sc.ws = NoSocket]
      OBVIOUS
    <3> HIDE DEF k, n, x
    <3>2. x = [w EXCEPT !.net[old] = n, !.sc.ws = NoSocket]
      BY <3>1 DEF n
    <3>3. v = [w EXCEPT !.net[old] = n, !.sc.ws = NoSocket]
      BY DEF ClientOK, Client
    <3> HIDE DEF v
    <3>4. v = x
      BY <3>2, <3>3
    <3> QED BY <3>4 DEF x
  <2> HIDE DEF k
  <2>4. /\ n \in Socket /\ IsFiniteSet(n.waiters) /\ n.near \in {"closing", "closed"}
        /\ n.on = "none" /\ n.running = w.net[old].running /\ n.timer = w.net[old].timer
        /\ \A i \in 1 .. Len(n.down) : n.down[i].type = "opened" /\ n.down[i].sub \in Subs
             => n.down[i].sub \in n.subs
    <3>1. CASE k.near \in {"connecting", "open"}
      <4>1. /\ n \in Socket /\ n.near = "closing" /\ n.on = k.on
            /\ n.running = k.running /\ n.timer = k.timer /\ n.waiters = k.waiters
            /\ Len(n.down) = 0
        BY <2>2, <3>1, CloseIs
      <4> HIDE DEF n
      <4> QED BY <2>2, <4>1
    <3>2. CASE k.near \notin {"connecting", "open"}
      <4>1. n = k
        BY <3>2 DEF Close
      <4> HIDE DEF n
      <4> QED BY <2>1, <2>2, <3>2, <4>1 DEF Telling
    <3> QED BY <3>1, <3>2
  <2> HIDE DEF n, old
  <2>5. /\ ClientOK(a) /\ a.net[old] = n /\ \A t \in Sockets \ {old} : a.net[t] = w.net[t]
        /\ a.cm = w.cm /\ a.sc = w.sc /\ a.bus = w.bus /\ a.subs = w.subs
    BY <2>1, <2>4, NetReplaced
  <2> HIDE DEF a
  <2>6. /\ c \in Secure /\ c.ws = NoSocket /\ c.key = w.sc.key /\ c.auth = w.sc.auth
        /\ c.promise = w.sc.promise
    BY DEF ClientOK, Client, Secure
  <2> HIDE DEF c
  <2>7. ClientOK(v) /\ v.sc = c /\ v.cm = a.cm /\ v.net = a.net /\ v.bus = a.bus
        /\ v.subs = a.subs
    BY <2>5, <2>6, ScReplaced
  <2> HIDE DEF v
  <2>8. /\ ClientOK(v) /\ v.cm = w.cm /\ v.sc.ws = NoSocket /\ v.bus = w.bus
        /\ v.subs = w.subs /\ v.sc.key = w.sc.key /\ v.sc.auth = w.sc.auth
        /\ v.sc.promise = w.sc.promise /\ v.net[old] = n
        /\ \A t \in Sockets \ {old} : v.net[t] = w.net[t]
    BY <2>5, <2>6, <2>7
  <2>9. Tied(v, {old})
    <3>1. w.net[old].near # "none" /\ w.sc.ws = old
      BY <2>1 DEF old
    <3>2. v.net[old].on \in {w.net[old].on, "none"}
      BY <2>4, <2>8
    <3>3. /\ v.net[old].near \in {"closing", "closed"}
          /\ v.net[old].running = w.net[old].running
          /\ v.net[old].timer = w.net[old].timer
          /\ \A i \in 1 .. Len(v.net[old].down) :
               v.net[old].down[i].type = "opened" /\ v.net[old].down[i].sub \in Subs
                 => v.net[old].down[i].sub \in v.net[old].subs
      BY <2>4, <2>8
    <3> QED BY <2>1, <2>8, <3>1, <3>2, <3>3, ClosedTied
  <2>10. \A t \in Sockets : /\ v.net[t].running => v.net[t].near # "none"
                            /\ w.net[t].near = "none" => v.net[t].near = "none"
    BY <1>1, <2>1, <2>4, <2>8
  <2> QED BY <1>3, <2>3, <2>8, <2>9, <2>10 DEF old
<1> QED BY <1>2, <1>3

\* executeReconnect() awaits the attempt that it begins, where no other goes on.
LEMMA ExecuteReconnectRests ==
    ASSUME NEW w, ClientOK(w), KeysOK(w), RestOK(w), Free(w),
           w.cm.state = "reconnecting", AtMostOne(ExecuteReconnect(w))
    PROVE  RestOK(ExecuteReconnect(w))
<1> DEFINE old == w.sc.ws
<1> DEFINE v == IF old = NoSocket THEN w
                ELSE [w EXCEPT !.net[old] = Close([@ EXCEPT !.on = "none"]),
                               !.sc.ws = NoSocket]
<1> DEFINE b == NotifySubscriptionsClosed(v)
<1> DEFINE u == [b EXCEPT !.sc.auth = "disconnected", !.sc.promise = NoSocket]
<1> DEFINE t == NewAttempt(u, "manager")
<1> DEFINE x == [t EXCEPT !.cm.current = t.sc.promise]
<1>1. ExecuteReconnect(w) = x
  BY DEF ExecuteReconnect
<1>2. /\ ClientOK(v) /\ v.cm = w.cm /\ v.sc.ws = NoSocket /\ v.bus = w.bus
      /\ v.subs = w.subs /\ Tied(v, {old})
      /\ \A s \in Sockets : v.net[s].running => v.net[s].near # "none"
      /\ \A s \in Sockets : w.net[s].near = "none" => v.net[s].near = "none"
  <2>1. Tied(w, {})
    BY DEF RestOK, Linked
  <2> QED BY <2>1, OldSocketTied
<1> HIDE DEF v, old
<1>3. /\ Told(v, b) /\ (v.subs = {} => b = v)
      /\ (v.subs # {} => b.bus = NoSub /\ b.cm.state # "connected")
  BY <1>2, NotifyTold
<1> HIDE DEF b
<1>4. /\ ClientOK(b) /\ b.sc = v.sc /\ b.net = v.net /\ b.cm.state # "connected"
      /\ b.bus = NoSub /\ Tied(b, {old})
  <2>1. v.bus # NoSub => v.subs # {}
    BY <1>2 DEF Tied
  <2>2. b.cm.state # "connected" /\ b.bus = NoSub
    BY <1>2, <1>3, <2>1
  <2> QED BY <1>2, <1>3, <2>2, ToldTied DEF Told
<1>5. /\ ClientOK(u) /\ u.cm = b.cm /\ u.net = b.net /\ u.bus = b.bus /\ u.subs = b.subs
      /\ u.sc.ws = NoSocket /\ u.sc.promise = NoSocket /\ u.sc.key = b.sc.key
      /\ u.sc.auth = "disconnected"
  <2> DEFINE c == [b.sc EXCEPT !.auth = "disconnected", !.promise = NoSocket]
  <2>1. /\ c \in Secure /\ c.ws = b.sc.ws /\ c.promise = NoSocket /\ c.key = b.sc.key
        /\ c.auth = "disconnected"
    BY <1>4 DEF ClientOK, Client, Secure
  <2>2. u = [b EXCEPT !.sc = c]
    OBVIOUS
  <2> HIDE DEF c, u
  <2> QED BY <1>2, <1>4, <2>1, <2>2, ScReplaced
<1> HIDE DEF u
<1>6. Began(u, t, "manager")
  <2>1. Free(u) /\ "manager" \in Waiter
    BY <1>2, <1>4, <1>5 DEF Free, Waiter
  <2> QED BY <1>5, <2>1, NewAttemptIs
<1> HIDE DEF t
<1>7. /\ ClientOK(t) /\ t.cm = u.cm /\ t.bus = NoSub /\ t.sc.promise \in Sockets
      /\ u.net[t.sc.promise].near = "none" /\ t.net[t.sc.promise].running
      /\ \A s \in Sockets \ {t.sc.promise} : t.net[s] = u.net[s]
  BY <1>4, <1>5, <1>6 DEF Began
<1> DEFINE d == [t.cm EXCEPT !.current = t.sc.promise]
<1>8. d \in Manager /\ d.current = t.sc.promise /\ d.state = t.cm.state
  BY <1>7 DEF ClientOK, Client, Manager
<1>9. x = [t EXCEPT !.cm = d]
  OBVIOUS
<1> HIDE DEF d, x
<1>10. ClientOK(x) /\ x.cm = d /\ x.sc = t.sc /\ x.net = t.net /\ x.bus = t.bus
  BY <1>7, <1>8, <1>9, CmReplaced
<1>11. \A s \in Sockets : ~u.net[s].running
  <2>1. ASSUME NEW s \in Sockets, u.net[s].running PROVE FALSE
    <3>1. s # t.sc.promise
      BY <1>2, <1>4, <1>5, <1>7, <2>1
    <3>2. x.net[s].running /\ x.net[t.sc.promise].running
      BY <1>7, <1>10, <2>1, <3>1
    <3> QED BY <1>1, <1>7, <3>1, <3>2 DEF AtMostOne
  <2> QED BY <2>1
<1>12. Tied(u, {})
  <2>1. \A s \in Sockets : SocketLinked(u, s)
    BY <1>2, <1>4, <1>5, <1>11, ClientConstants DEF Tied, SocketLinked
  <2>2. ~IsConnected(u)
    BY <1>5 DEF IsConnected
  <2> QED BY <1>4, <1>5, <1>11, <2>1, <2>2 DEF Tied
<1>13. Tied(t, {})
  <2>1. Keyed(u) /\ ~IsConnected(u)
    BY <1>5 DEF Keyed, IsConnected
  <2> QED BY <1>5, <1>6, <1>12, <2>1, BeganTied
<1>14. Tied(x, {})
  BY <1>7, <1>10, <1>13, TiedSame
<1>15. RestOK(x)
  BY <1>4, <1>5, <1>7, <1>8, <1>10, <1>14 DEF RestOK, Linked, Aimed, Shown
<1> QED BY <1>1, <1>15

-----------------------------------------------------------------------------
(* What is forgotten after a step, for those who wait.                     *)

\* A queue with forgotten ids names the ids that are known.
LEMMA RenamedSubs ==
    ASSUME NEW w, NEW M \in {UpMessage, DownMessage}, NEW a \in Seq(M)
    PROVE  \A i \in 1 .. Len(a) : Renamed(w, a)[i].sub = Known(w, a[i].sub)
<1>1. DOMAIN a = 1 .. Len(a) /\ \A i \in 1 .. Len(a) : a[i] \in M
  BY SeqFacts
<1>2. ASSUME NEW i \in 1 .. Len(a) PROVE Renamed(w, a)[i].sub = Known(w, a[i].sub)
  <2>1. Renamed(w, a)[i] = [a[i] EXCEPT !.sub = Known(w, a[i].sub)]
    BY <1>1 DEF Renamed
  <2>2. a[i] \in UpMessage \/ a[i] \in DownMessage
    BY <1>1
  <2> DEFINE x == a[i]
  <2>3. [x EXCEPT !.sub = Known(w, x.sub)].sub = Known(w, x.sub)
    <3> HIDE DEF x
    <3>1. x \in UpMessage \/ x \in DownMessage
      BY <2>2 DEF x
    <3> QED BY <3>1 DEF UpMessage, DownMessage
  <2> QED BY <2>1, <2>3
<1> QED BY <1>2

\* From n to m the client w has forgotten ids.
Forgotten(w, n, m) ==
    /\ m.near = n.near /\ m.on = n.on /\ m.far = n.far
    /\ m.running = n.running /\ m.timer = n.timer
    /\ m.waiters = {Known(w, q) : q \in n.waiters} /\ m.subs = n.subs \cap w.subs
    /\ Len(m.up) = Len(n.up) /\ Len(m.down) = Len(n.down)
    /\ \A i \in 1 .. Len(n.up) :
         m.up[i].type = n.up[i].type /\ m.up[i].sub = Known(w, n.up[i].sub)
    /\ \A i \in 1 .. Len(n.down) :
         m.down[i].type = n.down[i].type /\ m.down[i].sub = Known(w, n.down[i].sub)

\* Forgetting ids changes nothing else.
LEMMA ForgetIs ==
    ASSUME NEW w, NEW n \in Socket
    PROVE  Forgotten(w, n, Forget(w, n))
<1> DEFINE W == {Known(w, q) : q \in n.waiters}
<1> DEFINE u == Renamed(w, n.up)
<1> DEFINE d == Renamed(w, n.down)
<1> DEFINE S == n.subs \cap w.subs
<1> DEFINE m == [n EXCEPT !.waiters = W, !.subs = S, !.up = u, !.down = d]
<1>1. n.up \in Seq(UpMessage) /\ n.down \in Seq(DownMessage)
  BY SocketLengths
<1>2. Len(u) = Len(n.up) /\ \A i \in 1 .. Len(n.up) :
        u[i].type = n.up[i].type /\ u[i].sub = Known(w, n.up[i].sub)
  BY <1>1, RenamedOK, RenamedSubs
<1>3. Len(d) = Len(n.down) /\ \A i \in 1 .. Len(n.down) :
        d[i].type = n.down[i].type /\ d[i].sub = Known(w, n.down[i].sub)
  BY <1>1, RenamedOK, RenamedSubs
<1>4. Forget(w, n) = m
  <2> DEFINE x == [n EXCEPT !.waiters = {Known(w, q) : q \in @}, !.subs = @ \cap w.subs,
                            !.up = Renamed(w, @), !.down = Renamed(w, @)]
  <2>1. Forget(w, n) = x
    BY DEF Forget
  <2>2. x = m
    BY DEF Socket
  <2> QED BY <2>1, <2>2
<1> HIDE DEF u, d
<1>5. /\ m.waiters = W /\ m.subs = S /\ m.up = u /\ m.down = d /\ m.running = n.running
      /\ m.near = n.near /\ m.on = n.on /\ m.far = n.far /\ m.timer = n.timer
  <2> HIDE DEF W, S
  <2> QED BY DEF Socket
<1> HIDE DEF m
<1> QED BY <1>2, <1>3, <1>4, <1>5 DEF Forgotten

\* A client that forgets ids still knows those of the subscriptions it has.
LEMMA ForgottenFacts ==
    ASSUME NEW w, NEW n \in Socket, NEW m, Forgotten(w, n, m), w.subs \subseteq Subs
    PROVE  /\ Telling(n) => Telling(m)
           /\ GoesOn(n) => GoesOn(m)
           /\ Heard(n, w.subs) => Heard(m, w.subs)
           /\ \A q \in w.subs : q \in n.waiters => q \in m.waiters
<1>1. /\ m.near = n.near /\ m.on = n.on /\ m.far = n.far
      /\ m.running = n.running /\ m.timer = n.timer
      /\ m.waiters = {Known(w, q) : q \in n.waiters} /\ m.subs = n.subs \cap w.subs
      /\ Len(m.up) = Len(n.up) /\ Len(m.down) = Len(n.down)
      /\ \A i \in 1 .. Len(n.up) :
           m.up[i].type = n.up[i].type /\ m.up[i].sub = Known(w, n.up[i].sub)
      /\ \A i \in 1 .. Len(n.down) :
           m.down[i].type = n.down[i].type /\ m.down[i].sub = Known(w, n.down[i].sub)
  BY DEF Forgotten
<1>2. Len(n.up) \in Nat /\ Len(n.down) \in Nat
  BY SocketLengths
<1>3. \A q \in w.subs : Known(w, q) = q
  BY DEF Known
<1>4. \A q : Known(w, q) \in Subs => q \in w.subs /\ Known(w, q) = q
  BY ClientConstants DEF Known
<1>5. Telling(n) => Telling(m)
  <2>1. ASSUME Telling(n) PROVE Telling(m)
    <3>1. m.timer => m.running
      BY <1>1, <2>1 DEF Telling
    <3>2. m.near = "open" /\ m.far = "gone" => Closes(m)
      BY <1>1, <2>1 DEF Telling, Closes
    <3>3. m.near = "open" /\ m.on = "pair" =>
            /\ Len(m.up) = 0
            /\ \A i \in 2 .. Len(m.down) : m.down[i].type = "close"
      <4>1. \A i \in 2 .. Len(n.down) : i \in 1 .. Len(n.down)
        BY <1>2
      <4> QED BY <1>1, <2>1, <4>1 DEF Telling
    <3>4. m.near = "open" /\ m.on = "resume" =>
            /\ \A i \in 1 .. Len(m.down) : m.down[i].type \in DownShake \cup {"close"}
            /\ \A i \in 1 .. Len(m.up) : m.up[i].type \in {"init", "proof", "garbled"}
      BY <1>1, <2>1 DEF Telling
    <3>5. ASSUME NEW i \in 1 .. Len(m.down), m.down[i].type = "opened",
                 m.down[i].sub \in Subs
          PROVE  m.down[i].sub \in m.subs
      <4>1. n.down[i].sub \in w.subs /\ m.down[i].sub = n.down[i].sub
        BY <1>1, <1>4, <3>5
      <4>2. n.down[i].sub \in n.subs
        BY <1>1, <2>1, <3>5, <4>1 DEF Telling
      <4> QED BY <1>1, <4>1, <4>2
    <3> QED BY <3>1, <3>2, <3>3, <3>4, <3>5 DEF Telling
  <2> QED BY <2>1
<1>6. GoesOn(n) => GoesOn(m)
  <2>1. Shaking(n) => Shaking(m)
    BY <1>1 DEF Shaking, NoUp, NoDown
  <2> QED BY <1>1, <2>1 DEF GoesOn
<1>7. Heard(n, w.subs) => Heard(m, w.subs)
  <2>1. CASE n.far = "gone"
    BY <1>1, <2>1 DEF Heard
  <2>2. CASE n.subs \cap w.subs # {}
    BY <1>1, <2>2 DEF Heard
  <2>3. ASSUME NEW i \in 1 .. Len(n.up), n.up[i].type = "subscribe", n.up[i].sub \in w.subs
        PROVE  Heard(m, w.subs)
    <3>1. m.up[i].type = "subscribe" /\ m.up[i].sub = n.up[i].sub /\ i \in 1 .. Len(m.up)
      BY <1>1, <1>3, <2>3
    <3> QED BY <2>3, <3>1 DEF Heard
  <2> QED BY <2>1, <2>2, <2>3 DEF Heard
<1>8. \A q \in w.subs : q \in n.waiters => q \in m.waiters
  BY <1>1, <1>3
<1> QED BY <1>5, <1>6, <1>7, <1>8

\* Nobody waits for what is forgotten.
LEMMA TidiedRests ==
    ASSUME NEW w, ClientOK(w), RestOK(w)
    PROVE  RestOK(Tidied(w))
<1> DEFINE v == Tidied(w)
<1> DEFINE key == IF w.sc.key \in Sockets /\ IsGarbage(w, w.sc.key) THEN OldKey ELSE w.sc.key
<1>1. /\ v.cm = w.cm /\ v.bus = w.bus /\ v.subs = w.subs
      /\ v.sc = [w.sc EXCEPT !.key = key]
      /\ v.net = [s \in Sockets |-> IF IsGarbage(w, s) THEN Unused ELSE Forget(w, w.net[s])]
  BY DEF Tidied
<1> HIDE DEF v
<1>2. /\ v.sc.ws = w.sc.ws /\ v.sc.auth = w.sc.auth /\ v.sc.key = key
      /\ v.sc.promise = w.sc.promise
      /\ w.sc.ws \in Sockets \cup {NoSocket} /\ w.sc.promise \in Sockets \cup {NoSocket}
  BY <1>1 DEF ClientOK, Client, Secure
<1>3. \A s \in Sockets : w.net[s] \in Socket
  BY DEF ClientOK, Client
<1>4. w.subs \subseteq Subs
  BY DEF ClientOK, Client
<1>5. Tied(w, {}) /\ Aimed(w) /\ (Shown(w) => Served(w))
  BY DEF RestOK, Linked
<1>6. \A s \in Sockets : IsGarbage(w, s) => v.net[s] = Unused
  BY <1>1
<1>7. ASSUME NEW s \in Sockets, ~IsGarbage(w, s) PROVE Forgotten(w, w.net[s], v.net[s])
  <2>1. v.net[s] = Forget(w, w.net[s])
    BY <1>1, <1>7
  <2> QED BY <1>3, <2>1, ForgetIs
<1>8. ASSUME NEW s \in Sockets, ~IsGarbage(w, s)
      PROVE  /\ v.net[s].near = w.net[s].near /\ v.net[s].on = w.net[s].on
             /\ v.net[s].far = w.net[s].far /\ v.net[s].running = w.net[s].running
             /\ v.net[s].timer = w.net[s].timer
             /\ Telling(w.net[s]) => Telling(v.net[s])
             /\ GoesOn(w.net[s]) => GoesOn(v.net[s])
             /\ Heard(w.net[s], w.subs) => Heard(v.net[s], w.subs)
             /\ \A q \in w.subs : q \in w.net[s].waiters => q \in v.net[s].waiters
  <2>1. Forgotten(w, w.net[s], v.net[s]) /\ w.net[s] \in Socket
    BY <1>3, <1>7, <1>8
  <2> QED BY <1>4, <2>1, ForgottenFacts DEF Forgotten
<1>9. /\ w.sc.ws \in Sockets => ~IsGarbage(w, w.sc.ws)
      /\ w.sc.promise \in Sockets => ~IsGarbage(w, w.sc.promise)
  BY DEF IsGarbage
<1>10. ASSUME NEW s \in Sockets
       PROVE  SocketLinked(v, s) /\ (v.net[s].running => Going(v, s))
  <2>1. CASE IsGarbage(w, s)
    <3>1. v.net[s] = Unused /\ v.sc.key # s /\ w.sc.promise # s
      BY <1>2, <1>6, <2>1, ClientConstants DEF IsGarbage
    <3>2. Telling(Unused) /\ Unused.running = FALSE /\ Unused.near = "none"
      <4>1. Len(<<>>) = 0
        OBVIOUS
      <4>2. Unused.near = "none" /\ Unused.down = <<>> /\ Unused.timer = FALSE
            /\ Unused.running = FALSE
        BY DEF Unused
      <4>3. \A i \in 1 .. Len(Unused.down) : FALSE
        BY <4>1, <4>2
      <4> QED BY <4>2, <4>3 DEF Telling
    <3> QED BY <1>2, <3>1, <3>2 DEF SocketLinked
  <2>2. CASE ~IsGarbage(w, s)
    <3>1. SocketLinked(w, s) /\ (w.net[s].running => Going(w, s))
      BY <1>5 DEF Tied
    <3>2. v.sc.key = s => w.sc.key = s
      BY <1>2, ClientConstants
    <3>3. SocketLinked(v, s)
      BY <1>2, <1>8, <2>2, <3>1, <3>2 DEF SocketLinked
    <3>4. v.net[s].running => Going(v, s)
      BY <1>2, <1>8, <2>2, <3>1 DEF Going, Orphaned
    <3> QED BY <3>3, <3>4
  <2> QED BY <2>1, <2>2
<1>11. /\ IsConnected(v) <=> IsConnected(w)
       /\ IsConnected(w) => w.sc.ws \in Sockets /\ ~IsGarbage(w, w.sc.ws)
  BY <1>2, <1>8, <1>9 DEF IsConnected, IsOpen
<1>12. Tied(v, {})
  <2>1. v.sc.auth = "authenticated" => v.sc.promise = NoSocket
    BY <1>2, <1>5 DEF Tied
  <2>2. IsConnected(v) =>
          v.net[v.sc.ws].on = "message" /\ v.net[v.sc.ws].far \in {"authed", "gone"}
    BY <1>2, <1>5, <1>8, <1>11 DEF Tied
  <2>3. v.bus # NoSub => v.bus \in v.subs
    BY <1>1, <1>5 DEF Tied
  <2> QED BY <1>10, <2>1, <2>2, <2>3 DEF Tied
<1>13. Aimed(v)
  BY <1>1, <1>2, <1>5 DEF Aimed
<1>14. Served(w) => Served(v)
  <2>1. ASSUME Served(w) PROVE Served(v)
    <3>1. w.bus # NoSub /\ w.bus \in w.subs
      BY <1>5, <2>1 DEF Served, Tied
    <3>2. CASE w.sc.promise # NoSocket /\ w.bus \in w.net[w.sc.promise].waiters
      <4>1. w.bus \in v.net[w.sc.promise].waiters
        BY <1>2, <1>8, <1>9, <3>1, <3>2
      <4> QED BY <1>1, <1>2, <3>1, <3>2, <4>1 DEF Served
    <3>3. CASE IsConnected(w) /\ Heard(w.net[w.sc.ws], w.subs)
      <4>1. Heard(v.net[w.sc.ws], w.subs)
        BY <1>8, <1>11, <3>3
      <4> QED BY <1>1, <1>2, <1>11, <3>1, <3>3, <4>1 DEF Served
    <3> QED BY <2>1, <3>2, <3>3 DEF Served
  <2> QED BY <2>1
<1>15. RestOK(v)
  BY <1>1, <1>5, <1>12, <1>13, <1>14 DEF RestOK, Linked, Shown
<1> QED BY <1>15 DEF v

-----------------------------------------------------------------------------
(* The invariant of those who wait, and the actions.                       *)

RestInvariant == ClientInvariant /\ (alone => RestOK(Now))

\* Every action hands Become a state that is in order, for those who wait as well, if
\* attempts have not overlapped.
Restful ==
    \E w : /\ Become(w) /\ Handled(Now, w)
           /\ KeysOK(Now) /\ RestOK(Now) /\ AtMostOne(w) => RestOK(w)

\* Such an action keeps the invariant.
LEMMA BecomeRests ==
    ASSUME RestInvariant, Restful
    PROVE  RestInvariant'
<1>1. PICK w : /\ Become(w) /\ Handled(Now, w)
               /\ KeysOK(Now) /\ RestOK(Now) /\ AtMostOne(w) => RestOK(w)
  BY DEF Restful
<1>2. ClientInvariant'
  <2>1. Orderly
    BY <1>1 DEF Orderly
  <2> QED BY <2>1, BecomeOK DEF RestInvariant
<1>3. Now' = Tidied(w)
  BY <1>1 DEF Become, Now, Tidied
<1>4. ASSUME alone' PROVE RestOK(w)
  <2> DEFINE S == {s \in Sockets : w.net[s].running}
  <2>1. alone /\ Cardinality(S) <= 1
    BY <1>1, <1>4 DEF Become
  <2>2. ASSUME NEW s \in Sockets, NEW t \in Sockets, w.net[s].running, w.net[t].running
        PROVE  s = t
    <3>1. s \in S /\ t \in S /\ S \in SUBSET Sockets
      BY <2>2
    <3> HIDE DEF S
    <3> QED BY <2>1, <3>1, OneOfFew
  <2>3. AtMostOne(w)
    BY <2>2 DEF AtMostOne
  <2>4. KeysOK(Now) /\ RestOK(Now)
    BY <2>1 DEF RestInvariant, ClientInvariant
  <2> QED BY <1>1, <2>3, <2>4
<1>5. alone' => RestOK(Tidied(w))
  BY <1>1, <1>4, TidiedRests DEF Handled
<1>6. alone' => RestOK(Now)'
  <2>1. ASSUME RestOK(Tidied(w)) PROVE RestOK(Now)'
    <3> DEFINE v == Tidied(w)
    <3>1. Now' = v /\ RestOK(v)
      BY <1>3, <2>1
    <3> HIDE DEF v
    <3> QED BY <3>1 DEF RestOK, Linked, Tied, Aimed, Shown, Served, SocketLinked, Going,
              Orphaned, IsConnected, IsOpen
  <2> QED BY <1>5, <2>1
<1> QED BY <1>2, <1>6 DEF RestInvariant

\* The actions of ConnectionManager and of the bus.
LEMMA ManagerRestful ==
    ASSUME ClientInvariant,
           Connect \/ Disconnect \/ Fetch \/ Heartbeat \/ BecomeVisible
             \/ BackoffTimer \/ CheckStale \/ PongTimeout
    PROVE  Restful
<1>1. ClientOK(Now) /\ Pursuit(Now)
  BY DEF ClientInvariant
<1>2. Now.cm = cm /\ Now.sc = sc /\ Now.net = net /\ Now.bus = bus /\ Now.subs = subs
  BY DEF Now
<1>3. ASSUME Connect PROVE Restful
  <2> DEFINE w == SubscribeActivity([Now EXCEPT !.cm.started = TRUE, !.cm.state = "connected"])
  <2>1. ~Now.cm.started /\ Room(Now)
    BY <1>2, <1>3, RoomLeft DEF Connect
  <2>2. Handled(Now, w)
    BY <1>1, <2>1, ConnectOK
  <2>3. KeysOK(Now) /\ RestOK(Now) => RestOK(w)
    BY <1>1, <2>1, ConnectRests
  <2>4. Become(w)
    BY <1>3 DEF Connect
  <2> HIDE DEF w
  <2> QED BY <2>2, <2>3, <2>4 DEF Restful
<1>4. ASSUME Disconnect PROVE Restful
  <2> DEFINE w == [Now EXCEPT !.bus = NoSub, !.subs = @ \ {bus},
                              !.cm = [Stopped EXCEPT !.attempts = cm.attempts]]
  <2>1. Handled(Now, w)
    BY <1>1, <1>2, DisconnectOK
  <2>2. RestOK(Now) => RestOK(w)
    BY <1>1, <1>2, DisconnectRests
  <2>3. Become(w)
    BY <1>4 DEF Disconnect
  <2> HIDE DEF w
  <2> QED BY <2>1, <2>2, <2>3 DEF Restful
<1>5. ASSUME Fetch PROVE Restful
  <2> DEFINE w == Await(Now, "fetch")
  <2>1. Free(Now) /\ ~IsConnected(Now)
    BY <1>5, RoomLeft DEF Fetch
  <2>2. Handled(Now, w)
    BY <1>1, <2>1, FetchOK
  <2>3. KeysOK(Now) /\ RestOK(Now) => RestOK(w)
    BY <1>1, <2>1, FetchRests
  <2>4. Become(w)
    BY <1>5 DEF Fetch
  <2> HIDE DEF w
  <2> QED BY <2>2, <2>3, <2>4 DEF Restful
<1>6. ASSUME Heartbeat PROVE Restful
  <2> DEFINE w == [Now EXCEPT !.cm.heartbeat = TRUE]
  <2>1. Handled(Now, w)
    BY <1>1, HeartbeatOK
  <2>2. RestOK(Now) => RestOK(w)
    BY <1>1, BeatRests
  <2>3. Become(w)
    BY <1>6 DEF Heartbeat
  <2> HIDE DEF w
  <2> QED BY <2>1, <2>2, <2>3 DEF Restful
<1>7. ASSUME BecomeVisible PROVE Restful
  <2>1. CASE CanSend(Now)
    <3> DEFINE w == [Send(Now, "ping", <<NoSub>>) EXCEPT !.cm.ping = TRUE]
    <3>1. Handled(Now, w)
      BY <1>1, <2>1, PingOK
    <3>2. RestOK(Now) => RestOK(w)
      BY <1>1, <2>1, VisibleRests
    <3>3. Become(w)
      BY <1>7, <2>1 DEF BecomeVisible
    <3> HIDE DEF w
    <3> QED BY <3>1, <3>2, <3>3 DEF Restful
  <2>2. CASE ~CanSend(Now)
    <3> DEFINE w == ForceReconnect([Now EXCEPT !.cm.ping = FALSE])
    <3>1. Handled(Now, w)
      BY <1>1, PongMissedOK
    <3>2. RestOK(Now) => RestOK(w)
      BY <1>1, VisibleRests
    <3>3. Become(w)
      BY <1>7, <2>2 DEF BecomeVisible
    <3> HIDE DEF w
    <3> QED BY <3>1, <3>2, <3>3 DEF Restful
  <2> QED BY <2>1, <2>2
<1>8. ASSUME BackoffTimer PROVE Restful
  <2> DEFINE v == [Now EXCEPT !.cm.timer = FALSE]
  <2> DEFINE w == ExecuteReconnect(v)
  <2>1. Free(Now) /\ Now.cm.timer
    BY <1>2, <1>8, RoomLeft DEF BackoffTimer
  <2>2. Now.cm.current = NoSocket /\ Handled(Now, w)
    BY <1>1, <2>1, BackoffTimerOK
  <2>3. Become(w)
    BY <1>2, <1>8, <2>2 DEF BackoffTimer
  <2>4. ASSUME KeysOK(Now), RestOK(Now), AtMostOne(w) PROVE RestOK(w)
    <3> DEFINE c == [Now.cm EXCEPT !.timer = FALSE]
    <3>1. c \in Manager /\ c.current = Now.cm.current /\ c.state = Now.cm.state
          /\ c.started = Now.cm.started /\ c.heartbeat = Now.cm.heartbeat
      BY <1>1 DEF ClientOK, Client, Manager
    <3>2. v = [Now EXCEPT !.cm = c]
      OBVIOUS
    <3> HIDE DEF c, v
    <3>3. /\ ClientOK(v) /\ v.cm = c /\ v.sc = Now.sc /\ v.net = Now.net
          /\ v.bus = Now.bus /\ v.subs = Now.subs
      BY <1>1, <3>1, <3>2, CmReplaced
    <3>4. RestOK(v)
      BY <2>4, <3>1, <3>3, ManagerRests DEF Shown
    <3>5. KeysOK(v) /\ Free(v) /\ v.cm.state = "reconnecting"
      BY <1>1, <2>1, <2>4, <3>1, <3>3, KeysSame DEF Free, Pursuit
    <3> QED BY <2>4, <3>3, <3>4, <3>5, ExecuteReconnectRests
  <2> HIDE DEF w
  <2> QED BY <2>2, <2>3, <2>4 DEF Restful
<1>9. ASSUME CheckStale PROVE Restful
  <2> DEFINE w == ForceReconnect(Now)
  <2>1. Handled(Now, w)
    BY <1>1, ForceReconnectHandled
  <2>2. RestOK(Now) => RestOK(w)
    BY <1>1, ForceReconnectRests
  <2>3. Become(w)
    BY <1>9 DEF CheckStale
  <2> HIDE DEF w
  <2> QED BY <2>1, <2>2, <2>3 DEF Restful
<1>10. ASSUME PongTimeout PROVE Restful
  <2> DEFINE w == ForceReconnect([Now EXCEPT !.cm.ping = FALSE])
  <2>1. Handled(Now, w)
    BY <1>1, PongMissedOK
  <2>2. RestOK(Now) => RestOK(w)
    BY <1>1, VisibleRests
  <2>3. Become(w)
    BY <1>10 DEF PongTimeout
  <2> HIDE DEF w
  <2> QED BY <2>1, <2>2, <2>3 DEF Restful
<1> QED BY <1>3, <1>4, <1>5, <1>6, <1>7, <1>8, <1>9, <1>10

\* The events of a client's socket.
LEMMA SocketRestful ==
    ASSUME ClientInvariant, NEW s \in Sockets,
           Opens(s) \/ OpenFails(s) \/ PairTimeout(s) \/ ResumeTimeout(s)
             \/ Receives(s) \/ CloseEvent(s)
    PROVE  Restful
<1>1. ClientOK(Now) /\ Pursuit(Now)
  BY DEF ClientInvariant
<1>2. Now.cm = cm /\ Now.sc = sc /\ Now.net = net
  BY DEF Now
<1>3. ASSUME Opens(s) PROVE Restful
  <2> DEFINE w == [Now EXCEPT !.net[s].near = "open", !.net[s].far = "relay",
                              !.net[s].on = "pair"]
  <2>0. Now.net[s].near = "connecting"
    BY <1>2, <1>3 DEF Opens
  <2>1. Handled(Now, w)
    BY <1>1, <2>0, OpensOK
  <2>2. KeysOK(Now) /\ RestOK(Now) => RestOK(w)
    BY <1>1, <2>0, OpensRests
  <2>3. Become(w)
    BY <1>3 DEF Opens
  <2> HIDE DEF w
  <2> QED BY <2>1, <2>2, <2>3 DEF Restful
<1>4. ASSUME OpenFails(s) PROVE Restful
  <2> DEFINE w == Reject(CloseSocket([Now EXCEPT !.net[s].on = "none"], s), s, TRUE)
  <2>0. Now.net[s].near = "connecting"
    BY <1>2, <1>4 DEF OpenFails
  <2>1. Handled(Now, w)
    BY <1>1, <2>0, OpenFailsOK
  <2>2. KeysOK(Now) /\ RestOK(Now) => RestOK(w)
    BY <1>1, <2>0, OpenFailsRests
  <2>3. Become(w)
    BY <1>4 DEF OpenFails
  <2> HIDE DEF w
  <2> QED BY <2>1, <2>2, <2>3 DEF Restful
<1>5. ASSUME PairTimeout(s) PROVE Restful
  <2> DEFINE w == Reject(CloseSocket(Now, s), s, TRUE)
  <2>0. Now.net[s].near = "open" /\ Now.net[s].on = "pair"
    BY <1>2, <1>5 DEF PairTimeout
  <2>1. Handled(Now, w)
    BY <1>1, CloseAndRejectOK
  <2>2. KeysOK(Now) /\ RestOK(Now) => RestOK(w)
    BY <1>1, <2>0, PairTimeoutRests
  <2>3. Become(w)
    BY <1>5 DEF PairTimeout
  <2> HIDE DEF w
  <2> QED BY <2>1, <2>2, <2>3 DEF Restful
<1>6. ASSUME ResumeTimeout(s) PROVE Restful
  <2> DEFINE v == [Now EXCEPT !.net[s].timer = FALSE]
  <2> DEFINE u == Reject(CloseSocket([v EXCEPT !.sc.auth = "failed"], s), s, TRUE)
  <2> DEFINE w == IF Now.sc.auth \in {"srp_resume_init_sent", "srp_resume_proof_sent"}
                  THEN u ELSE v
  <2>0. Now.net[s].timer
    BY <1>2, <1>6 DEF ResumeTimeout
  <2>1. Handled(Now, v) /\ Handled(Now, u)
    BY <1>1, ResumeTimeoutOK
  <2>2. RestOK(Now) => RestOK(w)
    BY <1>1, <2>0, ResumeTimeoutRests
  <2>3. Become(w)
    BY <1>2, <1>6 DEF ResumeTimeout
  <2>4. w \in {u, v}
    <3> HIDE DEF u, v
    <3> QED OBVIOUS
  <2> HIDE DEF u, v, w
  <2>5. Handled(Now, w)
    BY <2>1, <2>4
  <2> QED BY <2>2, <2>3, <2>5 DEF Restful
<1>7. ASSUME Receives(s) PROVE Restful
  <2>1. Room(Now) /\ Now.net[s].near = "open" /\ Now.net[s].down # <<>>
    BY <1>2, <1>7, RoomLeft DEF Receives
  <2> DEFINE w == Now
  <2> DEFINE m == Head(w.net[s].down)
  <2> DEFINE v == [w EXCEPT !.net[s].down = Tail(@)]
  <2> DEFINE u == CASE m.type = "close" -> OnClose(v, s)
                    [] m.type # "close" /\ w.net[s].on = "pair" -> OnPairMessage(v, s, m)
                    [] m.type # "close" /\ w.net[s].on = "resume" -> OnResumeMessage(v, s, m)
                    [] m.type # "close" /\ w.net[s].on = "message" -> OnMessage(v, s, m)
                    [] OTHER -> v
  <2>2. Handled(Now, u)
    BY <1>1, <2>1, ReceivedOK
  <2>3. KeysOK(Now) /\ RestOK(Now) => RestOK(u)
    BY <1>1, <2>1, ReceivedRests
  <2>4. Become(u)
    BY <1>2, <1>7 DEF Receives
  <2> HIDE DEF u
  <2> QED BY <2>2, <2>3, <2>4 DEF Restful
<1>8. ASSUME CloseEvent(s) PROVE Restful
  <2> DEFINE w == OnClose(Now, s)
  <2>0. Now.net[s].near = "closing"
    BY <1>2, <1>8 DEF CloseEvent
  <2>1. Handled(Now, w)
    BY <1>1, <2>0, OnCloseOK
  <2>2. RestOK(Now) => RestOK(w)
    <3>1. ASSUME RestOK(Now)
          PROVE  \A i \in 1 .. Len(Now.net[s].down) :
                   Now.net[s].down[i].type = "opened" /\ Now.net[s].down[i].sub \in Subs
                     => Now.net[s].down[i].sub \in Now.net[s].subs
      BY <3>1 DEF RestOK, Linked, Tied, SocketLinked, Telling
    <3> QED BY <1>1, <2>0, <3>1, OnCloseRests
  <2>3. Become(w)
    BY <1>8 DEF CloseEvent
  <2> HIDE DEF w
  <2> QED BY <2>1, <2>2, <2>3 DEF Restful
<1> QED BY <1>3, <1>4, <1>5, <1>6, <1>7, <1>8

\* The steps of the relay and of the server.
LEMMA FarRestful ==
    ASSUME ClientInvariant, NEW s \in Sockets,
           RelayPairs(s) \/ RelayRefuses(s) \/ Drop(s) \/ ServerReceives(s)
    PROVE  Restful
<1>1. ClientOK(Now) /\ Pursuit(Now)
  BY DEF ClientInvariant
<1>2. Now.net = net /\ net[s] \in Socket
  <2>1. Now.net = net
    BY DEF Now
  <2> QED BY <1>1, <2>1 DEF ClientOK, Client
<1>3. ASSUME NEW n, SocketStep(net[s], n), At(s, n),
             KeysOK(Now) /\ RestOK(Now) => RestOK([Now EXCEPT !.net[s] = n])
      PROVE  Restful
  <2> DEFINE w == [Now EXCEPT !.net[s] = n]
  <2>1. Handled(Now, w)
    BY <1>1, <1>2, <1>3, AtOK
  <2>2. Become(w)
    BY <1>3 DEF At
  <2>3. KeysOK(Now) /\ RestOK(Now) => RestOK(w)
    BY <1>3
  <2> HIDE DEF w
  <2> QED BY <2>1, <2>2, <2>3 DEF Restful
<1>4. ASSUME RelayPairs(s) PROVE Restful
  <2> DEFINE n == [Deliver(net[s], "connected", NoSub) EXCEPT !.far = "server"]
  <2>1. SocketStep(net[s], n)
    BY <1>2, <1>4, RelayStep DEF RelayPairs
  <2>2. KeysOK(Now) /\ RestOK(Now) => RestOK([Now EXCEPT !.net[s] = n])
    BY <1>1, <1>2, <1>4, RelayRests DEF RelayPairs
  <2>3. At(s, n)
    BY <1>4 DEF RelayPairs
  <2> HIDE DEF n
  <2> QED BY <1>3, <2>1, <2>2, <2>3
<1>5. ASSUME RelayRefuses(s) PROVE Restful
  <2>1. PICK reason \in {"offline", "unknown"} : At(s, Hangup(Deliver(net[s], reason, NoSub)))
    BY <1>5 DEF RelayRefuses
  <2> DEFINE n == Hangup(Deliver(net[s], reason, NoSub))
  <2>2. SocketStep(net[s], n)
    BY <1>2, <1>5, RelayStep DEF RelayRefuses
  <2>3. KeysOK(Now) /\ RestOK(Now) => RestOK([Now EXCEPT !.net[s] = n])
    BY <1>1, <1>2, <1>5, RelayRests DEF RelayRefuses
  <2>4. At(s, n)
    BY <2>1
  <2> HIDE DEF n
  <2> QED BY <1>3, <2>2, <2>3, <2>4
<1>6. ASSUME Drop(s) PROVE Restful
  <2> DEFINE n == Hangup(net[s])
  <2>1. SocketStep(net[s], n)
    BY <1>2, <1>6, HangupStep DEF Drop
  <2>2. KeysOK(Now) /\ RestOK(Now) => RestOK([Now EXCEPT !.net[s] = n])
    BY <1>1, <1>2, <1>6, RelayRests DEF Drop
  <2>3. At(s, n)
    BY <1>6 DEF Drop
  <2> HIDE DEF n
  <2> QED BY <1>3, <2>1, <2>2, <2>3
<1>7. ASSUME ServerReceives(s) PROVE Restful
  <2> DEFINE m == Head(net[s].up)
  <2> DEFINE n == [net[s] EXCEPT !.up = Tail(@)]
  <2> DEFINE o == CASE m.type = "init" -> HandleSrpResumeInit(n)
                    [] m.type \in {"proof", "badproof"} -> HandleSrpResume(n, m.type)
                    [] OTHER -> HandleEncrypted(n, m)
  <2>0. net[s].far \in {"server", "challenged", "authed"} /\ net[s].up # <<>>
    BY <1>7 DEF ServerReceives
  <2>1. SocketStep(net[s], o)
    BY <1>2, <2>0, ServerStep
  <2>2. KeysOK(Now) /\ RestOK(Now) => RestOK([Now EXCEPT !.net[s] = o])
    BY <1>1, <1>2, <2>0, ServerRests
  <2>3. At(s, o)
    BY <1>7 DEF ServerReceives
  <2> HIDE DEF o
  <2> QED BY <1>3, <2>1, <2>2, <2>3
<1> QED BY <1>4, <1>5, <1>6, <1>7

\* Nobody waits at first.
LEMMA InitRests == Init => RestInvariant
<1> SUFFICES ASSUME Init PROVE RestInvariant
  OBVIOUS
<1>1. PICK s \in Sockets :
        /\ sc = [ws |-> s, auth |-> "authenticated", key |-> s, promise |-> NoSocket]
        /\ net = [t \in Sockets |->
                    IF t = s THEN [Unused EXCEPT !.near = "open", !.on = "message",
                                                 !.far = "authed"]
                    ELSE Unused]
  BY DEF Init
<1>2. cm = Stopped /\ bus = NoSub /\ subs = {}
  BY DEF Init
<1>3. Now.cm = cm /\ Now.sc = sc /\ Now.net = net /\ Now.bus = bus /\ Now.subs = subs
  BY DEF Now
<1>4. ASSUME NEW t \in Sockets
      PROVE  /\ net[t].running = FALSE /\ net[t].timer = FALSE /\ Len(net[t].down) = 0
             /\ net[t].near = (IF t = s THEN "open" ELSE "none")
             /\ t = s => net[t].on = "message" /\ net[t].far = "authed"
             /\ t # s => net[t].on = "none"
  <2>1. Unused.down = <<>>
    BY DEF Unused
  <2>2. net[t].down = <<>>
    BY <1>1, <2>1 DEF Unused
  <2>3. Len(net[t].down) = 0
    BY <2>2
  <2> QED BY <1>1, <2>3 DEF Unused
<1>5. \A t \in Sockets : Telling(net[t])
  <2>1. ASSUME NEW t \in Sockets PROVE Telling(net[t])
    <3> DEFINE n == net[t]
    <3>1. /\ n.timer = FALSE /\ Len(n.down) = 0
          /\ n.near = "open" => n.on = "message" /\ n.far = "authed"
      BY <1>4
    <3> HIDE DEF n
    <3>2. Telling(n)
      BY <3>1 DEF Telling
    <3> QED BY <3>2 DEF n
  <2> QED BY <2>1
<1>6. /\ sc.ws = s /\ sc.auth = "authenticated" /\ sc.key = s /\ sc.promise = NoSocket
  BY <1>1
<1>7. \A t \in Sockets : SocketLinked(Now, t) /\ ~Now.net[t].running
  BY <1>3, <1>4, <1>5, <1>6, ClientConstants DEF SocketLinked
<1>8. Tied(Now, {})
  BY <1>2, <1>3, <1>4, <1>6, <1>7 DEF Tied
<1>9. Aimed(Now) /\ ~Shown(Now)
  BY <1>2, <1>3 DEF Aimed, Shown, Stopped
<1> QED BY <1>8, <1>9, InitOK DEF RestInvariant, RestOK, Linked

\* Every step keeps those who wait in order.
LEMMA StepRests == RestInvariant /\ [Next]_vars => RestInvariant'
<1> SUFFICES ASSUME RestInvariant, [Next]_vars PROVE RestInvariant'
  OBVIOUS
<1>0. ClientInvariant
  BY DEF RestInvariant
<1>1. CASE Connect \/ Disconnect \/ Fetch \/ Heartbeat \/ BecomeVisible
             \/ BackoffTimer \/ CheckStale \/ PongTimeout
  BY <1>0, <1>1, ManagerRestful, BecomeRests
<1>2. ASSUME NEW s \in Sockets,
             Opens(s) \/ OpenFails(s) \/ PairTimeout(s) \/ ResumeTimeout(s)
               \/ Receives(s) \/ CloseEvent(s)
      PROVE  RestInvariant'
  BY <1>0, <1>2, SocketRestful, BecomeRests
<1>3. ASSUME NEW s \in Sockets,
             RelayPairs(s) \/ RelayRefuses(s) \/ Drop(s) \/ ServerReceives(s)
      PROVE  RestInvariant'
  BY <1>0, <1>3, FarRestful, BecomeRests
<1>4. CASE UNCHANGED vars
  <2>1. Now' = Now /\ alone' = alone
    BY <1>4 DEF vars, Now
  <2>2. ClientInvariant'
    BY <1>0, <1>4, StepOK
  <2>3. RestOK(Now) => RestOK(Now)'
    BY <2>1 DEF RestOK, Linked, Tied, Aimed, Shown, Served, SocketLinked, Going,
         Orphaned, IsConnected, IsOpen
  <2> QED BY <2>1, <2>2, <2>3 DEF RestInvariant
<1> QED BY <1>1, <1>2, <1>3, <1>4 DEF Next

\* The attempt, the sockets, the connection and the bus agree at all times, while
\* attempts do not overlap.
THEOREM RestInvariantHolds == Spec => []RestInvariant
<1> QED BY InitRests, StepRests, PTL DEF Spec

\* Two queues without a message between them are empty.
LEMMA BothEmpty ==
    ASSUME NEW n \in Socket, n.up \o n.down = <<>>
    PROVE  Len(n.up) = 0 /\ Len(n.down) = 0
<1> DEFINE a == n.up
<1> DEFINE b == n.down
<1> DEFINE i == Len(a)
<1> DEFINE j == Len(b)
<1>1. a \in Seq(UpMessage) /\ b \in Seq(DownMessage)
  BY SocketLengths
<1>2. a \o b = <<>>
  OBVIOUS
<1> HIDE DEF a, b
<1>3. i \in Nat /\ j \in Nat
  BY <1>1
<1>4. Len(a \o b) = i + j
  <2>1. a \in Seq(UpMessage \cup DownMessage) /\ b \in Seq(UpMessage \cup DownMessage)
    BY <1>1
  <2> QED BY <2>1
<1>5. Len(a \o b) = 0
  BY <1>2
<1> HIDE DEF i, j
<1>6. i = 0 /\ j = 0
  BY <1>3, <1>4, <1>5
<1> QED BY <1>6 DEF i, j, a, b

\* A client that is quiet has no attempt under way, but for a disowned one.
LEMMA QuietIsIdle ==
    ASSUME ClientOK(Now), RestOK(Now), Quiet, ~Disowned
    PROVE  \A s \in Sockets : ~net[s].running
<1>1. Now.sc = sc /\ Now.net = net /\ Tied(Now, {})
  BY DEF Now, RestOK, Linked
<1>2. ASSUME NEW s \in Sockets, net[s].running PROVE FALSE
  <2> DEFINE n == net[s]
  <2>1. Going(Now, s) /\ Telling(n) /\ n \in Socket
    BY <1>1, <1>2 DEF Tied, SocketLinked, ClientOK, Client
  <2>2. n.near = "open" /\ n.far # "relay" /\ ~n.timer /\ n.up \o n.down = <<>>
    <3>1. n.near \in {"connecting", "open"}
      BY <1>1, <1>2, GoingFacts
    <3> QED BY <3>1 DEF Quiet
  <2>3. Len(n.up) = 0 /\ Len(n.down) = 0
    BY <2>1, <2>2, BothEmpty
  <2>4. ~(sc.ws = NoSocket /\ sc.auth = "failed")
    BY <1>2, <2>2 DEF Disowned
  <2> HIDE DEF n
  <2>5. ~GoesOn(n)
    <3>1. ~Shaking(n)
      BY <2>3 DEF Shaking, NoUp, NoDown
    <3>2. n.far # "gone"
      BY <2>1, <2>2, <2>3 DEF Telling, Closes
    <3> QED BY <2>2, <2>3, <3>1, <3>2 DEF GoesOn
  <2>6. ~Orphaned(Now, s)
    BY <1>1, <2>2, <2>4 DEF Orphaned, n
  <2> QED BY <1>1, <2>1, <2>5, <2>6 DEF Going, n
<1> QED BY <1>2

\* While attempts do not overlap, a client that comes to rest has a working subscription
\* or has given up, or its attempt was disowned by the late close of an older socket:
\* for any number of sockets, subscriptions, attempts, stops and faults, each failure of
\* an attempt reaches the manager, and each reconnection reaches the bus.
THEOREM QuietSettles == Spec => []QuietIsSettled
<1>1. RestInvariant => QuietIsSettled
  <2> SUFFICES ASSUME RestInvariant, Quiet, alone, cm.started, cm.state # "disconnected",
                      ~Disowned
               PROVE  cm.state = "connected" /\ Flowing
    BY DEF QuietIsSettled
  <2>1. /\ Now.cm = cm /\ Now.sc = sc /\ Now.net = net /\ Now.bus = bus /\ Now.subs = subs
        /\ ClientOK(Now) /\ Pursuit(Now) /\ KeysOK(Now) /\ RestOK(Now)
    BY DEF Now, RestInvariant, ClientInvariant
  <2>2. Tied(Now, {}) /\ Aimed(Now) /\ (Shown(Now) => Served(Now))
    BY <2>1 DEF RestOK, Linked
  <2>3. \A s \in Sockets : ~net[s].running
    BY <2>1, QuietIsIdle
  <2>4. sc.promise = NoSocket /\ cm.current = NoSocket
    BY <2>1, <2>2, <2>3 DEF Tied, SocketLinked, Aimed, ClientOK, Client, Secure
  <2>5. cm.state = "connected"
    BY <2>1, <2>4 DEF Pursuit, Quiet, ClientOK, Client, Manager
  <2>6. CASE cm.heartbeat
    BY <2>5, <2>6 DEF Quiet
  <2>7. CASE ~cm.heartbeat
    <3>1. Served(Now)
      BY <2>1, <2>2, <2>5, <2>7 DEF Shown
    <3>2. IsConnected(Now) /\ Heard(net[sc.ws], subs)
      BY <2>1, <2>4, <3>1 DEF Served
    <3> DEFINE n == net[sc.ws]
    <3>3. sc.ws \in Sockets /\ n.near = "open" /\ n.on = "message"
          /\ n.far \in {"authed", "gone"} /\ sc.key = sc.ws /\ Telling(n) /\ n \in Socket
      <4>1. sc.ws \in Sockets /\ n.near = "open"
        BY <2>1, <3>2 DEF IsConnected, IsOpen, ClientOK, Client, Secure
      <4> QED BY <2>1, <2>2, <3>2, <4>1
                DEF Tied, SocketLinked, KeysOK, ClientOK, Client
    <3>4. n.up \o n.down = <<>>
      BY <3>3 DEF Quiet
    <3> HIDE DEF n
    <3>5. Len(n.up) = 0 /\ Len(n.down) = 0
      BY <3>3, <3>4, BothEmpty
    <3>6. n.far # "gone"
      BY <3>3, <3>5 DEF Telling, Closes
    <3>7. n.subs \cap subs # {}
      <4>1. Heard(n, subs)
        BY <3>2 DEF n
      <4> QED BY <3>5, <3>6, <4>1 DEF Heard
    <3>8. Flowing
      BY <3>3, <3>6, <3>7 DEF Flowing, n
    <3> QED BY <2>5, <3>8
  <2> QED BY <2>6, <2>7
<1> QED BY <1>1, RestInvariantHolds, PTL
=============================================================================
