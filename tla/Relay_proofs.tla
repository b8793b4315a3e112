---------------------------- MODULE Relay_proofs ----------------------------
(***************************************************************************)
(* Proofs about Relay, for any servers that share the username, any        *)
(* phones, any sockets and any number of faults. IInv is what keeps        *)
(* messages, roles and claims in order; QInv, the second invariant, says   *)
(* what is still on its way to a service that waits, or means to.          *)
(***************************************************************************)
EXTENDS Relay, FiniteSetTheorems, TLAPS

-----------------------------------------------------------------------------
(* The inductive invariant.                                                *)

Channel == [near : {"none", "connecting", "open", "closing", "closed"},
            far : {"none", "open", "closing", "closed"},
            up : Seq(Message), down : Seq(Message)]

\* A near end that messages can come to.
Ears == {"connecting", "open", "closing"}

Live(n) == n.far \in {"open", "closing"}

\* The first message of a socket, on which the relay gives it its role.
Greets(m) == m.type \in {"register", "connect"}

\* A socket in order: what is under way on it suits its ends and its holder, it
\* greets once and first, and a phone's data and the answers to it name the phone's
\* socket.
Wire(s, n) ==
    /\ n.up # <<>> => Live(n)
    /\ n.down # <<>> => n.near \in Ears
    /\ n.near = "connecting" =>
          /\ Holder[s] \in Servers /\ n.far \in {"none", "closed"}
          /\ \A m \in Range(n.down) : m.type = "close"
    /\ \A m \in Range(n.up) :
          /\ m.type \in {"register", "answer"} => Holder[s] \in Servers
          /\ m.type \in {"connect", "data"} => Holder[s] \in Phones
          /\ m.type = "data" => m.from = s
          /\ Greets(m) => n.far = "open"
    /\ \A i \in 2..Len(n.up) : ~Greets(n.up[i])
    /\ \A m \in Range(n.down) : m.type = "answer" => m.from = s

\* No phone has spoken on the socket.
Unspoken(n) ==
    /\ \A m \in Range(n.down) : m.type # "data"
    /\ \A m \in Range(n.up) : m.type # "answer"

\* A socket that has not greeted yet has no role.
GreetingsOK ==
    \A s \in Sockets :
        (\E m \in Range(net[s].up) : Greets(m)) => mode[s] = "new" /\ Unspoken(net[s])

\* The waiting socket is the owner's, known as a server's, and unspoken.
WaitingOK ==
    waiting # NoSocket =>
        /\ waiting \in Sockets
        /\ owner \in Servers /\ Holder[waiting] = owner /\ mode[waiting] = "server"
        /\ Live(net[waiting]) /\ Unspoken(net[waiting])

\* A pair joins a socket of the owner with one of a phone, and what is under way on
\* the server's socket is of that phone.
PairOK(q) ==
    /\ q \in Sockets \X Sockets
    /\ owner \in Servers /\ Holder[q[1]] = owner /\ Holder[q[2]] \in Phones
    /\ mode[q[1]] = "paired" /\ mode[q[2]] = "paired"
    /\ Live(net[q[1]]) /\ Live(net[q[2]])
    /\ \A m \in Range(net[q[1]].down) : m.type = "data" => m.from = q[2]
    /\ \A m \in Range(net[q[1]].up) : m.type = "answer" => m.from = q[2]

PairsOK ==
    /\ \A q \in pairs : PairOK(q)
    /\ \A q, r \in pairs : q[1] = r[1] \/ q[2] = r[2] => q = r

RolesOK == GreetingsOK /\ WaitingOK /\ PairsOK

\* The service hears of its registration, or of the end of the socket, before any
\* phone speaks on it.
Settles(m) == m.type \in {"registered", "close"}

Introduced(d) ==
    \A i \in 1..Len(d) : d[i].type = "data" => \E j \in 1..(i - 1) : Settles(d[j])

Expects(d) == \E m \in Range(d) : Settles(m)

\* The server's sockets that the relay pairs, or has paired, with a phone.
Relayed == {waiting} \cup {q[1] : q \in pairs}

\* A service c of the server v fits the sockets n, of which cl are handed off and R
\* are relayed.
SvcFits(v, c, n, cl, R) ==
    /\ c.waiting # NoSocket => Holder[c.waiting] = v /\ c.waiting \notin cl
    /\ c.connecting # NoSocket =>
          LET s == c.connecting
          IN  /\ Holder[s] = v /\ s \notin cl /\ n[s].near \in Ears
              /\ Introduced(n[s].down)
              /\ s \in R => Expects(n[s].down)

Services == [enabled : BOOLEAN, timer : BOOLEAN, status : Status,
             waiting : Sockets \cup {NoSocket}, connecting : Sockets \cup {NoSocket}]

ServicesOK ==
    /\ svc \in [Servers -> Services]
    /\ \A v \in Servers : SvcFits(v, svc[v], net, claimed, Relayed)

ClaimedOK ==
    /\ claimed \subseteq Sockets
    /\ \A s \in claimed : net[s].near \in {"open", "closing"} /\ Holder[s] \in Servers

WiresOK == net \in [Sockets -> Channel] /\ \A s \in Sockets : Wire(s, net[s])

HeardOK == heard \in [Sockets -> SUBSET Sockets] /\ \A s \in Sockets : heard[s] \subseteq {s}

TablesOK ==
    /\ mode \in [Sockets -> {"new", "server", "paired"}]
    /\ owner \in Servers \cup {NoServer}
    /\ waiting \in Sockets \cup {NoSocket}
    /\ pairs \subseteq Sockets \X Sockets

IInv == WiresOK /\ TablesOK /\ RolesOK /\ ServicesOK /\ ClaimedOK /\ HeardOK

-----------------------------------------------------------------------------
(* Messages under way.                                                     *)

\* What a message that is sent last adds.
LEMMA AppendFacts ==
    ASSUME NEW q \in Seq(Message), NEW m \in Message
    PROVE  LET a == Append(q, m) IN
           /\ a \in Seq(Message) /\ a # <<>> /\ Len(a) = Len(q) + 1
           /\ a[Len(q) + 1] = m /\ \A i \in 1..Len(q) : a[i] = q[i]
           /\ Range(a) = Range(q) \cup {m}
<1> DEFINE a == Append(q, m)
<1>1. /\ a \in Seq(Message) /\ a # <<>> /\ Len(a) = Len(q) + 1
      /\ a[Len(q) + 1] = m /\ \A i \in 1..Len(q) : a[i] = q[i]
      /\ DOMAIN a = 1..(Len(q) + 1) /\ DOMAIN q = 1..Len(q) /\ Len(q) \in Nat
  OBVIOUS
<1> HIDE DEF a
<1>2. Range(a) \subseteq Range(q) \cup {m}
  BY <1>1 DEF Range
<1>3. Range(q) \subseteq Range(a) /\ m \in Range(a)
  BY <1>1 DEF Range
<1> QED BY <1>1, <1>2, <1>3 DEF a

\* What is left when the first message is taken.
LEMMA TailFacts ==
    ASSUME NEW q \in Seq(Message), q # <<>>
    PROVE  /\ Head(q) \in Message /\ Head(q) \in Range(q) /\ Head(q) = q[1]
           /\ Tail(q) \in Seq(Message) /\ Len(q) >= 1 /\ Len(Tail(q)) = Len(q) - 1
           /\ \A i \in 1..(Len(q) - 1) : Tail(q)[i] = q[i + 1]
           /\ Range(Tail(q)) \subseteq Range(q)
<1>1. /\ Head(q) \in Message /\ Head(q) = q[1]
      /\ Tail(q) \in Seq(Message) /\ Len(q) >= 1 /\ Len(Tail(q)) = Len(q) - 1
      /\ \A i \in 1..(Len(q) - 1) : Tail(q)[i] = q[i + 1]
      /\ DOMAIN q = 1..Len(q) /\ DOMAIN Tail(q) = 1..(Len(q) - 1) /\ Len(q) \in Nat
  OBVIOUS
<1> QED BY <1>1 DEF Range

\* The sequences that replace a channel.
LEMMA ShortFacts ==
    /\ \A m \in Message : <<m>> \in Seq(Message) /\ Range(<<m>>) = {m} /\ <<m>> # <<>>
                          /\ Len(<<m>>) = 1 /\ <<m>>[1] = m
    /\ <<>> \in Seq(Message) /\ Range(<<>>) = {} /\ Len(<<>>) = 0
BY DEF Range

\* Messages that name no socket.
LEMMA MsgFacts ==
    ASSUME NEW type \in {"register", "registered", "rejected", "connect", "connected",
                         "error", "close"}
    PROVE  Msg(type) \in Message /\ Msg(type).type = type
BY DEF Msg, Message

\* Introductions, as messages are added and taken.
LEMMA IntroFacts ==
    ASSUME NEW d \in Seq(Message)
    PROVE  /\ \A m \in Message : /\ Introduced(<<m>>) <=> m.type # "data"
                                 /\ Settles(m) => Expects(<<m>>)
           /\ Introduced(<<>>)
           /\ \A m \in Message :
                 /\ Introduced(d) /\ (m.type = "data" => Expects(d)) => Introduced(Append(d, m))
                 /\ Settles(m) \/ Expects(d) => Expects(Append(d, m))
           /\ d # <<>> /\ Introduced(d) =>
                 /\ Head(d).type # "data"
                 /\ ~Settles(Head(d)) =>
                       Introduced(Tail(d)) /\ (Expects(d) => Expects(Tail(d)))
<1>1. ASSUME NEW m \in Message
      PROVE  /\ Introduced(<<m>>) <=> m.type # "data"
             /\ Settles(m) => Expects(<<m>>)
  BY ShortFacts DEF Introduced, Expects
<1>2. Introduced(<<>>)
  BY ShortFacts DEF Introduced
<1>3. ASSUME NEW m \in Message, Introduced(d), m.type = "data" => Expects(d)
      PROVE  Introduced(Append(d, m))
  <2> DEFINE a == Append(d, m)
  <2>1. /\ Len(a) = Len(d) + 1 /\ a[Len(d) + 1] = m /\ \A i \in 1..Len(d) : a[i] = d[i]
        /\ Len(d) \in Nat
    BY AppendFacts
  <2> HIDE DEF a
  <2> SUFFICES ASSUME NEW i \in 1..Len(a), a[i].type = "data"
               PROVE  \E j \in 1..(i - 1) : Settles(a[j])
    BY DEF Introduced, a
  <2>2. CASE i <= Len(d)
    <3>1. PICK j \in 1..(i - 1) : Settles(d[j])
      BY <2>1, <2>2, <1>3 DEF Introduced
    <3> QED BY <2>1, <2>2, <3>1
  <2>3. CASE i = Len(d) + 1
    <3>1. m.type = "data"
      BY <2>1, <2>3
    <3>2. PICK x \in Range(d) : Settles(x)
      BY <1>3, <3>1 DEF Expects
    <3>3. PICK j \in 1..Len(d) : d[j] = x
      BY <3>2 DEF Range
    <3> QED BY <2>1, <2>3, <3>2, <3>3
  <2> QED BY <2>1, <2>2, <2>3
<1>4. ASSUME NEW m \in Message, Settles(m) \/ Expects(d)
      PROVE  Expects(Append(d, m))
  BY <1>4, AppendFacts DEF Expects
<1>5. ASSUME d # <<>>, Introduced(d)
      PROVE  /\ Head(d).type # "data"
             /\ ~Settles(Head(d)) =>
                   Introduced(Tail(d)) /\ (Expects(d) => Expects(Tail(d)))
  <2> DEFINE r == Tail(d)
  <2>1. /\ Head(d) = d[1] /\ r \in Seq(Message) /\ Len(d) >= 1 /\ Len(r) = Len(d) - 1
        /\ \A i \in 1..(Len(d) - 1) : r[i] = d[i + 1]
        /\ Len(d) \in Nat /\ DOMAIN d = 1..Len(d) /\ DOMAIN r = 1..Len(r)
    BY <1>5, TailFacts
  <2> HIDE DEF r
  <2>2. Head(d).type # "data"
    BY <1>5, <2>1 DEF Introduced
  <2>3. ASSUME ~Settles(Head(d)), NEW i \in 1..Len(r), r[i].type = "data"
        PROVE  \E j \in 1..(i - 1) : Settles(r[j])
    <3>0. i \in Nat /\ i >= 1 /\ i + 1 \in 1..Len(d) /\ d[i + 1].type = "data"
      BY <2>1, <2>3
    <3>1. PICK j \in 1..((i + 1) - 1) : Settles(d[j])
      BY <1>5, <3>0 DEF Introduced
    <3>2. j # 1
      BY <2>1, <2>3, <3>1
    <3>3. j - 1 \in 1..(i - 1) /\ j - 1 \in 1..(Len(d) - 1) /\ (j - 1) + 1 = j
      BY <2>1, <3>0, <3>1, <3>2
    <3>4. r[j - 1] = d[j]
      BY <2>1, <3>3
    <3> QED BY <3>1, <3>3, <3>4
  <2>4. ASSUME ~Settles(Head(d)), Expects(d)
        PROVE  Expects(r)
    <3>1. PICK j \in 1..Len(d) : Settles(d[j])
      BY <2>1, <2>4 DEF Expects, Range
    <3>2. j # 1
      BY <2>1, <2>4, <3>1
    <3>3. j - 1 \in 1..Len(r) /\ r[j - 1] = d[j]
      BY <2>1, <3>1, <3>2
    <3> QED BY <2>1, <3>1, <3>3 DEF Expects, Range
  <2> QED BY <2>2, <2>3, <2>4 DEF Introduced, r
<1> QED BY <1>1, <1>2, <1>3, <1>4, <1>5

\* A channel on which only the close is left.
LEMMA LastWord ==
    LET d == <<Msg("close")>>
    IN  /\ d \in Seq(Message) /\ d # <<>> /\ \A m \in Range(d) : m.type = "close"
        /\ Introduced(d) /\ Expects(d)
<1>1. Msg("close") \in Message /\ Msg("close").type = "close"
  BY MsgFacts
<1>2. Settles(Msg("close"))
  BY <1>1 DEF Settles
<1> HIDE DEF Msg
<1>3. /\ <<Msg("close")>> \in Seq(Message) /\ <<Msg("close")>> # <<>>
      /\ Range(<<Msg("close")>>) = {Msg("close")}
  BY <1>1, ShortFacts
<1>4. Introduced(<<Msg("close")>>) /\ Expects(<<Msg("close")>>)
  BY <1>1, <1>2, ShortFacts, IntroFacts
<1> QED BY <1>1, <1>3, <1>4

-----------------------------------------------------------------------------
(* Sockets, as messages are sent and received and ends are closed.         *)

\* The socket r speaks no more for a phone, or to one, than n did, and the relay
\* has not lost it.
Calm(n, r) ==
    /\ \A m \in Range(r.down) : m.type = "data" => m \in Range(n.down)
    /\ \A m \in Range(r.up) :
          \/ m \in Range(n.up)
          \/ m.type \in {"close", "data"}
          \/ m.type = "answer" /\ \E k \in Range(n.down) : k.type = "data" /\ k.from = m.from
    /\ Live(n) => Live(r)

\* A service that counts on the socket n can count on r.
Linked(n, r) ==
    /\ n.near \in Ears => r.near \in Ears
    /\ n.near \in {"open", "closing"} => r.near \in {"open", "closing"}
    /\ Introduced(n.down) => Introduced(r.down)
    /\ Expects(n.down) => Expects(r.down)

Safe(s, n) == n \in Channel /\ Wire(s, n)

Greeted(n) == \A m \in Range(n.up) : ~Greets(m)

\* Steps of a socket follow each other.
LEMMA StepsCompose ==
    ASSUME NEW n, NEW r, NEW t
    PROVE  /\ Calm(n, n) /\ Linked(n, n)
           /\ Calm(n, r) /\ Calm(r, t) => Calm(n, t)
           /\ Linked(n, r) /\ Linked(r, t) => Linked(n, t)
BY DEF Calm, Linked

\* A socket that has not been used is in order, and silent.
LEMMA UnusedIsSafe ==
    ASSUME NEW s
    PROVE  Safe(s, Unused) /\ ~Live(Unused) /\ Greeted(Unused) /\ Range(Unused.down) = {}
BY ShortFacts DEF Unused, Safe, Channel, Wire, Live, Greeted

\* SendUp() of data, answers or a close.
LEMMA SendUpKeeps ==
    ASSUME NEW s \in Sockets, NEW n, Safe(s, n), NEW m \in Message, ~Greets(m),
           m.type = "answer" => Holder[s] \in Servers,
           m.type = "data" => Holder[s] \in Phones /\ m.from = s
    PROVE  /\ Safe(s, SendUp(n, m)) /\ Linked(n, SendUp(n, m))
           /\ SendUp(n, m).near = n.near /\ SendUp(n, m).far = n.far
           /\ SendUp(n, m).down = n.down
           /\ Range(SendUp(n, m).up) \subseteq Range(n.up) \cup {m}
           /\ m.type \in {"close", "data"} => Calm(n, SendUp(n, m))
<1>1. n \in Channel /\ Wire(s, n)
  BY DEF Safe
<1>2. CASE ~(n.near = "open" /\ n.far \in {"open", "closing"})
  BY <1>1, <1>2 DEF SendUp, Safe, Linked, Calm
<1>3. CASE n.near = "open" /\ n.far \in {"open", "closing"}
  <2> DEFINE a == Append(n.up, m)
  <2>1. n.up \in Seq(Message)
    BY <1>1 DEF Channel
  <2>2. /\ a \in Seq(Message) /\ a # <<>> /\ Len(a) = Len(n.up) + 1
        /\ a[Len(n.up) + 1] = m /\ \A i \in 1..Len(n.up) : a[i] = n.up[i]
        /\ Range(a) = Range(n.up) \cup {m} /\ Len(n.up) \in Nat
    BY <2>1, AppendFacts
  <2> HIDE DEF a
  <2> DEFINE r == [n EXCEPT !.up = a]
  <2>3. SendUp(n, m) = r
    BY <1>3 DEF SendUp, a
  <2>4. /\ r \in Channel /\ r.near = n.near /\ r.far = n.far /\ r.down = n.down /\ r.up = a
    BY <1>1, <2>2 DEF Channel
  <2> HIDE DEF r
  <2>5. \A i \in 2..Len(a) : ~Greets(a[i])
    <3> SUFFICES ASSUME NEW i \in 2..Len(a) PROVE ~Greets(a[i])
      OBVIOUS
    <3>1. i \in 2..Len(n.up) \/ i = Len(n.up) + 1
      BY <2>2
    <3>2. CASE i = Len(n.up) + 1
      BY <2>2, <3>2
    <3>3. CASE i \in 2..Len(n.up)
      <4>1. ~Greets(n.up[i])
        BY <1>1, <3>3 DEF Wire
      <4>2. i \in 1..Len(n.up)
        BY <3>3, <2>2
      <4> QED BY <4>1, <4>2, <2>2
    <3> QED BY <3>1, <3>2, <3>3
  <2>6. \A x \in Range(a) :
          /\ x.type \in {"register", "answer"} => Holder[s] \in Servers
          /\ x.type \in {"connect", "data"} => Holder[s] \in Phones
          /\ x.type = "data" => x.from = s
          /\ Greets(x) => n.far = "open"
    BY <1>1, <2>2 DEF Wire, Greets
  <2>7. Wire(s, r)
    BY <1>1, <1>3, <2>4, <2>5, <2>6 DEF Wire, Live
  <2> QED BY <1>1, <2>2, <2>3, <2>4, <2>7 DEF Safe, Linked, Calm, Live
<1> QED BY <1>2, <1>3

\* SendDown() of any message but data, and of data to a server's socket.
LEMMA SendDownKeeps ==
    ASSUME NEW s \in Sockets, NEW n, Safe(s, n), NEW m \in Message,
           m.type = "answer" => m.from = s
    PROVE  /\ Safe(s, SendDown(n, m))
           /\ (m.type = "data" => Expects(n.down)) => Linked(n, SendDown(n, m))
           /\ SendDown(n, m).near = n.near /\ SendDown(n, m).far = n.far
           /\ SendDown(n, m).up = n.up
           /\ Range(SendDown(n, m).down) \subseteq Range(n.down) \cup {m}
           /\ m.type # "data" => Calm(n, SendDown(n, m))
           /\ Settles(m) /\ n.far = "open" /\ n.near \in {"open", "closing"}
                => Expects(SendDown(n, m).down)
<1>1. n \in Channel /\ Wire(s, n)
  BY DEF Safe
<1>2. CASE ~(n.far = "open" /\ n.near \in {"open", "closing"})
  BY <1>1, <1>2 DEF SendDown, Safe, Linked, Calm
<1>3. CASE n.far = "open" /\ n.near \in {"open", "closing"}
  <2> DEFINE a == Append(n.down, m)
  <2>1. n.down \in Seq(Message)
    BY <1>1 DEF Channel
  <2>2. /\ a \in Seq(Message) /\ a # <<>>
        /\ Range(a) = Range(n.down) \cup {m}
        /\ Introduced(n.down) /\ (m.type = "data" => Expects(n.down)) => Introduced(a)
        /\ Settles(m) \/ Expects(n.down) => Expects(a)
    BY <2>1, AppendFacts, IntroFacts
  <2> HIDE DEF a
  <2> DEFINE r == [n EXCEPT !.down = a]
  <2>3. SendDown(n, m) = r
    BY <1>3 DEF SendDown, a
  <2>4. /\ r \in Channel /\ r.near = n.near /\ r.far = n.far /\ r.up = n.up /\ r.down = a
    BY <1>1, <2>2 DEF Channel
  <2> HIDE DEF r
  <2>5. Wire(s, r)
    BY <1>1, <1>3, <2>2, <2>4 DEF Wire, Live, Ears
  <2> QED BY <1>1, <2>2, <2>3, <2>4, <2>5 DEF Safe, Linked, Calm, Live
<1> QED BY <1>2, <1>3

\* CloseNear(), of a socket that is open or connects.
LEMMA CloseNearKeeps ==
    ASSUME NEW s \in Sockets, NEW n, Safe(s, n)
    PROVE  /\ Safe(s, CloseNear(n)) /\ Calm(n, CloseNear(n)) /\ Linked(n, CloseNear(n))
           /\ CloseNear(n).far = n.far /\ CloseNear(n).near # "connecting"
           /\ n.near \in {"closing", "closed", "none"} => CloseNear(n) = n
           /\ n.near \in Ears => CloseNear(n).near = "closing"
<1>1. n \in Channel /\ Wire(s, n)
  BY DEF Safe
<1>2. Msg("close") \in Message /\ Msg("close").type = "close"
  BY MsgFacts
<1>3. CASE n.near = "open"
  <2> DEFINE u == SendUp(n, Msg("close"))
  <2>1. /\ Safe(s, u) /\ Linked(n, u) /\ Calm(n, u) /\ u.near = "open" /\ u.far = n.far
        /\ u.down = n.down
    BY <1>2, <1>3, SendUpKeeps DEF Greets
  <2>2. CloseNear(n) = [u EXCEPT !.near = "closing"]
    BY <1>3 DEF CloseNear
  <2> HIDE DEF u
  <2> DEFINE r == [u EXCEPT !.near = "closing"]
  <2>3. /\ r \in Channel /\ r.near = "closing" /\ r.far = u.far /\ r.up = u.up
        /\ r.down = u.down
    BY <2>1 DEF Safe, Channel
  <2> HIDE DEF r
  <2>4. Wire(s, r)
    BY <2>1, <2>3 DEF Safe, Wire, Live, Ears
  <2> QED BY <1>3, <2>1, <2>2, <2>3, <2>4 DEF Safe, Linked, Calm, Live, Ears, r
<1>4. CASE n.near = "connecting"
  <2> DEFINE d == <<Msg("close")>>
             r == [n EXCEPT !.near = "closing", !.down = d]
  <2>1. CloseNear(n) = r
    BY <1>4 DEF CloseNear
  <2>2. /\ d \in Seq(Message) /\ d # <<>> /\ \A m \in Range(d) : m.type = "close"
        /\ Introduced(d) /\ Expects(d)
    BY LastWord
  <2> HIDE DEF d
  <2>3. /\ r \in Channel /\ r.near = "closing" /\ r.far = n.far /\ r.up = n.up
        /\ r.down = d
    BY <1>1, <2>2 DEF Channel
  <2> HIDE DEF r
  <2>4. Wire(s, r)
    BY <1>1, <2>2, <2>3 DEF Wire, Live, Ears
  <2> QED BY <1>4, <2>1, <2>2, <2>3, <2>4 DEF Safe, Linked, Calm, Live, Ears
<1>5. CASE n.near \in {"closing", "closed", "none"}
  BY <1>5, StepsCompose DEF CloseNear, Ears
<1> QED BY <1>1, <1>3, <1>4, <1>5 DEF Channel

\* CloseFar(), of a socket that the relay does not expect a greeting from.
LEMMA CloseFarKeeps ==
    ASSUME NEW s \in Sockets, NEW n, Safe(s, n), Greeted(n)
    PROVE  /\ Safe(s, CloseFar(n)) /\ Calm(n, CloseFar(n)) /\ Linked(n, CloseFar(n))
           /\ Greeted(CloseFar(n)) /\ CloseFar(n).near = n.near
           /\ n.far \in {"open", "closing"} => CloseFar(n).far = "closing"
           /\ n.far \in {"none", "closed"} => CloseFar(n) = n
<1>1. n \in Channel /\ Wire(s, n)
  BY DEF Safe
<1>2. Msg("close") \in Message /\ Msg("close").type = "close"
  BY MsgFacts
<1>3. CASE n.far = "open"
  <2> DEFINE u == SendDown(n, Msg("close"))
  <2>1. /\ Safe(s, u) /\ Linked(n, u) /\ Calm(n, u) /\ u.far = "open" /\ u.near = n.near
        /\ u.up = n.up
    BY <1>2, <1>3, SendDownKeeps
  <2>2. CloseFar(n) = [u EXCEPT !.far = "closing"]
    BY <1>3 DEF CloseFar
  <2> HIDE DEF u
  <2> DEFINE r == [u EXCEPT !.far = "closing"]
  <2>3. /\ r \in Channel /\ r.far = "closing" /\ r.near = u.near /\ r.up = u.up
        /\ r.down = u.down
    BY <2>1 DEF Safe, Channel
  <2> HIDE DEF r
  <2>4. Wire(s, r)
    BY <2>1, <2>3 DEF Safe, Wire, Live, Ears, Greeted
  <2> QED BY <1>3, <2>1, <2>2, <2>3, <2>4 DEF Safe, Linked, Calm, Live, Greeted, r
<1>4. CASE n.far \in {"none", "closing", "closed"}
  BY <1>4, StepsCompose DEF CloseFar
<1> QED BY <1>1, <1>3, <1>4 DEF Channel

\* NearClosed(): the near end has seen the close.
LEMMA NearClosedKeeps ==
    ASSUME NEW s \in Sockets, NEW n, Safe(s, n)
    PROVE  Safe(s, NearClosed(n)) /\ Calm(n, NearClosed(n))
<1>1. n \in Channel
  BY DEF Safe
<1>2. CASE n.far \in {"none", "closed"}
  BY <1>2, UnusedIsSafe DEF NearClosed, Calm, Live, Unused, Greeted, Range
<1>3. CASE n.far \in {"open", "closing"}
  <2> DEFINE u == CloseNear(n)
             r == [u EXCEPT !.near = "closed", !.down = <<>>]
  <2>1. NearClosed(n) = r
    BY <1>3 DEF NearClosed
  <2>2. Safe(s, u) /\ Calm(n, u) /\ u.far = n.far
    BY CloseNearKeeps
  <2> HIDE DEF u
  <2>3. /\ r \in Channel /\ r.near = "closed" /\ r.far = u.far /\ r.up = u.up
        /\ r.down = <<>>
    BY <2>2, ShortFacts DEF Safe, Channel
  <2> HIDE DEF r
  <2>4. Wire(s, r)
    BY <2>2, <2>3, ShortFacts DEF Safe, Wire, Live
  <2> QED BY <2>1, <2>2, <2>3, <2>4, ShortFacts DEF Safe, Calm, Live
<1> QED BY <1>1, <1>2, <1>3 DEF Channel

\* FarClosed(): the relay has seen the close.
LEMMA FarClosedKeeps ==
    ASSUME NEW s \in Sockets, NEW n, Safe(s, n)
    PROVE  /\ Safe(s, FarClosed(n)) /\ Linked(n, FarClosed(n))
           /\ ~Live(FarClosed(n)) /\ Greeted(FarClosed(n))
           /\ \A m \in Range(FarClosed(n).down) : m.type = "data" => m \in Range(n.down)
<1>1. n \in Channel /\ Wire(s, n)
  BY DEF Safe
<1>2. CASE n.near = "closed"
  <2>1. n.down = <<>> /\ ~Expects(n.down)
    BY <1>1, <1>2, ShortFacts DEF Wire, Ears, Expects
  <2> QED BY <1>2, <2>1, UnusedIsSafe, ShortFacts, IntroFacts DEF FarClosed, Linked, Ears, Unused
<1>3. CASE n.near # "closed"
  <2>1. Msg("close") \in Message /\ Msg("close").type = "close"
    BY MsgFacts
  <2> DEFINE c == CloseFar(n)
             r == [c EXCEPT !.far = "closed", !.up = <<>>]
  <2>2. FarClosed(n) = r
    BY <1>3 DEF FarClosed
  <2>3. /\ c \in Channel /\ Linked(n, c) /\ c.near = n.near
        /\ \A m \in Range(c.down) : m.type = "data" => m \in Range(n.down)
        /\ \A m \in Range(c.down) : m.type = "answer" => m.from = s
        /\ c.down # <<>> => c.near \in Ears
        /\ c.near = "connecting" => Holder[s] \in Servers /\ \A m \in Range(c.down) : m.type = "close"
    <3>1. CASE n.far # "open"
      BY <1>1, <3>1, StepsCompose DEF CloseFar, Wire
    <3>2. CASE n.far = "open"
      <4> DEFINE u == SendDown(n, Msg("close"))
      <4>1. /\ Safe(s, u) /\ Linked(n, u) /\ Calm(n, u) /\ u.near = n.near
        BY <2>1, SendDownKeeps
      <4>2. c = [u EXCEPT !.far = "closing"]
        BY <3>2 DEF CloseFar
      <4> HIDE DEF u, c
      <4>3. c \in Channel /\ c.near = u.near /\ c.down = u.down
        BY <4>1, <4>2 DEF Safe, Channel
      <4> QED BY <1>1, <4>1, <4>3 DEF Safe, Wire, Linked, Calm
    <3> QED BY <3>1, <3>2
  <2> HIDE DEF c
  <2>4. /\ r \in Channel /\ r.near = c.near /\ r.far = "closed" /\ r.up = <<>>
        /\ r.down = c.down
    BY <2>3, ShortFacts DEF Channel
  <2> HIDE DEF r
  <2>5. Wire(s, r)
    BY <2>3, <2>4, ShortFacts DEF Wire
  <2> QED BY <2>2, <2>3, <2>4, <2>5, ShortFacts DEF Safe, Linked, Live, Greeted
<1> QED BY <1>2, <1>3

\* The near end takes the first message.
LEMMA RestKeeps ==
    ASSUME NEW s \in Sockets, NEW n, Safe(s, n), n.down # <<>>
    PROVE  LET r == [n EXCEPT !.down = Tail(@)]
           IN  /\ Safe(s, r) /\ Calm(n, r)
               /\ ~Settles(Head(n.down)) /\ Introduced(n.down) =>
                     Linked(n, r) /\ Head(n.down).type # "data"
               /\ r.near = n.near /\ r.far = n.far /\ r.up = n.up
               /\ Head(n.down) \in Message /\ Head(n.down) \in Range(n.down)
<1>1. n \in Channel /\ Wire(s, n) /\ n.down \in Seq(Message)
  BY DEF Safe, Channel
<1> DEFINE d == Tail(n.down)
           r == [n EXCEPT !.down = d]
<1>2. /\ Head(n.down) \in Message /\ Head(n.down) \in Range(n.down)
      /\ d \in Seq(Message) /\ Range(d) \subseteq Range(n.down)
      /\ Introduced(n.down) => Head(n.down).type # "data"
      /\ Introduced(n.down) /\ ~Settles(Head(n.down)) =>
            Introduced(d) /\ (Expects(n.down) => Expects(d))
  BY <1>1, TailFacts, IntroFacts
<1> HIDE DEF d
<1>3. r \in Channel /\ r.near = n.near /\ r.far = n.far /\ r.up = n.up /\ r.down = d
  BY <1>1, <1>2 DEF Channel
<1> HIDE DEF r
<1>4. Wire(s, r)
  BY <1>1, <1>2, <1>3 DEF Wire, Live
<1>5. Safe(s, r) /\ Calm(n, r)
  BY <1>2, <1>3, <1>4 DEF Safe, Calm, Live
<1>6. ~Settles(Head(n.down)) /\ Introduced(n.down) => Linked(n, r) /\ Head(n.down).type # "data"
  BY <1>2, <1>3 DEF Linked
<1> QED BY <1>2, <1>3, <1>5, <1>6 DEF d, r

\* The relay takes the first message: the socket has greeted.
LEMMA TakenKeeps ==
    ASSUME NEW s \in Sockets, NEW n, Safe(s, n), n.up # <<>>
    PROVE  LET r == [n EXCEPT !.up = Tail(@)]
           IN  /\ Safe(s, r) /\ Calm(n, r) /\ Linked(n, r) /\ Greeted(r)
               /\ r.near = n.near /\ r.far = n.far /\ r.down = n.down
               /\ Head(n.up) \in Message /\ Head(n.up) \in Range(n.up)
<1>1. n \in Channel /\ Wire(s, n) /\ n.up \in Seq(Message)
  BY DEF Safe, Channel
<1> DEFINE u == Tail(n.up)
           r == [n EXCEPT !.up = u]
<1>2. /\ Head(n.up) \in Message /\ Head(n.up) \in Range(n.up) /\ Len(n.up) \in Nat
      /\ u \in Seq(Message) /\ Range(u) \subseteq Range(n.up) /\ Len(u) = Len(n.up) - 1
      /\ \A i \in 1..(Len(n.up) - 1) : u[i] = n.up[i + 1]
  BY <1>1, TailFacts
<1>3. \A i \in 1..Len(u) : ~Greets(u[i])
  <2> SUFFICES ASSUME NEW i \in 1..Len(u) PROVE ~Greets(u[i])
    OBVIOUS
  <2>1. i + 1 \in 2..Len(n.up) /\ u[i] = n.up[i + 1]
    BY <1>2
  <2> QED BY <1>1, <2>1 DEF Wire
<1>4. \A m \in Range(u) : ~Greets(m)
  BY <1>2, <1>3 DEF Range
<1> HIDE DEF u
<1>5. r \in Channel /\ r.near = n.near /\ r.far = n.far /\ r.down = n.down /\ r.up = u
  BY <1>1, <1>2 DEF Channel
<1> HIDE DEF r
<1>6. \A i \in 2..Len(u) : ~Greets(u[i])
  <2> SUFFICES ASSUME NEW i \in 2..Len(u) PROVE ~Greets(u[i])
    OBVIOUS
  <2>1. i \in 1..Len(u)
    BY <1>2
  <2> QED BY <1>3, <2>1
<1>7. Wire(s, r)
  BY <1>1, <1>2, <1>5, <1>6 DEF Wire, Live
<1>8. Safe(s, r) /\ Calm(n, r) /\ Linked(n, r) /\ Greeted(r)
  BY <1>2, <1>4, <1>5, <1>7 DEF Safe, Calm, Linked, Live, Greeted
<1> QED BY <1>2, <1>5, <1>8 DEF u, r

\* A connection of a server breaks.
LEMMA BreakKeeps ==
    ASSUME NEW s \in Sockets, NEW n, Safe(s, n), n.near \in {"connecting", "open"}
    PROVE  LET r == [n EXCEPT !.down = <<Msg("close")>>,
                              !.up = IF n.far \in {"open", "closing"}
                                     THEN <<Msg("close")>> ELSE <<>>]
           IN  Safe(s, r) /\ Calm(n, r) /\ Linked(n, r)
<1>1. n \in Channel /\ Wire(s, n)
  BY DEF Safe
<1> DEFINE d == <<Msg("close")>>
           u == IF n.far \in {"open", "closing"} THEN d ELSE <<>>
           r == [n EXCEPT !.down = d, !.up = u]
<1>2. /\ d \in Seq(Message) /\ d # <<>> /\ \A m \in Range(d) : m.type = "close"
      /\ Introduced(d) /\ Expects(d) /\ Len(d) = 1
  BY LastWord
<1> HIDE DEF d
<1>3. /\ u \in Seq(Message) /\ (u # <<>> => Live(n)) /\ \A m \in Range(u) : m.type = "close"
      /\ \A i \in 2..Len(u) : FALSE
  <2>1. \A i \in 2..Len(d) : FALSE
    BY <1>2
  <2>2. CASE n.far \in {"open", "closing"}
    <3>1. u = d
      BY <2>2
    <3> HIDE DEF u
    <3> QED BY <1>2, <2>1, <2>2, <3>1 DEF Live
  <2>3. CASE n.far \notin {"open", "closing"}
    <3>1. u = <<>>
      BY <2>3
    <3> HIDE DEF u
    <3>2. \A i \in 2..Len(<<>>) : FALSE
      BY ShortFacts
    <3> QED BY <3>1, <3>2, ShortFacts
  <2> QED BY <2>2, <2>3
<1> HIDE DEF u
<1>4. r \in Channel /\ r.near = n.near /\ r.far = n.far /\ r.down = d /\ r.up = u
  BY <1>1, <1>2, <1>3 DEF Channel
<1> HIDE DEF r
<1>5. Wire(s, r)
  BY <1>1, <1>2, <1>3, <1>4 DEF Wire, Live, Ears, Greets
<1>6. Safe(s, r) /\ Calm(n, r) /\ Linked(n, r)
  BY <1>2, <1>3, <1>4, <1>5 DEF Safe, Calm, Linked, Live
<1> QED BY <1>6 DEF d, u, r

\* The relay starts again.
LEMMA RestartKeeps ==
    ASSUME NEW s \in Sockets, NEW n, Safe(s, n)
    PROVE  LET r == IF n.near \in {"none", "closed"} THEN Unused
                    ELSE [n EXCEPT !.far = "closed", !.up = <<>>, !.down = <<Msg("close")>>]
           IN  Safe(s, r) /\ Linked(n, r) /\ Greeted(r)
<1>1. n \in Channel /\ Wire(s, n)
  BY DEF Safe
<1>2. CASE n.near \in {"none", "closed"}
  <2>1. n.down = <<>> /\ ~Expects(n.down)
    BY <1>1, <1>2, ShortFacts DEF Wire, Ears, Expects
  <2> QED BY <1>2, <2>1, UnusedIsSafe, ShortFacts DEF Linked, Ears, Unused
<1>3. CASE n.near \notin {"none", "closed"}
  <2> DEFINE d == <<Msg("close")>>
             r == [n EXCEPT !.far = "closed", !.up = <<>>, !.down = d]
  <2>1. /\ d \in Seq(Message) /\ d # <<>> /\ \A m \in Range(d) : m.type = "close"
        /\ Introduced(d) /\ Expects(d) /\ <<>> \in Seq(Message)
    BY LastWord, ShortFacts
  <2> HIDE DEF d
  <2>2. r \in Channel /\ r.near = n.near /\ r.far = "closed" /\ r.down = d /\ r.up = <<>>
    BY <1>1, <2>1 DEF Channel
  <2> HIDE DEF r
  <2>3. n.near \in Ears
    BY <1>1, <1>3 DEF Channel, Ears
  <2>4. Wire(s, r)
    BY <1>1, <2>1, <2>2, <2>3, ShortFacts DEF Wire, Live
  <2>5. Safe(s, r) /\ Linked(n, r) /\ Greeted(r)
    BY <2>1, <2>2, <2>4, ShortFacts DEF Safe, Linked, Greeted
  <2> QED BY <1>3, <2>5 DEF d, r
<1> QED BY <1>2, <1>3

\* A socket that starts to connect.
LEMMA ConnectingIsSafe ==
    ASSUME NEW s \in Sockets, Holder[s] \in Servers
    PROVE  LET r == [Unused EXCEPT !.near = "connecting"]
           IN  /\ Safe(s, r) /\ Calm(Unused, r) /\ r.near \in Ears /\ Introduced(r.down)
<1> DEFINE r == [Unused EXCEPT !.near = "connecting"]
<1>1. r.near = "connecting" /\ r.far = "none" /\ r.up = <<>> /\ r.down = <<>>
  BY DEF Unused
<1>2. r \in Channel
  BY ShortFacts DEF Unused, Channel
<1>3. Introduced(<<>>)
  BY ShortFacts DEF Introduced
<1> HIDE DEF r
<1>4. Safe(s, r)
  BY <1>1, <1>2, ShortFacts DEF Safe, Wire
<1>5. Calm(Unused, r) /\ r.near \in Ears /\ Introduced(r.down)
  BY <1>1, <1>3, ShortFacts, UnusedIsSafe DEF Calm, Ears
<1> QED BY <1>4, <1>5 DEF r

\* A socket that has just opened.
LEMMA GreetingIsSafe ==
    ASSUME NEW s \in Sockets, NEW type \in {"register", "connect"},
           type = "register" => Holder[s] \in Servers,
           type = "connect" => Holder[s] \in Phones
    PROVE  LET r == Greeting(type)
           IN  /\ Safe(s, r) /\ Unspoken(r) /\ r.near = "open" /\ r.down = <<>>
<1> DEFINE m == Msg(type)
           u == <<m>>
           r == Greeting(type)
<1>1. m \in Message /\ m.type = type
  BY MsgFacts
<1> HIDE DEF m
<1>2. u \in Seq(Message) /\ Range(u) = {m} /\ u # <<>> /\ Len(u) = 1
  BY <1>1, ShortFacts
<1> HIDE DEF u
<1>3. r.near = "open" /\ r.far = "open" /\ r.up = u /\ r.down = <<>>
  BY DEF Greeting, u, m
<1>4. r \in Channel
  BY <1>2, ShortFacts DEF Channel, Greeting, u, m
<1> HIDE DEF r
<1>5. \A i \in 2..Len(u) : FALSE
  BY <1>2
<1>6. Wire(s, r) /\ Unspoken(r)
  BY <1>1, <1>2, <1>3, <1>5, ShortFacts DEF Wire, Live, Greets, Unspoken
<1> QED BY <1>3, <1>4, <1>6 DEF Safe, r

-----------------------------------------------------------------------------
(* What steps of the near ends keep.                                       *)

\* While the relay's tables stay, roles last as long as no socket speaks for another
\* phone.
LEMMA RolesKept ==
    ASSUME IInv, UNCHANGED <<mode, owner, waiting, pairs>>,
           NEW n \in [Sockets -> Channel], net' = n,
           \A s \in Sockets : Safe(s, n[s]) /\ Calm(net[s], n[s])
    PROVE  WiresOK' /\ TablesOK' /\ RolesOK'
<1>1. WiresOK'
  BY DEF WiresOK, Safe
<1>2. TablesOK'
  BY DEF IInv, TablesOK
<1>3. GreetingsOK'
  <2> SUFFICES ASSUME NEW s \in Sockets, NEW m \in Range(n[s].up), Greets(m)
               PROVE  mode[s] = "new" /\ Unspoken(n[s])
    BY DEF GreetingsOK, Unspoken
  <2>1. Calm(net[s], n[s])
    OBVIOUS
  <2>2. m \in Range(net[s].up)
    BY <2>1 DEF Calm, Greets
  <2>3. mode[s] = "new" /\ Unspoken(net[s])
    BY <2>2 DEF IInv, RolesOK, GreetingsOK
  <2> QED BY <2>1, <2>3 DEF Calm, Unspoken
<1>4. WaitingOK'
  <2> SUFFICES ASSUME waiting # NoSocket
               PROVE  /\ waiting \in Sockets
                      /\ owner \in Servers /\ Holder[waiting] = owner
                      /\ mode[waiting] = "server"
                      /\ Live(n[waiting]) /\ Unspoken(n[waiting])
    BY DEF WaitingOK, Unspoken, Live
  <2>1. /\ waiting \in Sockets
        /\ owner \in Servers /\ Holder[waiting] = owner /\ mode[waiting] = "server"
        /\ Live(net[waiting]) /\ Unspoken(net[waiting])
    BY DEF IInv, RolesOK, WaitingOK
  <2>2. Calm(net[waiting], n[waiting])
    BY <2>1
  <2> QED BY <2>1, <2>2 DEF Calm, Unspoken
<1>5. PairsOK'
  <2>1. ASSUME NEW q \in pairs PROVE PairOK(q)'
    <3>1. PairOK(q)
      BY DEF IInv, RolesOK, PairsOK
    <3>2. q[1] \in Sockets /\ q[2] \in Sockets
      BY <3>1 DEF PairOK
    <3>3. Calm(net[q[1]], n[q[1]]) /\ Calm(net[q[2]], n[q[2]])
      BY <3>2
    <3>4. Live(n[q[1]]) /\ Live(n[q[2]])
      BY <3>1, <3>3 DEF PairOK, Calm
    <3>5. \A m \in Range(n[q[1]].down) : m.type = "data" => m.from = q[2]
      BY <3>1, <3>3 DEF PairOK, Calm
    <3>6. \A m \in Range(n[q[1]].up) : m.type = "answer" => m.from = q[2]
      BY <3>1, <3>3 DEF PairOK, Calm
    <3> QED BY <3>1, <3>4, <3>5, <3>6 DEF PairOK, Live
  <2>2. \A q, r \in pairs : q[1] = r[1] \/ q[2] = r[2] => q = r
    BY DEF IInv, RolesOK, PairsOK
  <2> QED BY <2>1, <2>2 DEF PairsOK
<1> QED BY <1>1, <1>2, <1>3, <1>4, <1>5 DEF RolesOK

\* A socket that the relay has a role for is live.
LEMMA RelayedIsLive ==
    ASSUME IInv
    PROVE  \A s \in Relayed : s # NoSocket => s \in Sockets /\ Live(net[s])
BY DEF IInv, RolesOK, WaitingOK, PairsOK, PairOK, Relayed

\* A service goes on fitting as the socket that it connects stays linked.
LEMMA FitKept ==
    ASSUME NEW v, NEW c, NEW n, NEW r, NEW cl, NEW kl, NEW R, NEW Q,
           SvcFits(v, c, n, cl, R),
           c.connecting # NoSocket => Linked(n[c.connecting], r[c.connecting]),
           \A s \in {c.waiting, c.connecting} : s # NoSocket /\ s \in kl => s \in cl,
           \A s \in Q : s # NoSocket /\ s = c.connecting => s \in R \/ Expects(r[s].down)
    PROVE  SvcFits(v, c, r, kl, Q)
BY DEF SvcFits, Linked

\* connect() starts a socket that has no role, or leaves things as they are.
LEMMA ConnectKeeps ==
    ASSUME IInv, NEW v \in Servers, NEW c \in Services,
           NEW n \in [Sockets -> Channel], Connect(v, c, n),
           UNCHANGED <<mode, owner, waiting, pairs>>,
           NEW cl, claimed' = cl, \A s \in cl : s \in Sockets /\ net[s] # Unused,
           \A s \in cl : n[s].near \in {"open", "closing"} /\ Holder[s] \in Servers,
           \A s \in Sockets : Safe(s, n[s]) /\ Calm(net[s], n[s]),
           SvcFits(v, c, n, cl, Relayed),
           \A w \in Servers \ {v} : SvcFits(w, svc[w], n, cl, Relayed)
    PROVE  IInv'
<1> DEFINE s == NewSocket(v)
           x == [Unused EXCEPT !.near = "connecting"]
           t == [c EXCEPT !.status = "connecting", !.connecting = s]
           k == [n EXCEPT ![s] = x]
<1>1. CASE ~c.enabled
  <2>1. svc' = [svc EXCEPT ![v] = c] /\ net' = n /\ heard' = heard
    BY <1>1 DEF Connect
  <2>2. WiresOK' /\ TablesOK' /\ RolesOK'
    BY <2>1, RolesKept
  <2>3. Relayed' = Relayed
    BY DEF Relayed
  <2>4. svc' \in [Servers -> Services] /\ svc'[v] = c /\ \A w \in Servers \ {v} : svc'[w] = svc[w]
    BY <2>1 DEF IInv, ServicesOK
  <2>5. \A w \in Servers : SvcFits(w, svc'[w], net', claimed', Relayed')
    BY <2>1, <2>3, <2>4
  <2> QED BY <2>1, <2>2, <2>4, <2>5 DEF IInv, ServicesOK, ClaimedOK, HeardOK
<1>2. CASE c.enabled
  <2>1. /\ s \in Sockets /\ Holder[s] = v /\ net[s] = Unused
        /\ svc' = [svc EXCEPT ![v] = t] /\ net' = k /\ heard' = [heard EXCEPT ![s] = {}]
    BY <1>2 DEF Connect, CanConnect, NewSocket, FreeSocket, Connecting
  <2> HIDE DEF s
  <2>2. Safe(s, x) /\ Calm(Unused, x) /\ x.near \in Ears /\ Introduced(x.down)
    BY <2>1, ConnectingIsSafe
  <2>3. ~Live(net[s]) /\ s \notin cl /\ s # NoSocket
    BY <2>1, UnusedIsSafe, RelayConstants
  <2>4. t \in Services /\ t.waiting = c.waiting /\ t.connecting = s
    BY <2>1 DEF Services, Status
  <2> HIDE DEF x, t
  <2>5. k \in [Sockets -> Channel] /\ k[s] = x /\ \A y \in Sockets \ {s} : k[y] = n[y]
    BY <2>1, <2>2 DEF Safe
  <2> HIDE DEF k
  <2>6. WiresOK' /\ TablesOK' /\ RolesOK'
    <3>1. \A y \in Sockets : Safe(y, k[y]) /\ Calm(net[y], k[y])
      BY <2>1, <2>2, <2>5
    <3> QED BY <2>1, <2>5, <3>1, RolesKept
  <2>7. Relayed' = Relayed /\ s \notin Relayed
    BY <2>3, RelayedIsLive DEF Relayed
  <2>8. svc' \in [Servers -> Services] /\ svc'[v] = t /\ \A w \in Servers \ {v} : svc'[w] = svc[w]
    BY <2>1, <2>4 DEF IInv, ServicesOK
  <2>9. SvcFits(v, t, k, cl, Relayed)
    BY <2>1, <2>2, <2>3, <2>4, <2>5, <2>7 DEF SvcFits
  <2>10. ASSUME NEW w \in Servers \ {v} PROVE SvcFits(w, svc[w], k, cl, Relayed)
    <3>1. SvcFits(w, svc[w], n, cl, Relayed) /\ svc[w] \in Services
      BY DEF IInv, ServicesOK
    <3>2. svc[w].connecting # NoSocket => svc[w].connecting \in Sockets \ {s}
      BY <2>1, <3>1 DEF SvcFits, Services
    <3> QED BY <2>5, <3>1, <3>2 DEF SvcFits
  <2>11. ServicesOK'
    <3>1. \A w \in Servers : SvcFits(w, svc'[w], net', claimed', Relayed')
      BY <2>1, <2>7, <2>8, <2>9, <2>10
    <3> QED BY <2>8, <3>1 DEF ServicesOK
  <2>12. ClaimedOK'
    BY <2>1, <2>3, <2>5 DEF ClaimedOK
  <2>13. HeardOK'
    BY <2>1 DEF IInv, HeardOK
  <2> QED BY <2>6, <2>11, <2>12, <2>13 DEF IInv
<1> QED BY <1>1, <1>2

\* stop() closes the sockets of the service.
LEMMA CloseBothKeeps ==
    ASSUME IInv, NEW v \in Servers
    PROVE  /\ CloseBoth(v) \in [Sockets -> Channel]
           /\ \A s \in Sockets : LET r == CloseBoth(v)[s]
                                 IN  Safe(s, r) /\ Calm(net[s], r) /\ Linked(net[s], r)
<1>1. ASSUME NEW s \in Sockets
      PROVE  LET r == CloseBoth(v)[s]
             IN  Safe(s, r) /\ Calm(net[s], r) /\ Linked(net[s], r)
  <2>1. Safe(s, net[s])
    BY DEF IInv, WiresOK, Safe
  <2>2. CloseBoth(v)[s] \in {CloseNear(net[s]), net[s]}
    BY DEF CloseBoth
  <2> QED BY <2>1, <2>2, CloseNearKeeps, StepsCompose
<1>2. CloseBoth(v) = [s \in Sockets |-> CloseBoth(v)[s]]
  BY DEF CloseBoth
<1> QED BY <1>1, <1>2 DEF Safe

\* A step that leaves the relay, the services of others and the handed off sockets
\* alone, and gives one service the value c, which fits.
LEMMA NearStepKeeps ==
    ASSUME IInv, UNCHANGED <<mode, owner, waiting, pairs>>,
           NEW n \in [Sockets -> Channel], net' = n,
           NEW cl, claimed' = cl, cl \subseteq claimed,
           NEW v \in Servers, NEW c \in Services, svc' = [svc EXCEPT ![v] = c],
           SvcFits(v, c, n, cl, Relayed), HeardOK',
           \A s \in cl : Linked(net[s], n[s]),
           \A s \in Sockets : /\ Safe(s, n[s]) /\ Calm(net[s], n[s])
                              /\ Holder[s] \in Servers \ {v} /\ s \notin claimed
                                   => Linked(net[s], n[s])
    PROVE  IInv'
<1>1. WiresOK' /\ TablesOK' /\ RolesOK'
  BY RolesKept
<1>2. Relayed' = Relayed
  BY DEF Relayed
<1>3. svc' \in [Servers -> Services] /\ svc'[v] = c /\ \A w \in Servers \ {v} : svc'[w] = svc[w]
  BY DEF IInv, ServicesOK
<1>4. ASSUME NEW w \in Servers \ {v} PROVE SvcFits(w, svc[w], n, cl, Relayed)
  <2>1. SvcFits(w, svc[w], net, claimed, Relayed) /\ svc[w] \in Services
    BY DEF IInv, ServicesOK
  <2> DEFINE s == svc[w].connecting
  <2>2. s # NoSocket => s \in Sockets /\ Holder[s] = w /\ s \notin claimed
    BY <2>1 DEF SvcFits, Services
  <2>3. s # NoSocket => Linked(net[s], n[s])
    BY <2>2
  <2>4. \A y \in {svc[w].waiting, svc[w].connecting} : y # NoSocket /\ y \in cl => y \in claimed
    OBVIOUS
  <2> QED BY <2>1, <2>3, <2>4, FitKept
<1>5. ServicesOK'
  <2>1. \A w \in Servers : SvcFits(w, svc'[w], net', claimed', Relayed')
    BY <1>2, <1>3, <1>4
  <2> QED BY <1>3, <2>1 DEF ServicesOK
<1>6. ClaimedOK'
  BY DEF IInv, ClaimedOK, Linked
<1> QED BY <1>1, <1>5, <1>6 DEF IInv

\* The service's own value fits a step that keeps what it connects.
LEMMA OwnFits ==
    ASSUME IInv, NEW v \in Servers, NEW n, NEW cl, cl \subseteq claimed,
           svc[v].connecting # NoSocket =>
               Linked(net[svc[v].connecting], n[svc[v].connecting])
    PROVE  svc[v] \in Services /\ SvcFits(v, svc[v], n, cl, Relayed)
<1>1. SvcFits(v, svc[v], net, claimed, Relayed) /\ svc[v] \in Services
  BY DEF IInv, ServicesOK
<1>2. \A y \in {svc[v].waiting, svc[v].connecting} : y # NoSocket /\ y \in cl => y \in claimed
  OBVIOUS
<1> QED BY <1>1, <1>2, FitKept

\* A service that waits on no socket, and connects none, fits.
LEMMA OffFits ==
    ASSUME NEW v, NEW n, NEW cl, NEW R
    PROVE  /\ Off \in Services /\ [Off EXCEPT !.enabled = TRUE] \in Services
           /\ SvcFits(v, Off, n, cl, R)
           /\ SvcFits(v, [Off EXCEPT !.enabled = TRUE], n, cl, R)
BY DEF Off, Services, Status, SvcFits

\* stop().
LEMMA StopKeeps ==
    ASSUME IInv, NEW v \in Servers, Stop(v) PROVE IInv'
<1> DEFINE n == CloseBoth(v)
<1>1. n \in [Sockets -> Channel]
  BY CloseBothKeeps
<1>2. \A s \in Sockets : Safe(s, n[s]) /\ Calm(net[s], n[s]) /\ Linked(net[s], n[s])
  BY CloseBothKeeps
<1>3. /\ net' = n /\ svc' = [svc EXCEPT ![v] = Off] /\ claimed' = claimed
      /\ UNCHANGED <<mode, owner, waiting, pairs, heard>>
  BY DEF Stop
<1> HIDE DEF n
<1>4. Off \in Services /\ SvcFits(v, Off, n, claimed, Relayed)
  BY OffFits
<1>5. HeardOK' /\ claimed \subseteq Sockets
  BY <1>3 DEF IInv, HeardOK, ClaimedOK
<1> QED BY <1>1, <1>2, <1>3, <1>4, <1>5, NearStepKeeps

\* The handed off sockets are in use, at ends that hold them.
LEMMA ClaimedInUse ==
    ASSUME IInv
    PROVE  \A s \in claimed : s \in Sockets /\ net[s] # Unused /\ Holder[s] \in Servers
BY DEF IInv, ClaimedOK, Unused

\* start().
LEMMA StartKeeps ==
    ASSUME IInv, NEW v \in Servers, Start(v) PROVE IInv'
<1> DEFINE n == CloseBoth(v)
           c == [Off EXCEPT !.enabled = TRUE]
<1>1. n \in [Sockets -> Channel]
  BY CloseBothKeeps
<1>2. \A s \in Sockets : Safe(s, n[s]) /\ Calm(net[s], n[s]) /\ Linked(net[s], n[s])
  BY CloseBothKeeps
<1>3. /\ Connect(v, c, n) /\ claimed' = claimed
      /\ UNCHANGED <<mode, owner, waiting, pairs>>
  BY DEF Start
<1> HIDE DEF n
<1>4. c \in Services /\ SvcFits(v, c, n, claimed, Relayed)
  BY OffFits
<1> HIDE DEF c
<1>5. \A s \in claimed : /\ s \in Sockets /\ net[s] # Unused /\ Holder[s] \in Servers
                         /\ n[s].near \in {"open", "closing"}
  BY <1>2, ClaimedInUse DEF IInv, ClaimedOK, Linked
<1>6. ASSUME NEW w \in Servers \ {v} PROVE SvcFits(w, svc[w], n, claimed, Relayed)
  <2>1. svc[w].connecting # NoSocket => svc[w].connecting \in Sockets
    BY DEF IInv, ServicesOK, Services
  <2> QED BY <1>2, <2>1, OwnFits
<1> QED BY <1>1, <1>2, <1>3, <1>4, <1>5, <1>6, ConnectKeeps

\* The reconnect timer fires.
LEMMA ReconnectTimerKeeps ==
    ASSUME IInv, NEW v \in Servers, ReconnectTimer(v) PROVE IInv'
<1> DEFINE c == [svc[v] EXCEPT !.timer = FALSE]
<1>1. /\ Connect(v, c, net) /\ claimed' = claimed
      /\ UNCHANGED <<mode, owner, waiting, pairs>>
  BY DEF ReconnectTimer
<1>2. /\ net \in [Sockets -> Channel]
      /\ \A s \in Sockets : Safe(s, net[s]) /\ Calm(net[s], net[s]) /\ Linked(net[s], net[s])
  BY StepsCompose DEF IInv, WiresOK, Safe
<1>3. \A w \in Servers : svc[w] \in Services /\ SvcFits(w, svc[w], net, claimed, Relayed)
  BY DEF IInv, ServicesOK
<1>4. c \in Services /\ c.waiting = svc[v].waiting /\ c.connecting = svc[v].connecting
  BY <1>3 DEF Services
<1> HIDE DEF c
<1>5. SvcFits(v, c, net, claimed, Relayed)
  BY <1>3, <1>4 DEF SvcFits
<1>6. \A s \in claimed : /\ s \in Sockets /\ net[s] # Unused /\ Holder[s] \in Servers
                         /\ net[s].near \in {"open", "closing"}
  BY ClaimedInUse DEF IInv, ClaimedOK
<1> QED BY <1>1, <1>2, <1>3, <1>4, <1>5, <1>6, ConnectKeeps

\* scheduleReconnect() changes no socket of the service.
LEMMA ScheduleFacts ==
    ASSUME NEW c \in Services
    PROVE  LET t == ScheduleReconnect(c)
           IN  t \in Services /\ t.waiting = c.waiting /\ t.connecting = c.connecting
BY DEF ScheduleReconnect, Services, Status

\* The keepalive of the waiting socket fails.
LEMMA KeepaliveTimeoutKeeps ==
    ASSUME IInv, NEW v \in Servers, KeepaliveTimeout(v) PROVE IInv'
<1> DEFINE s == svc[v].waiting
           a == [svc[v] EXCEPT !.waiting = NoSocket]
           c == ScheduleReconnect(a)
           x == CloseNear(net[s])
           n == [net EXCEPT ![s] = x]
<1>1. svc[v] \in Services /\ SvcFits(v, svc[v], net, claimed, Relayed)
  BY DEF IInv, ServicesOK
<1>2. s \in Sockets
  BY <1>1 DEF KeepaliveTimeout, Services
<1>3. /\ net' = n /\ svc' = [svc EXCEPT ![v] = c] /\ claimed' = claimed
      /\ UNCHANGED <<mode, owner, waiting, pairs, heard>>
  BY DEF KeepaliveTimeout
<1>4. a \in Services /\ a.waiting = NoSocket /\ a.connecting = svc[v].connecting
  BY <1>1 DEF Services
<1> HIDE DEF a
<1>5. c \in Services /\ c.waiting = NoSocket /\ c.connecting = svc[v].connecting
  BY <1>4, ScheduleFacts
<1> HIDE DEF c
<1>6. net \in [Sockets -> Channel] /\ \A y \in Sockets : Safe(y, net[y])
  BY DEF IInv, WiresOK, Safe
<1>7. Safe(s, x) /\ Calm(net[s], x) /\ Linked(net[s], x)
  BY <1>2, <1>6, CloseNearKeeps
<1> HIDE DEF x
<1>8. /\ n \in [Sockets -> Channel]
      /\ \A y \in Sockets : Safe(y, n[y]) /\ Calm(net[y], n[y]) /\ Linked(net[y], n[y])
  BY <1>2, <1>6, <1>7, StepsCompose DEF Safe
<1> HIDE DEF n, s
<1>9. svc[v].connecting # NoSocket => svc[v].connecting \in Sockets
  BY <1>1 DEF Services
<1>10. SvcFits(v, svc[v], n, claimed, Relayed)
  BY <1>8, <1>9, OwnFits
<1>11. SvcFits(v, c, n, claimed, Relayed)
  BY <1>5, <1>10 DEF SvcFits
<1>12. HeardOK' /\ claimed \subseteq Sockets
  BY <1>3 DEF IInv, HeardOK, ClaimedOK
<1> QED BY <1>3, <1>5, <1>8, <1>11, <1>12, NearStepKeeps

\* A step on one socket that keeps the services as they are.
LEMMA SocketStepKeeps ==
    ASSUME IInv, UNCHANGED <<mode, owner, waiting, pairs, svc>>,
           NEW s \in Sockets, NEW r, net' = [net EXCEPT ![s] = r],
           NEW cl, claimed' = cl, cl \subseteq claimed,
           Safe(s, r), Calm(net[s], r), HeardOK',
           s \in cl \/ (Holder[s] \in Servers /\ s \notin claimed) => Linked(net[s], r)
    PROVE  IInv'
<1> DEFINE n == [net EXCEPT ![s] = r]
<1>1. net \in [Sockets -> Channel] /\ \A y \in Sockets : Safe(y, net[y])
  BY DEF IInv, WiresOK, Safe
<1>2. /\ n \in [Sockets -> Channel] /\ n[s] = r /\ \A y \in Sockets \ {s} : n[y] = net[y]
      /\ \A y \in Sockets : Safe(y, n[y]) /\ Calm(net[y], n[y])
  BY <1>1, StepsCompose DEF Safe
<1> HIDE DEF n
<1>3. \A y \in Sockets : y \in cl \/ (Holder[y] \in Servers /\ y \notin claimed)
                            => Linked(net[y], n[y])
  BY <1>2, StepsCompose
<1>4. WiresOK' /\ TablesOK' /\ RolesOK'
  BY <1>2, RolesKept DEF n
<1>5. Relayed' = Relayed
  BY DEF Relayed
<1>6. ASSUME NEW w \in Servers PROVE SvcFits(w, svc[w], n, cl, Relayed)
  <2>1. SvcFits(w, svc[w], net, claimed, Relayed) /\ svc[w] \in Services
    BY DEF IInv, ServicesOK
  <2> DEFINE y == svc[w].connecting
  <2>2. y # NoSocket => y \in Sockets /\ Holder[y] = w /\ y \notin claimed
    BY <2>1 DEF SvcFits, Services
  <2>3. y # NoSocket => Linked(net[y], n[y])
    BY <2>2, <1>3
  <2> QED BY <2>3, OwnFits
<1>7. ServicesOK'
  <2>1. \A w \in Servers : SvcFits(w, svc'[w], net', claimed', Relayed')
    BY <1>5, <1>6 DEF n
  <2> QED BY <2>1 DEF IInv, ServicesOK
<1>8. ClaimedOK'
  <2>1. net' = n
    BY DEF n
  <2> QED BY <1>3, <2>1 DEF IInv, ClaimedOK, Linked
<1> QED BY <1>4, <1>7, <1>8 DEF IInv

\* A phone leaves.
LEMMA LeaveKeeps ==
    ASSUME IInv, NEW s \in Sockets, Leave(s) PROVE IInv'
<1>1. Safe(s, net[s])
  BY DEF IInv, WiresOK, Safe
<1> DEFINE r == CloseNear(net[s])
<1>2. Safe(s, r) /\ Calm(net[s], r) /\ Linked(net[s], r)
  BY <1>1, CloseNearKeeps
<1>3. /\ net' = [net EXCEPT ![s] = r] /\ claimed' = claimed
      /\ UNCHANGED <<mode, owner, waiting, pairs, svc, heard>>
  BY <1>1 DEF Leave
<1> HIDE DEF r
<1>4. HeardOK'
  BY <1>3 DEF IInv, HeardOK
<1> QED BY <1>2, <1>3, <1>4, SocketStepKeeps

\* The pong of a server's socket does not come in time.
LEMMA PongTimeoutKeeps ==
    ASSUME IInv, NEW s \in Sockets, PongTimeout(s) PROVE IInv'
<1>1. Safe(s, net[s])
  BY DEF IInv, WiresOK, Safe
<1>2. Greeted(net[s])
  BY DEF PongTimeout, IInv, RolesOK, GreetingsOK, Greeted
<1> DEFINE r == CloseFar(net[s])
<1>3. Safe(s, r) /\ Calm(net[s], r) /\ Linked(net[s], r)
  BY <1>1, <1>2, CloseFarKeeps
<1>4. /\ net' = [net EXCEPT ![s] = r] /\ claimed' = claimed
      /\ UNCHANGED <<mode, owner, waiting, pairs, svc, heard>>
  BY <1>1 DEF PongTimeout
<1> HIDE DEF r
<1>5. HeardOK'
  BY <1>4 DEF IInv, HeardOK
<1> QED BY <1>3, <1>4, <1>5, SocketStepKeeps

\* A connection of a server breaks.
LEMMA BreakStepKeeps ==
    ASSUME IInv, NEW s \in Sockets, Break(s) PROVE IInv'
<1>1. Safe(s, net[s]) /\ net \in [Sockets -> Channel]
  BY DEF IInv, WiresOK, Safe
<1> DEFINE r == [net[s] EXCEPT !.down = <<Msg("close")>>,
                               !.up = IF net[s].far \in {"open", "closing"}
                                      THEN <<Msg("close")>> ELSE <<>>]
<1>2. Safe(s, r) /\ Calm(net[s], r) /\ Linked(net[s], r)
  BY <1>1, BreakKeeps DEF Break
<1>3. /\ net' = [net EXCEPT ![s] = r] /\ claimed' = claimed
      /\ UNCHANGED <<mode, owner, waiting, pairs, svc, heard>>
  BY <1>1 DEF Break, Channel
<1> HIDE DEF r
<1>4. HeardOK'
  BY <1>3 DEF IInv, HeardOK
<1> QED BY <1>2, <1>3, <1>4, SocketStepKeeps

\* The handler of a claimed socket receives.
LEMMA HandlerReceivesKeeps ==
    ASSUME IInv, NEW s \in Sockets, HandlerReceives(s) PROVE IInv'
<1>1. Safe(s, net[s]) /\ net \in [Sockets -> Channel]
  BY DEF IInv, WiresOK, Safe
<1>2. UNCHANGED <<mode, owner, waiting, pairs, svc, heard>> /\ s \in claimed
  BY DEF HandlerReceives
<1>3. HeardOK'
  BY <1>2 DEF IInv, HeardOK
<1>4. CASE Head(net[s].down).type = "close"
  <2> DEFINE r == NearClosed(net[s])
  <2>1. Safe(s, r) /\ Calm(net[s], r)
    BY <1>1, NearClosedKeeps
  <2>2. net' = [net EXCEPT ![s] = r] /\ claimed' = claimed \ {s}
    BY <1>4 DEF HandlerReceives
  <2> HIDE DEF r
  <2> QED BY <1>2, <1>3, <2>1, <2>2, SocketStepKeeps
<1>5. CASE Head(net[s].down).type # "close"
  <2>1. \A y \in Sockets \ {s} : Safe(y, net[y]) /\ Calm(net[y], net[y]) /\ Linked(net[y], net[y])
    BY StepsCompose DEF IInv, WiresOK, Safe
  <2> DEFINE r == [net[s] EXCEPT !.down = Tail(@)]
             n == [net EXCEPT ![s] = r]
  <2>2. Safe(s, r) /\ Calm(net[s], r) /\ r.near = net[s].near
    BY <1>1, RestKeeps DEF HandlerReceives
  <2>3. net' = n /\ claimed' = claimed
    BY <1>1, <1>5 DEF HandlerReceives, Rest
  <2> HIDE DEF r
  <2>4. /\ n \in [Sockets -> Channel] /\ n[s] = r /\ \A y \in Sockets \ {s} : n[y] = net[y]
        /\ \A y \in Sockets : Safe(y, n[y]) /\ Calm(net[y], n[y])
    BY <1>1, <2>1, <2>2 DEF Safe
  <2> HIDE DEF n
  <2>5. WiresOK' /\ TablesOK' /\ RolesOK'
    BY <1>2, <2>3, <2>4, RolesKept
  <2>6. ServicesOK'
    <3>1. Relayed' = Relayed
      BY <1>2 DEF Relayed
    <3>2. ASSUME NEW w \in Servers PROVE SvcFits(w, svc[w], n, claimed, Relayed)
      <4>1. svc[w].connecting # NoSocket => svc[w].connecting \in Sockets \ {s}
        BY <1>2 DEF IInv, ServicesOK, SvcFits, Services
      <4>2. svc[w].connecting # NoSocket =>
              Linked(net[svc[w].connecting], n[svc[w].connecting])
        BY <2>1, <2>4, <4>1
      <4> QED BY <4>2, OwnFits
    <3>3. \A w \in Servers : SvcFits(w, svc'[w], net', claimed', Relayed')
      BY <1>2, <2>3, <3>1, <3>2
    <3> QED BY <1>2, <3>3 DEF IInv, ServicesOK
  <2>7. ClaimedOK'
    BY <1>2, <2>2, <2>3, <2>4 DEF IInv, ClaimedOK
  <2> QED BY <1>3, <2>5, <2>6, <2>7 DEF IInv
<1> QED BY <1>4, <1>5

\* A phone receives.
LEMMA PhoneReceivesKeeps ==
    ASSUME IInv, NEW s \in Sockets, PhoneReceives(s) PROVE IInv'
<1>1. Safe(s, net[s]) /\ net \in [Sockets -> Channel] /\ net[s].down # <<>>
  BY DEF IInv, WiresOK, Safe, PhoneReceives
<1>2. /\ UNCHANGED <<mode, owner, waiting, pairs, svc, claimed>>
      /\ Holder[s] \in Phones /\ Holder[s] \notin Servers /\ s \notin claimed
  BY RelayConstants DEF PhoneReceives, IInv, ClaimedOK
<1> DEFINE m == Head(net[s].down)
           d == [net[s] EXCEPT !.down = Tail(@)]
           w == [type |-> "data", from |-> s]
<1>3. /\ Safe(s, d) /\ Calm(net[s], d) /\ m \in Message /\ m \in Range(net[s].down)
  BY <1>1, RestKeeps
<1>4. w \in Message /\ w.type = "data" /\ w.from = s
  BY DEF Message
<1>5. HeardOK'
  <2>1. m.type = "answer" => m.from = s
    BY <1>1, <1>3 DEF Safe, Wire
  <2>2. heard' = IF m.type = "answer" THEN [heard EXCEPT ![s] = @ \cup {m.from}] ELSE heard
    BY DEF PhoneReceives
  <2> HIDE DEF m
  <2> QED BY <2>1, <2>2 DEF IInv, HeardOK
<1>6. Rest(net, s) = [net EXCEPT ![s] = d]
  BY DEF Rest
<1>7. net' = CASE m.type = "connected" ->
                    [Rest(net, s) EXCEPT ![s] = SendUp(@, w)]
               [] m.type = "error" -> [Rest(net, s) EXCEPT ![s] = CloseNear(@)]
               [] m.type = "close" -> [net EXCEPT ![s] = NearClosed(@)]
               [] OTHER -> Rest(net, s)
  BY DEF PhoneReceives
<1> HIDE DEF m, d, w
<1>8. CASE m.type = "connected"
  <2> DEFINE r == SendUp(d, w)
  <2>1. Safe(s, r) /\ Calm(d, r)
    BY <1>2, <1>3, <1>4, SendUpKeeps DEF Greets
  <2>2. net' = [net EXCEPT ![s] = r]
    BY <1>1, <1>6, <1>7, <1>8
  <2> HIDE DEF r
  <2>3. Calm(net[s], r)
    BY <1>3, <2>1, StepsCompose
  <2> QED BY <1>2, <1>5, <2>1, <2>2, <2>3, SocketStepKeeps
<1>9. CASE m.type = "error"
  <2> DEFINE r == CloseNear(d)
  <2>1. Safe(s, r) /\ Calm(d, r)
    BY <1>3, CloseNearKeeps
  <2>2. net' = [net EXCEPT ![s] = r]
    BY <1>1, <1>6, <1>7, <1>9
  <2> HIDE DEF r
  <2>3. Calm(net[s], r)
    BY <1>3, <2>1, StepsCompose
  <2> QED BY <1>2, <1>5, <2>1, <2>2, <2>3, SocketStepKeeps
<1>10. CASE m.type = "close"
  <2> DEFINE r == NearClosed(net[s])
  <2>1. Safe(s, r) /\ Calm(net[s], r)
    BY <1>1, NearClosedKeeps
  <2>2. net' = [net EXCEPT ![s] = r]
    BY <1>7, <1>10
  <2> HIDE DEF r
  <2> QED BY <1>2, <1>5, <2>1, <2>2, SocketStepKeeps
<1>11. CASE m.type \notin {"connected", "error", "close"}
  <2>1. net' = [net EXCEPT ![s] = d]
    BY <1>6, <1>7, <1>11
  <2> QED BY <1>2, <1>3, <1>5, <2>1, SocketStepKeeps
<1> QED BY <1>8, <1>9, <1>10, <1>11

\* A service's step at a socket of its own, on which it goes on as r.
LEMMA OwnSocketStepKeeps ==
    ASSUME IInv, UNCHANGED <<mode, owner, waiting, pairs, claimed, heard>>,
           NEW v \in Servers, NEW s \in Sockets, Holder[s] = v, s \notin claimed,
           NEW r, net' = [net EXCEPT ![s] = r], Safe(s, r), Calm(net[s], r),
           NEW c \in Services, svc' = [svc EXCEPT ![v] = c],
           c.waiting \in {NoSocket, s, svc[v].waiting},
           c.connecting \in {NoSocket, svc[v].connecting},
           c.connecting = s /\ svc[v].connecting = s => Linked(net[s], r)
    PROVE  IInv'
<1> DEFINE n == [net EXCEPT ![s] = r]
<1>1. net \in [Sockets -> Channel] /\ \A y \in Sockets : Safe(y, net[y])
  BY DEF IInv, WiresOK, Safe
<1>2. /\ n \in [Sockets -> Channel] /\ n[s] = r /\ \A y \in Sockets \ {s} : n[y] = net[y]
      /\ \A y \in Sockets : Safe(y, n[y]) /\ Calm(net[y], n[y])
      /\ \A y \in Sockets \ {s} : Linked(net[y], n[y])
  BY <1>1, StepsCompose DEF Safe
<1>3. net' = n
  OBVIOUS
<1> HIDE DEF n
<1>4. claimed \subseteq Sockets /\ \A y \in claimed : Linked(net[y], n[y])
  BY <1>2 DEF IInv, ClaimedOK
<1>5. \A y \in Sockets : Holder[y] \in Servers \ {v} /\ y \notin claimed => Linked(net[y], n[y])
  BY <1>2
<1>6. svc[v] \in Services /\ SvcFits(v, svc[v], net, claimed, Relayed)
  BY DEF IInv, ServicesOK
<1>7. SvcFits(v, c, n, claimed, Relayed)
  <2>1. c.waiting # NoSocket => Holder[c.waiting] = v /\ c.waiting \notin claimed
    BY <1>6 DEF SvcFits
  <2>2. ASSUME c.connecting # NoSocket
        PROVE  /\ Holder[c.connecting] = v /\ c.connecting \notin claimed
               /\ Linked(net[c.connecting], n[c.connecting])
               /\ net[c.connecting].near \in Ears /\ Introduced(net[c.connecting].down)
               /\ c.connecting \in Relayed => Expects(net[c.connecting].down)
    <3>1. c.connecting = svc[v].connecting /\ c.connecting \in Sockets
      BY <1>6, <2>2 DEF Services
    <3> QED BY <1>2, <1>6, <2>2, <3>1 DEF SvcFits
  <2> QED BY <2>1, <2>2 DEF SvcFits, Linked
<1>8. HeardOK'
  BY DEF IInv, HeardOK
<1> QED BY <1>2, <1>3, <1>4, <1>5, <1>7, <1>8, NearStepKeeps

\* A phone's first message: the socket is handed off.
LEMMA ClaimedKeeps ==
    ASSUME IInv, NEW v \in Servers, NEW s \in Sockets, Holder[s] = v, s \notin claimed,
           net[s].down # <<>>, Head(net[s].down).type = "data",
           Claimed(v, s, Head(net[s].down)),
           UNCHANGED <<mode, owner, waiting, pairs>>
    PROVE  IInv'
<1> DEFINE m == Head(net[s].down)
           d == [net[s] EXCEPT !.down = Tail(@)]
           w == [type |-> "answer", from |-> m.from]
           r == SendUp(d, w)
           n == [net EXCEPT ![s] = r]
           c == [svc[v] EXCEPT !.waiting = NoSocket]
           cl == claimed \cup {s}
<1>1. net \in [Sockets -> Channel] /\ \A y \in Sockets : Safe(y, net[y])
  BY DEF IInv, WiresOK, Safe
<1>2. Rest(net, s) = [net EXCEPT ![s] = d]
  BY DEF Rest
<1>3. [Rest(net, s) EXCEPT ![s] = SendUp(@, w)] = n
  BY <1>1, <1>2
<1>4. Connect(v, c, n) /\ claimed' = cl
  BY <1>3 DEF Claimed
<1>5. /\ Safe(s, d) /\ Calm(net[s], d) /\ m \in Message /\ m \in Range(net[s].down)
      /\ Introduced(net[s].down) => m.type # "data"
      /\ d.near = net[s].near
  <2>1. /\ Safe(s, d) /\ Calm(net[s], d) /\ m \in Message /\ m \in Range(net[s].down)
        /\ ~Settles(m) /\ Introduced(net[s].down) => m.type # "data"
        /\ d.near = net[s].near
    BY <1>1, RestKeeps
  <2>2. ~Settles(m)
    BY DEF Settles
  <2> QED BY <2>1, <2>2
<1>6. w \in Message /\ w.type = "answer" /\ w.from = m.from /\ m.type = "data"
  BY <1>5 DEF Message
<1> HIDE DEF m, d, w
<1>7. /\ Safe(s, r) /\ r.near = net[s].near /\ r.far = d.far /\ r.down = d.down
      /\ Range(r.up) \subseteq Range(d.up) \cup {w}
  BY <1>5, <1>6, SendUpKeeps DEF Greets
<1>8. Calm(net[s], r)
  BY <1>5, <1>6, <1>7 DEF Calm, Live
<1> HIDE DEF r
<1>9. /\ n \in [Sockets -> Channel] /\ n[s] = r /\ \A y \in Sockets \ {s} : n[y] = net[y]
      /\ \A y \in Sockets : Safe(y, n[y]) /\ Calm(net[y], n[y])
  BY <1>1, <1>7, <1>8, StepsCompose DEF Safe
<1> HIDE DEF n
<1>10. net[s].near \in {"open", "closing"}
  BY <1>1, <1>5, <1>6 DEF Safe, Wire, Ears
<1>11. svc[v] \in Services /\ SvcFits(v, svc[v], net, claimed, Relayed)
  BY DEF IInv, ServicesOK
<1>12. svc[v].connecting # s
  BY <1>5, <1>6, <1>11, RelayConstants DEF SvcFits
<1>13. c \in Services /\ c.waiting = NoSocket /\ c.connecting = svc[v].connecting
  BY <1>11 DEF Services
<1> HIDE DEF c
<1>14. SvcFits(v, c, n, cl, Relayed)
  <2>1. c.connecting # NoSocket => c.connecting \in Sockets \ {s}
    BY <1>12, <1>13 DEF Services
  <2> QED BY <1>9, <1>11, <1>13, <2>1 DEF SvcFits
<1>15. ASSUME NEW x \in Servers \ {v} PROVE SvcFits(x, svc[x], n, cl, Relayed)
  <2>1. svc[x] \in Services /\ SvcFits(x, svc[x], net, claimed, Relayed)
    BY DEF IInv, ServicesOK
  <2>2. /\ svc[x].connecting # NoSocket => svc[x].connecting \in Sockets \ {s}
        /\ svc[x].waiting # NoSocket => svc[x].waiting # s
    BY <2>1 DEF SvcFits, Services
  <2> QED BY <1>9, <2>1, <2>2 DEF SvcFits
<1>16. \A y \in cl : /\ y \in Sockets /\ net[y] # Unused /\ Holder[y] \in Servers
                     /\ n[y].near \in {"open", "closing"}
  BY <1>7, <1>9, <1>10, ClaimedInUse DEF IInv, ClaimedOK, Unused
<1> HIDE DEF cl
<1> QED BY <1>4, <1>9, <1>13, <1>14, <1>15, <1>16, ConnectKeeps

\* A service receives.
LEMMA ServerReceivesKeeps ==
    ASSUME IInv, NEW v \in Servers, NEW s \in Sockets, ServerReceives(v, s) PROVE IInv'
<1> DEFINE m == Head(net[s].down)
           d == [net[s] EXCEPT !.down = Tail(@)]
<1>1. /\ Holder[s] = v /\ s \notin claimed /\ net[s].down # <<>>
      /\ UNCHANGED <<mode, owner, waiting, pairs>>
  BY DEF ServerReceives
<1>2. net \in [Sockets -> Channel] /\ Safe(s, net[s])
  BY DEF IInv, WiresOK, Safe
<1>3. Rest(net, s) = [net EXCEPT ![s] = d]
  BY DEF Rest
<1>4. /\ Safe(s, d) /\ Calm(net[s], d)
      /\ ~Settles(m) /\ Introduced(net[s].down) => Linked(net[s], d)
  BY <1>1, <1>2, RestKeeps
<1>5. svc[v] \in Services /\ SvcFits(v, svc[v], net, claimed, Relayed)
  BY DEF IInv, ServicesOK
<1> HIDE DEF d
<1>6. CASE /\ m.type = "registered"
           /\ svc' = [svc EXCEPT ![v] = Registered(@, s)]
           /\ net' = Rest(net, s)
           /\ UNCHANGED <<claimed, heard>>
  <2> DEFINE c == Registered(svc[v], s)
  <2>1. c \in Services /\ c.waiting = s /\ c.connecting = NoSocket
    BY <1>5 DEF Registered, Services, Status
  <2>2. svc' = [svc EXCEPT ![v] = c]
    BY <1>6
  <2> HIDE DEF c
  <2> QED BY <1>1, <1>3, <1>4, <1>6, <2>1, <2>2, RelayConstants, OwnSocketStepKeeps
<1>7. CASE /\ m.type = "rejected"
           /\ svc' = [svc EXCEPT ![v] = Rejected(@)]
           /\ net' = [Rest(net, s) EXCEPT ![s] = CloseNear(@)]
           /\ UNCHANGED <<claimed, heard>>
  <2> DEFINE c == Rejected(svc[v])
             r == CloseNear(d)
  <2>1. /\ c \in Services /\ c.waiting = svc[v].waiting /\ c.connecting = svc[v].connecting
    BY <1>5 DEF Rejected, Services, Status
  <2>2. svc' = [svc EXCEPT ![v] = c] /\ net' = [net EXCEPT ![s] = r]
    BY <1>2, <1>3, <1>7
  <2>3. Safe(s, r) /\ Calm(d, r) /\ Linked(d, r)
    BY <1>4, CloseNearKeeps
  <2> HIDE DEF c, r
  <2>4. svc[v].connecting = s => Linked(net[s], r)
    <3>1. svc[v].connecting = s => Introduced(net[s].down)
      BY <1>5, RelayConstants DEF SvcFits
    <3>2. ~Settles(m)
      BY <1>7 DEF Settles
    <3> QED BY <1>4, <2>3, <3>1, <3>2, StepsCompose
  <2>5. Calm(net[s], r)
    BY <1>4, <2>3, StepsCompose
  <2>6. UNCHANGED <<mode, owner, waiting, pairs, claimed, heard>>
    BY <1>1, <1>7
  <2>7. Holder[s] = v /\ s \notin claimed
    BY <1>1
  <2> QED BY <2>1, <2>2, <2>3, <2>4, <2>5, <2>6, <2>7, OwnSocketStepKeeps
<1>8. CASE m.type = "data" /\ Claimed(v, s, m)
  BY <1>1, <1>8, ClaimedKeeps
<1>9. CASE /\ m.type = "close"
           /\ svc' = [svc EXCEPT ![v] = Closed(@, s)]
           /\ net' = [net EXCEPT ![s] = NearClosed(@)]
           /\ UNCHANGED <<claimed, heard>>
  <2> DEFINE c == Closed(svc[v], s)
             r == NearClosed(net[s])
             a == [svc[v] EXCEPT !.connecting = NoSocket]
             b == [svc[v] EXCEPT !.waiting = NoSocket]
  <2>1. /\ a \in Services /\ a.waiting = svc[v].waiting /\ a.connecting = NoSocket
        /\ b \in Services /\ b.waiting = NoSocket /\ b.connecting = svc[v].connecting
    BY <1>5 DEF Services
  <2>2. c = IF svc[v].connecting = s THEN ScheduleReconnect(a)
            ELSE IF svc[v].waiting = s THEN ScheduleReconnect(b) ELSE svc[v]
    BY DEF Closed
  <2>4. svc' = [svc EXCEPT ![v] = c] /\ net' = [net EXCEPT ![s] = r]
    BY <1>9
  <2> HIDE DEF a, b, c
  <2>3. /\ c \in Services /\ c.waiting \in {NoSocket, svc[v].waiting}
        /\ c.connecting \in {NoSocket, svc[v].connecting}
        /\ svc[v].connecting = s => c.connecting = NoSocket
    <3>1. LET t == ScheduleReconnect(a)
          IN  t \in Services /\ t.waiting = a.waiting /\ t.connecting = a.connecting
      BY <2>1, ScheduleFacts
    <3>2. LET t == ScheduleReconnect(b)
          IN  t \in Services /\ t.waiting = b.waiting /\ t.connecting = b.connecting
      BY <2>1, ScheduleFacts
    <3>3. CASE svc[v].connecting = s
      BY <2>1, <2>2, <3>1, <3>3
    <3>4. CASE svc[v].connecting # s /\ svc[v].waiting = s
      BY <2>1, <2>2, <3>2, <3>4
    <3>5. CASE svc[v].connecting # s /\ svc[v].waiting # s
      BY <1>5, <2>2, <3>5
    <3> QED BY <3>3, <3>4, <3>5
  <2>5. Safe(s, r) /\ Calm(net[s], r)
    BY <1>2, NearClosedKeeps
  <2> HIDE DEF r
  <2>6. UNCHANGED <<mode, owner, waiting, pairs, claimed, heard>>
    BY <1>1, <1>9
  <2>7. Holder[s] = v /\ s \notin claimed /\ s # NoSocket
    BY <1>1, RelayConstants
  <2>8. c.connecting = s /\ svc[v].connecting = s => Linked(net[s], r)
    BY <2>3, <2>7
  <2> QED BY <2>3, <2>4, <2>5, <2>6, <2>7, <2>8, OwnSocketStepKeeps
<1> QED BY <1>6, <1>7, <1>8, <1>9 DEF ServerReceives

\* A socket that opens has no role yet.
LEMMA OpeningKeeps ==
    ASSUME IInv, NEW s \in Sockets, ~Live(net[s]),
           NEW r, Safe(s, r), Unspoken(r),
           net' = [net EXCEPT ![s] = r], mode' = [mode EXCEPT ![s] = "new"],
           UNCHANGED <<owner, waiting, pairs>>
    PROVE  WiresOK' /\ TablesOK' /\ RolesOK' /\ Relayed' = Relayed /\ s \notin Relayed
<1> DEFINE n == [net EXCEPT ![s] = r]
<1>1. net \in [Sockets -> Channel] /\ \A y \in Sockets : Safe(y, net[y])
  BY DEF IInv, WiresOK, Safe
<1>2. /\ n \in [Sockets -> Channel] /\ n[s] = r /\ \A y \in Sockets \ {s} : n[y] = net[y]
      /\ \A y \in Sockets : Safe(y, n[y])
  BY <1>1 DEF Safe
<1>3. net' = n
  OBVIOUS
<1> HIDE DEF n
<1>4. s \notin Relayed /\ Relayed' = Relayed
  BY RelayedIsLive, RelayConstants DEF Relayed
<1>5. /\ mode' \in [Sockets -> {"new", "server", "paired"}] /\ mode'[s] = "new"
      /\ \A y \in Sockets \ {s} : mode'[y] = mode[y]
  BY DEF IInv, TablesOK
<1>6. WiresOK' /\ TablesOK'
  BY <1>2, <1>3, <1>5 DEF IInv, WiresOK, TablesOK, Safe
<1>7. GreetingsOK'
  BY <1>2, <1>3, <1>5 DEF IInv, RolesOK, GreetingsOK, Unspoken
<1>8. WaitingOK'
  BY <1>2, <1>3, <1>4, <1>5 DEF IInv, RolesOK, WaitingOK, Unspoken, Live, Relayed
<1>9. PairsOK'
  <2>1. ASSUME NEW q \in pairs PROVE PairOK(q)'
    <3>1. PairOK(q)
      BY DEF IInv, RolesOK, PairsOK
    <3>2. q[1] \in Sockets \ {s} /\ q[2] \in Sockets \ {s}
      BY <3>1 DEF PairOK
    <3>3. /\ n[q[1]] = net[q[1]] /\ n[q[2]] = net[q[2]]
          /\ mode'[q[1]] = mode[q[1]] /\ mode'[q[2]] = mode[q[2]]
      BY <1>2, <1>5, <3>2
    <3> QED BY <1>3, <3>1, <3>3 DEF PairOK, Live
  <2>2. \A q, x \in pairs : q[1] = x[1] \/ q[2] = x[2] => q = x
    BY DEF IInv, RolesOK, PairsOK
  <2> QED BY <2>1, <2>2 DEF PairsOK
<1> QED BY <1>4, <1>6, <1>7, <1>8, <1>9 DEF RolesOK

\* onopen of a server's socket.
LEMMA OpenKeeps ==
    ASSUME IInv, NEW s \in Sockets, Open(s) PROVE IInv'
<1> DEFINE r == Greeting("register")
           v == Holder[s]
           c == [svc[v] EXCEPT !.status = "registering"]
<1>1. net \in [Sockets -> Channel] /\ Safe(s, net[s]) /\ net[s].near = "connecting"
  BY DEF IInv, WiresOK, Safe, Open
<1>2. v \in Servers /\ ~Live(net[s]) /\ s \notin claimed
  BY <1>1 DEF Safe, Wire, Live, IInv, ClaimedOK
<1>3. Safe(s, r) /\ Unspoken(r) /\ r.near = "open" /\ r.down = <<>>
  BY <1>2, GreetingIsSafe
<1>4. /\ net' = [net EXCEPT ![s] = r] /\ mode' = [mode EXCEPT ![s] = "new"]
      /\ svc' = [svc EXCEPT ![v] = c]
      /\ UNCHANGED <<owner, waiting, pairs, claimed, heard>>
  BY DEF Open
<1> HIDE DEF r
<1>5. WiresOK' /\ TablesOK' /\ RolesOK' /\ Relayed' = Relayed /\ s \notin Relayed
  BY <1>2, <1>3, <1>4, OpeningKeeps
<1>6. \A w \in Servers : svc[w] \in Services /\ SvcFits(w, svc[w], net, claimed, Relayed)
  BY DEF IInv, ServicesOK
<1>7. c \in Services /\ c.waiting = svc[v].waiting /\ c.connecting = svc[v].connecting
  BY <1>2, <1>6 DEF Services, Status
<1> HIDE DEF c
<1>8. /\ svc' \in [Servers -> Services]
      /\ \A w \in Servers : /\ svc'[w].waiting = svc[w].waiting
                            /\ svc'[w].connecting = svc[w].connecting
  BY <1>2, <1>4, <1>7 DEF IInv, ServicesOK
<1>9. net'[s] = r /\ \A y \in Sockets \ {s} : net'[y] = net[y]
  BY <1>1, <1>4
<1>10. ASSUME NEW w \in Servers PROVE SvcFits(w, svc'[w], net', claimed', Relayed')
  <2>1. svc[w] \in Services /\ SvcFits(w, svc[w], net, claimed, Relayed)
    BY <1>6
  <2>2. svc[w].connecting # NoSocket => svc[w].connecting \in Sockets
    BY <2>1 DEF Services
  <2>3. r.near \in Ears /\ Introduced(r.down)
    BY <1>3, ShortFacts DEF Ears, Introduced
  <2> QED BY <1>4, <1>5, <1>8, <1>9, <2>1, <2>2, <2>3 DEF SvcFits
<1>11. ServicesOK' /\ ClaimedOK' /\ HeardOK'
  BY <1>2, <1>4, <1>8, <1>9, <1>10 DEF ServicesOK, IInv, ClaimedOK, HeardOK
<1> QED BY <1>5, <1>11 DEF IInv

\* A phone connects.
LEMMA VisitKeeps ==
    ASSUME IInv, NEW p \in Phones, Visit(p) PROVE IInv'
<1> DEFINE s == NewSocket(p)
           r == Greeting("connect")
<1>1. /\ s \in Sockets /\ Holder[s] = p /\ net[s] = Unused
      /\ net' = [net EXCEPT ![s] = r] /\ mode' = [mode EXCEPT ![s] = "new"]
      /\ heard' = [heard EXCEPT ![s] = {}]
      /\ UNCHANGED <<owner, waiting, pairs, svc, claimed>>
  BY DEF Visit, CanConnect, NewSocket, FreeSocket
<1> HIDE DEF s
<1>2. Holder[s] \notin Servers /\ ~Live(net[s]) /\ s \notin claimed
  BY <1>1, UnusedIsSafe, RelayConstants, ClaimedInUse
<1>3. Safe(s, r) /\ Unspoken(r)
  BY <1>1, GreetingIsSafe
<1> HIDE DEF r
<1>4. WiresOK' /\ TablesOK' /\ RolesOK' /\ Relayed' = Relayed /\ s \notin Relayed
  BY <1>1, <1>2, <1>3, OpeningKeeps
<1>5. net \in [Sockets -> Channel] /\ \A y \in Sockets \ {s} : net'[y] = net[y]
  BY <1>1 DEF IInv, WiresOK
<1>6. ASSUME NEW w \in Servers PROVE SvcFits(w, svc'[w], net', claimed', Relayed')
  <2>1. svc[w] \in Services /\ SvcFits(w, svc[w], net, claimed, Relayed)
    BY DEF IInv, ServicesOK
  <2>2. svc[w].connecting # NoSocket => svc[w].connecting \in Sockets \ {s}
    BY <1>2, <2>1 DEF Services, SvcFits
  <2> QED BY <1>1, <1>4, <1>5, <2>1, <2>2 DEF SvcFits
<1>7. ServicesOK' /\ ClaimedOK' /\ HeardOK'
  BY <1>1, <1>2, <1>5, <1>6 DEF ServicesOK, IInv, ClaimedOK, HeardOK
<1> QED BY <1>4, <1>7 DEF IInv

-----------------------------------------------------------------------------
(* What steps of the relay keep.                                           *)

\* A step of the relay leaves the services alone: they go on fitting.
LEMMA FarStepKeeps ==
    ASSUME IInv, UNCHANGED <<svc, claimed, heard>>,
           NEW n \in [Sockets -> Channel], net' = n,
           \A s \in Sockets : Safe(s, n[s]),
           \A s \in claimed : net[s].near \in {"open", "closing"} => n[s].near \in {"open", "closing"},
           \A v \in Servers : \A s \in Sockets : s = svc[v].connecting => Linked(net[s], n[s]),
           \A v \in Servers : \A s \in Relayed' \ Relayed :
               s \in Sockets /\ s = svc[v].connecting => Expects(n[s].down)
    PROVE  WiresOK' /\ ServicesOK' /\ ClaimedOK' /\ HeardOK'
<1>1. WiresOK'
  BY DEF WiresOK, Safe
<1>2. ASSUME NEW v \in Servers PROVE SvcFits(v, svc[v], n, claimed, Relayed')
  <2>1. svc[v] \in Services /\ SvcFits(v, svc[v], net, claimed, Relayed)
    BY DEF IInv, ServicesOK
  <2> DEFINE s == svc[v].connecting
  <2>2. s # NoSocket => s \in Sockets
    BY <2>1 DEF Services
  <2>3. s # NoSocket => Linked(net[s], n[s]) /\ (s \in Relayed' => s \in Relayed \/ Expects(n[s].down))
    BY <2>2
  <2> QED BY <2>1, <2>3 DEF SvcFits, Linked
<1>3. ServicesOK'
  <2>1. \A v \in Servers : SvcFits(v, svc'[v], net', claimed', Relayed')
    BY <1>2
  <2> QED BY <2>1 DEF IInv, ServicesOK
<1>4. ClaimedOK' /\ HeardOK'
  BY DEF IInv, ClaimedOK, HeardOK
<1> QED BY <1>1, <1>3, <1>4

\* The relay's tables may shrink, if the sockets that lose their role have greeted.
LEMMA RolesShrink ==
    ASSUME IInv, waiting' \in {NoSocket, waiting}, pairs' \subseteq pairs,
           owner' \in {owner, NoServer}, owner' # owner => waiting' = NoSocket /\ pairs' = {},
           mode' \in [Sockets -> {"new", "server", "paired"}],
           NEW n \in [Sockets -> Channel], net' = n,
           \A s \in Sockets :
               \/ Calm(net[s], n[s]) /\ mode'[s] = mode[s]
               \/ Greeted(n[s]) /\ s # waiting' /\ \A q \in pairs' : s # q[1] /\ s # q[2]
    PROVE  TablesOK' /\ RolesOK'
<1>1. TablesOK'
  BY DEF IInv, TablesOK
<1>2. GreetingsOK'
  <2> SUFFICES ASSUME NEW s \in Sockets, NEW m \in Range(n[s].up), Greets(m)
               PROVE  mode'[s] = "new" /\ Unspoken(n[s])
    BY DEF GreetingsOK, Unspoken
  <2>1. Calm(net[s], n[s]) /\ mode'[s] = mode[s]
    BY DEF Greeted
  <2>2. m \in Range(net[s].up)
    BY <2>1 DEF Calm, Greets
  <2>3. mode[s] = "new" /\ Unspoken(net[s])
    BY <2>2 DEF IInv, RolesOK, GreetingsOK
  <2> QED BY <2>1, <2>3 DEF Calm, Unspoken
<1>3. WaitingOK'
  <2> SUFFICES ASSUME waiting' # NoSocket
               PROVE  /\ waiting' \in Sockets
                      /\ owner \in Servers /\ Holder[waiting'] = owner
                      /\ mode'[waiting'] = "server"
                      /\ Live(n[waiting']) /\ Unspoken(n[waiting'])
    <3>1. waiting' # NoSocket => owner' = owner
      OBVIOUS
    <3> QED BY <3>1 DEF WaitingOK, Unspoken, Live
  <2>1. /\ waiting' = waiting /\ waiting \in Sockets
        /\ owner \in Servers /\ Holder[waiting] = owner /\ mode[waiting] = "server"
        /\ Live(net[waiting]) /\ Unspoken(net[waiting])
    BY DEF IInv, RolesOK, WaitingOK
  <2>2. Calm(net[waiting], n[waiting]) /\ mode'[waiting] = mode[waiting]
    BY <2>1
  <2> QED BY <2>1, <2>2 DEF Calm, Unspoken
<1>4. PairsOK'
  <2>1. ASSUME NEW q \in pairs' PROVE PairOK(q)'
    <3>1. PairOK(q)
      BY DEF IInv, RolesOK, PairsOK
    <3>2. q[1] \in Sockets /\ q[2] \in Sockets
      BY <3>1 DEF PairOK
    <3>3. /\ Calm(net[q[1]], n[q[1]]) /\ mode'[q[1]] = mode[q[1]]
          /\ Calm(net[q[2]], n[q[2]]) /\ mode'[q[2]] = mode[q[2]]
      BY <3>2
    <3>4. Live(n[q[1]]) /\ Live(n[q[2]])
      BY <3>1, <3>3 DEF PairOK, Calm
    <3>5. \A m \in Range(n[q[1]].down) : m.type = "data" => m.from = q[2]
      BY <3>1, <3>3 DEF PairOK, Calm
    <3>6. \A m \in Range(n[q[1]].up) : m.type = "answer" => m.from = q[2]
      BY <3>1, <3>3 DEF PairOK, Calm
    <3> QED BY <3>1, <3>3, <3>4, <3>5, <3>6 DEF PairOK, Live
  <2>2. \A q, r \in pairs' : q[1] = r[1] \/ q[2] = r[2] => q = r
    BY DEF IInv, RolesOK, PairsOK
  <2> QED BY <2>1, <2>2 DEF PairsOK
<1> QED BY <1>1, <1>2, <1>3, <1>4 DEF RolesOK

\* The relay starts again.
LEMMA RestartRelayKeeps ==
    ASSUME IInv, RestartRelay PROVE IInv'
<1> DEFINE r(s) == IF net[s].near \in {"none", "closed"} THEN Unused
                   ELSE [net[s] EXCEPT !.far = "closed", !.up = <<>>,
                                       !.down = <<Msg("close")>>]
           n == [s \in Sockets |-> r(s)]
<1>1. /\ net' = n /\ mode' = [s \in Sockets |-> "new"] /\ waiting' = NoSocket /\ pairs' = {}
      /\ UNCHANGED <<svc, claimed, heard>> /\ owner' \in {owner, NoServer}
  BY DEF RestartRelay
<1>2. ASSUME NEW s \in Sockets
      PROVE  Safe(s, r(s)) /\ Linked(net[s], r(s)) /\ Greeted(r(s))
  <2>1. Safe(s, net[s])
    BY DEF IInv, WiresOK, Safe
  <2> QED BY <2>1, RestartKeeps
<1> HIDE DEF r
<1>3. /\ n \in [Sockets -> Channel]
      /\ \A s \in Sockets : Safe(s, n[s]) /\ Linked(net[s], n[s]) /\ Greeted(n[s])
  BY <1>2 DEF Safe
<1> HIDE DEF n
<1>4. \A s \in claimed : net[s].near \in {"open", "closing"} => n[s].near \in {"open", "closing"}
  BY <1>3 DEF IInv, ClaimedOK, Linked
<1>5. \A s \in Relayed' \ Relayed : s \notin Sockets
  BY <1>1, RelayConstants DEF Relayed
<1>6. TablesOK' /\ RolesOK'
  BY <1>1, <1>3, RelayConstants, RolesShrink
<1>7. WiresOK' /\ ServicesOK' /\ ClaimedOK' /\ HeardOK'
  BY <1>1, <1>3, <1>4, <1>5, FarStepKeeps
<1> QED BY <1>6, <1>7 DEF IInv

\* The ends of a pair, and who they are to each other.
LEMMA PeerFacts ==
    ASSUME IInv, NEW s \in Sockets, NEW x \in PeersOf(s)
    PROVE  /\ x \in Sockets /\ x # s /\ x # waiting
           /\ mode[x] = "paired" /\ mode[s] = "paired"
           /\ Safe(x, net[x]) /\ Greeted(net[x])
           /\ <<x, s>> \in pairs \/ <<s, x>> \in pairs
<1>1. PICK q \in pairs : q \in {<<x, s>>, <<s, x>>}
  <2>1. \A q \in pairs : q \in Sockets \X Sockets
    BY DEF IInv, TablesOK
  <2> QED BY <2>1 DEF PeersOf
<1>2. /\ q \in Sockets \X Sockets /\ Holder[q[1]] \in Servers /\ Holder[q[2]] \in Phones
      /\ mode[q[1]] = "paired" /\ mode[q[2]] = "paired"
  BY DEF IInv, RolesOK, PairsOK, PairOK
<1>3. x \in Sockets /\ x # s /\ mode[x] = "paired" /\ mode[s] = "paired"
  BY <1>1, <1>2, RelayConstants
<1>4. x # waiting
  BY <1>3, RelayConstants DEF IInv, RolesOK, WaitingOK
<1>5. Safe(x, net[x]) /\ Greeted(net[x])
  BY <1>3 DEF IInv, WiresOK, Safe, RolesOK, GreetingsOK, Greeted
<1> QED BY <1>1, <1>3, <1>4, <1>5

\* The close of a socket comes to the relay.
LEMMA HandleCloseKeeps ==
    ASSUME IInv, NEW s \in Sockets, HandleClose(s), UNCHANGED <<owner, svc, claimed, heard>>
    PROVE  IInv'
<1> DEFINE r == FarClosed(net[s])
           b == [net EXCEPT ![s] = r]
           n == [x \in Sockets |-> IF x \in PeersOf(s) THEN CloseFar(b[x]) ELSE b[x]]
<1>1. net \in [Sockets -> Channel] /\ \A y \in Sockets : Safe(y, net[y])
  BY DEF IInv, WiresOK, Safe
<1>2. Safe(s, r) /\ Linked(net[s], r) /\ Greeted(r)
  BY <1>1, FarClosedKeeps
<1>3. /\ b \in [Sockets -> Channel] /\ b[s] = r /\ \A y \in Sockets \ {s} : b[y] = net[y]
  BY <1>1, <1>2 DEF Safe
<1>4. /\ mode' = [mode EXCEPT ![s] = "new"]
      /\ \/ waiting = s /\ waiting' = NoSocket /\ net' = b /\ pairs' = pairs
         \/ /\ waiting # s /\ waiting' = waiting /\ net' = n
            /\ pairs' = {q \in pairs : s \notin {q[1], q[2]}}
  BY DEF HandleClose
<1> HIDE DEF b, r
<1>5. ASSUME NEW y \in Sockets
      PROVE  /\ Safe(y, b[y]) /\ Linked(net[y], b[y]) /\ (y # s => Calm(net[y], b[y]))
             /\ Safe(y, n[y]) /\ Linked(net[y], n[y])
             /\ IF y = s THEN n[y] = r ELSE Calm(net[y], n[y])
  <2>1. Safe(y, b[y]) /\ Linked(net[y], b[y]) /\ (y # s => Calm(net[y], b[y]))
    BY <1>1, <1>2, <1>3, StepsCompose
  <2>2. CASE y \in PeersOf(s)
    <3>1. y # s /\ Greeted(net[y]) /\ Safe(y, net[y]) /\ b[y] = net[y]
      BY <1>3, <2>2, PeerFacts
    <3>2. n[y] = CloseFar(net[y])
      BY <2>2, <3>1
    <3> QED BY <2>1, <3>1, <3>2, CloseFarKeeps
  <2>3. CASE y \notin PeersOf(s)
    <3>1. n[y] = b[y]
      BY <2>3
    <3> QED BY <1>3, <2>1, <3>1
  <2> QED BY <2>1, <2>2, <2>3
<1>6. n \in [Sockets -> Channel]
  BY <1>5 DEF Safe
<1> HIDE DEF n
<1>7. /\ net' \in [Sockets -> Channel]
      /\ \A y \in Sockets : Safe(y, net'[y]) /\ Linked(net[y], net'[y])
      /\ \A y \in Sockets \ {s} : Calm(net[y], net'[y])
      /\ Greeted(net'[s])
  BY <1>2, <1>3, <1>4, <1>5, <1>6
<1>8. /\ mode' \in [Sockets -> {"new", "server", "paired"}]
      /\ \A y \in Sockets \ {s} : mode'[y] = mode[y]
  BY <1>4 DEF IInv, TablesOK
<1>9. s # waiting' /\ \A q \in pairs' : s # q[1] /\ s # q[2]
  <2>1. CASE waiting = s
    BY <1>4, <2>1, RelayConstants DEF IInv, RolesOK, WaitingOK, PairsOK, PairOK
  <2>2. CASE waiting # s
    BY <1>4, <2>2
  <2> QED BY <2>1, <2>2
<1>10. waiting' \in {NoSocket, waiting} /\ pairs' \subseteq pairs
  BY <1>4
<1>11. TablesOK' /\ RolesOK'
  BY <1>7, <1>8, <1>9, <1>10, RolesShrink
<1>12. \A y \in Relayed' \ Relayed : y \notin Sockets
  BY <1>10, RelayConstants DEF Relayed
<1>13. \A y \in claimed : net[y].near \in {"open", "closing"} => net'[y].near \in {"open", "closing"}
  BY <1>7 DEF IInv, ClaimedOK, Linked
<1>14. WiresOK' /\ ServicesOK' /\ ClaimedOK' /\ HeardOK'
  BY <1>7, <1>12, <1>13, FarStepKeeps
<1> QED BY <1>11, <1>14 DEF IInv

\* The relay takes a message of s.
LEMMA TakenFacts ==
    ASSUME IInv, NEW s \in Sockets, net[s].up # <<>>
    PROVE  LET t == [net[s] EXCEPT !.up = Tail(@)]
               m == Head(net[s].up)
           IN  /\ Taken(net, s) = [net EXCEPT ![s] = t]
               /\ Safe(s, t) /\ Calm(net[s], t) /\ Linked(net[s], t) /\ Greeted(t)
               /\ t.near = net[s].near /\ t.far = net[s].far /\ t.down = net[s].down
               /\ m \in Message /\ m \in Range(net[s].up)
               /\ Greets(m) => /\ mode[s] = "new" /\ Unspoken(net[s]) /\ net[s].far = "open"
                               /\ s # waiting /\ \A q \in pairs : s # q[1] /\ s # q[2]
               /\ m.type \in {"register", "answer"} => Holder[s] \in Servers
               /\ m.type \in {"connect", "data"} => Holder[s] \in Phones
               /\ m.type = "data" => m.from = s
<1> DEFINE t == [net[s] EXCEPT !.up = Tail(@)]
           m == Head(net[s].up)
<1>1. Safe(s, net[s])
  BY DEF IInv, WiresOK, Safe
<1>2. /\ Safe(s, t) /\ Calm(net[s], t) /\ Linked(net[s], t) /\ Greeted(t)
      /\ t.near = net[s].near /\ t.far = net[s].far /\ t.down = net[s].down
      /\ m \in Message /\ m \in Range(net[s].up)
  BY <1>1, TakenKeeps
<1>3. Taken(net, s) = [net EXCEPT ![s] = t]
  BY DEF Taken
<1> HIDE DEF t, m
<1>4. /\ m.type \in {"register", "answer"} => Holder[s] \in Servers
      /\ m.type \in {"connect", "data"} => Holder[s] \in Phones
      /\ m.type = "data" => m.from = s
      /\ Greets(m) => net[s].far = "open"
  BY <1>1, <1>2 DEF Safe, Wire
<1>5. Greets(m) => mode[s] = "new" /\ Unspoken(net[s])
  BY <1>2 DEF IInv, RolesOK, GreetingsOK
<1>6. mode[s] = "new" => s # waiting /\ \A q \in pairs : s # q[1] /\ s # q[2]
  BY RelayConstants DEF IInv, RolesOK, WaitingOK, PairsOK, PairOK
<1> QED BY <1>2, <1>3, <1>4, <1>5, <1>6 DEF t, m

\* The peers of a socket: what it sends them is of the pair's phone.
LEMMA ForwardFacts ==
    ASSUME IInv, NEW s \in Sockets, NEW x \in PeersOf(s), NEW m \in Range(net[s].up)
    PROVE  /\ m.type = "answer" => m.from = x
           /\ m.type = "data" => /\ x \in Relayed /\ m.from = s
                                 /\ \A q \in pairs : q[1] = x => q[2] = s
<1>1. \A q \in pairs : PairOK(q)
  BY DEF IInv, RolesOK, PairsOK
<1>2. /\ m.type = "answer" => Holder[s] \in Servers
      /\ m.type = "data" => Holder[s] \in Phones /\ m.from = s
  BY DEF IInv, WiresOK, Wire
<1>3. CASE <<x, s>> \in pairs
  <2>1. Holder[s] \in Phones /\ Holder[s] \notin Servers /\ m.type # "answer"
    BY <1>1, <1>2, <1>3, RelayConstants DEF PairOK
  <2>2. \A q \in pairs : q[1] = x => q = <<x, s>>
    BY <1>3 DEF IInv, RolesOK, PairsOK
  <2>3. x \in Relayed
    BY <1>3 DEF Relayed
  <2> QED BY <1>2, <1>3, <2>1, <2>2, <2>3
<1>4. CASE <<s, x>> \in pairs
  <2>1. PairOK(<<s, x>>)
    BY <1>1, <1>4
  <2>2. /\ Holder[s] \in Servers
        /\ \A k \in Range(net[s].up) : k.type = "answer" => k.from = x
    BY <2>1 DEF PairOK
  <2> QED BY <1>2, <2>2, RelayConstants
<1> QED BY <1>3, <1>4, PeerFacts

\* A message of a paired socket goes to its peer.
LEMMA ForwardKeeps ==
    ASSUME IInv, NEW s \in Sockets, net[s].up # <<>>, mode[s] = "paired",
           Head(net[s].up).type # "close", Forward(s, Head(net[s].up)),
           UNCHANGED <<mode, owner, waiting, pairs, svc, claimed, heard>>
    PROVE  IInv'
<1> DEFINE t == [net[s] EXCEPT !.up = Tail(@)]
           m == Head(net[s].up)
           b == [net EXCEPT ![s] = t]
           n == [x \in Sockets |-> IF x \in PeersOf(s) THEN SendDown(b[x], m) ELSE b[x]]
<1>1. net \in [Sockets -> Channel] /\ \A y \in Sockets : Safe(y, net[y])
  BY DEF IInv, WiresOK, Safe
<1>2. /\ Taken(net, s) = b
      /\ Safe(s, t) /\ Calm(net[s], t) /\ Linked(net[s], t) /\ Greeted(t)
      /\ m \in Message /\ m \in Range(net[s].up)
  BY TakenFacts
<1>3. net' = n
  BY <1>2 DEF Forward
<1> HIDE DEF t, m
<1>4. /\ b \in [Sockets -> Channel] /\ b[s] = t /\ \A y \in Sockets \ {s} : b[y] = net[y]
      /\ \A y \in Sockets : Safe(y, b[y]) /\ Calm(net[y], b[y]) /\ Linked(net[y], b[y])
  BY <1>1, <1>2, StepsCompose DEF Safe
<1> HIDE DEF b
<1>5. ASSUME NEW y \in Sockets, y \notin PeersOf(s)
      PROVE  Safe(y, n[y]) /\ Calm(net[y], n[y]) /\ Linked(net[y], n[y])
  <2>1. n[y] = b[y]
    BY <1>5
  <2> QED BY <1>4, <2>1
<1>6. ASSUME NEW y \in Sockets, y \in PeersOf(s)
      PROVE  /\ Safe(y, n[y]) /\ n[y].near = net[y].near /\ n[y].far = net[y].far
             /\ (m.type = "data" => Expects(net[y].down)) => Linked(net[y], n[y])
             /\ n[y].up = net[y].up
             /\ Range(n[y].down) \subseteq Range(net[y].down) \cup {m}
  <2>1. y # s /\ b[y] = net[y] /\ Safe(y, net[y])
    BY <1>1, <1>4, <1>6, PeerFacts
  <2>2. n[y] = SendDown(net[y], m)
    BY <1>6, <2>1
  <2>3. m.type = "answer" => m.from = y
    BY <1>2, <1>6, ForwardFacts
  <2> DEFINE r == SendDown(net[y], m)
  <2>4. /\ Safe(y, r) /\ r.near = net[y].near /\ r.far = net[y].far /\ r.up = net[y].up
        /\ (m.type = "data" => Expects(net[y].down)) => Linked(net[y], r)
        /\ Range(r.down) \subseteq Range(net[y].down) \cup {m}
    BY <1>2, <2>1, <2>3, SendDownKeeps
  <2>5. n[y] = r
    BY <2>2
  <2> HIDE DEF r, n
  <2> QED BY <2>4, <2>5
<1>7. n \in [Sockets -> Channel] /\ \A y \in Sockets : Safe(y, n[y])
  BY <1>5, <1>6 DEF Safe
<1> HIDE DEF n
<1>8. TablesOK'
  BY DEF IInv, TablesOK
<1>9. GreetingsOK'
  <2> SUFFICES ASSUME NEW y \in Sockets, NEW k \in Range(n[y].up), Greets(k)
               PROVE  mode[y] = "new" /\ Unspoken(n[y])
    BY <1>3 DEF GreetingsOK, Unspoken
  <2>1. y \notin PeersOf(s)
    BY <1>6, PeerFacts DEF Greeted
  <2>2. Calm(net[y], n[y])
    BY <1>5, <2>1
  <2>3. k \in Range(net[y].up)
    BY <2>2 DEF Calm, Greets
  <2>4. mode[y] = "new" /\ Unspoken(net[y])
    BY <2>3 DEF IInv, RolesOK, GreetingsOK
  <2> QED BY <2>2, <2>4 DEF Calm, Unspoken
<1>10. WaitingOK'
  <2> SUFFICES ASSUME waiting # NoSocket
               PROVE  /\ waiting \in Sockets
                      /\ owner \in Servers /\ Holder[waiting] = owner
                      /\ mode[waiting] = "server"
                      /\ Live(n[waiting]) /\ Unspoken(n[waiting])
    BY <1>3 DEF WaitingOK, Unspoken, Live
  <2>1. /\ waiting \in Sockets
        /\ owner \in Servers /\ Holder[waiting] = owner /\ mode[waiting] = "server"
        /\ Live(net[waiting]) /\ Unspoken(net[waiting])
    BY DEF IInv, RolesOK, WaitingOK
  <2>2. waiting \notin PeersOf(s)
    BY PeerFacts
  <2>3. Calm(net[waiting], n[waiting])
    BY <1>5, <2>1, <2>2
  <2> QED BY <2>1, <2>3 DEF Calm, Unspoken
<1>11. PairsOK'
  <2>1. ASSUME NEW q \in pairs PROVE PairOK(q)'
    <3>1. PairOK(q)
      BY DEF IInv, RolesOK, PairsOK
    <3>2. q[1] \in Sockets /\ q[2] \in Sockets
      BY <3>1 DEF PairOK
    <3>3. Live(n[q[1]]) /\ Live(n[q[2]])
      BY <1>5, <1>6, <3>1, <3>2 DEF PairOK, Calm, Live
    <3>4. \A k \in Range(n[q[1]].down) : k.type = "data" => k.from = q[2]
      <4>1. CASE q[1] \in PeersOf(s)
        <5>1. m.type = "data" => m.from = s /\ \A p \in pairs : p[1] = q[1] => p[2] = s
          BY <1>2, <4>1, ForwardFacts
        <5> QED BY <1>6, <3>1, <3>2, <4>1, <5>1 DEF PairOK
      <4>2. CASE q[1] \notin PeersOf(s)
        BY <1>5, <3>1, <3>2, <4>2 DEF PairOK, Calm
      <4> QED BY <4>1, <4>2
    <3>5. \A k \in Range(n[q[1]].up) : k.type = "answer" => k.from = q[2]
      <4>1. CASE q[1] \in PeersOf(s)
        BY <1>6, <3>1, <3>2, <4>1 DEF PairOK
      <4>2. CASE q[1] \notin PeersOf(s)
        BY <1>5, <3>1, <3>2, <4>2 DEF PairOK, Calm
      <4> QED BY <4>1, <4>2
    <3> QED BY <1>3, <3>1, <3>3, <3>4, <3>5 DEF PairOK, Live
  <2>2. \A q, r \in pairs : q[1] = r[1] \/ q[2] = r[2] => q = r
    BY DEF IInv, RolesOK, PairsOK
  <2> QED BY <2>1, <2>2 DEF PairsOK
<1>12. ASSUME NEW v \in Servers, NEW y \in Sockets, y = svc[v].connecting
       PROVE  Linked(net[y], n[y])
  <2>1. CASE y \in PeersOf(s)
    <3>1. m.type = "data" => y \in Relayed
      BY <1>2, <2>1, ForwardFacts
    <3>2. y \in Relayed => Expects(net[y].down)
      BY <1>12, RelayConstants DEF IInv, ServicesOK, SvcFits
    <3> QED BY <1>6, <2>1, <3>1, <3>2
  <2> QED BY <1>5, <2>1
<1>13. \A y \in claimed : net[y].near \in {"open", "closing"} => n[y].near \in {"open", "closing"}
  BY <1>5, <1>6 DEF IInv, ClaimedOK, Linked
<1>14. Relayed' = Relayed
  BY DEF Relayed
<1>15. WiresOK' /\ ServicesOK' /\ ClaimedOK' /\ HeardOK'
  BY <1>3, <1>7, <1>12, <1>13, <1>14, FarStepKeeps
<1> QED BY <1>8, <1>9, <1>10, <1>11, <1>15 DEF IInv, RolesOK

\* A socket whose first message the relay refuses is told so, and closed.
LEMMA RefusalKeeps ==
    ASSUME IInv, NEW s \in Sockets, net[s].up # <<>>, NEW m \in Message,
           m.type \notin {"data", "answer"},
           net' = [Taken(net, s) EXCEPT ![s] = CloseFar(SendDown(@, m))],
           UNCHANGED <<mode, owner, waiting, pairs, svc, claimed, heard>>
    PROVE  IInv'
<1> DEFINE t == [net[s] EXCEPT !.up = Tail(@)]
           d == SendDown(t, m)
           r == CloseFar(d)
<1>1. /\ Taken(net, s) = [net EXCEPT ![s] = t]
      /\ Safe(s, t) /\ Calm(net[s], t) /\ Linked(net[s], t) /\ Greeted(t)
  BY TakenFacts
<1> HIDE DEF t
<1>2. net \in [Sockets -> Channel]
  BY DEF IInv, WiresOK
<1>3. net' = [net EXCEPT ![s] = r]
  BY <1>1, <1>2
<1>4. Safe(s, d) /\ Calm(t, d) /\ Linked(t, d) /\ d.up = t.up
  BY <1>1, SendDownKeeps
<1> HIDE DEF d
<1>5. Greeted(d)
  BY <1>1, <1>4 DEF Greeted
<1>6. Safe(s, r) /\ Calm(d, r) /\ Linked(d, r)
  BY <1>4, <1>5, CloseFarKeeps
<1> HIDE DEF r
<1>7. Calm(net[s], r) /\ Linked(net[s], r)
  BY <1>1, <1>4, <1>6, StepsCompose
<1>8. HeardOK'
  BY DEF IInv, HeardOK
<1> QED BY <1>3, <1>6, <1>7, <1>8, SocketStepKeeps

\* A server registers: its socket waits, in the place of the one that waited.
LEMMA RegisterServerKeeps ==
    ASSUME IInv, NEW s \in Sockets, net[s].up # <<>>, Head(net[s].up).type = "register",
           RegisterServer(s), UNCHANGED <<pairs, svc, claimed, heard>>
    PROVE  IInv'
<1> DEFINE t == [net[s] EXCEPT !.up = Tail(@)]
           m == Head(net[s].up)
           v == Holder[s]
           g == Msg("registered")
           r == SendDown(t, g)
           b == Taken(net, s)
           n == [x \in Sockets |-> CASE x = s       -> SendDown(b[x], g)
                                     [] x = waiting -> CloseFar(b[x])
                                     [] OTHER       -> b[x]]
<1>1. net \in [Sockets -> Channel] /\ \A y \in Sockets : Safe(y, net[y])
  BY DEF IInv, WiresOK, Safe
<1>2. /\ b = [net EXCEPT ![s] = t]
      /\ Safe(s, t) /\ Calm(net[s], t) /\ Linked(net[s], t) /\ Greeted(t)
      /\ t.near = net[s].near /\ t.far = net[s].far /\ t.down = net[s].down
      /\ Greets(m) => /\ mode[s] = "new" /\ Unspoken(net[s]) /\ net[s].far = "open"
                      /\ s # waiting /\ \A q \in pairs : s # q[1] /\ s # q[2]
      /\ m.type \in {"register", "answer"} => Holder[s] \in Servers
  BY TakenFacts
<1>3. /\ mode[s] = "new" /\ Unspoken(net[s]) /\ net[s].far = "open" /\ v \in Servers
      /\ s # waiting /\ \A q \in pairs : s # q[1] /\ s # q[2]
  BY <1>2 DEF Greets
<1>4. /\ g \in Message /\ g.type = "registered"
      /\ Msg("rejected") \in Message /\ Msg("rejected").type = "rejected"
  BY MsgFacts
<1>5. CASE owner \notin {NoServer, v}
  <2>1. /\ net' = [b EXCEPT ![s] = CloseFar(SendDown(@, Msg("rejected")))]
        /\ UNCHANGED <<owner, waiting, mode>>
    BY <1>5 DEF RegisterServer
  <2> QED BY <1>4, <2>1, RefusalKeeps
<1>6. CASE owner \in {NoServer, v}
  <2>1. owner' = v /\ waiting' = s /\ mode' = [mode EXCEPT ![s] = "server"] /\ net' = n
    BY <1>6 DEF RegisterServer
  <2> HIDE DEF t, m, g
  <2>2. /\ Safe(s, r) /\ Linked(t, r) /\ Calm(t, r) /\ r.near = t.near /\ r.far = t.far
        /\ r.up = t.up
        /\ t.far = "open" /\ t.near \in {"open", "closing"} => Expects(r.down)
    BY <1>2, <1>4, SendDownKeeps DEF Settles
  <2>3. b[s] = t /\ \A y \in Sockets \ {s} : b[y] = net[y]
    BY <1>1, <1>2
  <2>4. /\ n[s] = r /\ (waiting \in Sockets => n[waiting] = CloseFar(net[waiting]))
        /\ \A y \in Sockets \ {s, waiting} : n[y] = net[y]
    BY <1>3, <2>3
  <2>5. n = [y \in Sockets |-> n[y]]
    OBVIOUS
  <2> HIDE DEF n, r, b
  <2>6. Calm(net[s], r) /\ Linked(net[s], r) /\ Greeted(r)
    BY <1>2, <2>2, StepsCompose DEF Greeted
  <2>7. waiting \in Sockets => Greeted(net[waiting])
    BY RelayConstants DEF IInv, RolesOK, WaitingOK, GreetingsOK, Greeted
  <2>8. ASSUME NEW y \in Sockets
        PROVE  Safe(y, n[y]) /\ Calm(net[y], n[y]) /\ Linked(net[y], n[y])
    <3>1. CASE y = s
      BY <2>2, <2>4, <2>6, <3>1
    <3>2. CASE y = waiting /\ y # s
      <4>1. n[y] = CloseFar(net[y]) /\ Greeted(net[y]) /\ Safe(y, net[y])
        BY <1>1, <2>4, <2>7, <3>2
      <4> QED BY <4>1, CloseFarKeeps
    <3>3. CASE y \notin {s, waiting}
      <4>1. n[y] = net[y]
        BY <2>4, <3>3
      <4> QED BY <1>1, <4>1, StepsCompose
    <3> QED BY <3>1, <3>2, <3>3
  <2>9. waiting \in Sockets => Greeted(n[waiting])
    <3>1. ASSUME waiting \in Sockets PROVE Greeted(n[waiting])
      <4>1. Safe(waiting, net[waiting]) /\ Greeted(net[waiting])
        BY <1>1, <2>7, <3>1
      <4> QED BY <2>4, <3>1, <4>1, CloseFarKeeps
    <3> QED BY <3>1
  <2>10. n \in [Sockets -> Channel]
    BY <2>5, <2>8 DEF Safe
  <2>11. /\ mode' \in [Sockets -> {"new", "server", "paired"}] /\ mode'[s] = "server"
         /\ \A y \in Sockets \ {s} : mode'[y] = mode[y]
    BY <2>1 DEF IInv, TablesOK
  <2>12. TablesOK'
    BY <1>3, <2>1, <2>11 DEF IInv, TablesOK
  <2>13. GreetingsOK'
    <3> SUFFICES ASSUME NEW y \in Sockets, NEW k \in Range(n[y].up), Greets(k)
                 PROVE  mode'[y] = "new" /\ Unspoken(n[y])
      BY <2>1 DEF GreetingsOK, Unspoken
    <3>1. y # s
      BY <2>4, <2>6 DEF Greeted
    <3>2. Calm(net[y], n[y])
      BY <2>8
    <3>3. k \in Range(net[y].up)
      BY <3>2 DEF Calm, Greets
    <3>4. mode[y] = "new" /\ Unspoken(net[y])
      BY <3>3 DEF IInv, RolesOK, GreetingsOK
    <3> QED BY <2>11, <3>1, <3>2, <3>4 DEF Calm, Unspoken
  <2>14. WaitingOK'
    <3>1. Live(n[s])
      BY <1>2, <1>3, <2>2, <2>4 DEF Live
    <3>2. Unspoken(n[s])
      BY <1>3, <2>4, <2>6 DEF Calm, Unspoken
    <3> QED BY <1>3, <2>1, <2>11, <3>1, <3>2 DEF WaitingOK, Live, Unspoken
  <2>15. PairsOK'
    <3>1. ASSUME NEW q \in pairs PROVE PairOK(q)'
      <4>1. PairOK(q)
        BY DEF IInv, RolesOK, PairsOK
      <4>2. q[1] \in Sockets \ {s} /\ q[2] \in Sockets \ {s}
        BY <1>3, <4>1 DEF PairOK
      <4>3. /\ Calm(net[q[1]], n[q[1]]) /\ mode'[q[1]] = mode[q[1]]
            /\ Calm(net[q[2]], n[q[2]]) /\ mode'[q[2]] = mode[q[2]]
        BY <2>8, <2>11, <4>2
      <4>4. Live(n[q[1]]) /\ Live(n[q[2]])
        BY <4>1, <4>3 DEF PairOK, Calm
      <4>5. /\ \A k \in Range(n[q[1]].down) : k.type = "data" => k.from = q[2]
            /\ \A k \in Range(n[q[1]].up) : k.type = "answer" => k.from = q[2]
        BY <4>1, <4>3 DEF PairOK, Calm
      <4>6. owner' = owner
        BY <1>6, <2>1, <4>1, RelayConstants DEF PairOK
      <4> QED BY <2>1, <4>1, <4>3, <4>4, <4>5, <4>6 DEF PairOK, Live
    <3>2. \A q, x \in pairs : q[1] = x[1] \/ q[2] = x[2] => q = x
      BY DEF IInv, RolesOK, PairsOK
    <3> QED BY <3>1, <3>2 DEF PairsOK
  <2>16. ASSUME NEW w \in Servers, NEW y \in Relayed' \ Relayed, y \in Sockets,
                y = svc[w].connecting
         PROVE  Expects(n[y].down)
    <3>1. y = s
      BY <2>1, <2>16 DEF Relayed
    <3>2. net[s].near \in Ears
      BY <2>16, <3>1, RelayConstants DEF IInv, ServicesOK, SvcFits
    <3>3. net[s].near # "connecting"
      BY <1>1, <1>3 DEF Safe, Wire
    <3> QED BY <1>2, <1>3, <2>2, <2>4, <3>1, <3>2, <3>3 DEF Ears
  <2>17. \A y \in claimed : net[y].near \in {"open", "closing"} => n[y].near \in {"open", "closing"}
    BY <2>8 DEF IInv, ClaimedOK, Linked
  <2>18. WiresOK' /\ ServicesOK' /\ ClaimedOK' /\ HeardOK'
    BY <2>1, <2>8, <2>10, <2>16, <2>17, FarStepKeeps
  <2> QED BY <2>12, <2>13, <2>14, <2>15, <2>18 DEF IInv, RolesOK
<1> QED BY <1>5, <1>6

\* A phone asks for the server: it is paired with the socket that waits.
LEMMA ConnectClientKeeps ==
    ASSUME IInv, NEW s \in Sockets, net[s].up # <<>>, Head(net[s].up).type = "connect",
           ConnectClient(s), UNCHANGED <<owner, svc, claimed, heard>>
    PROVE  IInv'
<1> DEFINE t == [net[s] EXCEPT !.up = Tail(@)]
           m == Head(net[s].up)
           g == Msg("connected")
           r == SendDown(t, g)
           b == Taken(net, s)
           n == [net EXCEPT ![s] = r]
<1>1. net \in [Sockets -> Channel] /\ \A y \in Sockets : Safe(y, net[y])
  BY DEF IInv, WiresOK, Safe
<1>2. /\ b = [net EXCEPT ![s] = t]
      /\ Safe(s, t) /\ Calm(net[s], t) /\ Linked(net[s], t) /\ Greeted(t)
      /\ t.near = net[s].near /\ t.far = net[s].far /\ t.down = net[s].down
      /\ Greets(m) => /\ mode[s] = "new" /\ Unspoken(net[s]) /\ net[s].far = "open"
                      /\ s # waiting /\ \A q \in pairs : s # q[1] /\ s # q[2]
      /\ m.type \in {"connect", "data"} => Holder[s] \in Phones
  BY TakenFacts
<1>3. /\ mode[s] = "new" /\ net[s].far = "open" /\ Holder[s] \in Phones
      /\ s # waiting /\ \A q \in pairs : s # q[1] /\ s # q[2]
  BY <1>2 DEF Greets
<1>4. /\ g \in Message /\ g.type = "connected"
      /\ Msg("error") \in Message /\ Msg("error").type = "error"
  BY MsgFacts
<1>5. CASE waiting = NoSocket
  <2>1. /\ net' = [b EXCEPT ![s] = CloseFar(SendDown(@, Msg("error")))]
        /\ UNCHANGED <<waiting, pairs, mode>>
    BY <1>5 DEF ConnectClient
  <2> QED BY <1>4, <2>1, RefusalKeeps
<1>6. CASE waiting # NoSocket
  <2>1. /\ waiting' = NoSocket /\ pairs' = pairs \cup {<<waiting, s>>}
        /\ mode' = [mode EXCEPT ![s] = "paired", ![waiting] = "paired"]
        /\ net' = n
    BY <1>1, <1>2, <1>6 DEF ConnectClient
  <2>2. /\ waiting \in Sockets
        /\ owner \in Servers /\ Holder[waiting] = owner /\ mode[waiting] = "server"
        /\ Live(net[waiting]) /\ Unspoken(net[waiting])
    BY <1>6 DEF IInv, RolesOK, WaitingOK
  <2> HIDE DEF t, m, g, b
  <2>3. Safe(s, r) /\ Linked(t, r) /\ Calm(t, r) /\ r.far = t.far /\ r.up = t.up
    BY <1>2, <1>4, SendDownKeeps
  <2> HIDE DEF r
  <2>4. Calm(net[s], r) /\ Linked(net[s], r) /\ Greeted(r) /\ Live(r)
    BY <1>2, <1>3, <2>3, StepsCompose DEF Greeted, Live
  <2>5. n[s] = r /\ \A y \in Sockets \ {s} : n[y] = net[y]
    BY <1>1
  <2>6. n \in [Sockets -> Channel]
    BY <1>1, <2>3 DEF Safe
  <2> HIDE DEF n
  <2>7. \A y \in Sockets : Safe(y, n[y]) /\ Calm(net[y], n[y]) /\ Linked(net[y], n[y])
    BY <1>1, <2>3, <2>4, <2>5, StepsCompose
  <2>8. /\ mode' \in [Sockets -> {"new", "server", "paired"}]
        /\ mode'[s] = "paired" /\ mode'[waiting] = "paired"
        /\ \A y \in Sockets \ {s, waiting} : mode'[y] = mode[y]
    BY <1>3, <2>1, <2>2 DEF IInv, TablesOK
  <2>9. TablesOK'
    BY <2>1, <2>2, <2>8 DEF IInv, TablesOK
  <2>10. GreetingsOK'
    <3> SUFFICES ASSUME NEW y \in Sockets, NEW k \in Range(n[y].up), Greets(k)
                 PROVE  mode'[y] = "new" /\ Unspoken(n[y])
      BY <2>1 DEF GreetingsOK, Unspoken
    <3>1. y # s
      BY <2>4, <2>5 DEF Greeted
    <3>2. Calm(net[y], n[y])
      BY <2>7
    <3>3. k \in Range(net[y].up)
      BY <3>2 DEF Calm, Greets
    <3>4. mode[y] = "new" /\ Unspoken(net[y])
      BY <3>3 DEF IInv, RolesOK, GreetingsOK
    <3>5. y # waiting
      BY <2>2, <3>4
    <3> QED BY <2>8, <3>1, <3>2, <3>4, <3>5 DEF Calm, Unspoken
  <2>11. WaitingOK'
    BY <2>1 DEF WaitingOK
  <2>12. ASSUME NEW q \in pairs
         PROVE  /\ PairOK(q)' /\ q[1] # waiting /\ q[2] # s
    <3>1. PairOK(q)
      BY DEF IInv, RolesOK, PairsOK
    <3>2. q[1] \in Sockets \ {s, waiting} /\ q[2] \in Sockets \ {s, waiting}
      BY <1>3, <2>2, <3>1 DEF PairOK
    <3>3. /\ n[q[1]] = net[q[1]] /\ mode'[q[1]] = mode[q[1]]
          /\ n[q[2]] = net[q[2]] /\ mode'[q[2]] = mode[q[2]]
      BY <2>5, <2>8, <3>2
    <3> QED BY <2>1, <3>1, <3>2, <3>3 DEF PairOK, Live
  <2> PICK p \in Sockets \X Sockets : p = <<waiting, s>>
    BY <2>2
  <2>13. p[1] = waiting /\ p[2] = s /\ pairs' = pairs \cup {p}
    BY <2>1
  <2>14. PairOK(p)'
    <3>1. n[waiting] = net[waiting] /\ n[s] = r
      BY <1>3, <2>2, <2>5
    <3>2. Live(n[waiting]) /\ Live(n[s])
      BY <2>2, <2>4, <3>1
    <3>3. /\ \A k \in Range(n[waiting].down) : k.type # "data"
          /\ \A k \in Range(n[waiting].up) : k.type # "answer"
      BY <2>2, <3>1 DEF Unspoken
    <3>4. /\ p \in Sockets \X Sockets
          /\ owner' \in Servers /\ Holder[p[1]] = owner' /\ Holder[p[2]] \in Phones
          /\ mode'[p[1]] = "paired" /\ mode'[p[2]] = "paired"
          /\ Live(n[p[1]]) /\ Live(n[p[2]])
          /\ \A k \in Range(n[p[1]].down) : k.type = "data" => k.from = p[2]
          /\ \A k \in Range(n[p[1]].up) : k.type = "answer" => k.from = p[2]
      BY <1>3, <2>2, <2>8, <2>13, <3>2, <3>3
    <3> QED BY <2>1, <3>4 DEF PairOK, Live
  <2>15. PairsOK'
    <3>1. \A q, x \in pairs : q[1] = x[1] \/ q[2] = x[2] => q = x
      BY DEF IInv, RolesOK, PairsOK
    <3>2. \A q \in pairs' : PairOK(q)'
      BY <2>12, <2>14, <2>13
    <3>3. \A q, x \in pairs' : q[1] = x[1] \/ q[2] = x[2] => q = x
      BY <2>12, <2>13, <3>1
    <3> QED BY <3>2, <3>3 DEF PairsOK
  <2>16. \A y \in Relayed' \ Relayed : y \notin Sockets
    BY <2>1, <2>13, RelayConstants DEF Relayed
  <2>17. \A y \in claimed : net[y].near \in {"open", "closing"} => n[y].near \in {"open", "closing"}
    BY <2>7 DEF IInv, ClaimedOK, Linked
  <2>18. WiresOK' /\ ServicesOK' /\ ClaimedOK' /\ HeardOK'
    BY <2>1, <2>6, <2>7, <2>16, <2>17, FarStepKeeps
  <2> QED BY <2>9, <2>10, <2>11, <2>15, <2>18 DEF IInv, RolesOK
<1> QED BY <1>5, <1>6

\* onMessage() and onClose() of the relay.
LEMMA RelayReceivesKeeps ==
    ASSUME IInv, NEW s \in Sockets, RelayReceives(s) PROVE IInv'
<1> DEFINE m == Head(net[s].up)
<1>1. net[s].up # <<>> /\ UNCHANGED <<svc, claimed, heard>>
  BY DEF RelayReceives
<1>2. CASE m.type = "close" /\ HandleClose(s) /\ UNCHANGED owner
  BY <1>1, <1>2, HandleCloseKeeps
<1>3. CASE /\ m.type # "close" /\ mode[s] = "paired" /\ Forward(s, m)
           /\ UNCHANGED <<owner, waiting, pairs, mode>>
  BY <1>1, <1>3, ForwardKeeps
<1>4. CASE m.type = "register" /\ RegisterServer(s) /\ UNCHANGED pairs
  BY <1>1, <1>4, RegisterServerKeeps
<1>5. CASE m.type = "connect" /\ ConnectClient(s) /\ UNCHANGED owner
  BY <1>1, <1>5, ConnectClientKeeps
<1>6. CASE net' = Taken(net, s) /\ UNCHANGED <<owner, waiting, pairs, mode>>
  <2> DEFINE r == [net[s] EXCEPT !.up = Tail(@)]
  <2>1. Taken(net, s) = [net EXCEPT ![s] = r] /\ Safe(s, r) /\ Calm(net[s], r) /\ Linked(net[s], r)
    BY <1>1, TakenFacts
  <2> HIDE DEF r
  <2>2. HeardOK'
    BY <1>1 DEF IInv, HeardOK
  <2> QED BY <1>1, <1>6, <2>1, <2>2, SocketStepKeeps
<1> QED BY <1>2, <1>3, <1>4, <1>5, <1>6 DEF RelayReceives

-----------------------------------------------------------------------------
(* The inductive invariant holds, and what follows from it.                *)

\* The inductive invariant holds at the start.
LEMMA InitIInv == Init => IInv
<1> SUFFICES ASSUME Init PROVE IInv
  OBVIOUS
<1>1. \A s \in Sockets : Safe(s, Unused) /\ Greeted(Unused)
  BY UnusedIsSafe
<1>2. WiresOK
  BY <1>1 DEF Init, WiresOK, Safe
<1>3. TablesOK
  BY DEF Init, TablesOK
<1>4. RolesOK
  BY <1>1 DEF Init, RolesOK, GreetingsOK, WaitingOK, PairsOK, Greeted
<1>5. ServicesOK
  <2>1. Off \in Services /\ \A v \in Servers : SvcFits(v, Off, net, claimed, Relayed)
    BY OffFits
  <2> QED BY <2>1 DEF Init, ServicesOK
<1>6. ClaimedOK /\ HeardOK
  BY DEF Init, ClaimedOK, HeardOK
<1> QED BY <1>2, <1>3, <1>4, <1>5, <1>6 DEF IInv

\* Every step keeps it.
LEMMA NextIInv == IInv /\ [Next]_vars => IInv'
<1> SUFFICES ASSUME IInv, [Next]_vars PROVE IInv'
  OBVIOUS
<1>1. ASSUME NEW v \in Servers, NEW s \in Sockets, ServerReceives(v, s) PROVE IInv'
  BY <1>1, ServerReceivesKeeps
<1>2. ASSUME NEW s \in Sockets, HandlerReceives(s) PROVE IInv'
  BY <1>2, HandlerReceivesKeeps
<1>3. ASSUME NEW s \in Sockets, PhoneReceives(s) PROVE IInv'
  BY <1>3, PhoneReceivesKeeps
<1>4. ASSUME NEW s \in Sockets, RelayReceives(s) PROVE IInv'
  BY <1>4, RelayReceivesKeeps
<1>5. ASSUME NEW s \in Sockets, Open(s) PROVE IInv'
  BY <1>5, OpenKeeps
<1>6. ASSUME NEW v \in Servers, ReconnectTimer(v) PROVE IInv'
  BY <1>6, ReconnectTimerKeeps
<1>7. ASSUME NEW v \in Servers, Start(v) PROVE IInv'
  BY <1>7, StartKeeps
<1>8. ASSUME NEW v \in Servers, Stop(v) PROVE IInv'
  BY <1>8, StopKeeps
<1>9. ASSUME NEW v \in Servers, KeepaliveTimeout(v) PROVE IInv'
  BY <1>9, KeepaliveTimeoutKeeps
<1>10. ASSUME NEW p \in Phones, Visit(p) PROVE IInv'
  BY <1>10, VisitKeeps
<1>11. ASSUME NEW s \in Sockets, Leave(s) PROVE IInv'
  BY <1>11, LeaveKeeps
<1>12. ASSUME NEW s \in Sockets, PongTimeout(s) PROVE IInv'
  BY <1>12, PongTimeoutKeeps
<1>13. ASSUME NEW s \in Sockets, Break(s) PROVE IInv'
  BY <1>13, BreakStepKeeps
<1>14. CASE RestartRelay
  BY <1>14, RestartRelayKeeps
<1>15. CASE UNCHANGED vars
  <2>1. UNCHANGED <<net, mode, owner, waiting, pairs, svc, claimed, heard>>
    BY <1>15 DEF vars
  <2>2. WiresOK' /\ TablesOK' /\ ClaimedOK' /\ HeardOK'
    BY <2>1 DEF IInv, WiresOK, TablesOK, ClaimedOK, HeardOK
  <2>3. GreetingsOK' /\ WaitingOK'
    BY <2>1 DEF IInv, RolesOK, GreetingsOK, WaitingOK
  <2>4. PairsOK'
    BY <2>1 DEF IInv, RolesOK, PairsOK, PairOK
  <2>5. ServicesOK'
    BY <2>1 DEF IInv, ServicesOK, Relayed
  <2> QED BY <2>2, <2>3, <2>4, <2>5 DEF IInv, RolesOK
<1> QED BY <1>1, <1>2, <1>3, <1>4, <1>5, <1>6, <1>7, <1>8, <1>9, <1>10, <1>11, <1>12,
           <1>13, <1>14, <1>15 DEF Next, Progress, Receives

\* The relay, the services and the phones keep the inductive invariant, whatever is
\* closed, lost, replaced or restarted, in whatever order messages arrive.
THEOREM RelayInvariant == Spec => []IInv
<1> QED BY InitIInv, NextIInv, PTL DEF Spec

\* Every variable has its type in every reachable state.
THEOREM RelayTypes == Spec => []TypeOK
<1>1. IInv => TypeOK
  BY DEF IInv, TypeOK, WiresOK, Channel, TablesOK, ServicesOK, Services, ClaimedOK
<1> QED BY <1>1, RelayInvariant, PTL

\* The relay's maps agree: what waits is the owner's, a pair joins a socket of the
\* owner with a phone, and no socket is in two pairs, or waits and is in one.
THEOREM RolesExclusive == Spec => []RolesAreExclusive
<1>1. IInv => RolesAreExclusive
  <2> SUFFICES ASSUME IInv PROVE RolesAreExclusive
    OBVIOUS
  <2>1. /\ waiting # NoSocket => Holder[waiting] = owner /\ mode[waiting] = "server"
        /\ \A q \in pairs : PairOK(q)
        /\ \A q, x \in pairs : q[1] = x[1] \/ q[2] = x[2] => q = x
    BY DEF IInv, RolesOK, WaitingOK, PairsOK
  <2>2. ASSUME NEW s \in Sockets
        PROVE  Cardinality(PeersOf(s)) + (IF waiting = s THEN 1 ELSE 0) <= 1
    <3>1. \A x, y \in PeersOf(s) : x = y
      <4> SUFFICES ASSUME NEW x \in PeersOf(s), NEW y \in PeersOf(s) PROVE x = y
        OBVIOUS
      <4>1. PICK q \in pairs : (q[1] = s /\ q[2] = x) \/ (q[2] = s /\ q[1] = x)
        BY DEF PeersOf
      <4>2. PICK z \in pairs : (z[1] = s /\ z[2] = y) \/ (z[2] = s /\ z[1] = y)
        BY DEF PeersOf
      <4>3. /\ Holder[q[1]] \in Servers /\ Holder[q[2]] \in Phones
            /\ Holder[z[1]] \in Servers /\ Holder[z[2]] \in Phones
        BY <2>1 DEF PairOK
      <4>4. q[1] = z[1] \/ q[2] = z[2]
        BY <4>1, <4>2, <4>3, RelayConstants
      <4>5. q = z
        BY <2>1, <4>4
      <4> QED BY <4>1, <4>2, <4>3, <4>5, RelayConstants
    <3>2. CASE PeersOf(s) = {}
      <4>1. Cardinality(PeersOf(s)) = 0
        BY <3>2, FS_EmptySet
      <4> QED BY <4>1
    <3>3. CASE PeersOf(s) # {}
      <4>1. PICK x : x \in PeersOf(s)
        BY <3>3
      <4>2. PeersOf(s) = {x}
        BY <3>1, <4>1
      <4>3. Cardinality(PeersOf(s)) = 1
        BY <4>2, FS_Singleton
      <4>4. waiting # s
        BY <2>1, <4>1, PeerFacts, RelayConstants
      <4> QED BY <4>3, <4>4
    <3> QED BY <3>2, <3>3
  <2> QED BY <2>1, <2>2 DEF RolesAreExclusive, PairOK
<1> QED BY <1>1, RelayInvariant, PTL

\* A phone hears only answers to what it sent itself on the same socket: sockets that
\* are replaced, closed late or claimed late never join two phones.
THEOREM AnswersReachTheirPhone == Spec => []AnswersItsPhone
<1>1. IInv => AnswersItsPhone
  BY DEF IInv, HeardOK, AnswersItsPhone
<1> QED BY <1>1, RelayInvariant, PTL

\* A socket that was handed off is no longer one of the service's: the service does
\* not wait on it, and its stop(), its keepalive and its handlers leave it alone.
THEOREM SocketsHandedOff == Spec => []HandedOff
<1>1. IInv => HandedOff
  BY RelayConstants DEF IInv, ServicesOK, SvcFits, ClaimedOK, HandedOff
<1> QED BY <1>1, RelayInvariant, PTL

-----------------------------------------------------------------------------
(* What is still said on the sockets, for the service that waits.          *)

Tells(q, type) == \E m \in Range(q) : m.type = type

Held(n) == n.near \in {"open", "closing"}

\* An end that has closed is known to have, or is about to be, at the other.
ShutOK(n) ==
    /\ \A m \in Range(n.up) : m.type \in {"register", "connect", "data", "answer", "close"}
    /\ Held(n) /\ n.far # "open" => Tells(n.down, "close")
    /\ Live(n) => n.near \in {"open", "closing", "closed"}
    /\ Live(n) /\ n.near # "open" => Tells(n.up, "close")

\* The near end will hear that it waits no longer.
Informed(n) == Tells(n.down, "close") \/ Tells(n.down, "data")

\* A phone that is paired will speak, or leave.
Speaks(n) == Tells(n.down, "connected") \/ Tells(n.up, "data") \/ Tells(n.up, "close")

\* A service of sv takes s for its waiting socket, or is about to, over sockets n of
\* which cl are handed off.
Knows(s, n, cl, sv) ==
    /\ Holder[s] \in Servers
    /\ \/ s \notin cl /\ Tells(n[s].down, "registered")
       \/ \E v \in Servers : sv[v].waiting = s

Known(s) == Knows(s, net, claimed, svc)

\* The relay waits on s too, or the service will hear of s.
Kept(s) ==
    /\ Held(net[s])
    /\ \/ waiting = s
       \/ Informed(net[s])
       \/ \E q \in pairs : q[1] = s /\ Speaks(net[q[2]])

\* A registration is under way on n.
Trying(n) ==
    /\ n.near \in Ears
    /\ \/ n.near = "connecting"
       \/ Tells(n.up, "register") \/ Tells(n.up, "close")
       \/ Tells(n.down, "registered") \/ Tells(n.down, "rejected") \/ Tells(n.down, "close")

\* An enabled service c waits, has set its timer, or tries to register.
Hopeful(c, n) ==
    /\ c.enabled /\ ~c.timer =>
          c.waiting # NoSocket \/ (c.connecting # NoSocket /\ Trying(n[c.connecting]))
    /\ c.connecting # NoSocket => c.connecting # c.waiting

ShutsOK == \A s \in Sockets : ShutOK(net[s])

KnownOK == \A s \in Sockets : Known(s) => Kept(s)

HopeOK == \A v \in Servers : Hopeful(svc[v], net)

QInv == ShutsOK /\ KnownOK /\ HopeOK

\* What n says, r says too, or the end of the socket; it says of no new registration.
More(n, r) ==
    /\ Held(n) => Held(r)
    /\ Informed(n) => Informed(r)
    /\ Trying(n) => Trying(r)
    /\ Live(n) => Live(r) /\ (Speaks(n) => Speaks(r))
    /\ Tells(r.down, "registered") => Tells(n.down, "registered")

\* Steps of a socket that say more follow each other.
LEMMA MoreComposes ==
    ASSUME NEW n, NEW r, NEW t
    PROVE  More(n, n) /\ (More(n, r) /\ More(r, t) => More(n, t))
BY DEF More

\* SendUp() only adds its message.
LEMMA SendUpSays ==
    ASSUME NEW n \in Channel, NEW m \in Message
    PROVE  /\ SendUp(n, m) \in Channel
           /\ SendUp(n, m).near = n.near /\ SendUp(n, m).far = n.far
           /\ SendUp(n, m).down = n.down
           /\ Range(n.up) \subseteq Range(SendUp(n, m).up)
           /\ Range(SendUp(n, m).up) \subseteq Range(n.up) \cup {m}
           /\ n.near = "open" /\ Live(n) => m \in Range(SendUp(n, m).up)
<1>1. CASE ~(n.near = "open" /\ n.far \in {"open", "closing"})
  BY <1>1 DEF SendUp, Live
<1>2. CASE n.near = "open" /\ n.far \in {"open", "closing"}
  <2> DEFINE a == Append(n.up, m)
             r == [n EXCEPT !.up = a]
  <2>1. n.up \in Seq(Message)
    BY DEF Channel
  <2>2. a \in Seq(Message) /\ Range(a) = Range(n.up) \cup {m}
    BY <2>1, AppendFacts
  <2>3. SendUp(n, m) = r
    BY <1>2 DEF SendUp
  <2> HIDE DEF a
  <2>4. r \in Channel /\ r.near = n.near /\ r.far = n.far /\ r.down = n.down /\ r.up = a
    BY <2>2 DEF Channel
  <2> HIDE DEF r
  <2> QED BY <2>2, <2>3, <2>4
<1> QED BY <1>1, <1>2

\* SendDown() only adds its message.
LEMMA SendDownSays ==
    ASSUME NEW n \in Channel, NEW m \in Message
    PROVE  /\ SendDown(n, m) \in Channel
           /\ SendDown(n, m).near = n.near /\ SendDown(n, m).far = n.far
           /\ SendDown(n, m).up = n.up
           /\ Range(n.down) \subseteq Range(SendDown(n, m).down)
           /\ Range(SendDown(n, m).down) \subseteq Range(n.down) \cup {m}
           /\ n.far = "open" /\ Held(n) => m \in Range(SendDown(n, m).down)
<1>1. CASE ~(n.far = "open" /\ n.near \in {"open", "closing"})
  BY <1>1 DEF SendDown, Held
<1>2. CASE n.far = "open" /\ n.near \in {"open", "closing"}
  <2> DEFINE a == Append(n.down, m)
             r == [n EXCEPT !.down = a]
  <2>1. n.down \in Seq(Message)
    BY DEF Channel
  <2>2. a \in Seq(Message) /\ Range(a) = Range(n.down) \cup {m}
    BY <2>1, AppendFacts
  <2>3. SendDown(n, m) = r
    BY <1>2 DEF SendDown
  <2> HIDE DEF a
  <2>4. r \in Channel /\ r.near = n.near /\ r.far = n.far /\ r.up = n.up /\ r.down = a
    BY <2>2 DEF Channel
  <2> HIDE DEF r
  <2> QED BY <2>2, <2>3, <2>4
<1> QED BY <1>1, <1>2

\* What is said is the first message, or is said after it.
LEMMA TailSays ==
    ASSUME NEW q \in Seq(Message), q # <<>>
    PROVE  /\ \A type : Tells(Tail(q), type) => Tells(q, type)
           /\ \A type : Tells(q, type) => Head(q).type = type \/ Tells(Tail(q), type)
<1> DEFINE t == Tail(q)
<1>1. /\ Head(q) = q[1] /\ t \in Seq(Message) /\ Len(t) = Len(q) - 1 /\ Len(q) \in Nat
      /\ \A i \in 1..(Len(q) - 1) : t[i] = q[i + 1]
      /\ Range(t) \subseteq Range(q) /\ DOMAIN q = 1..Len(q) /\ DOMAIN t = 1..Len(t)
  BY TailFacts
<1> HIDE DEF t
<1>2. ASSUME NEW m \in Range(q) PROVE m = Head(q) \/ m \in Range(t)
  <2>1. PICK i \in 1..Len(q) : q[i] = m
    BY <1>1 DEF Range
  <2>2. CASE i = 1
    BY <1>1, <2>1, <2>2
  <2>3. CASE i # 1
    <3>1. i - 1 \in 1..Len(t) /\ i - 1 \in 1..(Len(q) - 1) /\ (i - 1) + 1 = i
      BY <1>1, <2>1, <2>3
    <3>2. t[i - 1] = m
      BY <1>1, <2>1, <3>1
    <3> QED BY <1>1, <3>1, <3>2 DEF Range
  <2> QED BY <2>2, <2>3
<1> QED BY <1>1, <1>2 DEF Tells, t

\* SendUp() of data, answers or a close says more.
LEMMA SendUpMore ==
    ASSUME NEW n \in Channel, NEW m \in Message, m.type \in {"data", "answer", "close"}
    PROVE  /\ More(n, SendUp(n, m)) /\ (ShutOK(n) => ShutOK(SendUp(n, m)))
           /\ n.near = "open" /\ Live(n) => Tells(SendUp(n, m).up, m.type)
<1> DEFINE r == SendUp(n, m)
<1>1. /\ r.near = n.near /\ r.far = n.far /\ r.down = n.down
      /\ Range(n.up) \subseteq Range(r.up) /\ Range(r.up) \subseteq Range(n.up) \cup {m}
      /\ n.near = "open" /\ Live(n) => m \in Range(r.up)
  BY SendUpSays
<1> HIDE DEF r
<1>2. \A type : Tells(n.up, type) => Tells(r.up, type)
  BY <1>1 DEF Tells
<1>3. More(n, r)
  BY <1>1, <1>2 DEF More, Held, Informed, Trying, Live, Speaks
<1>4. ASSUME ShutOK(n) PROVE ShutOK(r)
  BY <1>1, <1>2, <1>4 DEF ShutOK, Held, Live
<1> QED BY <1>1, <1>3, <1>4 DEF r, Tells

\* SendDown() of anything but a registration says more.
LEMMA SendDownMore ==
    ASSUME NEW n \in Channel, NEW m \in Message
    PROVE  /\ m.type # "registered" => More(n, SendDown(n, m))
           /\ ShutOK(n) => ShutOK(SendDown(n, m))
           /\ \A type : Tells(n.down, type) => Tells(SendDown(n, m).down, type)
           /\ n.far = "open" /\ Held(n) => Tells(SendDown(n, m).down, m.type)
<1> DEFINE r == SendDown(n, m)
<1>1. /\ r.near = n.near /\ r.far = n.far /\ r.up = n.up
      /\ Range(n.down) \subseteq Range(r.down) /\ Range(r.down) \subseteq Range(n.down) \cup {m}
      /\ n.far = "open" /\ Held(n) => m \in Range(r.down)
  BY SendDownSays
<1> HIDE DEF r
<1>2. \A type : Tells(n.down, type) => Tells(r.down, type)
  BY <1>1 DEF Tells
<1>3. ASSUME m.type # "registered" PROVE More(n, r)
  <2>1. Tells(r.down, "registered") => Tells(n.down, "registered")
    BY <1>1, <1>3 DEF Tells
  <2> QED BY <1>1, <1>2, <2>1 DEF More, Held, Informed, Trying, Live, Speaks
<1>4. ASSUME ShutOK(n) PROVE ShutOK(r)
  BY <1>1, <1>2, <1>4 DEF ShutOK, Held, Live
<1> QED BY <1>1, <1>2, <1>3, <1>4 DEF r, Tells

\* The only message of a channel.
LEMMA OnlyClose ==
    /\ Msg("close") \in Message /\ Msg("close").type = "close"
    /\ \A type : Tells(<<Msg("close")>>, type) <=> type = "close"
    /\ \A m \in Range(<<Msg("close")>>) : m.type = "close"
    /\ \A type : ~Tells(<<>>, type)
<1>1. Msg("close") \in Message /\ Msg("close").type = "close"
  BY MsgFacts
<1> HIDE DEF Msg
<1>2. Range(<<Msg("close")>>) = {Msg("close")} /\ Range(<<>>) = {}
  BY <1>1, ShortFacts
<1> QED BY <1>1, <1>2 DEF Tells

\* CloseNear() says more, and tells a relay that listens.
LEMMA CloseNearSays ==
    ASSUME NEW s \in Sockets, NEW n, Safe(s, n), ShutOK(n)
    PROVE  /\ More(n, CloseNear(n)) /\ ShutOK(CloseNear(n))
           /\ Live(n) => Tells(CloseNear(n).up, "close")
<1>1. n \in Channel /\ Wire(s, n)
  BY DEF Safe
<1>2. CASE n.near = "open"
  <2> DEFINE u == SendUp(n, Msg("close"))
             r == [u EXCEPT !.near = "closing"]
  <2>1. CloseNear(n) = r
    BY <1>2 DEF CloseNear
  <2>2. u \in Channel /\ u.near = "open" /\ u.far = n.far /\ u.down = n.down
    BY <1>1, <1>2, OnlyClose, SendUpSays
  <2>3. More(n, u) /\ ShutOK(u) /\ (Live(n) => Tells(u.up, "close"))
    BY <1>1, <1>2, OnlyClose, SendUpMore
  <2> HIDE DEF u
  <2>4. r.near = "closing" /\ r.far = u.far /\ r.up = u.up /\ r.down = u.down
    BY <2>2 DEF Channel
  <2> HIDE DEF r
  <2>5. More(u, r)
    BY <2>2, <2>4 DEF More, Held, Informed, Trying, Ears, Live, Speaks
  <2>6. ShutOK(r)
    BY <2>2, <2>3, <2>4 DEF ShutOK, Held, Live
  <2>7. Live(n) => Tells(r.up, "close")
    BY <2>3, <2>4
  <2> QED BY <2>1, <2>3, <2>5, <2>6, <2>7, MoreComposes
<1>3. CASE n.near = "connecting"
  <2> DEFINE d == <<Msg("close")>>
             r == [n EXCEPT !.near = "closing", !.down = d]
  <2>1. CloseNear(n) = r
    BY <1>3 DEF CloseNear
  <2>2. \A type : Tells(d, type) <=> type = "close"
    BY OnlyClose
  <2> HIDE DEF d
  <2>3. r.near = "closing" /\ r.far = n.far /\ r.up = n.up /\ r.down = d
    BY <1>1 DEF Channel
  <2> HIDE DEF r
  <2>4. n.far \in {"none", "closed"}
    BY <1>1, <1>3 DEF Wire
  <2>5. More(n, r) /\ ShutOK(r) /\ ~Live(n)
    BY <2>2, <2>3, <2>4 DEF More, Held, Informed, Trying, Ears, Live, Speaks, ShutOK
  <2> QED BY <2>1, <2>5
<1>4. CASE n.near \notin {"open", "connecting"}
  <2>1. CloseNear(n) = n
    BY <1>4 DEF CloseNear
  <2> QED BY <1>4, <2>1, MoreComposes DEF ShutOK
<1> QED BY <1>2, <1>3, <1>4

\* CloseFar() says more, and tells a near end that listens.
LEMMA CloseFarSays ==
    ASSUME NEW s \in Sockets, NEW n, Safe(s, n), ShutOK(n)
    PROVE  /\ More(n, CloseFar(n)) /\ ShutOK(CloseFar(n))
           /\ Held(n) => Tells(CloseFar(n).down, "close")
           /\ CloseFar(n).near = n.near /\ CloseFar(n) \in Channel
<1>1. n \in Channel
  BY DEF Safe
<1>2. CASE n.far = "open"
  <2> DEFINE u == SendDown(n, Msg("close"))
             r == [u EXCEPT !.far = "closing"]
  <2>1. CloseFar(n) = r
    BY <1>2 DEF CloseFar
  <2>2. u \in Channel /\ u.near = n.near /\ u.far = "open" /\ u.up = n.up
    BY <1>1, <1>2, OnlyClose, SendDownSays
  <2>3. More(n, u) /\ ShutOK(u) /\ (Held(n) => Tells(u.down, "close"))
    BY <1>1, <1>2, OnlyClose, SendDownMore
  <2> HIDE DEF u
  <2>4. r.far = "closing" /\ r.near = u.near /\ r.up = u.up /\ r.down = u.down /\ r \in Channel
    BY <2>2 DEF Channel
  <2> HIDE DEF r
  <2>5. More(u, r)
    BY <2>2, <2>4 DEF More, Held, Informed, Trying, Live, Speaks
  <2>6. ShutOK(r)
    BY <2>2, <2>3, <2>4 DEF ShutOK, Held, Live
  <2> QED BY <2>1, <2>2, <2>3, <2>4, <2>5, <2>6, MoreComposes
<1>3. CASE n.far # "open"
  <2>1. CloseFar(n) = n
    BY <1>3 DEF CloseFar
  <2> QED BY <1>1, <1>3, <2>1, MoreComposes DEF ShutOK
<1> QED BY <1>2, <1>3

\* A socket that has not been used says nothing.
LEMMA UnusedSays ==
    ShutOK(Unused) /\ ~Held(Unused) /\ ~Trying(Unused) /\ Range(Unused.up) = {}
BY ShortFacts DEF Unused, ShutOK, Held, Live, Trying, Ears

\* The near end that sees the close says so, and hears nothing more.
LEMMA NearClosedSays ==
    ASSUME NEW s \in Sockets, NEW n, Safe(s, n), ShutOK(n), n.down # <<>>
    PROVE  /\ ShutOK(NearClosed(n)) /\ \A type : ~Tells(NearClosed(n).down, type)
           /\ Live(n) => Tells(NearClosed(n).up, "close")
<1>1. n \in Channel /\ Wire(s, n)
  BY DEF Safe
<1>2. CASE n.far \in {"none", "closed"}
  BY <1>2, UnusedSays, OnlyClose DEF NearClosed, Live, Unused
<1>3. CASE n.far \in {"open", "closing"}
  <2> DEFINE u == CloseNear(n)
             r == [u EXCEPT !.near = "closed", !.down = <<>>]
  <2>1. NearClosed(n) = r
    BY <1>3 DEF NearClosed
  <2>2. u \in Channel /\ u.far = n.far /\ ShutOK(u) /\ Tells(u.up, "close")
    BY <1>3, CloseNearKeeps, CloseNearSays DEF Safe, Live
  <2> HIDE DEF u
  <2>3. r.near = "closed" /\ r.far = u.far /\ r.up = u.up /\ r.down = <<>>
    BY <2>2 DEF Channel
  <2> HIDE DEF r
  <2>4. ShutOK(r) /\ Tells(r.up, "close") /\ \A type : ~Tells(r.down, type)
    BY <2>2, <2>3, OnlyClose DEF ShutOK, Held
  <2> QED BY <2>1, <2>4
<1> QED BY <1>1, <1>2, <1>3 DEF Channel

\* The relay that sees the close says so to a near end that listens.
LEMMA FarClosedSays ==
    ASSUME NEW s \in Sockets, NEW n, Safe(s, n), ShutOK(n), n.up # <<>>
    PROVE  /\ ShutOK(FarClosed(n))
           /\ Held(n) => Held(FarClosed(n)) /\ Informed(FarClosed(n))
           /\ Trying(n) => Trying(FarClosed(n))
           /\ Tells(FarClosed(n).down, "registered") => Tells(n.down, "registered")
<1>1. n \in Channel /\ Wire(s, n) /\ Live(n) /\ n.near # "connecting"
  BY DEF Safe, Wire, Live
<1>2. CASE n.near = "closed"
  BY <1>2, UnusedSays, OnlyClose DEF FarClosed, Held, Trying, Ears, Unused
<1>3. CASE n.near # "closed"
  <2> DEFINE u == CloseFar(n)
             r == [u EXCEPT !.far = "closed", !.up = <<>>]
  <2>1. FarClosed(n) = r
    BY <1>3 DEF FarClosed
  <2>2. /\ u \in Channel /\ u.near = n.near /\ (Held(n) => Tells(u.down, "close"))
        /\ More(n, u)
    BY CloseFarSays
  <2> HIDE DEF u
  <2>3. r.far = "closed" /\ r.near = n.near /\ r.up = <<>> /\ r.down = u.down
    BY <2>2 DEF Channel
  <2> HIDE DEF r
  <2>4. Trying(n) => Held(n)
    BY <1>1 DEF Trying, Ears, Held
  <2>5. /\ ShutOK(r) /\ (Held(n) => Held(r) /\ Informed(r)) /\ (Trying(n) => Trying(r))
    BY <2>2, <2>3, <2>4, ShortFacts DEF ShutOK, Held, Live, Informed, Trying
  <2>6. Tells(r.down, "registered") => Tells(n.down, "registered")
    BY <2>2, <2>3 DEF More
  <2> QED BY <2>1, <2>5, <2>6
<1> QED BY <1>2, <1>3

\* The near end takes a message that is not the close.
LEMMA RestSays ==
    ASSUME NEW n \in Channel, n.down # <<>>
    PROVE  /\ \A type : Tells([n EXCEPT !.down = Tail(@)].down, type) => Tells(n.down, type)
           /\ \A type : Tells(n.down, type) /\ Head(n.down).type # type =>
                            Tells([n EXCEPT !.down = Tail(@)].down, type)
           /\ [n EXCEPT !.down = Tail(@)].near = n.near
           /\ [n EXCEPT !.down = Tail(@)].far = n.far
           /\ [n EXCEPT !.down = Tail(@)].up = n.up
           /\ [n EXCEPT !.down = Tail(@)] \in Channel
           /\ ShutOK(n) /\ Head(n.down).type # "close" => ShutOK([n EXCEPT !.down = Tail(@)])
<1> DEFINE d == Tail(n.down)
           r == [n EXCEPT !.down = d]
<1>1. n.down \in Seq(Message)
  BY DEF Channel
<1>2. /\ \A type : Tells(d, type) => Tells(n.down, type)
      /\ \A type : Tells(n.down, type) => Head(n.down).type = type \/ Tells(d, type)
      /\ d \in Seq(Message)
  BY <1>1, TailSays
<1> HIDE DEF d
<1>3. r.near = n.near /\ r.far = n.far /\ r.up = n.up /\ r.down = d /\ r \in Channel
  BY <1>2 DEF Channel
<1> HIDE DEF r
<1>4. ShutOK(n) /\ Head(n.down).type # "close" => ShutOK(r)
  BY <1>2, <1>3 DEF ShutOK, Held, Live
<1> QED BY <1>2, <1>3, <1>4 DEF r, d

\* The relay takes a message that is not the close.
LEMMA TakenSays ==
    ASSUME NEW n \in Channel, n.up # <<>>
    PROVE  /\ \A type : Tells([n EXCEPT !.up = Tail(@)].up, type) => Tells(n.up, type)
           /\ \A type : Tells(n.up, type) /\ Head(n.up).type # type =>
                            Tells([n EXCEPT !.up = Tail(@)].up, type)
           /\ [n EXCEPT !.up = Tail(@)].near = n.near
           /\ [n EXCEPT !.up = Tail(@)].far = n.far
           /\ [n EXCEPT !.up = Tail(@)].down = n.down
           /\ [n EXCEPT !.up = Tail(@)] \in Channel
           /\ ShutOK(n) /\ Head(n.up).type # "close" => ShutOK([n EXCEPT !.up = Tail(@)])
<1> DEFINE u == Tail(n.up)
           r == [n EXCEPT !.up = u]
<1>1. n.up \in Seq(Message)
  BY DEF Channel
<1>2. /\ \A type : Tells(u, type) => Tells(n.up, type)
      /\ \A type : Tells(n.up, type) => Head(n.up).type = type \/ Tells(u, type)
      /\ u \in Seq(Message) /\ Range(u) \subseteq Range(n.up)
  BY <1>1, TailSays, TailFacts
<1> HIDE DEF u
<1>3. r.near = n.near /\ r.far = n.far /\ r.down = n.down /\ r.up = u /\ r \in Channel
  BY <1>2 DEF Channel
<1> HIDE DEF r
<1>4. ShutOK(n) /\ Head(n.up).type # "close" => ShutOK(r)
  BY <1>2, <1>3 DEF ShutOK, Held, Live
<1> QED BY <1>2, <1>3, <1>4 DEF r, u

\* A connection of a server breaks: each end that is up sees a close.
LEMMA BreakSays ==
    ASSUME NEW s \in Sockets, NEW n, Safe(s, n), n.near \in {"connecting", "open"}
    PROVE  LET r == [n EXCEPT !.down = <<Msg("close")>>,
                              !.up = IF n.far \in {"open", "closing"}
                                     THEN <<Msg("close")>> ELSE <<>>]
           IN  More(n, r) /\ ShutOK(r)
<1> DEFINE d == <<Msg("close")>>
           u == IF n.far \in {"open", "closing"} THEN d ELSE <<>>
           r == [n EXCEPT !.down = d, !.up = u]
<1>1. n \in Channel /\ Wire(s, n)
  BY DEF Safe
<1>2. /\ \A type : Tells(d, type) <=> type = "close"
      /\ \A m \in Range(d) : m.type = "close"
  BY OnlyClose
<1> HIDE DEF d
<1>3. /\ \A m \in Range(u) : m.type = "close"
      /\ Live(n) => Tells(u, "close")
  BY <1>2, ShortFacts DEF Live
<1> HIDE DEF u
<1>4. r.near = n.near /\ r.far = n.far /\ r.down = d /\ r.up = u
  BY <1>1 DEF Channel
<1> HIDE DEF r
<1>5. Live(n) => n.near # "connecting"
  BY <1>1 DEF Wire, Live
<1>6. More(n, r)
  BY <1>2, <1>3, <1>4 DEF More, Held, Informed, Trying, Ears, Live, Speaks
<1>7. ShutOK(r)
  BY <1>2, <1>3, <1>4, <1>5 DEF ShutOK, Held, Live
<1> QED BY <1>6, <1>7 DEF d, u, r

\* The relay starts again: every end that is up sees a close.
LEMMA RestartSays ==
    ASSUME NEW s \in Sockets, NEW n, Safe(s, n)
    PROVE  LET r == IF n.near \in {"none", "closed"} THEN Unused
                    ELSE [n EXCEPT !.far = "closed", !.up = <<>>, !.down = <<Msg("close")>>]
           IN  /\ ShutOK(r) /\ (Held(n) => Held(r) /\ Informed(r)) /\ (Trying(n) => Trying(r))
               /\ ~Tells(r.down, "registered")
<1>1. n \in Channel
  BY DEF Safe
<1>2. CASE n.near \in {"none", "closed"}
  BY <1>2, UnusedSays, OnlyClose DEF Held, Trying, Ears, Unused
<1>3. CASE n.near \notin {"none", "closed"}
  <2> DEFINE d == <<Msg("close")>>
             r == [n EXCEPT !.far = "closed", !.up = <<>>, !.down = d]
  <2>1. \A type : Tells(d, type) <=> type = "close"
    BY OnlyClose
  <2> HIDE DEF d
  <2>2. r.near = n.near /\ r.far = "closed" /\ r.down = d /\ r.up = <<>>
    BY <1>1 DEF Channel
  <2> HIDE DEF r
  <2>3. /\ ShutOK(r) /\ (Held(n) => Held(r) /\ Informed(r)) /\ (Trying(n) => Trying(r))
        /\ ~Tells(r.down, "registered")
    BY <2>1, <2>2, ShortFacts DEF ShutOK, Held, Live, Informed, Trying
  <2> QED BY <1>3, <2>3 DEF r, d
<1> QED BY <1>2, <1>3

\* A socket that starts to connect, and one that has just opened.
LEMMA FreshSays ==
    /\ ShutOK([Unused EXCEPT !.near = "connecting"])
    /\ Trying([Unused EXCEPT !.near = "connecting"])
    /\ ~Tells([Unused EXCEPT !.near = "connecting"].down, "registered")
    /\ \A type \in {"register", "connect"} :
          /\ ShutOK(Greeting(type)) /\ ~Tells(Greeting(type).down, "registered")
          /\ type = "register" => Trying(Greeting(type))
<1> DEFINE r == [Unused EXCEPT !.near = "connecting"]
<1>1. r.near = "connecting" /\ r.far = "none" /\ r.up = <<>> /\ r.down = <<>>
  BY DEF Unused
<1> HIDE DEF r
<1>2. ShutOK(r) /\ Trying(r) /\ ~Tells(r.down, "registered")
  BY <1>1, ShortFacts DEF ShutOK, Held, Live, Trying, Ears, Tells
<1>3. ASSUME NEW type \in {"register", "connect"}
      PROVE  /\ ShutOK(Greeting(type)) /\ ~Tells(Greeting(type).down, "registered")
             /\ type = "register" => Trying(Greeting(type))
  <2> DEFINE m == Msg(type)
             u == <<m>>
             g == Greeting(type)
  <2>1. m \in Message /\ m.type = type
    BY MsgFacts
  <2> HIDE DEF m
  <2>2. Range(u) = {m}
    BY <2>1, ShortFacts
  <2> HIDE DEF u
  <2>3. g.near = "open" /\ g.far = "open" /\ g.up = u /\ g.down = <<>>
    BY DEF Greeting, u, m
  <2> HIDE DEF g
  <2>4. ShutOK(g) /\ ~Tells(g.down, "registered") /\ (type = "register" => Trying(g))
    BY <2>1, <2>2, <2>3, ShortFacts DEF ShutOK, Held, Live, Trying, Ears, Tells
  <2> QED BY <2>4 DEF g
<1> QED BY <1>2, <1>3 DEF r

-----------------------------------------------------------------------------
(* What steps keep of what the service and the relay know.                 *)

\* What is known is of use, and is a server's.
LEMMA KnownFacts ==
    ASSUME IInv, QInv
    PROVE  /\ \A s \in Sockets : Known(s) => Held(net[s]) /\ net[s] # Unused
           /\ \A v \in Servers : svc[v].waiting # NoSocket =>
                 svc[v].waiting \in Sockets /\ Known(svc[v].waiting)
                 /\ Holder[svc[v].waiting] = v /\ svc[v].waiting \notin claimed
           /\ \A v \in Servers : svc[v].connecting # NoSocket =>
                 svc[v].connecting \in Sockets /\ Holder[svc[v].connecting] = v
                 /\ svc[v].connecting # svc[v].waiting /\ svc[v].connecting \notin claimed
           /\ \A s \in Sockets : Safe(s, net[s]) /\ ShutOK(net[s])
           /\ svc \in [Servers -> Services]
<1>1. \A s \in Sockets : Known(s) => Held(net[s]) /\ net[s] # Unused
  BY DEF QInv, KnownOK, Kept, Held, Unused
<1>2. ASSUME NEW v \in Servers
      PROVE  svc[v] \in Services /\ SvcFits(v, svc[v], net, claimed, Relayed) /\ Hopeful(svc[v], net)
  BY DEF IInv, ServicesOK, QInv, HopeOK
<1>3. ASSUME NEW v \in Servers, svc[v].waiting # NoSocket
      PROVE  svc[v].waiting \in Sockets /\ Known(svc[v].waiting)
             /\ Holder[svc[v].waiting] = v /\ svc[v].waiting \notin claimed
  BY <1>2, <1>3 DEF Services, SvcFits, Known, Knows
<1>4. ASSUME NEW v \in Servers, svc[v].connecting # NoSocket
      PROVE  svc[v].connecting \in Sockets /\ Holder[svc[v].connecting] = v
             /\ svc[v].connecting # svc[v].waiting /\ svc[v].connecting \notin claimed
  BY <1>2, <1>4 DEF Services, SvcFits, Hopeful
<1> QED BY <1>1, <1>3, <1>4 DEF IInv, WiresOK, Safe, ServicesOK, QInv, ShutsOK

\* What pairs join, over all sockets.
LEMMA PairFacts ==
    ASSUME IInv, NEW q \in pairs
    PROVE  /\ q \in Sockets \X Sockets /\ q[1] \in Sockets /\ q[2] \in Sockets
           /\ Holder[q[1]] \in Servers /\ Holder[q[2]] \in Phones /\ Holder[q[2]] \notin Servers
           /\ Live(net[q[1]]) /\ Live(net[q[2]])
           /\ mode[q[1]] = "paired" /\ mode[q[2]] = "paired"
           /\ q[1] # waiting /\ q[2] # waiting
BY RelayConstants DEF IInv, RolesOK, PairsOK, PairOK, WaitingOK

\* As long as the relay's tables stay, what is known is kept.
LEMMA KnownStep ==
    ASSUME QInv, UNCHANGED <<waiting, pairs>>,
           \A y \in Sockets : Known(y)' =>
               Known(y) /\ Held(net'[y]) /\ (Informed(net[y]) => Informed(net'[y])),
           \A q \in pairs : Speaks(net[q[2]]) => Speaks(net'[q[2]])
    PROVE  KnownOK'
<1> SUFFICES ASSUME NEW y \in Sockets, Known(y)' PROVE Kept(y)'
  BY DEF KnownOK
<1>1. Kept(y)
  BY DEF QInv, KnownOK
<1>2. Held(net'[y]) /\ (Informed(net[y]) => Informed(net'[y]))
  OBVIOUS
<1> QED BY <1>1, <1>2 DEF Kept, Held, Informed, Speaks

\* A service stays hopeful while what it tries goes on.
LEMMA HopefulKept ==
    ASSUME NEW c, NEW n, NEW r, Hopeful(c, n),
           c.connecting # NoSocket /\ Trying(n[c.connecting]) => Trying(r[c.connecting])
    PROVE  Hopeful(c, r)
BY DEF Hopeful

\* Sockets say more, and services stop waiting.
LEMMA MoreStep ==
    ASSUME IInv, QInv, UNCHANGED <<waiting, pairs, claimed>>,
           \A y \in Sockets : ShutOK(net'[y]) /\ More(net[y], net'[y]),
           \A w \in Servers : svc'[w].waiting \in {NoSocket, svc[w].waiting},
           \A w \in Servers : svc'[w].connecting \in Sockets \cup {NoSocket},
           \A w \in Servers : Hopeful(svc'[w], net)
    PROVE  QInv'
<1>1. ShutsOK'
  BY DEF ShutsOK, ShutOK, Held, Live
<1>2. HopeOK'
  <2>1. \A w \in Servers : Hopeful(svc'[w], net')
    BY HopefulKept DEF More
  <2> QED BY <2>1 DEF HopeOK
<1>3. KnownOK'
  <2>1. ASSUME NEW y \in Sockets, Known(y)'
        PROVE  Known(y) /\ Held(net'[y]) /\ (Informed(net[y]) => Informed(net'[y]))
    <3>1. More(net[y], net'[y])
      OBVIOUS
    <3>2. Knows(y, net', claimed, svc')
      BY <2>1 DEF Known
    <3>3. y # NoSocket
      BY RelayConstants
    <3>4. Known(y)
      BY <3>1, <3>2, <3>3 DEF Known, Knows, More
    <3>5. Held(net[y])
      BY <3>4 DEF QInv, KnownOK, Kept
    <3> QED BY <3>1, <3>4, <3>5 DEF More
  <2>2. ASSUME NEW q \in pairs PROVE Speaks(net[q[2]]) => Speaks(net'[q[2]])
    BY PairFacts DEF More
  <2> QED BY <2>1, <2>2, KnownStep
<1> QED BY <1>1, <1>2, <1>3 DEF QInv

\* connect(): a socket that nobody knows is tried.
LEMMA ConnectStep ==
    ASSUME IInv, QInv, UNCHANGED <<waiting, pairs>>,
           NEW v \in Servers, NEW c \in Services, NEW n \in [Sockets -> Channel],
           Connect(v, c, n), NEW cl, claimed' = cl,
           c.connecting # NoSocket => c.connecting # c.waiting,
           \A y \in Sockets : ShutOK(n[y]),
           \A y \in Sockets : Knows(y, n, cl, [svc EXCEPT ![v] = c]) =>
               Known(y) /\ Held(n[y]) /\ (Informed(net[y]) => Informed(n[y])),
           \A q \in pairs : Speaks(net[q[2]]) => Speaks(n[q[2]]),
           \A w \in Servers \ {v} : Hopeful(svc[w], n)
    PROVE  QInv'
<1> DEFINE s == NewSocket(v)
           x == [Unused EXCEPT !.near = "connecting"]
           t == [c EXCEPT !.status = "connecting", !.connecting = s]
           k == [n EXCEPT ![s] = x]
           z == [svc EXCEPT ![v] = c]
<1>0. svc \in [Servers -> Services]
  BY DEF IInv, ServicesOK
<1>1. CASE ~c.enabled
  <2>1. svc' = z /\ net' = n
    BY <1>1 DEF Connect
  <2>2. ShutsOK'
    BY <2>1 DEF ShutsOK, ShutOK, Held, Live
  <2>3. HopeOK'
    <3>1. Hopeful(c, n)
      BY <1>1 DEF Hopeful
    <3>2. \A w \in Servers : Hopeful(svc'[w], net')
      BY <1>0, <2>1, <3>1
    <3> QED BY <3>2 DEF HopeOK
  <2>4. KnownOK'
    <3>1. \A y \in Sockets : Known(y)' => Knows(y, n, cl, z)
      BY <2>1 DEF Known
    <3> QED BY <2>1, <3>1, KnownStep
  <2> QED BY <2>2, <2>3, <2>4 DEF QInv
<1>2. CASE c.enabled
  <2>1. /\ s \in Sockets /\ Holder[s] = v /\ net[s] = Unused
        /\ svc' = [svc EXCEPT ![v] = t] /\ net' = k
    BY <1>2 DEF Connect, CanConnect, NewSocket, FreeSocket, Connecting
  <2> HIDE DEF s
  <2>2. ShutOK(x) /\ Trying(x) /\ ~Tells(x.down, "registered")
    BY FreshSays
  <2>3. ~Known(s) /\ s # NoSocket
    BY <2>1, KnownFacts, RelayConstants
  <2>4. t.waiting = c.waiting /\ t.connecting = s
    BY DEF Services
  <2>5. c.waiting # s
    BY <1>0, <2>1, <2>3 DEF Knows
  <2> HIDE DEF x, t
  <2>6. k[s] = x /\ \A y \in Sockets \ {s} : k[y] = n[y]
    BY <2>1
  <2> HIDE DEF k
  <2>7. svc'[v] = t /\ \A w \in Servers \ {v} : svc'[w] = svc[w]
    BY <1>0, <2>1
  <2>8. ShutsOK'
    <3>1. \A y \in Sockets : ShutOK(net'[y])
      BY <2>1, <2>2, <2>6
    <3> QED BY <3>1 DEF ShutsOK, ShutOK, Held, Live
  <2>9. HopeOK'
    <3>1. Hopeful(t, k)
      BY <2>2, <2>3, <2>4, <2>5, <2>6 DEF Hopeful
    <3>2. ASSUME NEW w \in Servers \ {v} PROVE Hopeful(svc[w], k)
      <4>1. svc[w].connecting # NoSocket => svc[w].connecting \in Sockets \ {s}
        BY <2>1, KnownFacts
      <4> QED BY <2>6, <4>1, HopefulKept
    <3>3. \A w \in Servers : Hopeful(svc'[w], net')
      BY <2>1, <2>7, <3>1, <3>2
    <3> QED BY <3>3 DEF HopeOK
  <2>10. KnownOK'
    <3>1. ASSUME NEW y \in Sockets, Known(y)'
          PROVE  Known(y) /\ Held(net'[y]) /\ (Informed(net[y]) => Informed(net'[y]))
      <4>1. Knows(y, net', cl, svc')
        BY <3>1 DEF Known
      <4>2. \A w \in Servers : svc'[w].waiting = z[w].waiting
        BY <1>0, <2>4, <2>7
      <4>3. CASE y = s
        <5>1. \E w \in Servers : z[w].waiting = s
          BY <2>1, <2>2, <2>6, <4>1, <4>2, <4>3 DEF Knows
        <5>2. Knows(s, n, cl, z)
          BY <2>1, <5>1 DEF Knows
        <5> QED BY <2>1, <2>3, <5>2
      <4>4. CASE y # s
        <5>1. net'[y] = n[y]
          BY <2>1, <2>6, <4>4
        <5>2. Knows(y, n, cl, z)
          BY <4>1, <4>2, <5>1 DEF Knows
        <5> QED BY <5>1, <5>2
      <4> QED BY <4>3, <4>4
    <3>2. ASSUME NEW q \in pairs PROVE Speaks(net[q[2]]) => Speaks(net'[q[2]])
      <4>1. q[2] \in Sockets \ {s}
        BY <2>1, PairFacts
      <4> QED BY <2>1, <2>6, <4>1
    <3> QED BY <3>1, <3>2, KnownStep
  <2> QED BY <2>8, <2>9, <2>10 DEF QInv
<1> QED BY <1>1, <1>2

\* A step at one socket.
LEMMA OneSocketStep ==
    ASSUME IInv, QInv, UNCHANGED <<waiting, pairs>>,
           NEW s \in Sockets, NEW r, net' = [net EXCEPT ![s] = r], ShutOK(r),
           claimed \subseteq claimed' \cup {s},
           \A w \in Servers : svc'[w].waiting \in {NoSocket, s, svc[w].waiting},
           Known(s)' => Known(s) /\ Held(r) /\ (Informed(net[s]) => Informed(r)),
           \A q \in pairs : q[2] = s => (Speaks(net[s]) => Speaks(r)),
           \A w \in Servers : Hopeful(svc'[w], [net EXCEPT ![s] = r])
    PROVE  QInv'
<1>1. net'[s] = r /\ \A y \in Sockets \ {s} : net'[y] = net[y]
  BY DEF IInv, WiresOK
<1>2. ShutsOK'
  <2>1. \A y \in Sockets : ShutOK(net'[y])
    BY <1>1 DEF QInv, ShutsOK
  <2> QED BY <2>1 DEF ShutsOK, ShutOK, Held, Live
<1>3. HopeOK'
  BY DEF HopeOK, Hopeful, Trying
<1>4. KnownOK'
  <2>1. ASSUME NEW y \in Sockets, Known(y)'
        PROVE  Known(y) /\ Held(net'[y]) /\ (Informed(net[y]) => Informed(net'[y]))
    <3>1. CASE y = s
      BY <1>1, <2>1, <3>1
    <3>2. CASE y # s
      <4>1. Knows(y, net', claimed', svc')
        BY <2>1 DEF Known
      <4>2. y # NoSocket
        BY RelayConstants
      <4>3. Known(y)
        BY <1>1, <3>2, <4>1, <4>2 DEF Known, Knows
      <4>4. net'[y] = net[y]
        BY <1>1, <3>2
      <4> QED BY <4>3, <4>4, KnownFacts
    <3> QED BY <3>1, <3>2
  <2>2. ASSUME NEW q \in pairs PROVE Speaks(net[q[2]]) => Speaks(net'[q[2]])
    <3>1. q[2] \in Sockets
      BY PairFacts
    <3> QED BY <1>1, <3>1
  <2> QED BY <2>1, <2>2, KnownStep
<1> QED BY <1>2, <1>3, <1>4 DEF QInv

\* The other services stay hopeful.
LEMMA HopeElsewhere ==
    ASSUME IInv, QInv, NEW w \in Servers, NEW s \in Sockets, NEW r,
           svc[w].connecting = s /\ Trying(net[s]) => Trying(r)
    PROVE  Hopeful(svc[w], [net EXCEPT ![s] = r])
<1> DEFINE n == [net EXCEPT ![s] = r]
<1>1. n[s] = r /\ \A y \in Sockets \ {s} : n[y] = net[y]
  BY DEF IInv, WiresOK
<1> HIDE DEF n
<1>2. Hopeful(svc[w], net) /\ (svc[w].connecting # NoSocket => svc[w].connecting \in Sockets)
  BY KnownFacts DEF QInv, HopeOK
<1>3. Hopeful(svc[w], n)
  BY <1>1, <1>2, HopefulKept
<1> QED BY <1>3 DEF n

\* stop() closes the sockets of the service, and tells the relay.
LEMMA CloseBothSays ==
    ASSUME IInv, QInv, NEW v \in Servers
    PROVE  \A s \in Sockets : ShutOK(CloseBoth(v)[s]) /\ More(net[s], CloseBoth(v)[s])
<1> SUFFICES ASSUME NEW s \in Sockets
             PROVE  ShutOK(CloseBoth(v)[s]) /\ More(net[s], CloseBoth(v)[s])
  OBVIOUS
<1>1. Safe(s, net[s]) /\ ShutOK(net[s])
  BY KnownFacts
<1>2. CloseBoth(v)[s] \in {CloseNear(net[s]), net[s]}
  BY DEF CloseBoth
<1> QED BY <1>1, <1>2, CloseNearSays, MoreComposes

\* stop().
LEMMA StopQuiet ==
    ASSUME IInv, QInv, NEW v \in Servers, Stop(v) PROVE QInv'
<1>1. /\ net' = CloseBoth(v) /\ svc' = [svc EXCEPT ![v] = Off]
      /\ UNCHANGED <<waiting, pairs, claimed>>
  BY DEF Stop
<1>2. \A y \in Sockets : ShutOK(net'[y]) /\ More(net[y], net'[y])
  BY <1>1, CloseBothSays
<1>3. \A w \in Servers : svc'[w] = IF w = v THEN Off ELSE svc[w]
  BY <1>1, KnownFacts
<1>4. Hopeful(Off, net) /\ Off.waiting = NoSocket /\ Off.connecting = NoSocket
  BY DEF Off, Hopeful
<1>5. \A w \in Servers : Hopeful(svc[w], net) /\ svc[w].connecting \in Sockets \cup {NoSocket}
  BY KnownFacts DEF QInv, HopeOK
<1> HIDE DEF Off
<1>6. \A w \in Servers : /\ svc'[w].waiting \in {NoSocket, svc[w].waiting}
                         /\ svc'[w].connecting \in Sockets \cup {NoSocket}
                         /\ Hopeful(svc'[w], net)
  BY <1>3, <1>4, <1>5
<1> QED BY <1>1, <1>2, <1>6, MoreStep

\* start().
LEMMA StartQuiet ==
    ASSUME IInv, QInv, NEW v \in Servers, Start(v) PROVE QInv'
<1> DEFINE n == CloseBoth(v)
           c == [Off EXCEPT !.enabled = TRUE]
           z == [svc EXCEPT ![v] = c]
<1>1. Connect(v, c, n) /\ claimed' = claimed /\ UNCHANGED <<waiting, pairs>>
  BY DEF Start
<1>2. n \in [Sockets -> Channel]
  BY CloseBothKeeps
<1>3. \A y \in Sockets : ShutOK(n[y]) /\ More(net[y], n[y])
  BY CloseBothSays
<1> HIDE DEF n
<1>4. c \in Services
  BY OffFits
<1>5. c.waiting = NoSocket /\ c.connecting = NoSocket
  BY DEF Off
<1> HIDE DEF c
<1>6. ASSUME NEW y \in Sockets, Knows(y, n, claimed, z)
      PROVE  Known(y) /\ Held(n[y]) /\ (Informed(net[y]) => Informed(n[y]))
  <2>1. \A w \in Servers : z[w].waiting = y => svc[w].waiting = y
    BY <1>5, KnownFacts, RelayConstants
  <2> HIDE DEF z
  <2>2. Known(y)
    BY <1>3, <1>6, <2>1 DEF Knows, Known, More
  <2> QED BY <1>3, <2>2, KnownFacts DEF More
<1>7. \A q \in pairs : Speaks(net[q[2]]) => Speaks(n[q[2]])
  BY <1>3, PairFacts DEF More
<1>8. ASSUME NEW w \in Servers \ {v} PROVE Hopeful(svc[w], n)
  <2>1. Hopeful(svc[w], net) /\ (svc[w].connecting # NoSocket => svc[w].connecting \in Sockets)
    BY KnownFacts DEF QInv, HopeOK
  <2> QED BY <1>3, <2>1, HopefulKept DEF More
<1> QED BY <1>1, <1>2, <1>3, <1>4, <1>5, <1>6, <1>7, <1>8, ConnectStep

\* The reconnect timer fires.
LEMMA ReconnectTimerQuiet ==
    ASSUME IInv, QInv, NEW v \in Servers, ReconnectTimer(v) PROVE QInv'
<1> DEFINE c == [svc[v] EXCEPT !.timer = FALSE]
           z == [svc EXCEPT ![v] = c]
<1>1. Connect(v, c, net) /\ claimed' = claimed /\ UNCHANGED <<waiting, pairs>>
  BY DEF ReconnectTimer
<1>2. net \in [Sockets -> Channel] /\ svc[v] \in Services
  BY KnownFacts DEF IInv, WiresOK
<1>3. c \in Services /\ c.waiting = svc[v].waiting /\ c.connecting = svc[v].connecting
  BY <1>2 DEF Services
<1> HIDE DEF c
<1>4. ASSUME NEW y \in Sockets, Knows(y, net, claimed, z)
      PROVE  Known(y) /\ Held(net[y]) /\ (Informed(net[y]) => Informed(net[y]))
  <2>1. \A w \in Servers : z[w].waiting = svc[w].waiting
    BY <1>3, KnownFacts
  <2> HIDE DEF z
  <2>2. Known(y)
    BY <1>4, <2>1 DEF Knows, Known
  <2> QED BY <2>2, KnownFacts
<1>5. \A w \in Servers \ {v} : Hopeful(svc[w], net)
  BY DEF QInv, HopeOK
<1>6. \A y \in Sockets : ShutOK(net[y])
  BY DEF QInv, ShutsOK
<1>7. c.connecting # NoSocket => c.connecting # c.waiting
  BY <1>3, KnownFacts
<1>8. \A q \in pairs : Speaks(net[q[2]]) => Speaks(net[q[2]])
  OBVIOUS
<1> QED BY <1>1, <1>2, <1>3, <1>4, <1>5, <1>6, <1>7, <1>8, ConnectStep

\* A service that schedules to reconnect is hopeful.
LEMMA ScheduleHopes ==
    ASSUME NEW c \in Services, NEW n, c.connecting # NoSocket => c.connecting # c.waiting
    PROVE  Hopeful(ScheduleReconnect(c), n)
BY DEF ScheduleReconnect, Hopeful, Services

\* The keepalive of the waiting socket fails.
LEMMA KeepaliveTimeoutQuiet ==
    ASSUME IInv, QInv, NEW v \in Servers, KeepaliveTimeout(v) PROVE QInv'
<1> DEFINE s == svc[v].waiting
           a == [svc[v] EXCEPT !.waiting = NoSocket]
           c == ScheduleReconnect(a)
           x == CloseNear(net[s])
<1>1. /\ s # NoSocket /\ net' = [net EXCEPT ![s] = x] /\ svc' = [svc EXCEPT ![v] = c]
      /\ UNCHANGED <<waiting, pairs, claimed>>
  BY DEF KeepaliveTimeout
<1>2. s \in Sockets /\ Safe(s, net[s]) /\ ShutOK(net[s]) /\ svc[v] \in Services
  BY <1>1, KnownFacts
<1>3. ShutOK(x) /\ More(net[s], x)
  BY <1>2, CloseNearSays
<1>4. a \in Services /\ a.waiting = NoSocket /\ a.connecting = svc[v].connecting
  BY <1>2 DEF Services
<1> HIDE DEF a
<1>5. c.waiting = NoSocket /\ c.connecting = svc[v].connecting /\ Hopeful(c, net)
  BY <1>4, ScheduleFacts, ScheduleHopes
<1> HIDE DEF c, x
<1>6. net'[s] = x /\ \A y \in Sockets \ {s} : net'[y] = net[y]
  BY <1>1, <1>2 DEF IInv, WiresOK
<1> HIDE DEF s
<1>7. \A y \in Sockets : ShutOK(net'[y]) /\ More(net[y], net'[y])
  BY <1>3, <1>6, MoreComposes DEF QInv, ShutsOK
<1>8. \A w \in Servers : svc'[w] = IF w = v THEN c ELSE svc[w]
  BY <1>1, KnownFacts
<1>9. \A w \in Servers : Hopeful(svc[w], net) /\ svc[w].connecting \in Sockets \cup {NoSocket}
  BY KnownFacts DEF QInv, HopeOK
<1>10. \A w \in Servers : /\ svc'[w].waiting \in {NoSocket, svc[w].waiting}
                          /\ svc'[w].connecting \in Sockets \cup {NoSocket}
                          /\ Hopeful(svc'[w], net)
  BY <1>5, <1>8, <1>9
<1> QED BY <1>1, <1>7, <1>10, MoreStep

\* A socket says more, whatever makes it.
LEMMA OneSaysMore ==
    ASSUME IInv, QInv, NEW s \in Sockets, NEW r, net' = [net EXCEPT ![s] = r],
           UNCHANGED <<waiting, pairs, claimed, svc>>, ShutOK(r), More(net[s], r)
    PROVE  QInv'
<1>1. net'[s] = r /\ \A y \in Sockets \ {s} : net'[y] = net[y]
  BY DEF IInv, WiresOK
<1>2. \A y \in Sockets : ShutOK(net'[y]) /\ More(net[y], net'[y])
  BY <1>1, MoreComposes DEF QInv, ShutsOK
<1>3. \A w \in Servers : Hopeful(svc[w], net) /\ svc[w].connecting \in Sockets \cup {NoSocket}
  BY KnownFacts DEF QInv, HopeOK
<1> QED BY <1>2, <1>3, MoreStep

\* A phone leaves.
LEMMA LeaveQuiet ==
    ASSUME IInv, QInv, NEW s \in Sockets, Leave(s) PROVE QInv'
<1> DEFINE r == CloseNear(net[s])
<1>1. ShutOK(r) /\ More(net[s], r)
  BY KnownFacts, CloseNearSays
<1>2. net' = [net EXCEPT ![s] = r] /\ UNCHANGED <<waiting, pairs, claimed, svc>>
  BY DEF Leave
<1> HIDE DEF r
<1> QED BY <1>1, <1>2, OneSaysMore

\* The pong of a server's socket does not come in time.
LEMMA PongTimeoutQuiet ==
    ASSUME IInv, QInv, NEW s \in Sockets, PongTimeout(s) PROVE QInv'
<1> DEFINE r == CloseFar(net[s])
<1>1. ShutOK(r) /\ More(net[s], r)
  BY KnownFacts, CloseFarSays
<1>2. net' = [net EXCEPT ![s] = r] /\ UNCHANGED <<waiting, pairs, claimed, svc>>
  BY DEF PongTimeout
<1> HIDE DEF r
<1> QED BY <1>1, <1>2, OneSaysMore

\* A connection of a server breaks.
LEMMA BreakQuiet ==
    ASSUME IInv, QInv, NEW s \in Sockets, Break(s) PROVE QInv'
<1> DEFINE r == [net[s] EXCEPT !.down = <<Msg("close")>>,
                               !.up = IF net[s].far \in {"open", "closing"}
                                      THEN <<Msg("close")>> ELSE <<>>]
<1>0. Safe(s, net[s]) /\ net \in [Sockets -> Channel]
  BY KnownFacts DEF IInv, WiresOK
<1>1. ShutOK(r) /\ More(net[s], r)
  BY <1>0, BreakSays DEF Break
<1>2. net' = [net EXCEPT ![s] = r] /\ UNCHANGED <<waiting, pairs, claimed, svc>>
  BY <1>0 DEF Break, Channel
<1> HIDE DEF r
<1> QED BY <1>1, <1>2, OneSaysMore

\* The relay starts again.
LEMMA RestartQuiet ==
    ASSUME IInv, QInv, RestartRelay PROVE QInv'
<1> DEFINE r(s) == IF net[s].near \in {"none", "closed"} THEN Unused
                   ELSE [net[s] EXCEPT !.far = "closed", !.up = <<>>,
                                       !.down = <<Msg("close")>>]
<1>1. net' = [s \in Sockets |-> r(s)] /\ UNCHANGED <<svc, claimed>>
  BY DEF RestartRelay
<1>2. ASSUME NEW s \in Sockets
      PROVE  /\ ShutOK(r(s)) /\ (Held(net[s]) => Held(r(s)) /\ Informed(r(s)))
             /\ (Trying(net[s]) => Trying(r(s))) /\ ~Tells(r(s).down, "registered")
  <2>1. Safe(s, net[s])
    BY KnownFacts
  <2> QED BY <2>1, RestartSays
<1> HIDE DEF r
<1>3. \A s \in Sockets : /\ ShutOK(net'[s])
                         /\ Held(net[s]) => Held(net'[s]) /\ Informed(net'[s])
                         /\ Trying(net[s]) => Trying(net'[s])
                         /\ ~Tells(net'[s].down, "registered")
  BY <1>1, <1>2
<1>4. ShutsOK'
  BY <1>3 DEF ShutsOK, ShutOK, Held, Live
<1>5. HopeOK'
  <2>1. ASSUME NEW w \in Servers PROVE Hopeful(svc[w], net')
    <3>1. Hopeful(svc[w], net) /\ (svc[w].connecting # NoSocket => svc[w].connecting \in Sockets)
      BY KnownFacts DEF QInv, HopeOK
    <3> QED BY <1>3, <3>1, HopefulKept
  <2>2. \A w \in Servers : Hopeful(svc'[w], net')
    BY <1>1, <2>1
  <2> QED BY <2>2 DEF HopeOK
<1>6. KnownOK'
  <2> SUFFICES ASSUME NEW s \in Sockets, Known(s)' PROVE Kept(s)'
    BY DEF KnownOK
  <2>1. Knows(s, net', claimed, svc)
    BY <1>1 DEF Known
  <2>2. Known(s)
    BY <1>3, <2>1 DEF Known, Knows
  <2>3. Held(net'[s]) /\ Informed(net'[s])
    BY <1>3, <2>2, KnownFacts
  <2> QED BY <2>3 DEF Kept, Held, Informed
<1> QED BY <1>4, <1>5, <1>6 DEF QInv

\* The handler of a claimed socket receives.
LEMMA HandlerReceivesQuiet ==
    ASSUME IInv, QInv, NEW s \in Sockets, HandlerReceives(s) PROVE QInv'
<1>1. /\ UNCHANGED <<waiting, pairs, svc>> /\ s \in claimed /\ net[s].down # <<>>
      /\ Holder[s] \in Servers
  BY ClaimedInUse DEF HandlerReceives
<1>2. Safe(s, net[s]) /\ ShutOK(net[s]) /\ net \in [Sockets -> Channel]
  BY KnownFacts DEF IInv, WiresOK
<1>3. \A q \in pairs : q[2] # s
  BY <1>1, PairFacts
<1>4. \A w \in Servers : svc[w].waiting # s /\ svc[w].connecting # s
  BY <1>1, KnownFacts, RelayConstants
<1>5. PICK r : /\ net' = [net EXCEPT ![s] = r] /\ ShutOK(r)
               /\ claimed \subseteq claimed' \cup {s}
               /\ s \in claimed' \/ ~Tells(r.down, "registered")
  <2>1. CASE Head(net[s].down).type = "close"
    <3> DEFINE x == NearClosed(net[s])
    <3>1. ShutOK(x) /\ \A type : ~Tells(x.down, type)
      BY <1>1, <1>2, NearClosedSays
    <3>2. net' = [net EXCEPT ![s] = x] /\ claimed' = claimed \ {s}
      BY <2>1 DEF HandlerReceives
    <3> HIDE DEF x
    <3> QED BY <3>1, <3>2
  <2>2. CASE Head(net[s].down).type # "close"
    <3> DEFINE x == [net[s] EXCEPT !.down = Tail(@)]
    <3>1. ShutOK(x)
      BY <1>1, <1>2, <2>2, RestSays
    <3>2. net' = [net EXCEPT ![s] = x] /\ claimed' = claimed
      BY <1>2, <2>2 DEF HandlerReceives, Rest
    <3> HIDE DEF x
    <3> QED BY <1>1, <3>1, <3>2
  <2> QED BY <2>1, <2>2
<1>6. net'[s] = r
  BY <1>2, <1>5
<1>7. ~Known(s)'
  BY <1>1, <1>4, <1>5, <1>6 DEF Known, Knows
<1>8. \A w \in Servers : Hopeful(svc[w], [net EXCEPT ![s] = r])
  BY <1>4, HopeElsewhere
<1> QED BY <1>1, <1>3, <1>5, <1>7, <1>8, OneSocketStep

\* onopen of a server's socket: its registration is under way.
LEMMA OpenQuiet ==
    ASSUME IInv, QInv, NEW s \in Sockets, Open(s) PROVE QInv'
<1> DEFINE r == Greeting("register")
           v == Holder[s]
<1>1. /\ net' = [net EXCEPT ![s] = r] /\ net[s].near = "connecting"
      /\ svc' = [svc EXCEPT ![v].status = "registering"]
      /\ UNCHANGED <<waiting, pairs, claimed>>
  BY DEF Open
<1>2. net \in [Sockets -> Channel] /\ svc \in [Servers -> Services] /\ v \in Servers
  BY <1>1, KnownFacts DEF IInv, WiresOK, Wire
<1>3. ShutOK(r) /\ ~Tells(r.down, "registered") /\ Trying(r)
  BY FreshSays
<1> HIDE DEF r
<1>4. \A w \in Servers : /\ svc'[w].waiting = svc[w].waiting /\ svc'[w].timer = svc[w].timer
                         /\ svc'[w].connecting = svc[w].connecting
                         /\ svc'[w].enabled = svc[w].enabled
  BY <1>1, <1>2 DEF Services
<1>5. net'[s] = r /\ ~Known(s)
  BY <1>1, <1>2, KnownFacts DEF Held
<1>6. ~Known(s)'
  BY <1>3, <1>4, <1>5 DEF Known, Knows
<1>7. \A q \in pairs : q[2] # s
  BY <1>2, PairFacts
<1>8. ASSUME NEW w \in Servers PROVE Hopeful(svc'[w], [net EXCEPT ![s] = r])
  <2>1. Hopeful(svc[w], [net EXCEPT ![s] = r])
    BY <1>3, HopeElsewhere
  <2> QED BY <1>4, <2>1 DEF Hopeful
<1>9. \A w \in Servers : svc'[w].waiting \in {NoSocket, s, svc[w].waiting}
  BY <1>4
<1> QED BY <1>1, <1>3, <1>6, <1>7, <1>8, <1>9, OneSocketStep

\* A phone connects.
LEMMA VisitQuiet ==
    ASSUME IInv, QInv, NEW p \in Phones, Visit(p) PROVE QInv'
<1> DEFINE r == Greeting("connect")
<1>1. PICK s \in Sockets : /\ Holder[s] = p /\ net[s] = Unused
                          /\ net' = [net EXCEPT ![s] = r]
                          /\ UNCHANGED <<waiting, pairs, svc, claimed>>
  BY DEF Visit, CanConnect, NewSocket, FreeSocket
<1>2. ShutOK(r)
  BY FreshSays
<1> HIDE DEF r
<1>3. ~Known(s)'
  BY <1>1, RelayConstants DEF Known, Knows
<1>4. \A q \in pairs : q[2] # s
  BY <1>1, UnusedIsSafe, PairFacts
<1>5. \A w \in Servers : Hopeful(svc[w], [net EXCEPT ![s] = r])
  BY <1>1, UnusedSays, HopeElsewhere
<1> QED BY <1>1, <1>2, <1>3, <1>4, <1>5, OneSocketStep

\* A phone receives: one that is paired speaks, or has left.
LEMMA PhoneReceivesQuiet ==
    ASSUME IInv, QInv, NEW s \in Sockets, PhoneReceives(s) PROVE QInv'
<1> DEFINE m == Head(net[s].down)
           d == [net[s] EXCEPT !.down = Tail(@)]
           w == [type |-> "data", from |-> s]
<1>1. Safe(s, net[s]) /\ ShutOK(net[s]) /\ net \in [Sockets -> Channel] /\ net[s] \in Channel
  BY KnownFacts DEF IInv, WiresOK
<1>2. /\ UNCHANGED <<waiting, pairs, svc, claimed>>
      /\ Holder[s] \in Phones /\ Holder[s] \notin Servers /\ net[s].down # <<>>
  BY RelayConstants DEF PhoneReceives
<1>3. /\ \A type : Tells(net[s].down, type) /\ m.type # type => Tells(d.down, type)
      /\ d.near = net[s].near /\ d.far = net[s].far /\ d.up = net[s].up /\ d \in Channel
      /\ m.type # "close" => ShutOK(d)
      /\ Safe(s, d)
  BY <1>1, <1>2, RestSays, RestKeeps
<1>4. w \in Message /\ w.type = "data"
  BY DEF Message
<1>5. Rest(net, s) = [net EXCEPT ![s] = d]
  BY DEF Rest
<1>6. net' = CASE m.type = "connected" ->
                    [Rest(net, s) EXCEPT ![s] = SendUp(@, w)]
               [] m.type = "error" -> [Rest(net, s) EXCEPT ![s] = CloseNear(@)]
               [] m.type = "close" -> [net EXCEPT ![s] = NearClosed(@)]
               [] OTHER -> Rest(net, s)
  BY DEF PhoneReceives
<1>7. net[s].near \in Ears /\ (net[s].near = "connecting" => FALSE)
  BY <1>1, <1>2 DEF Safe, Wire
<1> HIDE DEF m, d, w
<1>8. m.type # "connected" /\ Speaks(net[s]) => Speaks(d)
  BY <1>3 DEF Speaks
<1>9. PICK r : /\ net' = [net EXCEPT ![s] = r] /\ ShutOK(r)
               /\ Live(net[s]) /\ Speaks(net[s]) => Speaks(r)
  <2>1. CASE m.type = "connected"
    <3> DEFINE x == SendUp(d, w)
    <3>1. net' = [net EXCEPT ![s] = x]
      BY <1>1, <1>5, <1>6, <2>1
    <3>2. More(d, x) /\ ShutOK(x) /\ (d.near = "open" /\ Live(d) => Tells(x.up, "data"))
      BY <1>3, <1>4, <2>1, SendUpMore
    <3> HIDE DEF x
    <3>3. ASSUME Live(net[s]) PROVE Speaks(x)
      <4>1. Live(d)
        BY <1>3, <3>3 DEF Live
      <4>2. CASE d.near = "open"
        BY <3>2, <4>1, <4>2 DEF Speaks
      <4>3. CASE d.near # "open"
        <5>1. Speaks(d)
          BY <1>3, <2>1, <4>1, <4>3 DEF ShutOK, Speaks
        <5> QED BY <3>2, <4>1, <5>1 DEF More
      <4> QED BY <4>2, <4>3
    <3> QED BY <3>1, <3>2, <3>3
  <2>2. CASE m.type = "error"
    <3> DEFINE x == CloseNear(d)
    <3>1. net' = [net EXCEPT ![s] = x]
      BY <1>1, <1>5, <1>6, <2>2
    <3>2. More(d, x) /\ ShutOK(x)
      BY <1>3, <2>2, CloseNearSays
    <3> HIDE DEF x
    <3>3. Live(net[s]) => Live(d)
      BY <1>3 DEF Live
    <3> QED BY <1>8, <2>2, <3>1, <3>2, <3>3 DEF More
  <2>3. CASE m.type = "close"
    <3> DEFINE x == NearClosed(net[s])
    <3>1. net' = [net EXCEPT ![s] = x]
      BY <1>6, <2>3
    <3>2. ShutOK(x) /\ (Live(net[s]) => Tells(x.up, "close"))
      BY <1>1, <1>2, NearClosedSays
    <3> HIDE DEF x
    <3> QED BY <3>1, <3>2 DEF Speaks
  <2>4. CASE m.type \notin {"connected", "error", "close"}
    <3>1. net' = [net EXCEPT ![s] = d]
      BY <1>5, <1>6, <2>4
    <3> QED BY <1>3, <1>8, <2>4, <3>1
  <2> QED BY <2>1, <2>2, <2>3, <2>4
<1>10. ~Known(s)'
  BY <1>2 DEF Known, Knows
<1>11. \A q \in pairs : q[2] = s => (Speaks(net[s]) => Speaks(r))
  BY <1>9, PairFacts
<1>12. \A v \in Servers : Hopeful(svc[v], [net EXCEPT ![s] = r])
  <2>1. \A v \in Servers : svc[v].connecting # s
    BY <1>2, KnownFacts, RelayConstants
  <2> QED BY <2>1, HopeElsewhere
<1> QED BY <1>2, <1>9, <1>10, <1>11, <1>12, OneSocketStep

\* A service receives at a socket of its own.
LEMMA OwnSocketFacts ==
    ASSUME IInv, QInv, NEW v \in Servers, NEW s \in Sockets, Holder[s] = v, s \notin claimed,
           net[s].down # <<>>
    PROVE  /\ Safe(s, net[s]) /\ ShutOK(net[s]) /\ net \in [Sockets -> Channel]
           /\ net[s] \in Channel /\ net[s] # Unused /\ s # NoSocket
           /\ svc[v] \in Services /\ svc \in [Servers -> Services]
           /\ \A q \in pairs : q[2] # s
           /\ \A w \in Servers \ {v} : svc[w].waiting # s /\ svc[w].connecting # s
<1>1. /\ Safe(s, net[s]) /\ ShutOK(net[s]) /\ net \in [Sockets -> Channel]
      /\ svc[v] \in Services /\ svc \in [Servers -> Services]
  BY KnownFacts DEF IInv, WiresOK
<1>2. \A q \in pairs : q[2] # s
  BY PairFacts
<1>3. \A w \in Servers \ {v} : svc[w].waiting # s /\ svc[w].connecting # s
  BY KnownFacts, RelayConstants
<1> QED BY <1>1, <1>2, <1>3, RelayConstants DEF Unused

\* The step of a service at its own socket s: what it knows of the socket stays true,
\* and it stays hopeful.
LEMMA OwnSocketQuiet ==
    ASSUME IInv, QInv, NEW v \in Servers, NEW s \in Sockets, Holder[s] = v, s \notin claimed,
           net[s].down # <<>>, UNCHANGED <<waiting, pairs, claimed>>,
           NEW r, net' = [net EXCEPT ![s] = r], ShutOK(r),
           NEW c \in Services, svc' = [svc EXCEPT ![v] = c],
           c.waiting \in {NoSocket, s, svc[v].waiting},
           c.waiting = s \/ Tells(r.down, "registered") =>
               Known(s) /\ Held(r) /\ (Informed(net[s]) => Informed(r)),
           Hopeful(c, [net EXCEPT ![s] = r])
    PROVE  QInv'
<1>1. /\ net \in [Sockets -> Channel] /\ svc \in [Servers -> Services]
      /\ \A q \in pairs : q[2] # s
      /\ \A w \in Servers \ {v} : svc[w].waiting # s /\ svc[w].connecting # s
  BY OwnSocketFacts
<1>2. net'[s] = r /\ svc'[v] = c /\ \A w \in Servers \ {v} : svc'[w] = svc[w]
  BY <1>1
<1>3. ASSUME Known(s)' PROVE Known(s) /\ Held(r) /\ (Informed(net[s]) => Informed(r))
  <2>1. Knows(s, net', claimed, svc')
    BY <1>3 DEF Known
  <2>2. c.waiting = s \/ Tells(r.down, "registered")
    BY <1>1, <1>2, <2>1 DEF Knows
  <2> QED BY <2>2
<1>4. \A w \in Servers \ {v} : Hopeful(svc[w], [net EXCEPT ![s] = r])
  BY <1>1, HopeElsewhere
<1>5. \A w \in Servers : Hopeful(svc'[w], [net EXCEPT ![s] = r])
  BY <1>2, <1>4
<1>6. \A w \in Servers : svc'[w].waiting \in {NoSocket, s, svc[w].waiting}
  BY <1>2
<1> QED BY <1>1, <1>3, <1>5, <1>6, OneSocketStep

\* A phone's first message: the socket is handed off, and the next one is tried.
LEMMA ClaimedQuiet ==
    ASSUME IInv, QInv, NEW v \in Servers, NEW s \in Sockets, Holder[s] = v, s \notin claimed,
           net[s].down # <<>>, Head(net[s].down).type = "data",
           Claimed(v, s, Head(net[s].down)), UNCHANGED <<waiting, pairs>>
    PROVE  QInv'
<1> DEFINE m == Head(net[s].down)
           d == [net[s] EXCEPT !.down = Tail(@)]
           a == [type |-> "answer", from |-> m.from]
           r == SendUp(d, a)
           n == [net EXCEPT ![s] = r]
           c == [svc[v] EXCEPT !.waiting = NoSocket]
           cl == claimed \cup {s}
           z == [svc EXCEPT ![v] = c]
<1>1. /\ Safe(s, net[s]) /\ ShutOK(net[s]) /\ net \in [Sockets -> Channel]
      /\ net[s] \in Channel /\ svc[v] \in Services /\ svc \in [Servers -> Services]
      /\ \A q \in pairs : q[2] # s
      /\ \A w \in Servers \ {v} : svc[w].waiting # s /\ svc[w].connecting # s
  BY OwnSocketFacts
<1>2. Rest(net, s) = [net EXCEPT ![s] = d]
  BY DEF Rest
<1>3. [Rest(net, s) EXCEPT ![s] = SendUp(@, a)] = n
  BY <1>1, <1>2
<1>4. Connect(v, c, n) /\ claimed' = cl
  BY <1>3 DEF Claimed
<1>5. d \in Channel /\ ShutOK(d) /\ m \in Message
  BY <1>1, RestSays, RestKeeps
<1> HIDE DEF m, d
<1>6. a \in Message /\ a.type = "answer"
  BY <1>5 DEF Message
<1> HIDE DEF a
<1>7. ShutOK(r) /\ r \in Channel
  BY <1>5, <1>6, SendUpMore, SendUpSays
<1> HIDE DEF r
<1>8. n \in [Sockets -> Channel] /\ n[s] = r /\ \A y \in Sockets \ {s} : n[y] = net[y]
  BY <1>1, <1>7
<1>9. \A w \in Servers \ {v} : Hopeful(svc[w], n)
  BY <1>1, HopeElsewhere
<1> HIDE DEF n
<1>10. c \in Services /\ c.waiting = NoSocket /\ c.connecting = svc[v].connecting
  BY <1>1 DEF Services
<1> HIDE DEF c
<1>11. \A y \in Sockets : ShutOK(n[y])
  BY <1>7, <1>8 DEF QInv, ShutsOK
<1>12. ASSUME NEW y \in Sockets, Knows(y, n, cl, z)
       PROVE  Known(y) /\ Held(n[y]) /\ (Informed(net[y]) => Informed(n[y]))
  <2>1. z[v] = c /\ \A w \in Servers \ {v} : z[w] = svc[w]
    BY <1>1
  <2> HIDE DEF z
  <2>2. y # s
    BY <1>1, <1>10, <1>12, <2>1, RelayConstants DEF Knows
  <2>3. Known(y)
    BY <1>8, <1>10, <1>12, <2>1, <2>2, RelayConstants DEF Knows, Known
  <2> QED BY <1>8, <2>2, <2>3, KnownFacts
<1>13. \A q \in pairs : Speaks(net[q[2]]) => Speaks(n[q[2]])
  BY <1>1, <1>8, PairFacts
<1>14. c.connecting # NoSocket => c.connecting # c.waiting
  BY <1>10
<1> HIDE DEF cl
<1> QED BY <1>4, <1>8, <1>9, <1>10, <1>11, <1>12, <1>13, <1>14, ConnectStep

\* A service receives.
LEMMA ServerReceivesQuiet ==
    ASSUME IInv, QInv, NEW v \in Servers, NEW s \in Sockets, ServerReceives(v, s) PROVE QInv'
<1> DEFINE m == Head(net[s].down)
           d == [net[s] EXCEPT !.down = Tail(@)]
<1>1. /\ Holder[s] = v /\ s \notin claimed /\ net[s].down # <<>>
      /\ UNCHANGED <<waiting, pairs>>
  BY DEF ServerReceives
<1>2. /\ Safe(s, net[s]) /\ ShutOK(net[s]) /\ net \in [Sockets -> Channel]
      /\ net[s] \in Channel /\ s # NoSocket /\ svc[v] \in Services
  BY <1>1, OwnSocketFacts
<1>3. Rest(net, s) = [net EXCEPT ![s] = d]
  BY DEF Rest
<1>4. /\ \A type : Tells(net[s].down, type) /\ m.type # type => Tells(d.down, type)
      /\ \A type : Tells(d.down, type) => Tells(net[s].down, type)
      /\ d.near = net[s].near /\ d.far = net[s].far /\ d.up = net[s].up /\ d \in Channel
      /\ m.type # "close" => ShutOK(d)
      /\ Safe(s, d) /\ m \in Range(net[s].down)
  BY <1>1, <1>2, RestSays, RestKeeps
<1> HIDE DEF d
<1>5. Tells(net[s].down, m.type)
  BY <1>4 DEF Tells
<1>6. /\ Tells(net[s].down, "registered") => Known(s)
      /\ svc[v].waiting = s => Known(s)
      /\ Known(s) => Held(net[s])
  BY <1>1, KnownFacts DEF Known, Knows
<1>7. svc[v].connecting # NoSocket => svc[v].connecting # svc[v].waiting
  BY KnownFacts
<1>8. Hopeful(svc[v], net)
  BY DEF QInv, HopeOK
<1> HIDE DEF m
<1>9. CASE /\ m.type = "registered"
           /\ svc' = [svc EXCEPT ![v] = Registered(@, s)]
           /\ net' = Rest(net, s)
           /\ UNCHANGED <<claimed, heard>>
  <2> DEFINE c == Registered(svc[v], s)
  <2>1. c \in Services /\ c.waiting = s /\ c.connecting = NoSocket
    BY <1>2 DEF Registered, Services, Status
  <2>2. svc' = [svc EXCEPT ![v] = c] /\ net' = [net EXCEPT ![s] = d]
    BY <1>3, <1>9
  <2> HIDE DEF c
  <2>3. Hopeful(c, [net EXCEPT ![s] = d])
    BY <1>2, <2>1 DEF Hopeful
  <2>4. Known(s) /\ Held(d) /\ (Informed(net[s]) => Informed(d))
    BY <1>4, <1>5, <1>6, <1>9 DEF Held, Informed
  <2>5. ShutOK(d)
    BY <1>4, <1>9
  <2> QED BY <1>1, <1>9, <2>1, <2>2, <2>3, <2>4, <2>5, OwnSocketQuiet
<1>10. CASE /\ m.type = "rejected"
            /\ svc' = [svc EXCEPT ![v] = Rejected(@)]
            /\ net' = [Rest(net, s) EXCEPT ![s] = CloseNear(@)]
            /\ UNCHANGED <<claimed, heard>>
  <2> DEFINE c == Rejected(svc[v])
             r == CloseNear(d)
  <2>1. /\ c \in Services /\ c.waiting = svc[v].waiting /\ c.connecting = svc[v].connecting
        /\ ~c.enabled
    BY <1>2 DEF Rejected, Services, Status
  <2>2. svc' = [svc EXCEPT ![v] = c] /\ net' = [net EXCEPT ![s] = r]
    BY <1>2, <1>3, <1>10
  <2>3. ShutOK(r) /\ More(d, r)
    BY <1>4, <1>10, CloseNearSays
  <2> HIDE DEF c, r
  <2>4. Hopeful(c, [net EXCEPT ![s] = r])
    BY <1>7, <2>1 DEF Hopeful
  <2>5. ASSUME c.waiting = s \/ Tells(r.down, "registered")
        PROVE  Known(s) /\ Held(r) /\ (Informed(net[s]) => Informed(r))
    <3>1. Known(s)
      BY <1>4, <1>6, <2>1, <2>3, <2>5 DEF More
    <3>2. Held(d) /\ (Informed(net[s]) => Informed(d))
      BY <1>4, <1>6, <1>10, <3>1 DEF Held, Informed
    <3> QED BY <2>3, <3>1, <3>2 DEF More
  <2> QED BY <1>1, <1>10, <2>1, <2>2, <2>3, <2>4, <2>5, OwnSocketQuiet
<1>11. CASE m.type = "data" /\ Claimed(v, s, m)
  BY <1>1, <1>11, ClaimedQuiet DEF m
<1>12. CASE /\ m.type = "close"
            /\ svc' = [svc EXCEPT ![v] = Closed(@, s)]
            /\ net' = [net EXCEPT ![s] = NearClosed(@)]
            /\ UNCHANGED <<claimed, heard>>
  <2> DEFINE c == Closed(svc[v], s)
             r == NearClosed(net[s])
             a == [svc[v] EXCEPT !.connecting = NoSocket]
             b == [svc[v] EXCEPT !.waiting = NoSocket]
  <2>1. /\ a \in Services /\ a.waiting = svc[v].waiting /\ a.connecting = NoSocket
        /\ b \in Services /\ b.waiting = NoSocket /\ b.connecting = svc[v].connecting
    BY <1>2 DEF Services
  <2>2. c = IF svc[v].connecting = s THEN ScheduleReconnect(a)
            ELSE IF svc[v].waiting = s THEN ScheduleReconnect(b) ELSE svc[v]
    BY DEF Closed
  <2>3. svc' = [svc EXCEPT ![v] = c] /\ net' = [net EXCEPT ![s] = r]
    BY <1>12
  <2>4. ShutOK(r) /\ ~Tells(r.down, "registered")
    BY <1>1, <1>2, NearClosedSays
  <2> HIDE DEF a, b, c, r
  <2>5. \A n : /\ ScheduleReconnect(a) \in Services /\ ScheduleReconnect(a).waiting = a.waiting
               /\ ScheduleReconnect(b) \in Services /\ ScheduleReconnect(b).waiting = b.waiting
               /\ Hopeful(ScheduleReconnect(a), n) /\ Hopeful(ScheduleReconnect(b), n)
    BY <2>1, ScheduleFacts, ScheduleHopes
  <2>6. /\ c \in Services /\ c.waiting \in {NoSocket, svc[v].waiting} /\ c.waiting # s
        /\ Hopeful(c, [net EXCEPT ![s] = r])
    <3>1. CASE svc[v].connecting = s
      BY <1>2, <1>7, <2>1, <2>2, <2>5, <3>1
    <3>2. CASE svc[v].connecting # s /\ svc[v].waiting = s
      BY <1>2, <2>1, <2>2, <2>5, <3>2
    <3>3. CASE svc[v].connecting # s /\ svc[v].waiting # s
      <4>1. Hopeful(svc[v], [net EXCEPT ![s] = r])
        BY <3>3, HopeElsewhere
      <4> QED BY <1>2, <2>2, <3>3, <4>1
    <3> QED BY <3>1, <3>2, <3>3
  <2> QED BY <1>1, <1>12, <2>3, <2>4, <2>6, OwnSocketQuiet
<1> QED BY <1>9, <1>10, <1>11, <1>12 DEF ServerReceives, m

\* A step of the relay leaves the services alone.
LEMMA FarQuiet ==
    ASSUME IInv, QInv, UNCHANGED <<svc, claimed>>,
           \A y \in Sockets : ShutOK(net'[y]) /\ (Trying(net[y]) => Trying(net'[y])),
           \A y \in Sockets : Known(y)' => Kept(y)'
    PROVE  QInv'
<1>1. ShutsOK'
  BY DEF ShutsOK, ShutOK, Held, Live
<1>2. HopeOK'
  <2>1. ASSUME NEW w \in Servers PROVE Hopeful(svc[w], net')
    <3>1. Hopeful(svc[w], net) /\ (svc[w].connecting # NoSocket => svc[w].connecting \in Sockets)
      BY KnownFacts DEF QInv, HopeOK
    <3> QED BY <3>1, HopefulKept
  <2>2. \A w \in Servers : Hopeful(svc'[w], net')
    BY <2>1
  <2> QED BY <2>2 DEF HopeOK
<1> QED BY <1>1, <1>2 DEF QInv, KnownOK

\* What the relay does not register it does not make known.
LEMMA NotRegistered ==
    ASSUME UNCHANGED <<svc, claimed>>, NEW y, Known(y)',
           Tells(net'[y].down, "registered") => Tells(net[y].down, "registered")
    PROVE  Known(y)
<1>1. Knows(y, net', claimed, svc)
  BY DEF Known
<1> QED BY <1>1 DEF Known, Knows

\* The relay takes a message of s that is not the close.
LEMMA TakenQuiet ==
    ASSUME IInv, QInv, NEW s \in Sockets, net[s].up # <<>>, Head(net[s].up).type # "close"
    PROVE  LET t == [net[s] EXCEPT !.up = Tail(@)]
               m == Head(net[s].up)
           IN  /\ Taken(net, s) = [net EXCEPT ![s] = t]
               /\ net \in [Sockets -> Channel] /\ t \in Channel /\ Safe(s, t) /\ ShutOK(t)
               /\ t.near = net[s].near /\ t.far = net[s].far /\ t.down = net[s].down
               /\ \A type : Tells(net[s].up, type) /\ m.type # type => Tells(t.up, type)
               /\ m \in Message /\ Live(net[s]) /\ net[s].near \in {"open", "closing", "closed"}
               /\ m.type \in {"register", "connect", "data", "answer"}
               /\ m.type # "register" => (Trying(net[s]) => Trying(t))
<1> DEFINE t == [net[s] EXCEPT !.up = Tail(@)]
           m == Head(net[s].up)
<1>1. Safe(s, net[s]) /\ ShutOK(net[s]) /\ net \in [Sockets -> Channel] /\ net[s] \in Channel
  BY KnownFacts DEF IInv, WiresOK
<1>2. /\ Taken(net, s) = [net EXCEPT ![s] = t]
      /\ Safe(s, t) /\ m \in Message /\ m \in Range(net[s].up)
      /\ t.near = net[s].near /\ t.far = net[s].far /\ t.down = net[s].down
      /\ \A type : Tells(net[s].up, type) /\ m.type # type => Tells(t.up, type)
      /\ t \in Channel /\ ShutOK(t)
  BY <1>1, TakenFacts, TakenSays
<1>3. m.type # "close"
  OBVIOUS
<1> HIDE DEF t, m
<1>4. Live(net[s]) /\ net[s].near \in {"open", "closing", "closed"}
  BY <1>1 DEF Safe, Wire, ShutOK
<1>5. m.type \in {"register", "connect", "data", "answer"}
  BY <1>1, <1>2, <1>3 DEF ShutOK
<1>6. m.type # "register" => (Trying(net[s]) => Trying(t))
  BY <1>2, <1>3 DEF Trying
<1> QED BY <1>1, <1>2, <1>4, <1>5, <1>6 DEF t, m

\* The close of a socket comes to the relay: who counts on the socket, or on its pair,
\* hears of it.
LEMMA HandleCloseQuiet ==
    ASSUME IInv, QInv, NEW s \in Sockets, net[s].up # <<>>, HandleClose(s),
           UNCHANGED <<svc, claimed>>
    PROVE  QInv'
<1> DEFINE r == FarClosed(net[s])
           b == [net EXCEPT ![s] = r]
           n == [x \in Sockets |-> IF x \in PeersOf(s) THEN CloseFar(b[x]) ELSE b[x]]
<1>1. net \in [Sockets -> Channel] /\ \A y \in Sockets : Safe(y, net[y]) /\ ShutOK(net[y])
  BY KnownFacts DEF IInv, WiresOK
<1>2. /\ ShutOK(r) /\ (Held(net[s]) => Held(r) /\ Informed(r))
      /\ Trying(net[s]) => Trying(r)
      /\ Tells(r.down, "registered") => Tells(net[s].down, "registered")
  BY <1>1, FarClosedSays
<1>3. b[s] = r /\ \A y \in Sockets \ {s} : b[y] = net[y]
  BY <1>1
<1>4. \/ waiting = s /\ waiting' = NoSocket /\ net' = b /\ pairs' = pairs
      \/ /\ waiting # s /\ waiting' = waiting /\ net' = n
         /\ pairs' = {q \in pairs : s \notin {q[1], q[2]}}
  BY DEF HandleClose
<1> HIDE DEF b, r
<1>5. ASSUME NEW y \in Sockets \ {s}
      PROVE  /\ ShutOK(b[y]) /\ More(net[y], b[y])
             /\ ShutOK(n[y]) /\ More(net[y], n[y])
             /\ y \in PeersOf(s) /\ Held(net[y]) => Tells(n[y].down, "close")
  <2>1. b[y] = net[y] /\ ShutOK(b[y]) /\ More(net[y], b[y])
    BY <1>1, <1>3, MoreComposes
  <2>2. CASE y \in PeersOf(s)
    <3>1. n[y] = CloseFar(net[y])
      BY <2>1, <2>2
    <3> HIDE DEF n
    <3> QED BY <1>1, <2>1, <3>1, CloseFarSays
  <2>3. CASE y \notin PeersOf(s)
    <3>1. n[y] = b[y]
      BY <2>3
    <3> HIDE DEF n
    <3> QED BY <2>1, <2>3, <3>1
  <2> QED BY <2>2, <2>3
<1>6. n[s] = r
  <2>1. s \notin PeersOf(s)
    BY PeerFacts
  <2> QED BY <1>3, <2>1
<1> HIDE DEF n
<1>7. /\ net'[s] = r
      /\ \A y \in Sockets \ {s} : ShutOK(net'[y]) /\ More(net[y], net'[y])
  BY <1>3, <1>4, <1>5, <1>6
<1>8. \A y \in Sockets : ShutOK(net'[y]) /\ (Trying(net[y]) => Trying(net'[y]))
  BY <1>2, <1>7 DEF More
<1>9. ASSUME NEW y \in Sockets, Known(y)' PROVE Kept(y)'
  <2>1. Known(y)
    BY <1>2, <1>7, <1>9, NotRegistered DEF More
  <2>2. Held(net[y]) /\ Kept(y)
    BY <2>1 DEF QInv, KnownOK, Kept
  <2>3. CASE y = s
    BY <1>2, <1>7, <2>2, <2>3 DEF Kept, Held, Informed
  <2>4. CASE y # s
    <3>1. Held(net'[y]) /\ (Informed(net[y]) => Informed(net'[y]))
      BY <1>7, <2>2, <2>4 DEF More
    <3>2. CASE Informed(net[y])
      BY <3>1, <3>2 DEF Kept, Held, Informed
    <3>3. CASE waiting = y
      <4>1. waiting' = y
        BY <1>4, <2>4, <3>3
      <4> QED BY <3>1, <4>1 DEF Kept, Held
    <3>4. ASSUME NEW q \in pairs, q[1] = y, Speaks(net[q[2]]) PROVE Kept(y)'
      <4>1. q[2] \in Sockets /\ Live(net[q[2]]) /\ q[2] # waiting /\ q \in Sockets \X Sockets
        BY PairFacts
      <4>2. CASE q[2] = s
        <5>1. waiting # s
          BY <4>1, <4>2
        <5>2. y \in PeersOf(s)
          BY <3>4, <4>2 DEF PeersOf
        <5>3. Tells(net'[y].down, "close")
          BY <1>4, <1>5, <2>2, <2>4, <5>1, <5>2
        <5> QED BY <3>1, <5>3 DEF Kept, Held, Informed
      <4>3. CASE q[2] # s
        <5>1. q \in pairs'
          BY <1>4, <2>4, <3>4, <4>3
        <5>2. Speaks(net'[q[2]])
          BY <1>7, <3>4, <4>1, <4>3 DEF More
        <5> QED BY <3>1, <3>4, <5>1, <5>2 DEF Kept, Held, Speaks
      <4> QED BY <4>2, <4>3
    <3> QED BY <2>2, <3>2, <3>3, <3>4 DEF Kept
  <2> QED BY <2>3, <2>4
<1> QED BY <1>8, <1>9, FarQuiet

\* A message of a paired socket goes to its peer, which is informed of the phone.
LEMMA ForwardQuiet ==
    ASSUME IInv, QInv, NEW s \in Sockets, net[s].up # <<>>, mode[s] = "paired",
           Head(net[s].up).type # "close", Forward(s, Head(net[s].up)),
           UNCHANGED <<waiting, pairs, svc, claimed>>
    PROVE  QInv'
<1> DEFINE t == [net[s] EXCEPT !.up = Tail(@)]
           m == Head(net[s].up)
           b == [net EXCEPT ![s] = t]
           n == [x \in Sockets |-> IF x \in PeersOf(s) THEN SendDown(b[x], m) ELSE b[x]]
<1>1. /\ Taken(net, s) = b
      /\ net \in [Sockets -> Channel] /\ ShutOK(t)
      /\ t.near = net[s].near /\ t.far = net[s].far /\ t.down = net[s].down
      /\ \A type : Tells(net[s].up, type) /\ m.type # type => Tells(t.up, type)
      /\ m \in Message /\ m.type \in {"register", "connect", "data", "answer"}
      /\ m.type # "register" => (Trying(net[s]) => Trying(t))
  BY TakenQuiet
<1>2. m.type # "register"
  <2>1. Greets(m) => mode[s] = "new"
    BY TakenFacts
  <2> HIDE DEF m
  <2> QED BY <2>1 DEF Greets
<1>3. net' = n
  BY <1>1 DEF Forward
<1> HIDE DEF t, m
<1>4. b[s] = t /\ \A y \in Sockets \ {s} : b[y] = net[y]
  BY <1>1
<1> HIDE DEF b
<1>5. s \notin PeersOf(s)
  BY PeerFacts
<1>6. n[s] = t
  BY <1>4, <1>5
<1>7. ASSUME NEW y \in Sockets \ {s}
      PROVE  /\ ShutOK(n[y]) /\ More(net[y], n[y])
             /\ y \in PeersOf(s) /\ m.type = "data" /\ Held(net[y]) => Informed(n[y])
  <2>1. b[y] = net[y] /\ ShutOK(net[y]) /\ net[y] \in Channel
    BY <1>1, <1>4, KnownFacts
  <2>2. CASE y \in PeersOf(s)
    <3>1. n[y] = SendDown(net[y], m)
      BY <2>1, <2>2
    <3> HIDE DEF n
    <3>2. /\ ShutOK(n[y]) /\ More(net[y], n[y])
          /\ net[y].far = "open" /\ Held(net[y]) => Tells(n[y].down, m.type)
          /\ \A type : Tells(net[y].down, type) => Tells(n[y].down, type)
      BY <1>1, <2>1, <3>1, SendDownMore
    <3>3. Held(net[y]) /\ net[y].far # "open" => Tells(net[y].down, "close")
      BY <2>1 DEF ShutOK
    <3> QED BY <3>2, <3>3 DEF Informed
  <2>3. CASE y \notin PeersOf(s)
    <3>1. n[y] = net[y]
      BY <2>1, <2>3
    <3> HIDE DEF n
    <3> QED BY <2>1, <2>3, <3>1, MoreComposes
  <2> QED BY <2>2, <2>3
<1> HIDE DEF n
<1>8. \A y \in Sockets : ShutOK(net'[y]) /\ (Trying(net[y]) => Trying(net'[y]))
  BY <1>1, <1>2, <1>3, <1>6, <1>7 DEF More
<1>9. ASSUME NEW y \in Sockets, Known(y)' PROVE Kept(y)'
  <2>1. Known(y)
    BY <1>1, <1>3, <1>6, <1>7, <1>9, NotRegistered DEF More
  <2>2. Held(net[y]) /\ Kept(y)
    BY <2>1 DEF QInv, KnownOK, Kept
  <2>3. Held(net'[y]) /\ (Informed(net[y]) => Informed(net'[y]))
    BY <1>1, <1>3, <1>6, <1>7, <2>2 DEF More, Held, Informed
  <2>4. CASE waiting = y \/ Informed(net[y])
    BY <2>3, <2>4 DEF Kept, Held, Informed
  <2>5. ASSUME NEW q \in pairs, q[1] = y, Speaks(net[q[2]]) PROVE Kept(y)'
    <3>1. q[2] \in Sockets /\ Live(net[q[2]]) /\ q[1] # q[2] /\ q \in Sockets \X Sockets
      BY PairFacts
    <3>2. CASE q[2] = s /\ m.type = "data"
      <4>1. y \in PeersOf(s)
        BY <2>5, <3>2 DEF PeersOf
      <4>2. Informed(net'[y])
        BY <1>3, <1>5, <1>7, <2>2, <3>2, <4>1
      <4> QED BY <2>3, <4>2 DEF Kept, Held, Informed
    <3>3. CASE ~(q[2] = s /\ m.type = "data")
      <4>1. Speaks(net'[q[2]])
        <5>1. CASE q[2] = s
          <6>1. m.type # "data" /\ m.type # "close"
            BY <1>1, <3>3, <5>1
          <6> QED BY <1>1, <1>3, <1>6, <2>5, <5>1, <6>1 DEF Speaks
        <5>2. CASE q[2] # s
          BY <1>3, <1>7, <2>5, <3>1, <5>2 DEF More
        <5> QED BY <5>1, <5>2
      <4> QED BY <2>3, <2>5, <4>1 DEF Kept, Held, Speaks
    <3> QED BY <3>2, <3>3
  <2> QED BY <2>2, <2>4, <2>5 DEF Kept
<1> QED BY <1>8, <1>9, FarQuiet

\* A socket whose first message the relay refuses is told so, and closed.
LEMMA RefusalQuiet ==
    ASSUME IInv, QInv, NEW s \in Sockets, net[s].up # <<>>, Greets(Head(net[s].up)),
           NEW type \in {"rejected", "error"},
           Head(net[s].up).type = "register" => type = "rejected",
           net' = [Taken(net, s) EXCEPT ![s] = CloseFar(SendDown(@, Msg(type)))],
           UNCHANGED <<waiting, pairs, svc, claimed>>
    PROVE  QInv'
<1> DEFINE t == [net[s] EXCEPT !.up = Tail(@)]
           k == Head(net[s].up)
           m == Msg(type)
           d == SendDown(t, m)
           r == CloseFar(d)
<1>1. m \in Message /\ m.type = type
  BY MsgFacts
<1>2. /\ k.type # "close" /\ Taken(net, s) = [net EXCEPT ![s] = t]
      /\ net \in [Sockets -> Channel] /\ t \in Channel /\ Safe(s, t) /\ ShutOK(t)
      /\ t.near = net[s].near /\ t.far = net[s].far /\ t.down = net[s].down
      /\ net[s].near \in {"open", "closing", "closed"}
      /\ k.type # "register" => (Trying(net[s]) => Trying(t))
  BY TakenQuiet DEF Greets
<1>3. net[s].far = "open" /\ \A q \in pairs : s # q[2]
  BY TakenFacts
<1>4. net' = [net EXCEPT ![s] = r]
  BY <1>2
<1> HIDE DEF t, k, m
<1>5. /\ Safe(s, d) /\ ShutOK(d) /\ More(t, d) /\ d.near = t.near
      /\ Held(t) => Tells(d.down, type)
  <2>1. m \in Message /\ m.type # "answer" /\ m.type # "registered" /\ t.far = "open"
    BY <1>1, <1>2, <1>3
  <2>2. Safe(s, t) /\ ShutOK(t) /\ t \in Channel
    BY <1>2
  <2>3. Safe(s, d) /\ d.near = t.near
    BY <2>1, <2>2, SendDownKeeps
  <2>4. ShutOK(d) /\ More(t, d) /\ (Held(t) => Tells(d.down, m.type))
    BY <2>1, <2>2, SendDownMore
  <2> QED BY <1>1, <2>3, <2>4
<1> HIDE DEF d
<1>6. ShutOK(r) /\ More(d, r) /\ r.near = d.near
  BY <1>5, CloseFarSays
<1> HIDE DEF r
<1>7. More(t, r)
  BY <1>5, <1>6, MoreComposes
<1>8. Known(s)' => Known(s) /\ Held(r) /\ (Informed(net[s]) => Informed(r))
  <2> SUFFICES ASSUME Known(s)' PROVE Known(s) /\ Held(r) /\ (Informed(net[s]) => Informed(r))
    OBVIOUS
  <2>1. net'[s] = r
    BY <1>2, <1>4
  <2>2. Known(s)
    BY <1>2, <1>7, <2>1, NotRegistered DEF More
  <2>3. Held(t) /\ (Informed(net[s]) => Informed(t))
    BY <1>2, <2>2, KnownFacts DEF Held, Informed
  <2> QED BY <1>7, <2>2, <2>3 DEF More
<1>9. Trying(net[s]) => Trying(r)
  <2>1. CASE k.type = "register"
    <3> SUFFICES ASSUME Trying(net[s]) PROVE Trying(r)
      OBVIOUS
    <3>1. Held(t)
      BY <1>2 DEF Trying, Ears, Held
    <3>2. Trying(d)
      BY <1>5, <2>1, <3>1 DEF Trying, Ears, Held, k
    <3> QED BY <1>6, <3>2 DEF More
  <2>2. CASE k.type # "register"
    BY <1>2, <1>7, <2>2 DEF More
  <2> QED BY <2>1, <2>2
<1>10. \A w \in Servers : Hopeful(svc'[w], [net EXCEPT ![s] = r])
  BY <1>9, HopeElsewhere
<1> QED BY <1>3, <1>4, <1>6, <1>8, <1>10, OneSocketStep

\* A server registers: the service will know the socket that waits, and the one that
\* waited is closed.
LEMMA RegisterServerQuiet ==
    ASSUME IInv, QInv, IInv', NEW s \in Sockets, net[s].up # <<>>,
           Head(net[s].up).type = "register",
           RegisterServer(s), UNCHANGED <<pairs, svc, claimed>>
    PROVE  QInv'
<1> DEFINE t == [net[s] EXCEPT !.up = Tail(@)]
           m == Msg("registered")
           r == SendDown(t, m)
           b == Taken(net, s)
           n == [x \in Sockets |->
                   CASE x = s       -> SendDown(b[x], m)
                     [] x = waiting -> CloseFar(b[x])
                     [] OTHER       -> b[x]]
<1>1. Greets(Head(net[s].up))
  BY DEF Greets
<1>2. /\ b = [net EXCEPT ![s] = t]
      /\ net \in [Sockets -> Channel] /\ t \in Channel /\ ShutOK(t)
      /\ t.near = net[s].near /\ t.far = net[s].far /\ t.down = net[s].down
      /\ net[s].near \in {"open", "closing", "closed"}
  BY TakenQuiet
<1>3. net[s].far = "open" /\ Holder[s] \in Servers /\ s # waiting
  BY <1>1, TakenFacts
<1>4. m \in Message /\ m.type = "registered"
  BY MsgFacts
<1>5. CASE ~(owner \in {NoServer, Holder[s]})
  <2>1. /\ net' = [Taken(net, s) EXCEPT ![s] = CloseFar(SendDown(@, Msg("rejected")))]
        /\ UNCHANGED waiting
    BY <1>5 DEF RegisterServer
  <2>2. "rejected" \in {"rejected", "error"}
    OBVIOUS
  <2> QED BY <1>1, <2>1, <2>2, RefusalQuiet
<1>6. CASE owner \in {NoServer, Holder[s]}
  <2>1. waiting' = s /\ net' = n
    BY <1>6 DEF RegisterServer
  <2> HIDE DEF t, m
  <2>2. ShutOK(r) /\ (Held(t) => Tells(r.down, "registered")) /\ r.near = t.near
    BY <1>2, <1>3, <1>4, SendDownMore, SendDownSays
  <2>3. n[s] = r
    <3>1. b[s] = t
      BY <1>2
    <3> HIDE DEF b
    <3> QED BY <1>3, <3>1
  <2>4. ASSUME NEW y \in Sockets \ {s}
        PROVE  /\ ShutOK(n[y]) /\ More(net[y], n[y])
               /\ y = waiting /\ Held(net[y]) => Informed(n[y])
    <3>1. b[y] = net[y] /\ ShutOK(net[y]) /\ Safe(y, net[y])
      BY <1>2, KnownFacts
    <3>2. CASE y = waiting
      <4>1. n[y] = CloseFar(net[y])
        BY <3>1, <3>2
      <4> HIDE DEF n
      <4> QED BY <3>1, <4>1, CloseFarSays DEF Informed
    <3>3. CASE y # waiting
      <4>1. n[y] = net[y]
        BY <3>1, <3>3
      <4> HIDE DEF n
      <4> QED BY <3>1, <3>3, <4>1, MoreComposes
    <3> QED BY <3>2, <3>3
  <2> HIDE DEF n, r, b
  <2>5. Trying(net[s]) => Trying(r)
    BY <1>2, <2>2 DEF Trying, Ears, Held
  <2>6. \A y \in Sockets : ShutOK(net'[y]) /\ (Trying(net[y]) => Trying(net'[y]))
    BY <2>1, <2>2, <2>3, <2>4, <2>5 DEF More
  <2>7. ASSUME NEW y \in Sockets, Known(y)' PROVE Kept(y)'
    <3>1. CASE y = s
      <4>1. Tells(r.down, "registered") \/ Known(s)
        BY <2>1, <2>3, <2>7, <3>1, NotRegistered
      <4>2. ASSUME Tells(r.down, "registered") PROVE Held(r)
        <5>1. Safe(s, net'[s]) /\ net'[s] = r
          BY <2>1, <2>3 DEF IInv, WiresOK, Safe
        <5>2. r.down # <<>>
          BY <4>2, OnlyClose
        <5> QED BY <1>2, <2>2, <5>1, <5>2 DEF Safe, Wire, Ears, Held
      <4>3. Known(s) => Held(r)
        BY <1>2, <2>2, KnownFacts DEF Held
      <4> QED BY <2>1, <2>3, <3>1, <4>1, <4>2, <4>3 DEF Kept, Held
    <3>2. CASE y # s
      <4>1. More(net[y], net'[y])
        BY <2>1, <2>4, <3>2
      <4>2. Known(y)
        BY <2>7, <4>1, NotRegistered DEF More
      <4>3. Held(net[y]) /\ Kept(y)
        BY <4>2 DEF QInv, KnownOK, Kept
      <4>4. Held(net'[y]) /\ (Informed(net[y]) => Informed(net'[y]))
        BY <4>1, <4>3 DEF More
      <4>5. CASE waiting = y \/ Informed(net[y])
        <5>1. Informed(net'[y])
          BY <2>1, <2>4, <3>2, <4>3, <4>4, <4>5
        <5> QED BY <4>4, <5>1 DEF Kept, Held, Informed
      <4>6. ASSUME NEW q \in pairs, q[1] = y, Speaks(net[q[2]]) PROVE Kept(y)'
        <5>1. q[2] \in Sockets \ {s} /\ Live(net[q[2]])
          BY <1>3, PairFacts
        <5>2. Speaks(net'[q[2]])
          BY <2>1, <2>4, <4>6, <5>1 DEF More
        <5> QED BY <4>4, <4>6, <5>2 DEF Kept, Held, Speaks
      <4> QED BY <4>3, <4>5, <4>6 DEF Kept
    <3> QED BY <3>1, <3>2
  <2> QED BY <2>6, <2>7, FarQuiet
<1> QED BY <1>5, <1>6

\* A phone asks for the server: it will speak to the socket that waited, or leave.
LEMMA ConnectClientQuiet ==
    ASSUME IInv, QInv, NEW s \in Sockets, net[s].up # <<>>, Head(net[s].up).type = "connect",
           ConnectClient(s), UNCHANGED <<svc, claimed>>
    PROVE  QInv'
<1> DEFINE t == [net[s] EXCEPT !.up = Tail(@)]
           k == Head(net[s].up)
           m == Msg("connected")
           r == SendDown(t, m)
           b == Taken(net, s)
<1>1. Greets(Head(net[s].up))
  BY DEF Greets
<1>2. /\ b = [net EXCEPT ![s] = t]
      /\ net \in [Sockets -> Channel] /\ t \in Channel /\ ShutOK(t)
      /\ t.near = net[s].near /\ t.far = net[s].far /\ t.down = net[s].down
      /\ net[s].near \in {"open", "closing", "closed"}
      /\ Trying(net[s]) => Trying(t)
  BY TakenQuiet
<1>3. /\ net[s].far = "open" /\ Holder[s] \in Phones
      /\ \A q \in pairs : s # q[2]
  <2>1. Greets(k) => net[s].far = "open" /\ \A q \in pairs : s # q[1] /\ s # q[2]
    BY TakenFacts
  <2>2. k.type \in {"connect", "data"} => Holder[s] \in Phones
    BY TakenFacts
  <2>3. Greets(k) /\ k.type = "connect"
    BY <1>1
  <2> HIDE DEF k
  <2> QED BY <2>1, <2>2, <2>3
<1>4. m \in Message /\ m.type = "connected"
  BY MsgFacts
<1>5. CASE waiting = NoSocket
  <2>1. /\ net' = [Taken(net, s) EXCEPT ![s] = CloseFar(SendDown(@, Msg("error")))]
        /\ UNCHANGED <<waiting, pairs>>
    BY <1>5 DEF ConnectClient
  <2>2. "error" \in {"rejected", "error"} /\ Head(net[s].up).type # "register"
    OBVIOUS
  <2> QED BY <1>1, <2>1, <2>2, RefusalQuiet
<1>6. CASE waiting # NoSocket
  <2>1. /\ net' = [net EXCEPT ![s] = r] /\ waiting' = NoSocket
        /\ pairs' = pairs \cup {<<waiting, s>>}
    BY <1>2, <1>6 DEF ConnectClient
  <2> HIDE DEF t, k, m, b
  <2>2. /\ ShutOK(r) /\ More(t, r) /\ (Held(t) => Tells(r.down, "connected"))
        /\ r.up = t.up /\ r.far = t.far /\ r.near = t.near
    BY <1>2, <1>3, <1>4, SendDownMore, SendDownSays
  <2> HIDE DEF r
  <2>3. net'[s] = r /\ \A y \in Sockets \ {s} : net'[y] = net[y]
    BY <1>2, <2>1
  <2>4. Speaks(r)
    <3>1. CASE Held(t)
      BY <2>2, <3>1 DEF Speaks
    <3>2. CASE ~Held(t)
      <4>1. r.near = "closed" /\ Live(r)
        BY <1>2, <1>3, <2>2, <3>2 DEF Held, Live
      <4> QED BY <2>2, <4>1 DEF ShutOK, Speaks
    <3> QED BY <3>1, <3>2
  <2>5. \A y \in Sockets : ShutOK(net'[y]) /\ (Trying(net[y]) => Trying(net'[y]))
    BY <1>2, <2>2, <2>3 DEF More, QInv, ShutsOK
  <2>6. ASSUME NEW y \in Sockets, Known(y)' PROVE Kept(y)'
    <3>1. y # s
      BY <1>3, <2>6, RelayConstants DEF Known, Knows
    <3>2. net'[y] = net[y]
      BY <2>3, <3>1
    <3>3. Known(y)
      BY <2>6, <3>2, NotRegistered
    <3>4. Held(net[y]) /\ Kept(y)
      BY <3>3 DEF QInv, KnownOK, Kept
    <3>5. CASE Informed(net[y])
      BY <3>2, <3>4, <3>5 DEF Kept, Held, Informed
    <3>6. CASE waiting = y
      <4> DEFINE q == <<waiting, s>>
      <4>1. q \in pairs' /\ q[1] = y /\ q[2] = s
        BY <2>1, <3>6
      <4> HIDE DEF q
      <4>2. Speaks(net'[q[2]])
        BY <2>3, <2>4, <4>1
      <4> QED BY <3>2, <3>4, <4>1, <4>2 DEF Kept, Held, Speaks
    <3>7. ASSUME NEW q \in pairs, q[1] = y, Speaks(net[q[2]]) PROVE Kept(y)'
      <4>1. q[2] \in Sockets \ {s} /\ q \in pairs'
        BY <1>3, <2>1, PairFacts
      <4>2. Speaks(net'[q[2]])
        BY <2>3, <3>7, <4>1
      <4> QED BY <3>2, <3>4, <3>7, <4>1, <4>2 DEF Kept, Held, Speaks
    <3> QED BY <3>4, <3>5, <3>6, <3>7 DEF Kept
  <2> QED BY <2>5, <2>6, FarQuiet
<1> QED BY <1>5, <1>6

\* onMessage() and onClose() of the relay.
LEMMA RelayReceivesQuiet ==
    ASSUME IInv, QInv, IInv', NEW s \in Sockets, RelayReceives(s) PROVE QInv'
<1> DEFINE m == Head(net[s].up)
<1>1. net[s].up # <<>> /\ UNCHANGED <<svc, claimed>>
  BY DEF RelayReceives
<1>2. CASE m.type = "close" /\ HandleClose(s) /\ UNCHANGED owner
  BY <1>1, <1>2, HandleCloseQuiet
<1>3. CASE /\ m.type # "close" /\ mode[s] = "paired" /\ Forward(s, m)
           /\ UNCHANGED <<owner, waiting, pairs, mode>>
  BY <1>1, <1>3, ForwardQuiet
<1>4. CASE m.type = "register" /\ RegisterServer(s) /\ UNCHANGED pairs
  BY <1>1, <1>4, RegisterServerQuiet
<1>5. CASE m.type = "connect" /\ ConnectClient(s) /\ UNCHANGED owner
  BY <1>1, <1>5, ConnectClientQuiet
<1>6. CASE /\ mode[s] # "paired" /\ m.type \in {"data", "answer"}
           /\ net' = Taken(net, s) /\ UNCHANGED <<owner, waiting, pairs, mode>>
  <2> DEFINE r == [net[s] EXCEPT !.up = Tail(@)]
  <2>1. /\ Taken(net, s) = [net EXCEPT ![s] = r] /\ ShutOK(r)
        /\ r.near = net[s].near /\ r.down = net[s].down
        /\ Trying(net[s]) => Trying(r)
        /\ net \in [Sockets -> Channel]
    BY <1>1, <1>6, TakenQuiet
  <2>2. \A q \in pairs : q[2] # s
    BY <1>6, PairFacts
  <2> HIDE DEF r
  <2>3. net' = [net EXCEPT ![s] = r] /\ net'[s] = r
    BY <1>6, <2>1
  <2>4. Known(s)' => Known(s) /\ Held(r) /\ (Informed(net[s]) => Informed(r))
    <3> SUFFICES ASSUME Known(s)' PROVE Known(s) /\ Held(r) /\ (Informed(net[s]) => Informed(r))
      OBVIOUS
    <3>1. Known(s)
      BY <1>1, <2>1, <2>3, NotRegistered
    <3> QED BY <2>1, <3>1, KnownFacts DEF Held, Informed
  <2>5. \A w \in Servers : Hopeful(svc'[w], [net EXCEPT ![s] = r])
    BY <1>1, <2>1, HopeElsewhere
  <2> QED BY <1>1, <1>6, <2>1, <2>2, <2>3, <2>4, <2>5, OneSocketStep
<1> QED BY <1>2, <1>3, <1>4, <1>5, <1>6 DEF RelayReceives

-----------------------------------------------------------------------------
(* The second invariant holds, and what follows from it.                   *)

\* What the services and the relay know of each other agrees at the start.
LEMMA InitQInv == Init => QInv
<1> SUFFICES ASSUME Init PROVE QInv
  OBVIOUS
<1>1. /\ net = [s \in Sockets |-> Unused] /\ svc = [v \in Servers |-> Off]
      /\ \A type : ~Tells(Unused.down, type)
  BY OnlyClose DEF Init, Unused
<1>2. ShutsOK
  BY <1>1, UnusedSays DEF ShutsOK
<1>3. Off.waiting = NoSocket /\ Off.connecting = NoSocket /\ ~Off.enabled
  BY DEF Off
<1> HIDE DEF Unused, Off
<1>4. HopeOK
  BY <1>1, <1>3 DEF HopeOK, Hopeful
<1>5. \A s \in Sockets : ~Known(s)
  BY <1>1, <1>3, RelayConstants DEF Known, Knows
<1> QED BY <1>2, <1>4, <1>5 DEF QInv, KnownOK

\* Every step keeps it.
LEMMA NextQInv == IInv /\ QInv /\ IInv' /\ [Next]_vars => QInv'
<1> SUFFICES ASSUME IInv, QInv, IInv', [Next]_vars PROVE QInv'
  OBVIOUS
<1>1. ASSUME NEW v \in Servers, NEW s \in Sockets, ServerReceives(v, s) PROVE QInv'
  BY <1>1, ServerReceivesQuiet
<1>2. ASSUME NEW s \in Sockets, HandlerReceives(s) PROVE QInv'
  BY <1>2, HandlerReceivesQuiet
<1>3. ASSUME NEW s \in Sockets, PhoneReceives(s) PROVE QInv'
  BY <1>3, PhoneReceivesQuiet
<1>4. ASSUME NEW s \in Sockets, RelayReceives(s) PROVE QInv'
  BY <1>4, RelayReceivesQuiet
<1>5. ASSUME NEW s \in Sockets, Open(s) PROVE QInv'
  BY <1>5, OpenQuiet
<1>6. ASSUME NEW v \in Servers, ReconnectTimer(v) PROVE QInv'
  BY <1>6, ReconnectTimerQuiet
<1>7. ASSUME NEW v \in Servers, Start(v) PROVE QInv'
  BY <1>7, StartQuiet
<1>8. ASSUME NEW v \in Servers, Stop(v) PROVE QInv'
  BY <1>8, StopQuiet
<1>9. ASSUME NEW v \in Servers, KeepaliveTimeout(v) PROVE QInv'
  BY <1>9, KeepaliveTimeoutQuiet
<1>10. ASSUME NEW p \in Phones, Visit(p) PROVE QInv'
  BY <1>10, VisitQuiet
<1>11. ASSUME NEW s \in Sockets, Leave(s) PROVE QInv'
  BY <1>11, LeaveQuiet
<1>12. ASSUME NEW s \in Sockets, PongTimeout(s) PROVE QInv'
  BY <1>12, PongTimeoutQuiet
<1>13. ASSUME NEW s \in Sockets, Break(s) PROVE QInv'
  BY <1>13, BreakQuiet
<1>14. CASE RestartRelay
  BY <1>14, RestartQuiet
<1>15. CASE UNCHANGED vars
  <2>1. UNCHANGED <<net, waiting, pairs, svc, claimed>>
    BY <1>15 DEF vars
  <2>2. ShutsOK' /\ HopeOK'
    BY <2>1 DEF QInv, ShutsOK, ShutOK, Held, Live, HopeOK, Hopeful, Trying
  <2>3. KnownOK'
    BY <2>1 DEF QInv, KnownOK, Known, Knows, Kept, Held, Informed, Speaks
  <2> QED BY <2>2, <2>3 DEF QInv
<1> QED BY <1>1, <1>2, <1>3, <1>4, <1>5, <1>6, <1>7, <1>8, <1>9, <1>10, <1>11, <1>12,
           <1>13, <1>14, <1>15 DEF Next, Progress, Receives

\* When nothing is under way and no timer is set, an enabled service is one that the
\* relay can pair with the next phone, on the socket that the service itself takes for
\* the waiting one: whatever phones came, sockets died and restarts happened, in
\* whatever order their messages arrived.
THEOREM QuietReachable == Spec => []QuietIsReachable
<1>1. IInv /\ QInv => QuietIsReachable
  <2> SUFFICES ASSUME IInv, QInv, Quiet, NEW v \in Servers, svc[v].enabled
               PROVE  Listening(v) /\ waiting = svc[v].waiting
    BY DEF QuietIsReachable
  <2> DEFINE s == svc[v].waiting
  <2>1. \A x \in Sockets : /\ net[x].near # "connecting"
                           /\ \A type : ~Tells(net[x].up, type) /\ ~Tells(net[x].down, type)
    BY OnlyClose DEF Quiet
  <2>2. svc[v].connecting # NoSocket => ~Trying(net[svc[v].connecting])
    BY <2>1, KnownFacts DEF Trying
  <2>3. s # NoSocket
    BY <2>2 DEF QInv, HopeOK, Hopeful, Quiet
  <2>4. s \in Sockets /\ Known(s) /\ Holder[s] = v
    BY <2>3, KnownFacts
  <2> HIDE DEF s
  <2>5. Kept(s) /\ ShutOK(net[s])
    BY <2>4 DEF QInv, KnownOK, ShutsOK
  <2>6. waiting = s
    <3>1. ~Informed(net[s])
      BY <2>1, <2>4 DEF Informed
    <3>2. \A q \in pairs : ~Speaks(net[q[2]])
      BY <2>1, PairFacts DEF Speaks
    <3> QED BY <2>5, <3>1, <3>2 DEF Kept
  <2>7. net[s].far = "open" /\ net[s].near = "open"
    BY <2>1, <2>4, <2>5 DEF Kept, ShutOK, Held, Live
  <2> QED BY <2>3, <2>4, <2>6, <2>7 DEF Listening, s
<1>2. Init => IInv /\ QInv
  BY InitIInv, InitQInv
<1>3. (IInv /\ QInv) /\ [Next]_vars => (IInv /\ QInv)'
  BY NextIInv, NextQInv
<1> QED BY <1>1, <1>2, <1>3, PTL DEF Spec
=============================================================================
