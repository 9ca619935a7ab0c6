------------------------- MODULE UdpTransportProofs -------------------------
(***************************************************************************)
(* Proofs about UdpTransport, for any nodes, paths and bounds.             *)
(***************************************************************************)
EXTENDS UdpTransport, TLAPS

\* A Welcome carries a key.
WelcomeHasKey == \A d \in network : d.kind = "Welcome" => d.key \in Key

Inv == TypeOK /\ BlockedHasNoSession /\ RouteHasSession /\ WelcomeHasKey

LEMMA OtherType == \A n \in Node, p \in Path : Other(n, p) \in Node
<1> SUFFICES ASSUME NEW n \in Node, NEW p \in Path PROVE Other(n, p) \in Node
  OBVIOUS
<1>1. PICK x, y \in Node : x # y /\ Ends[p] = {x, y}
  BY TransportAssumption
<1>2. \E m \in Ends[p] : m # n
  BY <1>1
<1> QED
  BY <1>1, <1>2 DEF Other

LEMMA NoSessionIsNone == NoSession \notin Session
  BY TransportAssumption DEF NoSession, Session, Key

LEMMA InitInv == Init => Inv
<1> SUFFICES ASSUME Init PROVE Inv
  OBVIOUS
<1>1. {MaxSessions, MaxFailures, MaxErrors, MaxDoubles} \subseteq Nat
  BY TransportAssumption
<1>2. TypeOK
  BY <1>1 DEF Init, TypeOK
<1> QED
  BY <1>2 DEF Init, Inv, BlockedHasNoSession, RouteHasSession, WelcomeHasKey, Has

\* Sending a datagram, losing one and answering one leave the sessions alone.
LEMMA NetworkStep ==
  ASSUME Inv, UNCHANGED <<node, bounds>>, doubles' \in 0..MaxDoubles,
         NEW ds \in SUBSET Datagram, network' \subseteq network \cup ds,
         \A d \in ds : d.kind # "Welcome"
  PROVE  Inv'
  BY DEF Inv, TypeOK, BlockedHasNoSession, RouteHasSession, WelcomeHasKey, Has, node, bounds

\* What a turn of the read loop does to the network.
LEMMA TakeStep ==
  ASSUME Inv, NEW n, NEW d, NEW ds \in SUBSET Datagram, Take(n, d, ds)
  PROVE  network' \subseteq network \cup ds /\ doubles' \in 0..MaxDoubles
<1>1. doubles \in 0..MaxDoubles /\ MaxDoubles \in Nat
  BY TransportAssumption DEF Inv, TypeOK
<1> QED
  BY <1>1 DEF Take

LEMMA UnsignedType ==
  ASSUME NEW n \in Node, NEW p \in Path, NEW k \in Kind, NEW key \in Key \cup {0}
  PROVE  Unsigned(k, p, Other(n, p)) \in Datagram /\ Keyed(k, p, Other(n, p), key) \in Datagram
  BY OtherType DEF Unsigned, Keyed, Datagram

LEMMA SessionKey ==
  ASSUME Inv, NEW n \in Node, NEW p \in Path
  PROVE  session[n][p].key \in Key \cup {0} /\ route[n][p].key \in Key \cup {0}
  BY DEF Inv, TypeOK, Session, NoSession

-----------------------------------------------------------------------------
\* The part of Inv about sessions and their entries, as the steps change it.
SessionsOK ==
  /\ session \in [Node -> [Path -> Session \cup {NoSession}]]
  /\ blocked \in [Node -> [Path -> {"no", "recent", "old"}]]
  /\ route \in [Node -> [Path -> Session \cup {NoSession}]]
  /\ BlockedHasNoSession /\ RouteHasSession

\* The part about the read loop, the timer, the network and the bounds.
RestOK ==
  /\ reading \in [Node -> {Ready, Stopped} \cup {Welcoming(p, k) : p \in Path, k \in Key}]
  /\ ticking \in [Node -> BOOLEAN] /\ network \subseteq Datagram
  /\ made \in 0..MaxSessions /\ failures \in 0..MaxFailures
  /\ errors \in 0..MaxErrors /\ doubles \in 0..MaxDoubles
  /\ WelcomeHasKey

LEMMA InvParts == Inv <=> SessionsOK /\ RestOK
  BY DEF Inv, TypeOK, SessionsOK, RestOK

LEMMA InvPartsNext == Inv' <=> SessionsOK' /\ RestOK'
  BY DEF Inv, TypeOK, SessionsOK, RestOK

\* A dropped session takes its entry with it.
LEMMA DropStep ==
  ASSUME Inv, NEW n \in Node, NEW p \in Path, Drop(n, p)
  PROVE  SessionsOK'
  BY DEF Inv, TypeOK, SessionsOK, Drop, Has, BlockedHasNoSession, RouteHasSession

\* The flag of a blocked address goes; the sessions stay.
LEMMA UnblockStep ==
  ASSUME Inv, NEW n \in Node, NEW p \in Path, Unblock(n, p), UNCHANGED <<session, route>>
  PROVE  SessionsOK'
  BY DEF Inv, TypeOK, SessionsOK, Unblock, Has, BlockedHasNoSession, RouteHasSession

\* A new session gets an entry, or keeps the one of the session before.
LEMMA AddStep ==
  ASSUME Inv, NEW n \in Node, NEW p \in Path, NEW s \in Session,
         session' = [session EXCEPT ![n][p] = s], Unblock(n, p), AddRoute(n, p, s)
  PROVE  SessionsOK'
<1>1. s # NoSession
  BY NoSessionIsNone
<1> QED
  BY <1>1 DEF Inv, TypeOK, SessionsOK, Unblock, AddRoute, Has, BlockedHasNoSession, RouteHasSession

\* A turn of the loop that answers with no Welcome and lets the bounds be.
LEMMA TurnRest ==
  ASSUME Inv, NEW n, NEW d, NEW ds \in SUBSET Datagram, Take(n, d, ds),
         \A x \in ds : x.kind # "Welcome",
         UNCHANGED ticking,
         reading' \in [Node -> {Ready, Stopped} \cup {Welcoming(p, k) : p \in Path, k \in Key}],
         made' \in 0..MaxSessions, failures' \in 0..MaxFailures, errors' \in 0..MaxErrors
  PROVE  RestOK'
<1>1. network' \subseteq network \cup ds /\ doubles' \in 0..MaxDoubles
  BY TakeStep
<1> QED
  BY <1>1 DEF Inv, TypeOK, RestOK, WelcomeHasKey

LEMMA TakenIsDatagram ==
  ASSUME Inv, NEW n, NEW d, NEW ds, Take(n, d, ds)
  PROVE  d \in Datagram /\ d \in network /\ n \in Node /\ d.path \in Path
  BY DEF Inv, TypeOK, Take, Datagram

LEMMA RefusalType ==
  ASSUME NEW n \in Node, NEW d \in Datagram
  PROVE  {Refusal(n, d)} \in SUBSET Datagram /\ Refusal(n, d).kind # "Welcome"
<1>1. "Failed" \in Kind /\ 0 \in Key \cup {0} /\ d.path \in Path
  BY DEF Kind, Datagram
<1> QED
  BY <1>1, OtherType DEF Refusal, Unsigned, Datagram

-----------------------------------------------------------------------------
\* The steps, one lemma for each that changes more than the network.
LEMMA NoneErased == Inv => \A n \in Node, p \in Path : Erased(n, p) = {}
  BY DEF Inv, BlockedHasNoSession, Erased, Twins

LEMMA NewKey ==
  ASSUME Inv, made # MaxSessions
  PROVE  New \in Key /\ New \in 0..MaxSessions
<1>1. made \in 0..MaxSessions /\ MaxSessions \in Nat
  BY TransportAssumption DEF Inv, TypeOK
<1> QED
  BY <1>1 DEF New, Key

LEMMA TakeHandshakeInv ==
  ASSUME Inv, NEW n, NEW d, TakeHandshake(n, d)
  PROVE  Inv'
<1> DEFINE p == d.path
           s == [key |-> New, object |-> New]
<1>1. Take(n, d, {})
  BY DEF TakeHandshake
<1>2. n \in Node /\ p \in Path
  BY <1>1, TakenIsDatagram
<1>3. CASE Has(n, p) \/ IsDuplicate(n, p) \/ made = MaxSessions
  <2>1. Unblock(n, p) /\ UNCHANGED <<session, route, reading, ticking, bounds>>
    BY <1>3 DEF TakeHandshake
  <2>2. SessionsOK'
    BY <1>2, <2>1, UnblockStep
  <2>3. UNCHANGED ticking
        /\ reading' \in [Node -> {Ready, Stopped} \cup {Welcoming(q, k) : q \in Path, k \in Key}]
        /\ made' \in 0..MaxSessions /\ failures' \in 0..MaxFailures /\ errors' \in 0..MaxErrors
    BY <2>1 DEF Inv, TypeOK, bounds
  <2>4. RestOK'
    BY <1>1, <2>3, TurnRest
  <2> QED
    BY <2>2, <2>4, InvPartsNext
<1>4. CASE ~ (Has(n, p) \/ IsDuplicate(n, p) \/ made = MaxSessions)
  <2>1. /\ session' = [session EXCEPT ![n] =
               [q \in Path |-> IF q = p THEN s
                               ELSE IF q \in Erased(n, p) THEN NoSession ELSE @[q]]]
        /\ blocked' = [blocked EXCEPT ![n] =
               [q \in Path |-> IF q = p \/ q \in Erased(n, p) THEN "no" ELSE @[q]]]
        /\ AddRoute(n, p, s)
        /\ reading' = [reading EXCEPT ![n] = Welcoming(p, s.key)]
        /\ made' = New
        /\ UNCHANGED <<ticking, failures, errors>>
    BY <1>4 DEF TakeHandshake
  <2>2. Erased(n, p) = {}
    BY <1>2, NoneErased
  <2>3. New \in Key /\ New \in 0..MaxSessions
    BY <1>4, NewKey
  <2>4. s \in Session
    BY <2>3 DEF Session
  <2>5. session' = [session EXCEPT ![n][p] = s] /\ Unblock(n, p)
    <3> HIDE DEF p, s
    <3>1. session[n] \in [Path -> Session \cup {NoSession}]
          /\ blocked[n] \in [Path -> {"no", "recent", "old"}]
      BY <1>2 DEF Inv, TypeOK
    <3>2. /\ [q \in Path |-> IF q = p THEN s
                            ELSE IF q \in Erased(n, p) THEN NoSession ELSE session[n][q]]
             = [session[n] EXCEPT ![p] = s]
          /\ [q \in Path |-> IF q = p \/ q \in Erased(n, p) THEN "no" ELSE blocked[n][q]]
             = [blocked[n] EXCEPT ![p] = "no"]
      BY <1>2, <2>2, <3>1
    <3>3. /\ session' = [session EXCEPT ![n] = [session[n] EXCEPT ![p] = s]]
          /\ blocked' = [blocked EXCEPT ![n] = [blocked[n] EXCEPT ![p] = "no"]]
      BY <1>2, <2>1, <3>2 DEF Inv, TypeOK
    <3> QED
      BY <3>3 DEF Unblock
  <2>6. SessionsOK'
    BY <1>2, <2>1, <2>4, <2>5, AddStep
  <2>7. reading' \in [Node -> {Ready, Stopped} \cup {Welcoming(q, k) : q \in Path, k \in Key}]
    BY <1>2, <2>1, <2>3 DEF Inv, TypeOK
  <2>8. made' \in 0..MaxSessions /\ failures' \in 0..MaxFailures /\ errors' \in 0..MaxErrors
    BY <2>1, <2>3 DEF Inv, TypeOK
  <2>9. RestOK'
    BY <1>1, <2>1, <2>7, <2>8, TurnRest
  <2> QED
    BY <2>6, <2>9, InvPartsNext
<1> QED
  BY <1>3, <1>4

LEMMA TakeWelcomeInv ==
  ASSUME Inv, NEW n, NEW d, TakeWelcome(n, d)
  PROVE  Inv'
<1> DEFINE p == d.path
           s == [key |-> d.key, object |-> New]
<1>1. Take(n, d, {}) /\ Unblock(n, p) /\ d.kind = "Welcome"
  BY DEF TakeWelcome
<1>2. n \in Node /\ p \in Path /\ d \in network
  BY <1>1, TakenIsDatagram
<1>3. SessionsOK' /\ made' \in 0..MaxSessions
  <2>1. CASE made = MaxSessions
    <3>1. UNCHANGED <<session, route, reading, ticking, bounds>>
      BY <2>1 DEF TakeWelcome
    <3> QED
      BY <1>1, <1>2, <3>1, UnblockStep DEF bounds, Inv, TypeOK
  <2>2. CASE made # MaxSessions
    <3>1. session' = [session EXCEPT ![n][p] = s] /\ AddRoute(n, p, s) /\ made' = New
      BY <2>2 DEF TakeWelcome
    <3>2. New \in Key /\ New \in 0..MaxSessions
      BY <2>2, NewKey
    <3>3. s \in Session
      BY <1>1, <1>2, <3>2 DEF Session, Inv, WelcomeHasKey
    <3> QED
      BY <1>1, <1>2, <3>1, <3>2, <3>3, AddStep
  <2> QED
    BY <2>1, <2>2
<1>4. UNCHANGED <<ticking, failures>>
      /\ (UNCHANGED <<reading, errors>>
          \/ (errors < MaxErrors /\ errors' = errors + 1 /\ reading' = [reading EXCEPT ![n] = Stopped]))
  BY DEF TakeWelcome, bounds
<1>5. errors' \in 0..MaxErrors
  <2>1. errors \in 0..MaxErrors /\ MaxErrors \in Nat
    BY TransportAssumption DEF Inv, TypeOK
  <2> QED
    BY <1>4, <2>1
<1>6. reading' \in [Node -> {Ready, Stopped} \cup {Welcoming(q, k) : q \in Path, k \in Key}]
  BY <1>4 DEF Inv, TypeOK
<1>7. failures' \in 0..MaxFailures
  BY <1>4 DEF Inv, TypeOK
<1>8. RestOK'
  BY <1>1, <1>3, <1>4, <1>5, <1>6, <1>7, TurnRest
<1> QED
  BY <1>3, <1>8, InvPartsNext

LEMMA TakeFailedInv ==
  ASSUME Inv, NEW n, NEW d, TakeFailed(n, d)
  PROVE  Inv'
<1>1. Take(n, d, {}) /\ Drop(n, d.path) /\ UNCHANGED <<reading, ticking, bounds>>
  BY DEF TakeFailed
<1>2. SessionsOK'
  BY <1>1, TakenIsDatagram, DropStep
<1>3. /\ reading' \in [Node -> {Ready, Stopped} \cup {Welcoming(q, k) : q \in Path, k \in Key}]
      /\ made' \in 0..MaxSessions /\ failures' \in 0..MaxFailures /\ errors' \in 0..MaxErrors
  BY <1>1 DEF Inv, TypeOK, bounds
<1>4. RestOK'
  BY <1>1, <1>3, TurnRest
<1> QED
  BY <1>2, <1>4, InvPartsNext

LEMMA RefuseInv ==
  ASSUME Inv, NEW n, NEW d, Refuse(n, d), failures' \in 0..MaxFailures
  PROVE  Inv'
<1>1. Drop(n, d.path) /\ UNCHANGED <<ticking, made>>
  BY DEF Refuse
<1>2. PICK ds : Take(n, d, ds) /\ ds \in {{Refusal(n, d)}, {}}
  BY DEF Refuse
<1>3. n \in Node /\ d \in Datagram /\ d.path \in Path
  BY <1>2, TakenIsDatagram
<1>4. SessionsOK'
  BY <1>1, <1>3, DropStep
<1>5. ds \in SUBSET Datagram /\ \A x \in ds : x.kind # "Welcome"
  BY <1>2, <1>3, RefusalType
<1>6. reading' \in [Node -> {Ready, Stopped} \cup {Welcoming(q, k) : q \in Path, k \in Key}]
  BY DEF Refuse, Inv, TypeOK
<1>7. errors' \in 0..MaxErrors
  <2>1. errors \in 0..MaxErrors /\ MaxErrors \in Nat
    BY TransportAssumption DEF Inv, TypeOK
  <2> QED
    BY <2>1 DEF Refuse
<1>8. made' \in 0..MaxSessions
  BY <1>1 DEF Inv, TypeOK
<1>9. RestOK'
  BY <1>1, <1>2, <1>5, <1>6, <1>7, <1>8, TurnRest
<1> QED
  BY <1>4, <1>9, InvPartsNext

\* Of the steps of the timer, one can fail; that changes no session.
LEMMA TimerFailsInv ==
  ASSUME Inv, NEW n \in Node, TimerFails(n)
  PROVE  Inv'
<1>1. errors' \in 0..MaxErrors
  <2>1. errors \in 0..MaxErrors /\ MaxErrors \in Nat
    BY TransportAssumption DEF Inv, TypeOK
  <2> QED
    BY <2>1 DEF TimerFails
<1>2. /\ ticking' \in [Node -> BOOLEAN]
      /\ UNCHANGED <<session, blocked, route, reading, net, made, failures>>
  BY DEF TimerFails, Inv, TypeOK
<1> QED
  BY <1>1, <1>2 DEF Inv, TypeOK, BlockedHasNoSession, RouteHasSession, WelcomeHasKey, Has, net

LEMMA OverwriteInv ==
  ASSUME Inv, NEW n \in Node, NEW p \in Path, Overwrite(n, p)
  PROVE  Inv'
<1>1. route' = [route EXCEPT ![n][p] = NoSession]
      /\ UNCHANGED <<session, blocked, reading, ticking, net, bounds>>
  BY DEF Overwrite
<1> QED
  BY <1>1 DEF Inv, TypeOK, BlockedHasNoSession, RouteHasSession, WelcomeHasKey, Has, net, bounds

LEMMA MinuteInv ==
  ASSUME Inv, NEW n \in Node, NEW p \in Path, Minute(n, p)
  PROVE  Inv'
  BY DEF Minute, Inv, TypeOK, BlockedHasNoSession, RouteHasSession, WelcomeHasKey, Has, net, bounds

\* The Welcome carries the key of the session just made.
LEMMA WriteWelcomeInv ==
  ASSUME Inv, NEW n \in Node, WriteWelcome(n)
  PROVE  Inv'
<1> DEFINE r == reading[n]
           w == Keyed("Welcome", r.path, Other(n, r.path), r.key)
<1>1. r.path \in Path /\ r.key \in Key
  <2>1. r \in {Ready, Stopped} \cup {Welcoming(q, k) : q \in Path, k \in Key}
    BY DEF Inv, TypeOK
  <2>2. r.step = "welcoming"
    BY DEF WriteWelcome
  <2> QED
    BY <2>1, <2>2 DEF Ready, Stopped, Welcoming
<1>2. w \in Datagram
  BY <1>1, UnsignedType DEF Kind
<1>3. network' \subseteq network \cup {w}
  BY DEF WriteWelcome
<1>4. w.kind = "Welcome" => w.key \in Key
  BY <1>1 DEF Keyed
<1>5. errors' \in 0..MaxErrors
  <2>1. errors \in 0..MaxErrors /\ MaxErrors \in Nat
    BY TransportAssumption DEF Inv, TypeOK
  <2> QED
    BY <2>1 DEF WriteWelcome
<1>6. reading' \in [Node -> {Ready, Stopped} \cup {Welcoming(q, k) : q \in Path, k \in Key}]
  BY DEF WriteWelcome, Inv, TypeOK
<1>7. UNCHANGED <<session, blocked, route, ticking, made, failures, doubles>>
  BY DEF WriteWelcome
<1> HIDE DEF w, r
<1>8. TypeOK'
  BY <1>2, <1>3, <1>5, <1>6, <1>7 DEF Inv, TypeOK
<1>9. WelcomeHasKey'
  BY <1>3, <1>4 DEF Inv, WelcomeHasKey
<1> QED
  BY <1>7, <1>8, <1>9 DEF Inv, BlockedHasNoSession, RouteHasSession, Has

\* A datagram that a session takes: the entry is made again if it has been
\* overwritten.
LEMMA TakeDataInv ==
  ASSUME Inv, NEW n, NEW d, TakeData(n, d)
  PROVE  Inv'
<1> DEFINE p == d.path
           ds == IF d.kind = "Ping"
                 THEN {Keyed("Pong", p, Other(n, p), session[n][p].key)} ELSE {}
<1>1. Take(n, d, ds) /\ Has(n, p) /\ UNCHANGED <<session, blocked, reading, ticking, bounds>>
      /\ (UNCHANGED route \/ AddRoute(n, p, session[n][p]))
  BY DEF TakeData
<1>2. n \in Node /\ d \in Datagram /\ p \in Path
  BY <1>1, TakenIsDatagram
<1>3. ds \in SUBSET Datagram /\ \A x \in ds : x.kind # "Welcome"
  <2>1. Keyed("Pong", p, Other(n, p), session[n][p].key) \in Datagram
    BY <1>2, SessionKey, UnsignedType DEF Kind
  <2> QED
    BY <2>1 DEF Keyed
<1>4. SessionsOK'
  <2>1. session[n][p] \in Session \cup {NoSession}
    BY <1>2 DEF Inv, TypeOK
  <2>2. CASE UNCHANGED route
    BY <1>1, <2>2 DEF Inv, TypeOK, SessionsOK, BlockedHasNoSession, RouteHasSession, Has
  <2>3. CASE AddRoute(n, p, session[n][p])
    <3>1. route' \in [Node -> [Path -> Session \cup {NoSession}]]
      BY <1>2, <2>1, <2>3 DEF AddRoute, Inv, TypeOK
    <3>2. \A m \in Node, q \in Path :
            route'[m][q] = route[m][q] \/ (m = n /\ q = p)
      BY <2>3 DEF AddRoute, Inv, TypeOK
    <3>3. RouteHasSession'
      BY <1>1, <3>2 DEF Inv, RouteHasSession, Has
    <3> QED
      BY <1>1, <3>1, <3>3 DEF Inv, TypeOK, SessionsOK, BlockedHasNoSession, Has
  <2> QED
    BY <1>1, <2>2, <2>3
<1> HIDE DEF ds
<1>5. UNCHANGED ticking
      /\ reading' \in [Node -> {Ready, Stopped} \cup {Welcoming(q, k) : q \in Path, k \in Key}]
      /\ made' \in 0..MaxSessions /\ failures' \in 0..MaxFailures /\ errors' \in 0..MaxErrors
  BY <1>1 DEF Inv, TypeOK, bounds
<1>6. RestOK'
  BY <1>1, <1>3, <1>5, TurnRest
<1> QED
  BY <1>4, <1>6, InvPartsNext

\* What is sent from the timer.
LEMMA EmitInv ==
  ASSUME Inv, NEW n \in Node, NEW p \in Path, NEW x \in Datagram, x.kind # "Welcome",
         Emit(n, p, x)
  PROVE  Inv'
<1>1. UNCHANGED <<node, bounds>> /\ network' \subseteq network \cup {x}
      /\ doubles' \in 0..MaxDoubles
  BY DEF Emit, Inv, TypeOK
<1>2. {x} \in SUBSET Datagram /\ \A y \in {x} : y.kind # "Welcome"
  OBVIOUS
<1> QED
  BY <1>1, <1>2, NetworkStep

LEMMA TimerInv ==
  ASSUME Inv, NEW n \in Node, NEW p \in Path,
         TryHandshake(n, p) \/ BroadcastHandshake(n, p) \/ OnTimer(n, p) \/ PingRoute(n, p)
  PROVE  Inv'
<1> DEFINE h == Unsigned("Handshake", p, Other(n, p))
           a == Unsigned("Ack", p, Other(n, p))
           g == Keyed("Ping", p, Other(n, p), route[n][p].key)
<1>1. h \in Datagram /\ a \in Datagram /\ g \in Datagram
  BY SessionKey, UnsignedType DEF Kind
<1>2. h.kind # "Welcome" /\ a.kind # "Welcome" /\ g.kind # "Welcome"
  BY DEF Unsigned, Keyed
<1>3. Emit(n, p, h) \/ Emit(n, p, a) \/ Emit(n, p, g)
  BY DEF TryHandshake, BroadcastHandshake, OnTimer, PingRoute
<1> HIDE DEF h, a, g
<1> QED
  BY <1>1, <1>2, <1>3, EmitInv

LEMMA LoseInv ==
  ASSUME Inv, NEW d, Lose(d)
  PROVE  Inv'
<1>1. UNCHANGED <<node, bounds>> /\ network' \subseteq network \cup {}
      /\ doubles' \in 0..MaxDoubles
  BY DEF Lose, Inv, TypeOK
<1>2. {} \in SUBSET Datagram
  OBVIOUS
<1> QED
  BY <1>1, <1>2, NetworkStep

LEMMA TakeBlockedInv ==
  ASSUME Inv, NEW n, NEW d, TakeBlocked(n, d)
  PROVE  Inv'
<1>1. Take(n, d, BlockedAnswer(n, d)) /\ UNCHANGED <<node, bounds>>
  BY DEF TakeBlocked
<1>2. n \in Node /\ d \in Datagram
  BY <1>1, TakenIsDatagram
<1>3. BlockedAnswer(n, d) \in SUBSET Datagram
      /\ \A x \in BlockedAnswer(n, d) : x.kind # "Welcome"
  BY <1>2, RefusalType DEF BlockedAnswer
<1>4. network' \subseteq network \cup BlockedAnswer(n, d) /\ doubles' \in 0..MaxDoubles
  BY <1>1, <1>3, TakeStep
<1> QED
  BY <1>1, <1>3, <1>4, NetworkStep

LEMMA ReceiveInv ==
  ASSUME Inv, NEW n, NEW d, Receive(n, d)
  PROVE  Inv'
<1>1. TakeUnknown(n, d) \/ TakeInvalid(n, d) => Refuse(n, d) /\ failures' \in 0..MaxFailures
  BY DEF TakeUnknown, TakeInvalid, Inv, TypeOK
<1>2. TakeTooLate(n, d) => Refuse(n, d) /\ failures' \in 0..MaxFailures
  <2>1. failures \in 0..MaxFailures /\ MaxFailures \in Nat
    BY TransportAssumption DEF Inv, TypeOK
  <2> QED
    BY <2>1 DEF TakeTooLate
<1> QED
  BY <1>1, <1>2, TakeBlockedInv, TakeHandshakeInv, TakeWelcomeInv, TakeFailedInv,
     TakeDataInv, RefuseInv DEF Receive

LEMMA NextInv == Inv /\ [Next]_vars => Inv'
<1> SUFFICES ASSUME Inv, [Next]_vars PROVE Inv'
  OBVIOUS
<1>1. CASE \E n \in Node, p \in Path :
             \/ TryHandshake(n, p) \/ BroadcastHandshake(n, p) \/ OnTimer(n, p)
             \/ PingRoute(n, p) \/ Overwrite(n, p) \/ Minute(n, p)
  BY <1>1, TimerInv, OverwriteInv, MinuteInv
<1>2. CASE \E n \in Node : WriteWelcome(n) \/ TimerFails(n)
  BY <1>2, WriteWelcomeInv, TimerFailsInv
<1>3. CASE Passing
  BY <1>3, LoseInv, ReceiveInv DEF Passing
<1>4. CASE UNCHANGED vars
  BY <1>4 DEF vars, node, net, bounds, Inv, TypeOK, BlockedHasNoSession, RouteHasSession,
     WelcomeHasKey, Has
<1> QED
  BY <1>1, <1>2, <1>3, <1>4 DEF Next

THEOREM SpecInv == Spec => []Inv
  BY InitInv, NextInv, PTL DEF Spec

\* The types of sessions_, blocked_, the routing table and the datagrams, for
\* any network of nodes and paths.
THEOREM TransportTypeCorrect == Spec => []TypeOK
<1>1. Inv => TypeOK
  BY DEF Inv
<1> QED
  BY <1>1, SpecInv, PTL

\* An address that udp_transport has blocked has no session, so continue_read
\* never erases an entry of sessions_ it still holds.
THEOREM BlockedAddressHasNoSession == Spec => []BlockedHasNoSession
<1>1. Inv => BlockedHasNoSession
  BY DEF Inv
<1> QED
  BY <1>1, SpecInv, PTL

\* No entry of dht_route outlives the session of its address, over every
\* replacement by a Welcome, every drop and every entry overwritten.
THEOREM NoEntryOutlivesSession == Spec => []RouteHasSession
<1>1. Inv => RouteHasSession
  BY DEF Inv
<1> QED
  BY <1>1, SpecInv, PTL

-----------------------------------------------------------------------------
\* One accepted session with a partner.  The sessions a Welcome makes have the
\* key of an older one, so they are not taken for accepted ones; the accepted
\* ones all come through the search for duplicates.
Fine(d) == d.to \in Ends[d.path]
NetworkFine == \A d \in network : Fine(d)
ReadingFine == \A n \in Node : reading[n].step = "welcoming" => n \in Ends[reading[n].path]
AtEnds == \A n \in Node, p \in Path : Has(n, p) => n \in Ends[p]

OldWelcomes == \A d \in network : d.kind = "Welcome" => d.key <= made
OldReading == \A n \in Node : reading[n].step = "welcoming" => reading[n].key <= made

PartnerInv ==
  /\ Inv /\ NetworkFine /\ ReadingFine /\ AtEnds /\ OldWelcomes /\ OldReading
  /\ OneAcceptedPerPartner

LEMMA OtherEnd ==
  ASSUME NEW p \in Path, NEW n \in Ends[p]
  PROVE  Other(n, p) \in Ends[p]
<1>1. PICK x, y \in Node : x # y /\ Ends[p] = {x, y}
  BY TransportAssumption
<1>2. \E z \in Ends[p] : z # n
  BY <1>1
<1> QED
  BY <1>2 DEF Other

\* What a node sends to the other end of a path.
LEMMA SentFine ==
  ASSUME NEW p \in Path, NEW n \in Ends[p], NEW k, NEW key
  PROVE  Fine(Unsigned(k, p, Other(n, p))) /\ Fine(Keyed(k, p, Other(n, p), key))
  BY OtherEnd DEF Fine, Unsigned, Keyed

LEMMA MadeGrows == Inv /\ Next => made \in Nat /\ made' \in Nat /\ made <= made'
<1> SUFFICES ASSUME Inv, Next PROVE made \in Nat /\ made' \in Nat /\ made <= made'
  OBVIOUS
<1>1. made \in Nat
  BY TransportAssumption DEF Inv, TypeOK
<1>2. made' = made \/ made' = made + 1
  BY DEF Next, Passing, TryHandshake, BroadcastHandshake, OnTimer, PingRoute, Emit, Overwrite,
     Minute, WriteWelcome, TimerFails, Lose, Receive, TakeBlocked, TakeHandshake, New,
     TakeWelcome, TakeFailed, TakeData, TakeUnknown, TakeInvalid, TakeTooLate, Refuse, bounds
<1> QED
  BY <1>1, <1>2

\* The network gets only what is fine and no new Welcome, whoever takes a
\* datagram.
Plain(ds) == \A x \in ds : Fine(x) /\ x.kind # "Welcome"

LEMMA PlainNetwork ==
  ASSUME PartnerInv, Next, NEW ds, Plain(ds), network' \subseteq network \cup ds
  PROVE  NetworkFine' /\ OldWelcomes'
<1>1. NetworkFine'
  BY DEF PartnerInv, NetworkFine, Plain, Fine
<1>2. made \in Nat /\ made' \in Nat /\ made <= made'
  BY MadeGrows DEF PartnerInv
<1>3. \A d \in network : d.kind = "Welcome" => d.key \in Nat /\ d.key <= made
  BY DEF PartnerInv, OldWelcomes, Inv, WelcomeHasKey, Key
<1>4. OldWelcomes'
  <2> SUFFICES ASSUME NEW d \in network', d.kind = "Welcome" PROVE d.key <= made'
    BY DEF OldWelcomes
  <2>1. d \in network
    BY DEF Plain
  <2>2. d.key \in Nat /\ d.key <= made
    BY <1>3, <2>1
  <2> QED
    BY <1>2, <2>2
<1> QED
  BY <1>1, <1>4

LEMMA TakenFine ==
  ASSUME PartnerInv, NEW n, NEW d, NEW ds, Take(n, d, ds)
  PROVE  d \in Datagram /\ d \in network /\ n \in Node /\ d.path \in Path
         /\ n \in Ends[d.path] /\ Fine(Refusal(n, d))
<1>1. d \in Datagram /\ d \in network /\ n \in Node /\ d.path \in Path
  BY TakenIsDatagram DEF PartnerInv
<1>2. n \in Ends[d.path]
  BY DEF Take, PartnerInv, NetworkFine, Fine
<1> QED
  BY <1>1, <1>2, SentFine DEF Refusal

LEMMA NextNetworkFine == PartnerInv /\ Next => NetworkFine' /\ OldWelcomes'
<1> SUFFICES ASSUME PartnerInv, Next PROVE NetworkFine' /\ OldWelcomes'
  OBVIOUS
<1>1. ASSUME NEW n \in Node, NEW p \in Path,
             TryHandshake(n, p) \/ BroadcastHandshake(n, p) \/ OnTimer(n, p) \/ PingRoute(n, p)
      PROVE  NetworkFine' /\ OldWelcomes'
  <2> DEFINE h == Unsigned("Handshake", p, Other(n, p))
             a == Unsigned("Ack", p, Other(n, p))
             g == Keyed("Ping", p, Other(n, p), route[n][p].key)
  <2>1. n \in Ends[p]
        /\ (network' = network \cup {h} \/ network' = network \cup {a}
            \/ network' = network \cup {g})
    BY <1>1 DEF TryHandshake, BroadcastHandshake, OnTimer, PingRoute, Emit
  <2>2. Fine(h) /\ Fine(a) /\ Fine(g)
    BY <2>1, SentFine
  <2>3. h.kind # "Welcome" /\ a.kind # "Welcome" /\ g.kind # "Welcome"
    BY DEF Unsigned, Keyed
  <2> HIDE DEF h, a, g
  <2>4. Plain({h}) /\ Plain({a}) /\ Plain({g})
    BY <2>2, <2>3 DEF Plain
  <2> QED
    BY <2>1, <2>4, PlainNetwork
<1>2. ASSUME NEW n \in Node, WriteWelcome(n) PROVE NetworkFine' /\ OldWelcomes'
  <2> DEFINE r == reading[n]
             w == Keyed("Welcome", r.path, Other(n, r.path), r.key)
  <2>1. r.step = "welcoming" /\ network' \subseteq network \cup {w} /\ made' = made
    BY <1>2 DEF WriteWelcome
  <2>2. r.path \in Path
    <3>1. r \in {Ready, Stopped} \cup {Welcoming(q, k) : q \in Path, k \in Key}
      BY DEF PartnerInv, Inv, TypeOK
    <3> QED
      BY <2>1, <3>1 DEF Ready, Stopped, Welcoming
  <2>3. n \in Ends[r.path] /\ r.key <= made
    BY <2>1 DEF PartnerInv, ReadingFine, OldReading
  <2>4. Fine(w) /\ w.key <= made
    BY <2>2, <2>3, SentFine DEF Keyed
  <2> HIDE DEF r, w
  <2>5. NetworkFine'
    BY <2>1, <2>4 DEF PartnerInv, NetworkFine, Fine
  <2>6. OldWelcomes'
    BY <2>1, <2>4 DEF PartnerInv, OldWelcomes
  <2> QED
    BY <2>5, <2>6
<1>3. ASSUME NEW d, NEW n, Receive(n, d) PROVE NetworkFine' /\ OldWelcomes'
  <2> DEFINE pong == Keyed("Pong", d.path, Other(n, d.path), session[n][d.path].key)
  <2>1. PICK ds \in {{}, {Refusal(n, d)}, {pong}} : Take(n, d, ds)
    BY <1>3 DEF Receive, TakeBlocked, BlockedAnswer, TakeHandshake, TakeWelcome, TakeFailed,
       TakeData, TakeUnknown, TakeInvalid, TakeTooLate, Refuse
  <2>2. Fine(Refusal(n, d)) /\ Fine(pong)
    BY <2>1, TakenFine, SentFine
  <2>3. Refusal(n, d).kind # "Welcome" /\ pong.kind # "Welcome"
    BY DEF Refusal, Unsigned, Keyed
  <2> HIDE DEF pong
  <2>4. Plain(ds)
    BY <2>2, <2>3 DEF Plain
  <2>5. network' \subseteq network \cup ds
    BY <2>1 DEF Take
  <2> QED
    BY <2>4, <2>5, PlainNetwork
<1>4. ASSUME network' \subseteq network PROVE NetworkFine' /\ OldWelcomes'
  <2>1. Plain({}) /\ network' \subseteq network \cup {}
    BY <1>4 DEF Plain
  <2> QED
    BY <2>1, PlainNetwork
<1> QED
  BY <1>1, <1>2, <1>3, <1>4 DEF Next, Passing, Overwrite, Minute, TimerFails, Lose, net

LEMMA NextReadingFine == PartnerInv /\ Next => ReadingFine' /\ OldReading'
<1> SUFFICES ASSUME PartnerInv, Next PROVE ReadingFine' /\ OldReading'
  OBVIOUS
<1>1. reading \in [Node -> {Ready, Stopped} \cup {Welcoming(q, k) : q \in Path, k \in Key}]
  BY DEF PartnerInv, Inv, TypeOK
<1>2. made \in Nat /\ made' \in Nat /\ made <= made'
  BY MadeGrows DEF PartnerInv
<1>3. \A m \in Node : reading[m].step = "welcoming" =>
        m \in Ends[reading[m].path] /\ reading[m].key <= made'
  <2> SUFFICES ASSUME NEW m \in Node, reading[m].step = "welcoming"
               PROVE  m \in Ends[reading[m].path] /\ reading[m].key <= made'
    OBVIOUS
  <2>1. m \in Ends[reading[m].path] /\ reading[m].key <= made
    BY DEF PartnerInv, ReadingFine, OldReading
  <2>2. reading[m] \in {Ready, Stopped} \cup {Welcoming(q, k) : q \in Path, k \in Key}
    BY <1>1
  <2>3. reading[m].key \in Nat
    BY <2>2 DEF Ready, Stopped, Welcoming, Key
  <2> QED
    BY <1>2, <2>1, <2>3
<1>4. ASSUME NEW n \in Node, NEW v, reading' = [reading EXCEPT ![n] = v],
             v.step = "welcoming" => n \in Ends[v.path] /\ v.key <= made'
      PROVE  ReadingFine' /\ OldReading'
  BY <1>1, <1>3, <1>4 DEF ReadingFine, OldReading
<1>5. ASSUME UNCHANGED reading PROVE ReadingFine' /\ OldReading'
  BY <1>3, <1>5 DEF ReadingFine, OldReading
<1>6. Ready.step # "welcoming" /\ Stopped.step # "welcoming"
  BY DEF Ready, Stopped
<1>7. ASSUME NEW n, NEW d, TakeHandshake(n, d) PROVE ReadingFine' /\ OldReading'
  <2> DEFINE v == Welcoming(d.path, New)
  <2>1. Take(n, d, {})
        /\ (UNCHANGED reading \/ (reading' = [reading EXCEPT ![n] = v] /\ made' = New))
    BY <1>7 DEF TakeHandshake
  <2>2. n \in Node /\ n \in Ends[d.path]
    BY <2>1, TakenFine
  <2>3. v.path = d.path /\ v.key = New
    BY DEF Welcoming
  <2> HIDE DEF v
  <2>4. made' = New => v.key <= made'
    BY <1>2, <2>3
  <2> QED
    BY <1>4, <1>5, <2>1, <2>2, <2>3, <2>4
<1>8. ASSUME NEW n \in Node, WriteWelcome(n) PROVE ReadingFine' /\ OldReading'
  BY <1>4, <1>6, <1>8 DEF WriteWelcome
<1>9. ASSUME NEW n, NEW d, Refuse(n, d) \/ TakeWelcome(n, d) PROVE ReadingFine' /\ OldReading'
  <2>1. n \in Node /\ (UNCHANGED reading \/ reading' = [reading EXCEPT ![n] = Stopped])
    BY <1>9, TakenFine DEF Refuse, TakeWelcome
  <2> QED
    BY <1>4, <1>5, <1>6, <2>1
<1>10. ASSUME NEW n, NEW d, Receive(n, d) PROVE ReadingFine' /\ OldReading'
  BY <1>5, <1>7, <1>9, <1>10 DEF Receive, TakeBlocked, node, TakeFailed,
     TakeData, TakeUnknown, TakeInvalid, TakeTooLate
<1> QED
  BY <1>5, <1>8, <1>10 DEF Next, Passing, TryHandshake, BroadcastHandshake, OnTimer, PingRoute,
     Emit, Lose, node, Overwrite, Minute, TimerFails

\* The sessions stay at the ends of their paths, and a second accepted one with
\* a partner cannot come: the Handshake is a duplicate, as the first is not
\* blocked, and what a Welcome makes has an older key.
SessionsFine == AtEnds /\ OneAcceptedPerPartner

LEMMA NextSessionsFine == PartnerInv /\ Next => SessionsFine'
<1> SUFFICES ASSUME PartnerInv, Next PROVE SessionsFine'
  OBVIOUS
<1> USE DEF PartnerInv
<1>1. session \in [Node -> [Path -> Session \cup {NoSession}]]
  BY DEF Inv, TypeOK
<1>2. ASSUME UNCHANGED session PROVE SessionsFine'
  BY <1>2 DEF SessionsFine, AtEnds, OneAcceptedPerPartner, Accepted, Has
<1>3. ASSUME NEW n \in Node, NEW p \in Path, session' = [session EXCEPT ![n][p] = NoSession]
      PROVE  SessionsFine'
  <2>1. \A m \in Node, q \in Path : Has(m, q)' => Has(m, q) /\ session'[m][q] = session[m][q]
    BY <1>1, <1>3 DEF Has
  <2>2. \A m \in Node, q \in Path : Accepted(m, q)' => Accepted(m, q)
    BY <2>1 DEF Accepted
  <2> QED
    BY <2>1, <2>2 DEF SessionsFine, AtEnds, OneAcceptedPerPartner
<1>4. ASSUME NEW n \in Node, NEW p \in Path, NEW s, session' = [session EXCEPT ![n][p] = s],
             n \in Ends[p],
             s.key # s.object \/ \A q \in Path : Has(n, q) => Other(n, q) # Other(n, p)
      PROVE  SessionsFine'
  <2>1. session'[n][p] = s
    BY <1>1, <1>4
  <2>2. \A m \in Node, q \in Path : Has(m, q)' =>
          (Has(m, q) /\ session'[m][q] = session[m][q]) \/ (m = n /\ q = p)
    BY <1>1, <1>4 DEF Has
  <2>3. \A m \in Node, q \in Path : Accepted(m, q)' =>
          Accepted(m, q) \/ (m = n /\ q = p /\ s.key = s.object)
    BY <2>1, <2>2 DEF Accepted
  <2>4. \A m \in Node, q \in Path : Accepted(m, q) => Has(m, q)
    BY DEF Accepted
  <2>5. AtEnds'
    BY <1>4, <2>2 DEF AtEnds
  <2>6. OneAcceptedPerPartner'
    BY <1>4, <2>3, <2>4 DEF OneAcceptedPerPartner
  <2> QED
    BY <2>5, <2>6 DEF SessionsFine
<1>5. ASSUME NEW n, NEW d, TakeHandshake(n, d) PROVE SessionsFine'
  <2> DEFINE p == d.path
             s == [key |-> New, object |-> New]
  <2>1. Take(n, d, {})
    BY <1>5 DEF TakeHandshake
  <2>2. n \in Node /\ p \in Path /\ n \in Ends[p]
    BY <2>1, TakenFine
  <2>3. CASE UNCHANGED session
    BY <1>2, <2>3
  <2>4. CASE /\ ~ IsDuplicate(n, p)
             /\ session' = [session EXCEPT ![n] =
                  [q \in Path |-> IF q = p THEN s
                                  ELSE IF q \in Erased(n, p) THEN NoSession ELSE @[q]]]
    <3>1. Erased(n, p) = {}
      BY <2>2, NoneErased
    <3>2. session' = [session EXCEPT ![n][p] = s]
      <4> HIDE DEF p, s
      <4>1. session[n] \in [Path -> Session \cup {NoSession}]
        BY <1>1, <2>2
      <4>2. [q \in Path |-> IF q = p THEN s
                            ELSE IF q \in Erased(n, p) THEN NoSession ELSE session[n][q]]
            = [session[n] EXCEPT ![p] = s]
        BY <2>2, <3>1, <4>1
      <4> QED
        BY <1>1, <2>2, <2>4, <4>2
    <3>3. \A q \in Path : Has(n, q) => Other(n, q) # Other(n, p)
      <4> SUFFICES ASSUME NEW q \in Path, Has(n, q), Other(n, q) = Other(n, p)
                   PROVE  FALSE
        OBVIOUS
      <4>1. q \in Twins(n, p)
        BY <2>2 DEF Twins, AtEnds
      <4>2. blocked[n][q] = "no"
        BY <2>2 DEF Inv, BlockedHasNoSession
      <4> QED
        BY <2>4, <4>1, <4>2 DEF IsDuplicate
    <3> QED
      BY <1>4, <2>2, <3>2, <3>3
  <2> QED
    BY <1>5, <2>3, <2>4 DEF TakeHandshake
<1>6. ASSUME NEW n, NEW d, TakeWelcome(n, d) PROVE SessionsFine'
  <2> DEFINE s == [key |-> d.key, object |-> New]
  <2>1. Take(n, d, {}) /\ d.kind = "Welcome"
        /\ (UNCHANGED session \/ session' = [session EXCEPT ![n][d.path] = s])
    BY <1>6 DEF TakeWelcome
  <2>2. n \in Node /\ d.path \in Path /\ n \in Ends[d.path] /\ d \in network
    BY <2>1, TakenFine
  <2>3. d.key \in Nat /\ d.key <= made /\ made \in Nat
    BY <2>1, <2>2, MadeGrows DEF OldWelcomes, Inv, WelcomeHasKey, Key
  <2>4. s.key # s.object
    BY <2>3 DEF New
  <2> HIDE DEF s
  <2> QED
    BY <1>2, <1>4, <2>1, <2>2, <2>4
<1>7. ASSUME NEW n, NEW d, NEW ds, Take(n, d, ds), Drop(n, d.path) PROVE SessionsFine'
  BY <1>3, <1>7, TakenFine DEF Drop
<1>8. ASSUME NEW n, NEW d, Receive(n, d) PROVE SessionsFine'
  BY <1>2, <1>5, <1>6, <1>7, <1>8 DEF Receive, TakeBlocked, node, TakeFailed, TakeData,
     TakeUnknown, TakeInvalid, TakeTooLate, Refuse
<1> QED
  BY <1>2, <1>8 DEF Next, Passing, TryHandshake, BroadcastHandshake, OnTimer, PingRoute,
     Emit, Lose, node, Overwrite, Minute, TimerFails, WriteWelcome

\* Every node accepts one session with each other node, by whatever paths the
\* handshakes come to continue_read and whatever handshakes it begins itself.
THEOREM OneAcceptedWithEach == Spec => []OneAcceptedPerPartner
<1>1. Init => PartnerInv
  <2> SUFFICES ASSUME Init PROVE PartnerInv
    OBVIOUS
  <2>1. Inv
    BY InitInv
  <2>2. \A n \in Node, p \in Path : ~ Has(n, p)
    BY DEF Init, Has
  <2>3. \A n \in Node : reading[n].step # "welcoming"
    BY DEF Init, Ready
  <2> QED
    BY <2>1, <2>2, <2>3 DEF Init, PartnerInv, NetworkFine, ReadingFine, AtEnds, OldWelcomes,
       OldReading, OneAcceptedPerPartner, Accepted
<1>2. PartnerInv /\ [Next]_vars => PartnerInv'
  <2>1. CASE Next
    BY <2>1, NextInv, NextNetworkFine, NextReadingFine, NextSessionsFine
       DEF PartnerInv, SessionsFine
  <2>2. CASE UNCHANGED vars
    <3>1. PartnerInv => Inv'
      BY <2>2, NextInv DEF PartnerInv
    <3> QED
      BY <2>2, <3>1 DEF PartnerInv, NetworkFine, ReadingFine, AtEnds, OldWelcomes, OldReading,
         OneAcceptedPerPartner, Accepted, Fine, Has, vars, node, net, bounds
  <2> QED
    BY <2>1, <2>2
<1>3. PartnerInv => OneAcceptedPerPartner
  BY DEF PartnerInv
<1> QED
  BY <1>1, <1>2, <1>3, PTL DEF Spec
=============================================================================
