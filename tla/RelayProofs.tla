----------------------------- MODULE RelayProofs -----------------------------
(***************************************************************************)
(* The two windows and the durable tail of RelaySession, for every window, *)
(* overhead, recovery limit and scenario.                                  *)
(*                                                                         *)
(* A frame handler ends in one of two ways: it replies, or it fails and    *)
(* unregisters the connection; either way the hub it has computed is what  *)
(* counts.  GoodHub is the invariant of that record, one lemma per handler *)
(* shows that it computes a good hub, and of the rest of the state only    *)
(* the length of a Data frame and the ledger's settled prefixes matter.    *)
(* Then come the other steps (members, clock, tick, settlement worker,     *)
(* restart) and the theorems.                                              *)
(***************************************************************************)
EXTENDS RelaySession, TLAPS

Prefix == [cum : Nat, final : BOOLEAN]
Direction == [cum : Nat, base : Nat, paid : Nat, win : {"none", "open", "elapsed"},
              req : Prefix \cup {None}, pend : Prefix \cup {None},
              closing : BOOLEAN, final : BOOLEAN]
Route == [ch : Nat, accepted : BOOLEAN, recovery : BOOLEAN, dir : [Members -> Direction]]
Row == [cum : Nat, final : BOOLEAN, late : BOOLEAN, sent : BOOLEAN]
Operation == [dir : Members, cum : Nat, final : BOOLEAN]
Hub == [route : Route \cup {None}, held : [Members -> Direction] \cup {None},
        draining : BOOLEAN, active : BOOLEAN, unsettled : BOOLEAN,
        row : [Members -> Row \cup {None}]]

\* A bill that waits for its receipt was issued within a window of the
\* direction's position; on a stream no other bill has moved the window's
\* start since.  On a recovery route every bill is the final one.
SoundDirection(d, recovery) ==
    /\ d.cum - d.paid <= 2 * Window
    /\ d.pend # None =>
         /\ d.cum - d.pend.cum <= Window
         /\ ~recovery => d.req # None /\ d.base = d.pend.cum
    /\ recovery => /\ d.req # None => d.req.final
                   /\ d.pend # None => d.pend.final

\* The authorization is open and has never been closed.
StillOpen == LedgerOpen /\ ~chain.reopened

GoodHub(h) ==
    /\ h \in Hub
    /\ h.route # None =>
         /\ \A d \in Members : SoundDirection(h.route.dir[d], h.route.recovery)
         /\ IF h.route.recovery THEN StillOpen => h.unsettled \/ BothFinal(h.route)
            ELSE h.active
    /\ h.held # None =>
         \A d \in Members :
           /\ h.held[d].cum - h.held[d].paid <= 2 * Window
           /\ h.held[d].pend = None /\ h.held[d].req = None

\* The frames a member sends: all that matters is the length of Data.
Frames(q) == {q[i] : i \in DOMAIN q}
Queue(q) ==
    /\ q \in Seq(Frames(q))
    /\ \A f \in Frames(q) : f.type = "Data" => f.n \in Nat

LedgerType ==
    chain \in [settled : [Members -> Prefix], finalized : [Members -> Prefix],
               pool : SUBSET Operation, refunded : BOOLEAN, reopened : BOOLEAN,
               time : {"valid", "claim", "over"}]

\* The inductive invariant.
RelayInv ==
    /\ GoodHub(hub)
    /\ LedgerType
    /\ worker \in [dir : Members, row : Row] \cup {None}
    /\ toHub = [m \in Members |-> toHub[m]]
    /\ \A m \in Members : Queue(toHub[m])
    /\ opens \in Nat

\* How a frame handler ends.
Outcome(p) ==
    \E h, out : GoodHub(h) /\ (Reply(p, h, out) \/ Unregister(p, h, out))

-----------------------------------------------------------------------------
\* Queues.

\* A queue is one over every set that holds its frames.
LEMMA QueueOver ==
    ASSUME NEW S, NEW q \in Seq(S), \A i \in 1 .. Len(q) : q[i].type = "Data" => q[i].n \in Nat
    PROVE  Queue(q)
  <1>1. DOMAIN q = 1 .. Len(q) /\ Len(q) \in Nat
    OBVIOUS
  <1>2. q \in Seq(Frames(q))
    <2>1. \A i \in 1 .. Len(q) : q[i] \in Frames(q)
      BY <1>1 DEF Frames
    <2>2. q = [i \in 1 .. Len(q) |-> q[i]]
      OBVIOUS
    <2> QED
      BY <1>1, <2>1, <2>2
  <1> QED
    BY <1>1, <1>2 DEF Queue, Frames

\* The empty queue.
LEMMA QueueEmpty == Queue(<<>>)
  <1> DEFINE q == <<>>
  <1>1. q \in Seq({}) /\ \A i \in 1 .. Len(q) : q[i].type = "Data" => q[i].n \in Nat
    OBVIOUS
  <1> HIDE DEF q
  <1>2. Queue(q)
    BY <1>1, QueueOver
  <1> QED
    BY <1>2 DEF q

\* What is left when the head is taken.
LEMMA QueueTail ==
    ASSUME NEW q, Queue(q), q # <<>>
    PROVE  Queue(Tail(q)) /\ (Head(q).type = "Data" => Head(q).n \in Nat)
  <1> DEFINE S == Frames(q)
  <1>1. q \in Seq(S) /\ \A f \in S : f.type = "Data" => f.n \in Nat
    BY DEF Queue
  <1> HIDE DEF S
  <1>2. Tail(q) \in Seq(S) /\ Head(q) \in S
    BY <1>1
  <1>3. \A i \in 1 .. Len(Tail(q)) : Tail(q)[i] \in S
    BY <1>2
  <1> QED
    BY Zenon, <1>1, <1>2, <1>3, QueueOver

\* Frames are added at the end.
LEMMA QueueConcat ==
    ASSUME NEW q, NEW r, Queue(q), Queue(r)
    PROVE  Queue(q \o r)
  <1> DEFINE S == Frames(q) \cup Frames(r)
  <1>1. q \in Seq(S) /\ r \in Seq(S) /\ \A f \in S : f.type = "Data" => f.n \in Nat
    BY DEF Queue
  <1> HIDE DEF S
  <1>2. q \o r \in Seq(S)
    BY <1>1
  <1>3. \A i \in 1 .. Len(q \o r) : (q \o r)[i] \in S
    BY <1>2
  <1> QED
    BY Zenon, <1>1, <1>2, <1>3, QueueOver

\* One frame.
LEMMA QueueOne ==
    ASSUME NEW f, f.type = "Data" => f.n \in Nat
    PROVE  Queue(<<f>>)
  <1> DEFINE q == <<f>>
  <1>1. q \in Seq({f}) /\ Len(q) = 1 /\ q[1] = f
    OBVIOUS
  <1> HIDE DEF q
  <1>2. Queue(q)
    BY <1>1, QueueOver
  <1> QED
    BY <1>2 DEF q

\* Two frames.
LEMMA QueueTwo ==
    ASSUME NEW f, NEW g, f.type = "Data" => f.n \in Nat, g.type = "Data" => g.n \in Nat
    PROVE  Queue(<<f, g>>)
  <1> DEFINE q == <<f, g>>
  <1>1. q \in Seq({f, g}) /\ Len(q) = 2 /\ q[1] = f /\ q[2] = g
    OBVIOUS
  <1> HIDE DEF q
  <1>2. Queue(q)
    BY <1>1, QueueOver
  <1> QED
    BY <1>2 DEF q

-----------------------------------------------------------------------------
\* What the hub does to one direction.

\* reset_direction_for_recovery drops the bill and keeps the position.
LEMMA ResetFields ==
    ASSUME NEW d \in Direction
    PROVE  LET r == ResetDirection(d)
           IN  /\ r \in Direction
               /\ r.cum = d.cum /\ r.paid = d.paid /\ r.final = d.final
               /\ r.pend = None /\ r.req = None
  <1>1. ResetDirection(d) \in Direction
    BY Zenon DEF ResetDirection, Direction
  <1>2. /\ ResetDirection(d).cum = d.cum /\ ResetDirection(d).paid = d.paid
        /\ ResetDirection(d).final = d.final
        /\ ResetDirection(d).pend = None /\ ResetDirection(d).req = None
    BY DEF ResetDirection, Direction
  <1> QED
    BY <1>1, <1>2

\* schedule_checkpoint_request asks for the present position.
LEMMA ScheduleFields ==
    ASSUME NEW d \in Direction, NEW final \in BOOLEAN
    PROVE  LET s == Schedule(d, final)
           IN  /\ s \in Direction
               /\ s.cum = d.cum /\ s.paid = d.paid /\ s.final = d.final
               /\ s.pend = d.pend /\ s.base = d.cum
               /\ s.req = [cum |-> d.cum, final |-> final]
  <1> DEFINE req == [cum |-> d.cum, final |-> final]
  <1>1. req \in Prefix /\ d.cum \in Nat
    BY DEF Prefix, Direction
  <1>2. Schedule(d, final) = [d EXCEPT !.req = req, !.win = "none", !.base = d.cum]
    BY DEF Schedule
  <1> HIDE DEF req
  <1>3. Schedule(d, final) \in Direction
    BY Zenon, <1>1, <1>2 DEF Direction
  <1>4. /\ Schedule(d, final).cum = d.cum /\ Schedule(d, final).paid = d.paid
        /\ Schedule(d, final).final = d.final
        /\ Schedule(d, final).pend = d.pend /\ Schedule(d, final).base = d.cum
        /\ Schedule(d, final).req = req
    BY <1>2 DEF Direction
  <1> QED
    BY <1>3, <1>4 DEF req

-----------------------------------------------------------------------------
\* A hub in which one part is replaced.

\* A new route, or none.
LEMMA WithRoute ==
    ASSUME NEW h \in Hub, NEW r \in Route \cup {None}
    PROVE  LET g == [h EXCEPT !.route = r]
           IN  /\ g \in Hub
               /\ g.route = r /\ g.held = h.held /\ g.active = h.active
               /\ g.unsettled = h.unsettled /\ g.row = h.row
  <1>1. [h EXCEPT !.route = r] \in Hub
    BY Zenon DEF Hub
  <1> QED
    BY <1>1 DEF Hub

\* Other flags.
LEMMA WithFlags ==
    ASSUME NEW h \in Hub, NEW a \in BOOLEAN, NEW u \in BOOLEAN
    PROVE  LET g == [h EXCEPT !.active = a, !.unsettled = u]
           IN  /\ g \in Hub
               /\ g.route = h.route /\ g.held = h.held /\ g.row = h.row
               /\ g.active = a /\ g.unsettled = u
  <1>1. [h EXCEPT !.active = a, !.unsettled = u] \in Hub
    BY Zenon DEF Hub
  <1> QED
    BY <1>1 DEF Hub

\* One direction of the route is replaced by a sound one that is as final, or
\* may be so because the route is a stream.
LEMMA WithDirection ==
    ASSUME NEW h, GoodHub(h), h.route # None, NEW p \in Members, NEW d \in Direction,
           SoundDirection(d, h.route.recovery),
           h.route.recovery /\ h.route.dir[p].final => d.final
    PROVE  LET g == [h EXCEPT !.route.dir[p] = d]
           IN  /\ GoodHub(g)
               /\ g.route = [h.route EXCEPT !.dir[p] = d]
               /\ g.route.dir[p] = d
               /\ g.row = h.row /\ g.held = h.held
  <1> DEFINE r == [h.route EXCEPT !.dir[p] = d]
             g == [h EXCEPT !.route.dir[p] = d]
  <1>1. h \in Hub /\ h.route \in Route
    BY DEF GoodHub, Hub
  <1>2. r \in Route
    BY <1>1 DEF Route
  <1>3. g = [h EXCEPT !.route = r]
    BY <1>1 DEF Hub
  <1>4. /\ r.recovery = h.route.recovery /\ r.ch = h.route.ch /\ r.accepted = h.route.accepted
        /\ \A m \in Members : r.dir[m] = IF m = p THEN d ELSE h.route.dir[m]
    BY <1>1 DEF Route
  <1> HIDE DEF r, g
  <1>5. /\ g \in Hub
        /\ g.route = r /\ g.held = h.held /\ g.active = h.active
        /\ g.unsettled = h.unsettled /\ g.row = h.row
    BY <1>1, <1>2, <1>3, WithRoute
  <1>6. h.route.recovery /\ BothFinal(h.route) => BothFinal(r)
    BY <1>4 DEF BothFinal
  <1>7. \A m \in Members : SoundDirection(r.dir[m], r.recovery)
    BY <1>4 DEF GoodHub
  <1>8. GoodHub(g)
    BY <1>4, <1>5, <1>6, <1>7 DEF GoodHub
  <1> QED
    BY Zenon, <1>4, <1>5, <1>8 DEF r, g

\* The same, in the form the handlers use it.
LEMMA DirectionIsGood ==
    ASSUME NEW h, GoodHub(h), h.route # None, NEW p \in Members, NEW d \in Direction,
           SoundDirection(d, h.route.recovery),
           h.route.recovery /\ h.route.dir[p].final => d.final
    PROVE  GoodHub([h EXCEPT !.route.dir[p] = d])
  BY Zenon, WithDirection

-----------------------------------------------------------------------------
\* The two ways a handler ends.

\* unregister turns the route into a tail without a bill.
LEMMA UnregisterIsGood ==
    ASSUME NEW p \in Members, NEW h, NEW out, GoodHub(h), Unregister(p, h, out),
           UNCHANGED chain
    PROVE  GoodHub(hub)'
  <1>1. CASE h.route = None
    BY <1>1 DEF Unregister, GoodHub, LedgerOpen, StillOpen, BothFinal
  <1>2. CASE h.route # None
    <2> DEFINE tail == [d \in Members |-> ResetDirection(h.route.dir[d])]
    <2>1. h.route \in Route /\ h \in Hub
      BY <1>2 DEF GoodHub, Hub
    <2>2. \A d \in Members :
            /\ tail[d] \in Direction
            /\ tail[d].cum - tail[d].paid <= 2 * Window
            /\ tail[d].pend = None /\ tail[d].req = None
      <3> TAKE d \in Members
      <3>1. h.route.dir[d] \in Direction /\ tail[d] = ResetDirection(h.route.dir[d])
        BY <2>1 DEF Route
      <3>2. h.route.dir[d].cum - h.route.dir[d].paid <= 2 * Window
        BY <1>2 DEF GoodHub, SoundDirection
      <3> QED
        BY <3>1, <3>2, ResetFields
    <2>3. tail \in [Members -> Direction]
      BY <2>2
    <2>4. hub' = [h EXCEPT !.route = None,
                           !.held = IF BothFinal(h.route) THEN h.held ELSE tail,
                           !.active = FALSE,
                           !.unsettled = ~BothFinal(h.route)]
      BY Zenon, <1>2 DEF Unregister
    <2> DEFINE held == IF BothFinal(h.route) THEN h.held ELSE tail
               open == ~BothFinal(h.route)
    <2>5. /\ held \in [Members -> Direction] \cup {None} /\ open \in BOOLEAN
          /\ held = h.held \/ held = tail
      BY <2>1, <2>3 DEF Hub, BothFinal
    <2> HIDE DEF tail, held, open
    <2>6. hub' = [h EXCEPT !.route = None, !.held = held, !.active = FALSE, !.unsettled = open]
      BY Zenon, <2>4 DEF held, open
    <2>7. hub' \in Hub
      BY Zenon, <2>1, <2>5, <2>6 DEF Hub
    <2>8. hub'.route = None /\ hub'.held = held
      BY <2>1, <2>6 DEF Hub
    <2> QED
      BY <2>2, <2>5, <2>7, <2>8 DEF GoodHub
  <1> QED
    BY <1>1, <1>2

\* A handler that computed a good hub keeps the invariant, whether its reply is
\* sent or its queue is full.
LEMMA OutcomeIsGood ==
    ASSUME RelayInv, NEW p \in Members, toHub[p] # <<>>, Outcome(p), HubRest
    PROVE  RelayInv'
  <1>1. PICK h, out : GoodHub(h) /\ (Reply(p, h, out) \/ Unregister(p, h, out))
    BY DEF Outcome
  <1>2. UNCHANGED chain /\ UNCHANGED worker /\ UNCHANGED opens
    BY DEF HubRest
  <1>3. /\ \/ Unregister(p, h, out)
           \/ hub' = h
        /\ \/ toHub' = [toHub EXCEPT ![p] = Tail(@)]
           \/ toHub' = [toHub EXCEPT ![p] = <<>>]
    BY Zenon, <1>1 DEF Reply, Unregister
  <1>4. GoodHub(hub)'
    <2>1. CASE Unregister(p, h, out)
      BY <1>1, <1>2, <2>1, UnregisterIsGood
    <2>2. CASE hub' = h
      BY <1>1, <1>2, <2>2 DEF GoodHub, LedgerOpen, StillOpen
    <2> QED
      BY <1>3, <2>1, <2>2
  <1>5. /\ toHub' = [m \in Members |-> toHub'[m]]
        /\ \A m \in Members : Queue(toHub'[m])
    <2>1. Queue(Tail(toHub[p])) /\ Queue(<<>>)
      BY QueueTail, QueueEmpty DEF RelayInv
    <2>2. \A m \in Members : Queue(toHub'[m])
      BY Zenon, <1>3, <2>1 DEF RelayInv
    <2> QED
      BY <1>3, <2>2 DEF RelayInv
  <1> QED
    BY Zenon, <1>2, <1>4, <1>5 DEF RelayInv, LedgerType, Queue, Frames

-----------------------------------------------------------------------------
\* The frame handlers.

\* A handler that fails before it changes anything.
LEMMA Refused ==
    ASSUME RelayInv, NEW p, Refuse(p)
    PROVE  Outcome(p)
BY Zenon DEF RelayInv, Refuse, Outcome

\* Open starts from the ledger's settled prefixes or from the held tail.
LEMMA OpeningIsSound ==
    ASSUME RelayInv, NEW recovery \in BOOLEAN, recovery => hub.held # None
    PROVE  /\ OpeningDirections(recovery) \in [Members -> Direction]
           /\ \A d \in Members : SoundDirection(OpeningDirections(recovery)[d], recovery)
  <1>1. CASE recovery
    <2>1. hub.held \in [Members -> Direction]
      BY <1>1 DEF RelayInv, GoodHub, Hub
    <2>2. \A d \in Members :
            /\ hub.held[d].cum - hub.held[d].paid <= 2 * Window
            /\ hub.held[d].pend = None /\ hub.held[d].req = None
      BY Zenon, <1>1 DEF RelayInv, GoodHub
    <2>3. \A d \in Members : SoundDirection(hub.held[d], recovery)
      BY <2>2 DEF SoundDirection
    <2>4. OpeningDirections(recovery) = hub.held
      BY Zenon, <1>1 DEF OpeningDirections
    <2> QED
      BY <2>1, <2>3, <2>4
  <1>2. CASE ~recovery
    <2>1. \A d \in Members : chain.settled[d].cum \in Nat /\ chain.settled[d].final \in BOOLEAN
      BY DEF RelayInv, LedgerType, Prefix
    <2>2. \A d \in Members :
            /\ SettledDirections[d] \in Direction
            /\ SoundDirection(SettledDirections[d], FALSE)
      <3> TAKE d \in Members
      <3> DEFINE s == SettledDirections[d]
      <3>1. s = DirectionAt(chain.settled[d].cum, chain.settled[d].final)
        BY DEF SettledDirections
      <3> HIDE DEF s
      <3>2. s \in Direction
        BY <2>1, <3>1 DEF DirectionAt, Direction
      <3>3. s.cum = chain.settled[d].cum /\ s.paid = s.cum /\ s.pend = None
        BY <3>1 DEF DirectionAt
      <3>4. SoundDirection(s, FALSE)
        BY <2>1, <3>3, RelayAssumption DEF SoundDirection
      <3> QED
        BY Zenon, <3>2, <3>4 DEF s
    <2>3. SettledDirections \in [Members -> Direction]
      BY Zenon, <2>2 DEF SettledDirections
    <2> QED
      BY Zenon, <1>2, <2>2, <2>3 DEF OpeningDirections
  <1> QED
    BY <1>1, <1>2

\* Open: a new route keeps its session on disk as active, a recovery its hold.
LEMMA OpenOutcome ==
    ASSUME RelayInv, NEW p \in Members, HubOpen(p)
    PROVE  Outcome(p)
  <1> DEFINE recovery == hub.unsettled /\ LedgerOpen
             h == [hub EXCEPT !.unsettled = recovery]
             dir == OpeningDirections(recovery)
             route == [ch |-> opens, accepted |-> FALSE, recovery |-> recovery, dir |-> dir]
             opened == [h EXCEPT !.route = route, !.active = @ \/ ~recovery]
             closed == [h EXCEPT !.active = @ /\ recovery]
  <1>1. hub \in Hub /\ recovery \in BOOLEAN /\ opens \in Nat /\ GoodHub(hub)
    BY DEF RelayInv, GoodHub, LedgerOpen, StillOpen
  <1>2. h \in Hub /\ h.route = hub.route /\ h.held = hub.held /\ h.active = hub.active /\ h.unsettled = recovery
    <2> HIDE DEF recovery
    <2>1. h \in Hub
      BY Zenon, <1>1 DEF Hub
    <2> QED
      BY <1>1, <2>1 DEF Hub
  <1>3. (GoodHub(h) /\ GoodHub(closed)) \/ hub.route # None
    <2>1. SUFFICES ASSUME hub.route = None PROVE GoodHub(h) /\ GoodHub(closed)
      OBVIOUS
    <2>2. closed \in Hub /\ closed.route = hub.route /\ closed.held = hub.held
      <3> DEFINE a == h.active /\ recovery
      <3>1. a \in BOOLEAN /\ closed = [h EXCEPT !.active = a]
        BY <1>1, <1>2 DEF Hub
      <3> HIDE DEF a, h, closed
      <3>2. closed \in Hub
        BY Zenon, <1>2, <3>1 DEF Hub
      <3> QED
        BY <1>2, <3>1, <3>2 DEF Hub
    <2> HIDE DEF h, closed
    <2> QED
      BY <1>1, <1>2, <2>1, <2>2 DEF GoodHub
  <1>4. ASSUME hub.route = None, recovery => hub.held # None
        PROVE  GoodHub(opened)
    <2>1. dir \in [Members -> Direction] /\ \A d \in Members : SoundDirection(dir[d], recovery)
      BY Zenon, <1>1, <1>4, OpeningIsSound
    <2> DEFINE a == h.active \/ ~recovery
    <2>2. a \in BOOLEAN /\ (~recovery => a) /\ opened = [h EXCEPT !.route = route, !.active = a]
      BY <1>1, <1>2 DEF Hub
    <2>3. route \in Route /\ route.dir = dir /\ route.recovery = recovery
      <3> HIDE DEF dir, recovery
      <3> QED
        BY <1>1, <2>1 DEF Route
    <2> HIDE DEF a, route, h, opened, dir, recovery
    <2>4. opened \in Hub
      BY Zenon, <1>2, <2>2, <2>3 DEF Hub
    <2>5. opened.route = route /\ opened.held = hub.held /\ opened.active = a /\ opened.unsettled = recovery
      BY <1>2, <2>2 DEF Hub
    <2> QED
      BY <1>1, <2>1, <2>2, <2>3, <2>4, <2>5 DEF GoodHub
  <1>5. CASE hub.draining
    <2>1. Reply(p, hub, To(p, <<Frame("Error", 0, 0, FALSE)>>))
      BY <1>5 DEF HubOpen
    <2> QED
      BY <1>1, <2>1 DEF Outcome
  <1>6. CASE hub.route # None \/ Refuse(p)
    <2>1. hub.draining \/ Refuse(p)
      BY <1>6 DEF HubOpen
    <2> QED
      BY <1>5, <2>1, Refused
  <1>7. CASE ~hub.draining /\ hub.route = None /\ ~Refuse(p)
    <2>1. \/ \E out : Reply(p, h, out)
          \/ \E out : Unregister(p, h, out)
          \/ (recovery => hub.held # None) /\ \E out : Reply(p, opened, out)
          \/ \E out : Unregister(p, closed, out)
      BY Zenon, <1>7 DEF HubOpen
    <2> HIDE DEF h, closed, opened
    <2> QED
      BY <1>3, <1>4, <1>7, <2>1 DEF Outcome
  <1> QED
    BY <1>5, <1>6, <1>7

\* The route of a frame that is on it.
LEMMA RouteTypes ==
    ASSUME RelayInv, hub.route # None
    PROVE  /\ hub \in Hub /\ hub.route \in Route /\ hub.route.recovery \in BOOLEAN
           /\ \A d \in Members :
                hub.route.dir[d] \in Direction /\ SoundDirection(hub.route.dir[d], hub.route.recovery)
BY DEF RelayInv, GoodHub, Hub, Route

\* Accept: the final bills of a recovery route.
LEMMA AcceptOutcome ==
    ASSUME RelayInv, NEW p \in Members, HubAccept(p)
    PROVE  Outcome(p)
  <1> DEFINE r == hub.route
             dir == [d \in Members |-> IF r.recovery /\ ~r.dir[d].final
                                      THEN Schedule(r.dir[d], TRUE) ELSE r.dir[d]]
             h == [hub EXCEPT !.route.accepted = TRUE, !.route.dir = dir]
  <1>1. CASE Refuse(p)
    BY <1>1, Refused
  <1>2. CASE ~Refuse(p)
    <2>1. r # None /\ \E out : Reply(p, h, out)
      BY Zenon, <1>2 DEF HubAccept, OnRoute
    <2>2. /\ hub \in Hub /\ r \in Route /\ r.recovery \in BOOLEAN
          /\ \A d \in Members : r.dir[d] \in Direction /\ SoundDirection(r.dir[d], r.recovery)
      BY <2>1, RouteTypes
    <2>3. \A d \in Members :
            /\ dir[d] \in Direction /\ dir[d].final = r.dir[d].final
            /\ SoundDirection(dir[d], r.recovery)
      <3> SUFFICES ASSUME NEW d \in Members
                   PROVE  /\ dir[d] \in Direction /\ dir[d].final = r.dir[d].final
                          /\ SoundDirection(dir[d], r.recovery)
        BY Zenon
      <3>1. CASE r.recovery /\ ~r.dir[d].final
        <4> DEFINE e == Schedule(r.dir[d], TRUE)
        <4>1. /\ e \in Direction /\ e.cum = r.dir[d].cum /\ e.paid = r.dir[d].paid
              /\ e.final = r.dir[d].final /\ e.pend = r.dir[d].pend
              /\ e.req = [cum |-> r.dir[d].cum, final |-> TRUE]
          BY Zenon, <2>2, ScheduleFields
        <4>2. dir[d] = e
          BY Zenon, <3>1
        <4> HIDE DEF e, dir
        <4>3. e.req.final
          BY SMTT(30), <4>1
        <4> QED
          BY <2>2, <3>1, <4>1, <4>2, <4>3 DEF SoundDirection
      <3>2. CASE ~(r.recovery /\ ~r.dir[d].final)
        BY Zenon, <2>2, <3>2
      <3> QED
        BY Zenon, <3>1, <3>2
    <2>4. dir \in [Members -> Direction]
      BY Zenon, <2>3
    <2> DEFINE new == [r EXCEPT !.accepted = TRUE, !.dir = dir]
    <2>5. h = [hub EXCEPT !.route = new]
      BY Zenon, <2>2 DEF Hub
    <2> HIDE DEF dir
    <2>6. new \in Route
      BY Zenon, <2>2, <2>4 DEF Route
    <2>7. new.recovery = r.recovery /\ new.dir = dir
      BY <2>2 DEF Route
    <2> HIDE DEF new, h
    <2>8. /\ h \in Hub /\ h.route = new /\ h.held = hub.held
          /\ h.active = hub.active /\ h.unsettled = hub.unsettled
      BY <2>2, <2>5, <2>6, WithRoute
    <2>9. BothFinal(r) => BothFinal(new)
      BY <2>3, <2>7 DEF BothFinal
    <2>10. GoodHub(h)
      BY <2>1, <2>3, <2>7, <2>8, <2>9 DEF GoodHub, RelayInv
    <2> QED
      BY <2>1, <2>10 DEF Outcome
  <1> QED
    BY <1>1, <1>2

\* A hub whose route is gone is good whatever its flags.
LEMMA RouteGone ==
    ASSUME NEW h \in Hub, GoodHub(hub), h.route = None, h.held \in {hub.held, None}
    PROVE  GoodHub(h)
BY DEF GoodHub

\* Reject: the route goes.
LEMMA RejectOutcome ==
    ASSUME RelayInv, NEW p \in Members, HubReject(p)
    PROVE  Outcome(p)
  <1> DEFINE a == hub.active /\ hub.route.recovery
             h == [hub EXCEPT !.route = None, !.active = a]
  <1>1. CASE Refuse(p)
    BY <1>1, Refused
  <1>2. CASE ~Refuse(p)
    <2>1. hub \in Hub /\ GoodHub(hub) /\ a \in BOOLEAN
      BY DEF RelayInv, GoodHub, Hub
    <2>2. \E out : Reply(p, h, out)
      <3>1. [hub EXCEPT !.route = None, !.active = @ /\ hub.route.recovery] = h
        BY <2>1 DEF Hub
      <3>2. \E out : Reply(p, [hub EXCEPT !.route = None, !.active = @ /\ hub.route.recovery], out)
        BY Zenon, <1>2 DEF HubReject
      <3> QED
        BY Zenon, <3>1, <3>2
    <2> HIDE DEF a
    <2>3. h \in Hub
      BY Zenon, <2>1 DEF Hub
    <2>4. h.route = None /\ h.held = hub.held
      BY <2>1 DEF Hub
    <2> HIDE DEF h
    <2> QED
      BY <2>1, <2>2, <2>3, <2>4, RouteGone DEF Outcome
  <1> QED
    BY <1>1, <1>2

\* Close: the route goes, and its tail when it is paid in full.
LEMMA CloseOutcome ==
    ASSUME RelayInv, NEW p \in Members, HubClose(p)
    PROVE  Outcome(p)
  <1> DEFINE gone == [hub EXCEPT !.route = None]
             done == [gone EXCEPT !.unsettled = FALSE, !.active = FALSE, !.held = None]
  <1>1. CASE Refuse(p)
    BY <1>1, Refused
  <1>2. CASE ~Refuse(p)
    <2>1. hub \in Hub /\ GoodHub(hub)
      BY DEF RelayInv, GoodHub
    <2>2. \E out : Reply(p, done, out) \/ Reply(p, gone, out)
      BY Zenon, <1>2 DEF HubClose
    <2>3. gone \in Hub /\ done \in Hub
      BY Zenon, <2>1 DEF Hub
    <2>4. gone.route = None /\ gone.held = hub.held /\ done.route = None /\ done.held = None
      BY <2>1 DEF Hub
    <2> HIDE DEF gone, done
    <2> QED
      BY <2>1, <2>2, <2>3, <2>4, RouteGone DEF Outcome
  <1> QED
    BY <1>1, <1>2

\* Data: a byte is counted only if the exposure stays within two windows, and
\* within one window of an outstanding bill.
LEMMA CountedIsSound ==
    ASSUME NEW d \in Direction, SoundDirection(d, FALSE), NEW n \in Nat, AcceptsMoreData(d, n)
    PROVE  LET c == [d EXCEPT !.cum = @ + n, !.win = IF @ = "none" THEN "open" ELSE @]
           IN  /\ c \in Direction /\ SoundDirection(c, FALSE)
               /\ c.req = None => SoundDirection(Schedule(c, FALSE), FALSE)
  <1> DEFINE w == IF d.win = "none" THEN "open" ELSE d.win
             k == d.cum + n
             c == [d EXCEPT !.cum = k, !.win = w]
  <1>1. /\ d.cum \in Nat /\ d.paid \in Nat /\ d.base \in Nat /\ d.win \in {"none", "open", "elapsed"}
        /\ d.pend # None => d.pend.cum \in Nat
    BY DEF Direction, Prefix
  <1>2. k \in Nat /\ w \in {"none", "open", "elapsed"} /\ k = d.cum + n
    BY <1>1
  <1>3. [d EXCEPT !.cum = @ + n, !.win = IF @ = "none" THEN "open" ELSE @] = c
    BY DEF Direction
  <1> HIDE DEF w, k
  <1>4. c \in Direction
    BY Zenon, <1>2 DEF Direction
  <1>5. /\ c.cum = k /\ c.paid = d.paid /\ c.base = d.base /\ c.req = d.req /\ c.pend = d.pend
    BY DEF Direction
  <1> HIDE DEF c
  <1>6. SoundDirection(c, FALSE)
    <2>1. c.cum - c.paid <= 2 * Window
      BY <1>1, <1>2, <1>5 DEF AcceptsMoreData
    <2>2. ASSUME c.pend # None
          PROVE  c.cum - c.pend.cum <= Window /\ c.req # None /\ c.base = c.pend.cum
      BY <1>1, <1>2, <1>5, <2>2 DEF SoundDirection, AcceptsMoreData
    <2> QED
      BY <2>1, <2>2 DEF SoundDirection
  <1>7. ASSUME c.req = None PROVE SoundDirection(Schedule(c, FALSE), FALSE)
    <2> DEFINE s == Schedule(c, FALSE)
    <2>1. s.cum = c.cum /\ s.paid = c.paid /\ s.pend = c.pend
      BY Zenon, <1>4, ScheduleFields
    <2>2. c.pend = None
      BY <1>6, <1>7 DEF SoundDirection
    <2> HIDE DEF s
    <2>3. SoundDirection(s, FALSE)
      BY <1>6, <2>1, <2>2 DEF SoundDirection
    <2> QED
      BY Zenon, <2>3 DEF s
  <1> QED
    BY Zenon, <1>3, <1>4, <1>6, <1>7

\* Data of a member on its accepted stream.
LEMMA DataOutcome ==
    ASSUME RelayInv, NEW p \in Members, HubData(p)
    PROVE  Outcome(p)
  <1> DEFINE f == Head(toHub[p])
             d == hub.route.dir[p]
             c == [d EXCEPT !.cum = @ + f.n, !.win = IF @ = "none" THEN "open" ELSE @]
             due == c.req = None /\ c.cum - c.base >= Window
             next == IF due THEN Schedule(c, FALSE) ELSE c
             h == [hub EXCEPT !.route.dir[p] = next]
  <1>1. CASE Refuse(p)
    BY <1>1, Refused
  <1>2. CASE ~Refuse(p)
    <2>1. /\ hub.route # None /\ ~hub.route.recovery /\ AcceptsMoreData(d, f.n)
          /\ \E out : Reply(p, h, out)
      BY Zenon, <1>2 DEF HubData, OnRoute
    <2>2. /\ d \in Direction /\ SoundDirection(d, FALSE) /\ GoodHub(hub)
          /\ hub.route.recovery = FALSE
      BY Zenon, <2>1, RouteTypes DEF RelayInv
    <2>3. f.n \in Nat
      BY QueueTail DEF HubData, Arrives, RelayInv
    <2> HIDE DEF f, d
    <2>4. /\ c \in Direction /\ SoundDirection(c, FALSE)
          /\ c.req = None => SoundDirection(Schedule(c, FALSE), FALSE)
      BY Zenon, <2>1, <2>2, <2>3, CountedIsSound
    <2> HIDE DEF c
    <2>5. next \in Direction /\ SoundDirection(next, FALSE)
      BY Zenon, <2>4, ScheduleFields
    <2> HIDE DEF next
    <2>6. SoundDirection(next, hub.route.recovery) /\ ~hub.route.recovery
      BY Zenon, <2>1, <2>2, <2>5
    <2>7. GoodHub(h)
      BY Zenon, <2>1, <2>2, <2>5, <2>6, DirectionIsGood
    <2> HIDE DEF h
    <2> QED
      BY <2>1, <2>7 DEF Outcome
  <1> QED
    BY <1>1, <1>2

\* CloseIntent: the final bill, or a note that it is wanted.
LEMMA CloseIntentOutcome ==
    ASSUME RelayInv, NEW p \in Members, HubCloseIntent(p)
    PROVE  Outcome(p)
  <1> DEFINE d == hub.route.dir[p]
             busy == d.pend # None \/ (IF d.req = None THEN FALSE ELSE ~d.req.final)
             noted == [d EXCEPT !.closing = TRUE]
             next == IF busy THEN noted
                     ELSE IF d.req # None THEN d ELSE Schedule(d, TRUE)
             h == [hub EXCEPT !.route.dir[p] = next]
             recovery == hub.route.recovery
  <1>1. CASE Refuse(p)
    BY <1>1, Refused
  <1>2. CASE ~Refuse(p)
    <2>1. hub.route # None /\ \E out : Reply(p, h, out)
      BY Zenon, <1>2 DEF HubCloseIntent, OnRoute
    <2>2. d \in Direction /\ SoundDirection(d, recovery) /\ GoodHub(hub)
      BY <2>1, RouteTypes DEF RelayInv
    <2>3. noted \in Direction /\ SoundDirection(noted, recovery) /\ noted.final = d.final
      <3>1. noted \in Direction
        BY Zenon, <2>2 DEF Direction
      <3>2. /\ noted.cum = d.cum /\ noted.paid = d.paid /\ noted.base = d.base
            /\ noted.req = d.req /\ noted.pend = d.pend /\ noted.final = d.final
        BY <2>2 DEF Direction
      <3> HIDE DEF noted
      <3> QED
        BY <2>2, <3>1, <3>2 DEF SoundDirection
    <2>4. ASSUME d.pend = None
          PROVE  /\ Schedule(d, TRUE) \in Direction /\ Schedule(d, TRUE).final = d.final
                 /\ SoundDirection(Schedule(d, TRUE), recovery)
      <3> DEFINE s == Schedule(d, TRUE)
      <3>1. /\ s \in Direction /\ s.final = d.final /\ s.cum = d.cum /\ s.paid = d.paid
            /\ s.pend = d.pend /\ s.req = [cum |-> d.cum, final |-> TRUE]
        BY Zenon, <2>2, ScheduleFields
      <3> HIDE DEF s, d
      <3>2. SoundDirection(s, recovery)
        BY <2>2, <2>4, <3>1 DEF SoundDirection
      <3> QED
        BY Zenon, <3>1, <3>2 DEF s
    <2> HIDE DEF d, noted
    <2>5. next \in Direction /\ SoundDirection(next, recovery) /\ next.final = d.final
      BY Zenon, <2>2, <2>3, <2>4
    <2> HIDE DEF next
    <2>6. GoodHub(h)
      BY Zenon, <2>1, <2>2, <2>5, DirectionIsGood DEF d
    <2> HIDE DEF h
    <2> QED
      BY <2>1, <2>6 DEF Outcome
  <1> QED
    BY <1>1, <1>2

\* SenderCheckpoint: the bill is for the hub's own position.
LEMMA CheckpointOutcome ==
    ASSUME RelayInv, NEW p \in Members, HubCheckpoint(p)
    PROVE  Outcome(p)
  <1> DEFINE f == Head(toHub[p])
             d == hub.route.dir[p]
             bill == [cum |-> f.n, final |-> f.flag]
             next == [d EXCEPT !.win = "none", !.base = f.n, !.pend = bill]
             h == [hub EXCEPT !.route.dir[p] = next]
             recovery == hub.route.recovery
  <1>1. CASE Refuse(p)
    BY <1>1, Refused
  <1>2. CASE ~Refuse(p)
    <2>1. /\ hub.route # None /\ d.req # None /\ f.n = d.cum /\ f.flag = d.req.final
          /\ \E out : Reply(p, h, out)
      BY Zenon, <1>2 DEF HubCheckpoint, OnRoute
    <2>2. d \in Direction /\ SoundDirection(d, recovery) /\ GoodHub(hub)
      BY <2>1, RouteTypes DEF RelayInv
    <2> HIDE DEF f, d
    <2>3. bill \in Prefix /\ bill.cum = d.cum /\ bill.final = d.req.final /\ f.n \in Nat /\ d.cum \in Nat
      BY <2>1, <2>2 DEF Direction, Prefix
    <2> HIDE DEF bill
    <2>4. next \in Direction
      BY Zenon, <2>2, <2>3 DEF Direction
    <2>5. /\ next.cum = d.cum /\ next.paid = d.paid /\ next.base = d.cum
          /\ next.req = d.req /\ next.pend = bill /\ next.final = d.final
      BY <2>1, <2>2 DEF Direction
    <2> HIDE DEF next
    <2>6. SoundDirection(next, recovery)
      BY <2>1, <2>2, <2>3, <2>5, RelayAssumption DEF SoundDirection
    <2>7. GoodHub(h)
      BY Zenon, <2>1, <2>2, <2>4, <2>5, <2>6, DirectionIsGood DEF d
    <2> HIDE DEF h
    <2> QED
      BY <2>1, <2>7 DEF Outcome
  <1> QED
    BY <1>1, <1>2

\* The direction after its receipt, with or without the close that waited.
LEMMA PaidIsSound ==
    ASSUME NEW d \in Direction, NEW recovery \in BOOLEAN, SoundDirection(d, recovery), d.pend # None
    PROVE  LET paid == [d EXCEPT !.final = d.pend.final, !.paid = d.pend.cum,
                                 !.pend = None, !.req = None]
               next == IF CloseBilled(d) THEN Schedule([paid EXCEPT !.closing = FALSE], TRUE) ELSE paid
           IN  /\ next \in Direction /\ SoundDirection(next, recovery)
               /\ next.final = d.pend.final
               /\ recovery => next.final
  <1> DEFINE fin == d.pend.final
             at == d.pend.cum
             paid == [d EXCEPT !.final = fin, !.paid = at, !.pend = None, !.req = None]
             calm == [paid EXCEPT !.closing = FALSE]
             next == IF CloseBilled(d) THEN Schedule(calm, TRUE) ELSE paid
  <1>1. fin \in BOOLEAN /\ at \in Nat /\ d.cum - at <= Window /\ (recovery => fin) /\ d.cum \in Nat
    BY DEF Direction, Prefix, SoundDirection
  <1> HIDE DEF fin, at
  <1>2. paid \in Direction
    BY Zenon, <1>1 DEF Direction
  <1>3. paid.cum = d.cum /\ paid.paid = at /\ paid.pend = None /\ paid.req = None /\ paid.final = fin
    BY DEF Direction
  <1> HIDE DEF paid
  <1>4. calm \in Direction
    BY Zenon, <1>2 DEF Direction
  <1>5. calm.cum = d.cum /\ calm.paid = at /\ calm.pend = None /\ calm.final = fin
    BY <1>2, <1>3 DEF Direction
  <1> HIDE DEF calm
  <1> DEFINE s == Schedule(calm, TRUE)
  <1>6. /\ s \in Direction /\ s.cum = d.cum /\ s.paid = at /\ s.pend = None /\ s.final = fin
        /\ s.req = [cum |-> calm.cum, final |-> TRUE]
    BY Zenon, <1>4, <1>5, ScheduleFields
  <1> HIDE DEF s
  <1>7. d.cum - at <= 2 * Window
    BY <1>1, RelayAssumption
  <1>8. SoundDirection(paid, recovery) /\ SoundDirection(s, recovery)
    BY SMTT(30), <1>3, <1>6, <1>7 DEF SoundDirection
  <1>9. next \in Direction /\ SoundDirection(next, recovery) /\ next.final = fin /\ (recovery => next.final)
    BY Zenon, <1>1, <1>2, <1>3, <1>6, <1>8 DEF s
  <1> HIDE DEF next
  <1> QED
    BY Zenon, <1>9 DEF next, calm, paid, fin, at

\* store_pending_traffic_settlement keeps rows of the right shape.
LEMMA StoredType ==
    ASSUME NEW old \in Row \cup {None}, NEW new \in Row
    PROVE  Stored(old, new) \in Row \cup {None}
BY DEF Stored

\* ReceiverReceipt: the row, the paid prefix, and the end of the hold when both
\* directions are final.
LEMMA ReceiptOutcome ==
    ASSUME RelayInv, NEW p \in Members, HubReceipt(p)
    PROVE  Outcome(p)
  <1> DEFINE f == Head(toHub[p])
             s == Peer(p)
             d == hub.route.dir[s]
             receipt == [cum |-> d.pend.cum, final |-> d.pend.final, late |-> f.at # "valid", sent |-> FALSE]
             paid == [d EXCEPT !.final = d.pend.final, !.paid = d.pend.cum, !.pend = None, !.req = None]
             next == IF CloseBilled(d) THEN Schedule([paid EXCEPT !.closing = FALSE], TRUE) ELSE paid
             g == [hub EXCEPT !.route.dir[s] = next]
             rows == [hub.row EXCEPT ![s] = Stored(@, receipt)]
             h == [hub EXCEPT !.route.dir[s] = next, !.row[s] = Stored(@, receipt)]
             recovery == hub.route.recovery
  <1>1. CASE Refuse(p)
    BY <1>1, Refused
  <1>2. CASE ~Refuse(p)
    <2>1. /\ hub.route # None /\ d.pend # None
          /\ \E out : \/ FullyFinal(h.route, s) /\ Reply(p, [h EXCEPT !.unsettled = FALSE, !.held = None], out)
                      \/ Reply(p, h, out)
      BY Zenon, <1>2 DEF HubReceipt, OnRoute
    <2>2. s \in Members
      BY DEF Peer, Members
    <2>3. /\ d \in Direction /\ SoundDirection(d, recovery) /\ GoodHub(hub) /\ hub \in Hub
          /\ recovery \in BOOLEAN
      BY Zenon, <2>1, <2>2, RouteTypes DEF RelayInv
    <2>4. receipt \in Row
      BY <2>1, <2>3 DEF Direction, Prefix, Row
    <2> HIDE DEF receipt, s
    <2>5. rows \in [Members -> Row \cup {None}]
      BY <2>2, <2>3, <2>4, StoredType DEF Hub
    <2> HIDE DEF d
    <2>6. next \in Direction /\ SoundDirection(next, recovery) /\ (recovery => next.final)
      BY Zenon, <2>1, <2>3, PaidIsSound
    <2> HIDE DEF next
    <2>7. GoodHub(g)
      BY Zenon, <2>1, <2>2, <2>3, <2>6, DirectionIsGood
    <2>8. h = [g EXCEPT !.row = rows]
      BY <2>3 DEF Hub
    <2> HIDE DEF g, rows
    <2>9. /\ h \in Hub /\ h.route = g.route /\ h.held = g.held
          /\ h.active = g.active /\ h.unsettled = g.unsettled
      <3>1. g \in Hub
        BY <2>7 DEF GoodHub
      <3> HIDE DEF h
      <3>2. h \in Hub
        BY Zenon, <2>5, <2>8, <3>1 DEF Hub
      <3> QED
        BY <2>8, <3>1, <3>2 DEF Hub
    <2> HIDE DEF h
    <2>10. GoodHub(h)
      BY <2>7, <2>9 DEF GoodHub
    <2> DEFINE done == [h EXCEPT !.unsettled = FALSE, !.held = None]
    <2>11. ASSUME FullyFinal(h.route, s) PROVE GoodHub(done)
      <3>1. done \in Hub
        BY Zenon, <2>9 DEF Hub
      <3>2. done.route = h.route /\ done.held = None /\ done.active = h.active
        BY <2>9 DEF Hub
      <3>3. BothFinal(done.route)
        BY <2>11, <3>2 DEF FullyFinal
      <3> HIDE DEF done
      <3> QED
        BY <2>10, <3>1, <3>2, <3>3 DEF GoodHub
    <2>12. \E out : (FullyFinal(h.route, s) /\ Reply(p, done, out)) \/ Reply(p, h, out)
      BY Zenon, <2>1 DEF h
    <2> HIDE DEF done
    <2> QED
      BY <2>10, <2>11, <2>12 DEF Outcome
  <1> QED
    BY <1>1, <1>2

-----------------------------------------------------------------------------
\* Steps other than frame handlers.

\* Losing a connection keeps the invariant.
LEMMA RefuseStep ==
    ASSUME RelayInv, NEW p \in Members, Refuse(p), UNCHANGED <<chain, worker, opens>>
    PROVE  RelayInv'
  <1>1. Unregister(p, hub, Nothing) /\ GoodHub(hub)
    BY DEF Refuse, RelayInv
  <1>2. GoodHub(hub)'
    BY <1>1, UnregisterIsGood
  <1>3. toHub' = [toHub EXCEPT ![p] = <<>>]
    BY <1>1 DEF Unregister
  <1>4. /\ toHub' = [m \in Members |-> toHub'[m]]
        /\ \A m \in Members : Queue(toHub'[m])
    BY <1>3, QueueEmpty DEF RelayInv
  <1> QED
    BY <1>2, <1>4 DEF RelayInv, LedgerType, Queue, Frames

\* A step of an end sends frames, of which Data has a length.
LEMMA SendStep ==
    ASSUME RelayInv, NEW p \in Members, NEW frames, Queue(frames),
           toHub' = [toHub EXCEPT ![p] = @ \o frames],
           UNCHANGED <<hub, chain, worker>>, opens' \in Nat
    PROVE  RelayInv'
  <1>1. /\ toHub' = [m \in Members |-> toHub'[m]]
        /\ \A m \in Members : Queue(toHub'[m])
    BY QueueConcat DEF RelayInv
  <1>2. GoodHub(hub)'
    BY DEF RelayInv, GoodHub, LedgerOpen, StillOpen
  <1> QED
    BY Zenon, <1>1, <1>2 DEF RelayInv, LedgerType, Queue, Frames

\* A step that leaves the queues to the hub alone, and does not reopen an
\* authorization.
LEMMA LedgerStep ==
    ASSUME RelayInv, GoodHub(hub'), LedgerType', StillOpen' => StillOpen,
           worker' \in [dir : Members, row : Row] \cup {None}, UNCHANGED <<toHub, opens>>
    PROVE  RelayInv'
  <1>1. GoodHub(hub)'
    BY DEF GoodHub
  <1> QED
    BY Zenon, <1>1 DEF RelayInv, Queue, Frames

\* A hub with other flags only, still justified.
LEMMA FlagStep ==
    ASSUME RelayInv, NEW u \in BOOLEAN, hub' = [hub EXCEPT !.unsettled = u],
           u = (hub.unsettled /\ LedgerOpen), UNCHANGED <<chain, worker, toHub, opens>>
    PROVE  RelayInv'
  <1>1. hub \in Hub
    BY DEF RelayInv, GoodHub
  <1>2. hub' \in Hub
    BY Zenon, <1>1 DEF Hub
  <1>3. hub'.route = hub.route /\ hub'.held = hub.held /\ hub'.active = hub.active /\ hub'.unsettled = u
    BY <1>1 DEF Hub
  <1>4. GoodHub(hub')
    BY Zenon, <1>2, <1>3 DEF RelayInv, GoodHub, StillOpen
  <1>5. LedgerType' /\ (StillOpen' => StillOpen)
    BY DEF RelayInv, LedgerType, LedgerOpen, StillOpen
  <1> QED
    BY <1>4, <1>5, LedgerStep DEF RelayInv

\* A restart keeps neither route nor tail; what it abandons is closed.
LEMMA RestartedStep ==
    ASSUME RelayInv, Restarted, UNCHANGED opens
    PROVE  RelayInv'
  <1> DEFINE hold == (hub.unsettled \/ hub.active) /\ LedgerOpen
  <1>1. PICK abandons \in BOOLEAN :
          /\ chain' = [chain EXCEPT !.refunded = @ \/ abandons]
          /\ hub' = [hub EXCEPT !.route = None, !.held = None, !.draining = FALSE,
                                !.active = FALSE, !.unsettled = hold /\ ~abandons]
    BY Zenon DEF Restarted
  <1>2. hub \in Hub
    BY DEF RelayInv, GoodHub
  <1> DEFINE u == hold /\ ~abandons
  <1>3. u \in BOOLEAN /\ hub' = [hub EXCEPT !.route = None, !.held = None, !.draining = FALSE,
                                           !.active = FALSE, !.unsettled = u]
    BY <1>1
  <1> HIDE DEF u
  <1>4. hub' \in Hub
    BY Zenon, <1>2, <1>3 DEF Hub
  <1>5. hub'.route = None /\ hub'.held = None
    BY <1>2, <1>3 DEF Hub
  <1>6. LedgerType'
    <2> DEFINE r == chain.refunded \/ abandons
    <2>1. r \in BOOLEAN /\ chain' = [chain EXCEPT !.refunded = r]
      BY <1>1 DEF RelayInv, LedgerType
    <2> HIDE DEF r
    <2> QED
      BY Zenon, <2>1 DEF RelayInv, LedgerType
  <1>7. toHub' = [m \in Members |-> toHub'[m]] /\ \A m \in Members : Queue(toHub'[m])
    BY QueueEmpty DEF Restarted, Nothing
  <1>8. worker' = None
    BY DEF Restarted
  <1> QED
    BY <1>4, <1>5, <1>6, <1>7, <1>8 DEF RelayInv, GoodHub, Queue, Frames

\* tick_payment_windows bills what an elapsed window holds, or ends the Node.
LEMMA WindowTickStep ==
    ASSUME RelayInv, NEW p \in Members, HubWindowTick(p)
    PROVE  RelayInv'
  <1> DEFINE d == hub.route.dir[p]
             next == Schedule(d, FALSE)
  <1>1. /\ hub.route # None /\ ~hub.route.recovery /\ d.pend = None /\ UNCHANGED opens
        /\ \/ Restarted
           \/ hub' = [hub EXCEPT !.route.dir[p] = next] /\ UNCHANGED <<chain, worker, toHub>>
    BY Zenon DEF HubWindowTick
  <1>2. CASE Restarted
    BY <1>1, <1>2, RestartedStep
  <1>3. CASE hub' = [hub EXCEPT !.route.dir[p] = next] /\ UNCHANGED <<chain, worker, toHub>>
    <2>1. /\ d \in Direction /\ SoundDirection(d, hub.route.recovery) /\ GoodHub(hub)
          /\ hub.route.recovery = FALSE
      BY <1>1, RouteTypes DEF RelayInv
    <2>2. next \in Direction /\ next.cum = d.cum /\ next.paid = d.paid /\ next.pend = d.pend
      BY Zenon, <2>1, ScheduleFields
    <2> HIDE DEF next
    <2>3. SoundDirection(next, hub.route.recovery)
      BY <1>1, <2>1, <2>2 DEF SoundDirection
    <2>4. GoodHub(hub')
      <3>1. GoodHub([hub EXCEPT !.route.dir[p] = next])
        BY Zenon, <1>1, <2>1, <2>2, <2>3, DirectionIsGood
      <3> QED
        BY Zenon, <1>3, <3>1
    <2>5. LedgerType' /\ (StillOpen' => StillOpen)
      BY <1>3 DEF RelayInv, LedgerType, LedgerOpen, StillOpen
    <2> QED
      BY <1>1, <1>3, <2>4, <2>5, LedgerStep DEF RelayInv
  <1> QED
    BY Zenon, <1>1, <1>2, <1>3

\* The clock of a window.
LEMMA WindowElapsesStep ==
    ASSUME RelayInv, NEW p \in Members, HubWindowElapses(p)
    PROVE  RelayInv'
  <1> DEFINE d == hub.route.dir[p]
             next == [d EXCEPT !.win = "elapsed"]
  <1>1. /\ d \in Direction /\ SoundDirection(d, hub.route.recovery) /\ GoodHub(hub) /\ hub.route # None
        /\ hub \in Hub /\ hub.route \in Route
    BY RouteTypes DEF RelayInv, HubWindowElapses
  <1>2. hub' = [hub EXCEPT !.route.dir[p] = next]
    <2>1. hub' = [hub EXCEPT !.route.dir[p].win = "elapsed"]
      BY DEF HubWindowElapses
    <2> QED
      BY <1>1, <2>1 DEF Hub, Route, Direction
  <1>3. next \in Direction
    BY Zenon, <1>1 DEF Direction
  <1>4. /\ next.cum = d.cum /\ next.paid = d.paid /\ next.base = d.base
        /\ next.req = d.req /\ next.pend = d.pend /\ next.final = d.final
    BY <1>1 DEF Direction
  <1> HIDE DEF next
  <1>5. SoundDirection(next, hub.route.recovery)
    BY <1>1, <1>4 DEF SoundDirection
  <1>6. GoodHub(hub')
    <2>1. GoodHub([hub EXCEPT !.route.dir[p] = next])
      BY Zenon, <1>1, <1>3, <1>4, <1>5, DirectionIsGood
    <2> QED
      BY Zenon, <1>2, <2>1
  <1>7. LedgerType' /\ (StillOpen' => StillOpen) /\ UNCHANGED <<toHub, opens, worker>>
    BY DEF RelayInv, LedgerType, LedgerOpen, StillOpen, HubWindowElapses, HubRest
  <1> QED
    BY <1>6, <1>7, LedgerStep DEF RelayInv

\* tick_interrupted_routes drops a tail only with its authorization.
LEMMA TickStep ==
    ASSUME RelayInv, Tick
    PROVE  RelayInv'
  <1>1. ASSUME NEW next, NEW forget, Abandon(next, forget)
        PROVE  RelayInv'
    <2>1. CASE UNCHANGED <<hub, chain>>
      <3>1. GoodHub(hub') /\ LedgerType' /\ (StillOpen' => StillOpen)
        BY <2>1 DEF RelayInv, LedgerType, LedgerOpen, StillOpen
      <3> QED
        BY <1>1, <3>1, LedgerStep DEF RelayInv, Abandon, TickRest
    <2>2. CASE /\ chain' = [chain EXCEPT !.refunded = TRUE]
               /\ hub' = [hub EXCEPT !.unsettled = FALSE, !.held = IF forget THEN None ELSE @]
      <3> DEFINE held == IF forget THEN None ELSE hub.held
      <3>1. hub \in Hub /\ GoodHub(hub) /\ held \in [Members -> Direction] \cup {None} /\ held \in {hub.held, None}
        BY DEF RelayInv, GoodHub, Hub
      <3>2. hub' = [hub EXCEPT !.unsettled = FALSE, !.held = held]
        BY <2>2, <3>1 DEF Hub
      <3> HIDE DEF held
      <3>3. hub' \in Hub
        BY Zenon, <3>1, <3>2 DEF Hub
      <3>4. hub'.route = hub.route /\ hub'.held = held /\ hub'.active = hub.active
        BY <3>1, <3>2 DEF Hub
      <3>5. LedgerType' /\ ~StillOpen'
        <4>1. LedgerType'
          BY Zenon, <2>2 DEF RelayInv, LedgerType
        <4>2. chain'.refunded
          BY <2>2 DEF RelayInv, LedgerType
        <4> QED
          BY <4>1, <4>2 DEF LedgerOpen, StillOpen
      <3>6. GoodHub(hub)'
        BY <3>1, <3>3, <3>4, <3>5 DEF GoodHub
      <3> QED
        BY Zenon, <1>1, <3>5, <3>6 DEF RelayInv, Abandon, TickRest, Queue, Frames
    <2> QED
      BY <1>1, <2>1, <2>2 DEF Abandon
  <1>2. CASE TickLost
    <2> DEFINE u == hub.unsettled /\ LedgerOpen
    <2>1. hub' = [hub EXCEPT !.unsettled = u] /\ UNCHANGED <<chain, worker, toHub, opens>>
      BY <1>2 DEF TickLost, TickRest
    <2>2. u \in BOOLEAN
      OBVIOUS
    <2> HIDE DEF u
    <2> QED
      BY Zenon, <2>1, <2>2, FlagStep DEF u
  <1>3. CASE TickStart \/ TickPolicy
    <2>1. UNCHANGED <<hub, chain, worker, toHub, opens>>
      BY <1>3 DEF TickStart, TickPolicy, TickRest
    <2>2. GoodHub(hub') /\ LedgerType' /\ (StillOpen' => StillOpen)
      BY <2>1 DEF RelayInv, LedgerType, LedgerOpen, StillOpen
    <2> QED
      BY <2>1, <2>2, LedgerStep DEF RelayInv
  <1> QED
    BY Zenon, <1>1, <1>2, <1>3 DEF Tick, TickAbandon, TickAbandonLost

\* The settlement worker takes a row, or drops or submits the one it took; the
\* ledger's prefix of a direction is replaced only while it is not final.
LEMMA WorkerStep ==
    ASSUME RelayInv, NEW p \in Members, WorkerTake(p) \/ WorkerFlush
    PROVE  RelayInv'
  <1>1. CASE WorkerTake(p)
    <2>1. worker' \in [dir : Members, row : Row]
      BY <1>1 DEF WorkerTake, RelayInv, GoodHub, Hub
    <2>2. UNCHANGED <<hub, chain, toHub, opens>>
      BY <1>1 DEF WorkerTake
    <2>3. GoodHub(hub') /\ LedgerType' /\ (StillOpen' => StillOpen)
      BY <2>2 DEF RelayInv, LedgerType, LedgerOpen, StillOpen
    <2> QED
      BY <2>1, <2>2, <2>3, LedgerStep
  <1>2. CASE WorkerFlush
    <2> DEFINE d == worker.dir
               r == worker.row
               marked == [r EXCEPT !.sent = TRUE]
               kept == RemovedIfNotNewer(hub.row[d], r)
               put == Stored(hub.row[d], marked)
               after == [chain EXCEPT !.settled[d] = [cum |-> r.cum, final |-> r.final],
                                      !.pool = @ \cup {Settlement(d, r)}]
    <2>1. d \in Members /\ r \in Row /\ worker' = None /\ UNCHANGED <<toHub, opens>>
      BY <1>2 DEF WorkerFlush, RelayInv
    <2>2. hub \in Hub /\ GoodHub(hub) /\ hub.row[d] \in Row \cup {None}
      BY <2>1 DEF RelayInv, GoodHub, Hub
    <2>3. kept \in Row \cup {None} /\ put \in Row \cup {None}
      <3>1. marked \in Row
        BY Zenon, <2>1 DEF Row
      <3> QED
        BY <2>1, <2>2, <3>1, StoredType DEF RemovedIfNotNewer
    <2>4. /\ \/ UNCHANGED chain
             \/ ~chain.settled[d].final /\ chain' = after
          /\ \/ hub' = hub
             \/ hub' = [hub EXCEPT !.row[d] = kept]
             \/ hub' = [hub EXCEPT !.row[d] = put]
      <3>1. [hub EXCEPT !.row[d] = RemovedIfNotNewer(@, r)] = [hub EXCEPT !.row[d] = kept]
        BY <2>1, <2>2 DEF Hub
      <3>2. [hub EXCEPT !.row[d] = Stored(@, marked)] = [hub EXCEPT !.row[d] = put]
        BY <2>1, <2>2 DEF Hub
      <3> QED
        BY Zenon, <1>2, <3>1, <3>2 DEF WorkerFlush, Claimable
    <2> HIDE DEF d, r, kept, put, marked
    <2>5. ASSUME NEW x \in Row \cup {None}, hub' = [hub EXCEPT !.row[d] = x]
          PROVE  GoodHub(hub')
      <3> DEFINE rows == [hub.row EXCEPT ![d] = x]
      <3>1. rows \in [Members -> Row \cup {None}] /\ hub' = [hub EXCEPT !.row = rows]
        BY <2>1, <2>2, <2>5 DEF Hub
      <3> HIDE DEF rows
      <3>2. hub' \in Hub
        BY Zenon, <2>2, <3>1 DEF Hub
      <3>3. /\ hub'.route = hub.route /\ hub'.held = hub.held
            /\ hub'.active = hub.active /\ hub'.unsettled = hub.unsettled
        BY <2>2, <3>1 DEF Hub
      <3> QED
        BY <2>2, <3>2, <3>3 DEF GoodHub
    <2>6. GoodHub(hub')
      BY <2>2, <2>3, <2>4, <2>5
    <2>7. LedgerType' /\ (StillOpen' => StillOpen)
      <3>1. CASE UNCHANGED chain
        BY <3>1 DEF RelayInv, LedgerType, LedgerOpen, StillOpen
      <3>2. CASE ~chain.settled[d].final /\ chain' = after
        <4> DEFINE new == [cum |-> r.cum, final |-> r.final]
                   settled == [chain.settled EXCEPT ![d] = new]
                   pool == chain.pool \cup {Settlement(d, r)}
        <4>1. new \in Prefix /\ Settlement(d, r) \in Operation
          BY <2>1 DEF Row, Prefix, Operation, Settlement
        <4>2. settled \in [Members -> Prefix] /\ pool \in SUBSET Operation
          BY <2>1, <4>1 DEF RelayInv, LedgerType
        <4>3. chain' = [chain EXCEPT !.settled = settled, !.pool = pool]
          BY <2>1, <3>2 DEF RelayInv, LedgerType
        <4> HIDE DEF settled, pool
        <4>4. LedgerType'
          BY Zenon, <4>2, <4>3 DEF RelayInv, LedgerType
        <4>5. chain'.refunded = chain.refunded /\ chain'.reopened = chain.reopened
          BY <4>3 DEF RelayInv, LedgerType
        <4> QED
          BY <2>1, <3>2, <4>4, <4>5 DEF LedgerOpen, StillOpen
      <3> QED
        BY <2>4, <3>1, <3>2
    <2> QED
      BY <2>1, <2>6, <2>7, LedgerStep
  <1> QED
    BY <1>1, <1>2

\* Time and reclaim on the ledger, and the start of a shutdown.
LEMMA ClockStep ==
    ASSUME RelayInv, TimePasses \/ Reclaim \/ Drain
    PROVE  RelayInv'
  <1>1. CASE TimePasses \/ Reclaim
    <2>1. UNCHANGED <<hub, worker, toHub, opens>>
      BY <1>1 DEF TimePasses, Reclaim, ChainRest
    <2>2. LedgerType' /\ (StillOpen' => StillOpen)
      <3>1. CASE TimePasses
        <4> DEFINE t == IF chain.time = "valid" THEN "claim" ELSE "over"
        <4>1. t \in {"valid", "claim", "over"} /\ chain' = [chain EXCEPT !.time = t]
          BY <3>1 DEF TimePasses, RelayInv, LedgerType
        <4> HIDE DEF t
        <4>2. LedgerType'
          BY Zenon, <4>1 DEF RelayInv, LedgerType
        <4>3. /\ chain'.refunded = chain.refunded /\ chain'.settled = chain.settled
              /\ chain'.reopened = chain.reopened
          BY <4>1 DEF RelayInv, LedgerType
        <4> QED
          BY <4>2, <4>3 DEF LedgerOpen, StillOpen
      <3>2. CASE Reclaim
        <4>1. LedgerType'
          BY Zenon, <3>2 DEF RelayInv, LedgerType, Reclaim
        <4>2. chain'.refunded
          BY <3>2 DEF Reclaim, RelayInv, LedgerType
        <4> QED
          BY <4>1, <4>2 DEF LedgerOpen, StillOpen
      <3> QED
        BY <1>1, <3>1, <3>2
    <2> QED
      BY <2>1, <2>2, LedgerStep DEF RelayInv
  <1>2. CASE Drain
    <2>1. hub \in Hub /\ GoodHub(hub) /\ hub' = [hub EXCEPT !.draining = TRUE]
      BY <1>2 DEF RelayInv, GoodHub, Drain
    <2>2. hub' \in Hub
      BY Zenon, <2>1 DEF Hub
    <2>3. /\ hub'.route = hub.route /\ hub'.held = hub.held
          /\ hub'.active = hub.active /\ hub'.unsettled = hub.unsettled
      BY <2>1 DEF Hub
    <2>4. GoodHub(hub')
      BY <2>1, <2>2, <2>3 DEF GoodHub
    <2>5. LedgerType' /\ (StillOpen' => StillOpen) /\ UNCHANGED <<toHub, opens, worker>>
      BY <1>2 DEF RelayInv, LedgerType, LedgerOpen, StillOpen, Drain, HubRest
    <2> QED
      BY <2>4, <2>5, LedgerStep DEF RelayInv
  <1> QED
    BY <1>1, <1>2

\* A block replaces the settled prefixes, and says so when that opens a
\* closed authorization again.
LEMMA BlockStep ==
    ASSUME RelayInv, FinalizeBlock
    PROVE  RelayInv'
  <1>1. PICK s \in Finalizable("sender"), r \in Finalizable("receiver") :
          chain' = [chain EXCEPT
                      !.settled = [d \in Members |-> IF d = "sender" THEN s ELSE r],
                      !.finalized = [d \in Members |-> IF d = "sender" THEN s ELSE r],
                      !.pool = {},
                      !.reopened = @ \/ (~LedgerOpen /\ ~(s.final /\ r.final))]
    BY Zenon DEF FinalizeBlock
  <1> DEFINE after == [d \in Members |-> IF d = "sender" THEN s ELSE r]
             again == chain.reopened \/ (~LedgerOpen /\ ~(s.final /\ r.final))
  <1>2. s \in Prefix /\ r \in Prefix
    <2>1. \A d \in Members : Finalizable(d) \subseteq Prefix
      <3> TAKE d \in Members
      <3>1. chain.finalized[d] \in Prefix /\ chain.pool \subseteq Operation
        BY DEF RelayInv, LedgerType
      <3>2. \A o \in chain.pool : [cum |-> o.cum, final |-> o.final] \in Prefix
        BY <3>1 DEF Operation, Prefix
      <3> QED
        BY Zenon, <3>1, <3>2 DEF Finalizable
    <2> QED
      BY <2>1 DEF Members
  <1>3. /\ after \in [Members -> Prefix]
         /\ \A d \in Members : ~after[d].final => ~(s.final /\ r.final)
    BY <1>2
  <1> HIDE DEF after
  <1>4. again \in BOOLEAN
    BY DEF RelayInv, LedgerType
  <1> HIDE DEF again
  <1>5. chain' = [chain EXCEPT !.settled = after, !.finalized = after, !.pool = {}, !.reopened = again]
    BY <1>1 DEF after, again
  <1>6. LedgerType'
    BY Zenon, <1>3, <1>4, <1>5 DEF RelayInv, LedgerType
  <1>7. chain'.settled = after /\ chain'.reopened = again /\ chain'.refunded = chain.refunded
    BY <1>5 DEF RelayInv, LedgerType
  <1>8. StillOpen' => StillOpen
    BY <1>3, <1>7 DEF LedgerOpen, StillOpen, again
  <1>9. UNCHANGED <<hub, worker, toHub, opens>>
    BY DEF FinalizeBlock, ChainRest
  <1>10. GoodHub(hub')
    BY <1>9 DEF RelayInv
  <1> QED
    BY <1>6, <1>8, <1>9, <1>10, LedgerStep DEF RelayInv

-----------------------------------------------------------------------------
\* Steps of the two ends.

\* The end p sends frames; Data among them has a length.
Sends(p) ==
    /\ \E frames : Queue(frames) /\ toHub' = [toHub EXCEPT ![p] = @ \o frames]
    /\ UNCHANGED <<hub, chain, worker>>
    /\ opens' \in Nat

\* No frames, or one that is not Data.
LEMMA QuietFrames ==
    /\ Queue(<<>>)
    /\ \A type, ch, n, flag : type # "Data" =>
         Queue(<<Frame(type, ch, n, flag)>>) /\ Queue(<<Signed(type, ch, n, flag)>>)
  <1>1. ASSUME NEW type, NEW ch, NEW n, NEW flag, type # "Data"
        PROVE  Queue(<<Frame(type, ch, n, flag)>>) /\ Queue(<<Signed(type, ch, n, flag)>>)
    <2>1. Frame(type, ch, n, flag).type = type /\ Signed(type, ch, n, flag).type = type
      BY DEF Frame, Signed
    <2> QED
      BY <1>1, <2>1, QueueOne
  <1> QED
    BY <1>1, QueueEmpty

\* fail, and the answers that carry no Data.
LEMMA QuietStep ==
    ASSUME RelayInv, NEW p \in Members, EndRest,
           \/ Fail(p)
           \/ \E e : Take(p, e, <<>>) \/ Does(p, e, <<>>)
           \/ \E e, type, ch, n, flag :
                /\ type # "Data"
                /\ \/ Take(p, e, <<Frame(type, ch, n, flag)>>)
                   \/ Does(p, e, <<Frame(type, ch, n, flag)>>)
                   \/ Take(p, e, <<Signed(type, ch, n, flag)>>)
    PROVE  Sends(p)
  <1>1. \E frames : Queue(frames) /\ toHub' = [toHub EXCEPT ![p] = @ \o frames]
    <2>1. CASE Fail(p)
      <3> DEFINE frames == IF end[p].phase = "stream"
                           THEN <<Frame("Close", end[p].ch, 0, FALSE)>> ELSE <<>>
      <3>1. Queue(frames)
        BY Zenon, QuietFrames
      <3>2. toHub' = [toHub EXCEPT ![p] = @ \o frames]
        BY <2>1 DEF Fail, Take
      <3> HIDE DEF frames
      <3> QED
        BY Zenon, <3>1, <3>2
    <2>2. ASSUME NEW e, Take(p, e, <<>>) \/ Does(p, e, <<>>)
          PROVE  \E frames : Queue(frames) /\ toHub' = [toHub EXCEPT ![p] = @ \o frames]
      BY Zenon, <2>2, QuietFrames DEF Take, Does
    <2>3. ASSUME NEW e, NEW type, NEW ch, NEW n, NEW flag, type # "Data",
                 \/ Take(p, e, <<Frame(type, ch, n, flag)>>)
                 \/ Does(p, e, <<Frame(type, ch, n, flag)>>)
                 \/ Take(p, e, <<Signed(type, ch, n, flag)>>)
          PROVE  \E frames : Queue(frames) /\ toHub' = [toHub EXCEPT ![p] = @ \o frames]
      BY Zenon, <2>3, QuietFrames DEF Take, Does
    <2> QED
      BY Zenon, <2>1, <2>2, <2>3
  <1> QED
    BY Zenon, <1>1 DEF Sends, EndRest, RelayInv

\* Frames with application data, and FIN.
LEMMA DataStep ==
    ASSUME RelayInv, NEW p \in Members, SendFin(p) \/ SendData(p)
    PROVE  Sends(p)
  <1>1. CASE SendFin(p)
    <2>1. PICK n : toHub' = [toHub EXCEPT ![p] = @ \o <<Frame("Data", end[p].ch, Overhead, TRUE),
                                                      Frame("CloseIntent", end[p].ch, n, FALSE)>>]
      BY Zenon, <1>1 DEF SendFin, Does
    <2>2. Queue(<<Frame("Data", end[p].ch, Overhead, TRUE), Frame("CloseIntent", end[p].ch, n, FALSE)>>)
      BY QueueTwo, RelayAssumption DEF Frame
    <2> QED
      BY Zenon, <1>1, <2>1, <2>2 DEF Sends, SendFin, EndRest, RelayInv
  <1>2. CASE SendData(p)
    <2>1. PICK c \in Chunks :
            toHub' = [toHub EXCEPT ![p] = @ \o <<Frame("Data", end[p].ch, c + Overhead, FALSE)>>]
      BY Zenon, <1>2 DEF SendData, Does
    <2>2. c + Overhead \in Nat
      BY RelayAssumption
    <2>3. Queue(<<Frame("Data", end[p].ch, c + Overhead, FALSE)>>)
      BY <2>2, QueueOne DEF Frame
    <2> QED
      BY Zenon, <1>2, <2>1, <2>3 DEF Sends, SendData, EndRest, RelayInv
  <1> QED
    BY <1>1, <1>2

\* Appending is joining with a queue of one.
LEMMA AppendJoins ==
    ASSUME NEW S, NEW s \in Seq(S), NEW f \in S
    PROVE  Append(s, f) = s \o <<f>>
  <1> DEFINE a == Append(s, f)
             b == s \o <<f>>
             n == Len(s) + 1
  <1>1. n \in Nat /\ a \in Seq(S) /\ b \in Seq(S) /\ Len(a) = n /\ Len(b) = n
    OBVIOUS
  <1>2. \A i \in 1 .. n : a[i] = b[i]
    OBVIOUS
  <1> HIDE DEF a, b, n
  <1>3. a = [i \in 1 .. n |-> a[i]] /\ b = [i \in 1 .. n |-> b[i]]
    BY <1>1
  <1>4. a = b
    BY Zenon, <1>2, <1>3
  <1> QED
    BY Zenon, <1>4 DEF a, b

\* Open, and its answers.
LEMMA OpeningStep ==
    ASSUME RelayInv, NEW p \in Members, OpenSession(p) \/ OpenAnswered(p) \/ AnswerIncoming(p)
    PROVE  Sends(p)
  <1>1. CASE OpenSession(p)
    <2>1. PICK flag : toHub' = [toHub EXCEPT ![p] = Append(@, Frame("Open", 0, 0, flag))]
      BY Zenon, <1>1 DEF OpenSession
    <2> DEFINE f == Frame("Open", 0, 0, flag)
    <2>2. Queue(<<f>>)
      BY Zenon, QuietFrames
    <2> HIDE DEF f
    <2>3. Append(toHub[p], f) = toHub[p] \o <<f>>
      <3> DEFINE S == Frames(toHub[p]) \cup {f}
      <3>1. toHub[p] \in Seq(S) /\ f \in S
        BY DEF RelayInv, Queue
      <3> HIDE DEF S
      <3> QED
        BY Zenon, <3>1, AppendJoins
    <2>4. toHub' = [toHub EXCEPT ![p] = @ \o <<f>>]
      BY Zenon, <2>1, <2>3 DEF f, RelayInv
    <2>5. UNCHANGED <<hub, chain, worker>> /\ (opens' = 1 \/ opens' = opens + 1)
      BY Zenon, <1>1 DEF OpenSession
    <2>6. opens' \in Nat
      BY <2>5 DEF RelayInv
    <2> QED
      BY Zenon, <2>2, <2>4, <2>5, <2>6 DEF Sends
  <1>2. CASE OpenAnswered(p)
    <2>1. EndRest /\ \E e : Take(p, e, <<>>)
      BY Zenon, <1>2 DEF OpenAnswered
    <2> QED
      BY <2>1, QuietStep
  <1>3. CASE AnswerIncoming(p)
    <2>1. EndRest /\ \E e, type, ch : type # "Data" /\ Take(p, e, <<Frame(type, ch, 0, FALSE)>>)
      <3>1. "Accept" # "Data" /\ "Reject" # "Data"
        OBVIOUS
      <3> QED
        BY Zenon, <1>3, <3>1 DEF AnswerIncoming
    <2> QED
      BY Zenon, <2>1, QuietStep
  <1> QED
    BY <1>1, <1>2, <1>3

\* The handlers of run_stream_loop and run_recovery_channel.
LEMMA StreamStep ==
    ASSUME RelayInv, NEW p \in Members,
           \/ SendClose(p) \/ AppClose(p) \/ EndWindowElapses(p) \/ RecoveryTimeout(p)
           \/ GetData(p) \/ GetRequest(p) \/ GetCheckpoint(p) \/ GetReceipt(p)
           \/ GetDrain(p) \/ GetClose(p) \/ Recover(p)
    PROVE  Sends(p)
  <1>1. "Close" # "Data" /\ "Checkpoint" # "Data" /\ "Receipt" # "Data"
    OBVIOUS
  <1>2. CASE SendClose(p) \/ AppClose(p) \/ EndWindowElapses(p) \/ RecoveryTimeout(p)
    <2>1. EndRest /\ \/ \E e : Does(p, e, <<>>)
                     \/ \E e, type, ch, n, flag : type # "Data" /\ Does(p, e, <<Frame(type, ch, n, flag)>>)
      BY Zenon, <1>1, <1>2 DEF SendClose, AppClose, EndWindowElapses, RecoveryTimeout
    <2> QED
      BY <2>1, QuietStep
  <1>3. CASE GetData(p) \/ GetReceipt(p) \/ GetDrain(p) \/ GetClose(p)
    <2>1. EndRest /\ (Fail(p) \/ \E e : Take(p, e, <<>>))
      BY Zenon, <1>3 DEF GetData, GetReceipt, GetDrain, GetClose
    <2> QED
      BY <2>1, QuietStep
  <1>4. CASE GetRequest(p) \/ GetCheckpoint(p)
    <2>1. EndRest /\ \/ Fail(p)
                     \/ \E e, type, ch, n, flag : type # "Data" /\ Take(p, e, <<Signed(type, ch, n, flag)>>)
      BY Zenon, <1>1, <1>4 DEF GetRequest, GetCheckpoint
    <2> QED
      BY Zenon, <2>1, QuietStep
  <1>5. CASE Recover(p)
    <2> DEFINE f == Head(toPeer[p])
               e == end[p]
               deltaOut == f.n - e.view[p].cum
               deltaIn == f.n - e.view[Peer(p)].cum
               billed == [e EXCEPT !.deltaOut = deltaOut, !.out.pend = f.n]
               signed == [e EXCEPT !.deltaIn = deltaIn, !.peerFinPaid = TRUE]
               paid == [e EXCEPT !.finPaid = TRUE]
               done == [e EXCEPT !.phase = "done"]
               failed == [e EXCEPT !.phase = "failed"]
               checkpoint == <<Signed("Checkpoint", e.ch, f.n, TRUE)>>
               receipt == <<Signed("Receipt", e.ch, f.n, FALSE)>>
               next == CASE f.type = "Request" /\ f.flag
                            /\ WithinLimit(deltaOut, e.deltaIn) -> <<billed, checkpoint>>
                         [] f.type = "Checkpoint" /\ f.flag
                            /\ WithinLimit(deltaIn, e.deltaOut) -> <<signed, receipt>>
                         [] f.type = "Receipt" /\ e.out.pend = f.n -> <<paid, <<>>>>
                         [] f.type = "Close" /\ p = "receiver"
                            /\ e.finPaid /\ e.peerFinPaid -> <<done, <<>>>>
                         [] OTHER -> <<failed, <<>>>>
    <2>1. EndRest /\ Take(p, next[1], next[2])
      BY Zenon, <1>5 DEF Recover
    <2>2. next[2] \in {checkpoint, receipt, <<>>}
      <3> HIDE DEF deltaOut, deltaIn, billed, signed, paid, done, failed, checkpoint, receipt, f, e
      <3> QED
        BY DEF WithinLimit
    <2>3. Queue(checkpoint) /\ Queue(receipt) /\ Queue(<<>>)
      BY Zenon, <1>1, QuietFrames
    <2>4. toHub' = [toHub EXCEPT ![p] = @ \o next[2]]
      BY Zenon, <2>1 DEF Take
    <2> HIDE DEF next, checkpoint, receipt
    <2> QED
      BY Zenon, <2>1, <2>2, <2>3, <2>4 DEF Sends, EndRest, RelayInv
  <1> QED
    BY <1>2, <1>3, <1>4, <1>5

\* Every frame handler of the hub keeps the invariant.
LEMMA HubFrameStep ==
    ASSUME RelayInv, NEW p \in Members, HubFrame(p)
    PROVE  RelayInv'
  <1>1. Outcome(p)
    BY OpenOutcome, AcceptOutcome, RejectOutcome, DataOutcome, CloseIntentOutcome,
       CheckpointOutcome, ReceiptOutcome, CloseOutcome DEF HubFrame
  <1>2. toHub[p] # <<>> /\ HubRest
    BY Zenon DEF HubFrame, HubOpen, HubAccept, HubReject, HubData, HubCloseIntent, HubCheckpoint,
                 HubReceipt, HubClose, Arrives
  <1> QED
    BY <1>1, <1>2, OutcomeIsGood

\* A step of an end keeps the invariant.
LEMMA SendsStep ==
    ASSUME RelayInv, NEW p \in Members, Sends(p)
    PROVE  RelayInv'
BY Zenon, SendStep DEF Sends

\* The driver of an end meets a frame it does not expect.
LEMMA UnexpectedStep ==
    ASSUME RelayInv, NEW p \in Members, Unexpected(p)
    PROVE  RelayInv'
  <1>1. \/ Refuse(p) /\ UNCHANGED <<chain, worker, opens>>
        \/ EndRest /\ \E e : Take(p, e, <<>>)
    BY Zenon DEF Unexpected
  <1> QED
    BY <1>1, RefuseStep, QuietStep, SendsStep

\* No route, no tail, nothing settled and empty queues at first.
LEMMA RelayInitially == Init => RelayInv
  <1> SUFFICES ASSUME Init PROVE RelayInv
    OBVIOUS
  <1>1. hub \in Hub /\ hub.route = None /\ hub.held = None
    BY DEF Init, Hub, NoRows
  <1>2. LedgerType
    BY DEF Init, LedgerType, Unsettled, Prefix
  <1>3. toHub = [m \in Members |-> toHub[m]] /\ \A m \in Members : Queue(toHub[m])
    BY QueueEmpty DEF Init, Nothing
  <1> QED
    BY <1>1, <1>2, <1>3 DEF RelayInv, GoodHub, Init

\* The invariant is inductive.
LEMMA RelayStep == RelayInv /\ [Next]_vars => RelayInv'
  <1> SUFFICES ASSUME RelayInv, [Next]_vars PROVE RelayInv'
    OBVIOUS
  <1>1. ASSUME UNCHANGED <<hub, chain, worker, toHub, opens>> PROVE RelayInv'
    <2>1. GoodHub(hub') /\ LedgerType' /\ (StillOpen' => StillOpen)
      BY <1>1 DEF RelayInv, LedgerType, LedgerOpen, StillOpen
    <2> QED
      BY <1>1, <2>1, LedgerStep DEF RelayInv
  <1>2. CASE UNCHANGED vars
    BY <1>1, <1>2 DEF vars
  <1>3. ASSUME NEW p \in Members, HubFrame(p) PROVE RelayInv'
    BY <1>3, HubFrameStep
  <1>4. ASSUME NEW p \in Members, HubWindowElapses(p) \/ HubWindowTick(p) PROVE RelayInv'
    BY <1>4, WindowElapsesStep, WindowTickStep
  <1>5. ASSUME NEW p \in Members, Connect(p) PROVE RelayInv'
    BY <1>1, <1>5 DEF Connect, HubRest
  <1>6. ASSUME NEW p \in Members, Disconnect(p) PROVE RelayInv'
    BY <1>6, RefuseStep DEF Disconnect
  <1>7. ASSUME NEW p \in Members, OpenSession(p) PROVE RelayInv'
    BY <1>7, OpeningStep, SendsStep
  <1>8. ASSUME NEW p \in Members, EndFrame(p) PROVE RelayInv'
    BY <1>8, OpeningStep, UnexpectedStep, StreamStep, SendsStep DEF EndFrame
  <1>9. ASSUME NEW p \in Members,
               \/ SendClose(p) \/ SendFin(p) \/ SendData(p) \/ AppClose(p)
               \/ EndWindowElapses(p) \/ RecoveryTimeout(p)
        PROVE  RelayInv'
    BY <1>9, DataStep, StreamStep, SendsStep
  <1>10. ASSUME NEW p \in Members, WorkerTake(p) PROVE RelayInv'
    BY <1>10, WorkerStep
  <1>11. CASE WorkerFlush
    BY <1>11, WorkerStep DEF Members
  <1>12. CASE Tick \/ Drain \/ TimePasses \/ Reclaim
    BY <1>12, TickStep, ClockStep
  <1>13. CASE Restart
    BY <1>13, RestartedStep DEF Restart
  <1>14. CASE FinalizeBlock
    BY <1>14, BlockStep
  <1> QED
    BY <1>2, <1>3, <1>4, <1>5, <1>6, <1>7, <1>8, <1>9, <1>10, <1>11, <1>12, <1>13, <1>14 DEF Next

\* The hub never forwards more than two payment windows without a persisted
\* receipt, whatever the ends, the ticks, lost connections and restarts do
\* (direction_accepts_more_data).
THEOREM TwoWindowsHold == Spec => []TwoWindows
  <1>1. RelayInv => TwoWindows
    BY DEF RelayInv, GoodHub, SoundDirection, TwoWindows
  <1> QED
    BY <1>1, RelayInitially, RelayStep, PTL DEF Spec

\* A route that is not final on both sides has a row on disk, active or held,
\* as long as its authorization is open (promote_active_relay_sessions); once
\* settlements that closed it have been rejected by a block, that rests on what
\* the ends send, and is left to the model checker.
THEOREM TailOnDiskHolds == Spec => [](~chain.reopened => TailOnDisk)
  <1>1. RelayInv => (~chain.reopened => TailOnDisk)
    BY DEF RelayInv, GoodHub, TailOnDisk, StillOpen
  <1> QED
    BY <1>1, RelayInitially, RelayStep, PTL DEF Spec

=============================================================================
