------------------------------ MODULE RelayHub ------------------------------
(***************************************************************************)
(* The Relay hub of a Node: its frame handlers, its ticks, the settlement  *)
(* worker, graceful shutdown and restart.                                  *)
(*                                                                         *)
(* A handler that returns an error ends the connection it serves           *)
(* (handle_relay_connection), which unregisters the member: Refuse.  What  *)
(* the handler had changed before the error stays changed.                 *)
(***************************************************************************)
EXTENDS RelayState

Room(m, frames) == Len(toPeer[m]) + Len(frames) <= bound.queue
Nothing == [m \in Members |-> <<>>]
Least(a, b) == IF a < b THEN a ELSE b

\* reset_direction_for_recovery
ResetDirection(d) ==
    [d EXCEPT !.win = "none", !.pend = None, !.req = None, !.closing = FALSE]

\* Mutant: the route of a lost connection stays.
UnregisterKeepsRoute(p, h, out) ==
    /\ conn' = [conn EXCEPT ![p] = FALSE]
    /\ toHub' = [toHub EXCEPT ![p] = <<>>]
    /\ toPeer' = [toPeer EXCEPT ![p] = <<>>]
    /\ end' = [end EXCEPT ![p] = Idle("lost", p)]
    /\ hub' = h

\* unregister: the connection of p goes; a route not final on both sides is
\* kept in memory and held on disk, and the other member is told.  Of out,
\* what the failed handler was sending, the other member gets what fits.
Unregister(p, h, out) ==
    LET q == Peer(p)
        sent == toPeer[q] \o SubSeq(out[q], 1, Least(Len(out[q]),
                                                     bound.queue - Len(toPeer[q])))
        note == IF h.route # None /\ Len(sent) < bound.queue
                THEN <<Frame("Close", h.route.ch, 0, FALSE)>> ELSE <<>>
    IN /\ conn' = [conn EXCEPT ![p] = FALSE]
       /\ toHub' = [toHub EXCEPT ![p] = <<>>]
       /\ toPeer' = [m \in Members |-> IF m = p THEN <<>> ELSE sent \o note]
       /\ end' = [end EXCEPT ![p] = Idle("lost", p)]
       /\ hub' = IF h.route = None THEN h
                 ELSE [h EXCEPT
                         !.route = None,
                         !.held = IF BothFinal(h.route) THEN @
                                  ELSE [d \in Members |->
                                          ResetDirection(h.route.dir[d])],
                         !.active = FALSE,
                         !.unsettled = ~BothFinal(h.route)]

Refuse(p) == Unregister(p, hub, Nothing)

\* A handler's success: hub becomes h and the frames are queued, each with
\* try_send; a full queue is an error of the same handler.
Reply(p, h, out) ==
    IF \A m \in Members : Room(m, out[m])
    THEN /\ hub' = h
         /\ toPeer' = [m \in Members |-> toPeer[m] \o out[m]]
         /\ toHub' = [toHub EXCEPT ![p] = Tail(@)]
         /\ UNCHANGED <<conn, end>>
    ELSE Unregister(p, h, out)

To(m, frames) == [Nothing EXCEPT ![m] = frames]

HubRest == UNCHANGED <<chain, tick, worker, delivered, opens, breaks, bound>>

Arrives(p, type) ==
    conn[p] /\ toHub[p] # <<>> /\ Head(toHub[p]).type = type

OnRoute(f) == hub.route # None /\ hub.route.ch = f.ch

\* schedule_checkpoint_request, and the frame that carries the request.
Schedule(d, final) ==
    [d EXCEPT !.req = [cum |-> d.cum, final |-> final],
              !.win = "none", !.base = d.cum]
Request(d) == Frame("Request", hub.route.ch, d.req.cum, d.req.final)

\* Mutant: the exposure is measured from the window's start.
AcceptsFromBase(d, n) ==
    /\ d.req # None => ~d.req.final
    /\ d.cum + n - d.base <= 2 * Window

\* direction_accepts_more_data
AcceptsMoreData(d, n) ==
    /\ d.req # None => ~d.req.final
    /\ d.cum + n - d.paid <= 2 * Window
    /\ (d.pend # None \/ d.req # None) =>
           d.cum + n - d.base <= Window /\ d.win # "elapsed"

\* checkpoint_covers_request
CoversRequest(n, req) == n = req.cum \/ (~req.final /\ n > req.cum)

\* Checkpoints and receipts must have been signed by valid_until, on a
\* recovery route by claim_until.
Timely(f) == IF hub.route.recovery THEN f.at # "over" ELSE f.at = "valid"

(***************************************************************************)
(* handle_frame                                                            *)
(***************************************************************************)

SettledDirections ==
    [d \in Members |-> DirectionAt(chain.settled[d].cum, chain.settled[d].final)]

\* Mutant: recovery starts from the settled prefix, not from the tail.
OpeningFromChain(recovery) == SettledDirections
\* The directions of a new route.
OpeningDirections(recovery) == IF recovery THEN hub.held ELSE SettledDirections

\* Open.  A session with a hold on it is reopened for recovery from the
\* in-memory tail; active_unsettled_relay_sessions first drops a stale hold.
HubOpen(p) ==
    /\ Arrives(p, "Open")
    /\ LET f == Head(toHub[p])
           recovery == hub.unsettled /\ LedgerOpen
           h == [hub EXCEPT !.unsettled = recovery]
           error == To(p, <<Frame("Error", 0, 0, FALSE)>>)
           ch == opens
           dir == OpeningDirections(recovery)
           opened == [h EXCEPT !.route = [ch |-> ch, accepted |-> FALSE,
                                          recovery |-> recovery, dir |-> dir],
                               !.active = @ \/ ~recovery]
           incoming == To(Peer(p), <<Frame("Incoming", ch, 0,
                                           recovery \/ f.flag)>>)
       IN IF hub.draining THEN Reply(p, hub, error)
          ELSE IF hub.route # None \/ hub.row # NoRows THEN Refuse(p)
          ELSE IF recovery /\ hub.held = None THEN Reply(p, h, error)
          ELSE IF ~ /\ conn[Peer(p)]
                    /\ LedgerOpen
                    /\ chain.time = "valid" \/ (recovery /\ chain.time = "claim")
                    /\ \A d \in Members : chain.settled[d].cum <= dir[d].cum
               THEN Unregister(p, h, Nothing)
          ELSE IF Room(Peer(p), incoming[Peer(p)]) THEN Reply(p, opened, incoming)
          ELSE Unregister(p, [h EXCEPT !.active = @ /\ recovery], Nothing)
    /\ HubRest

\* Accept: on a recovery route the hub asks for the final checkpoints at once.
HubAccept(p) ==
    /\ Arrives(p, "Accept")
    /\ LET f == Head(toHub[p])
           r == hub.route
           dir == [d \in Members |->
                     IF r.recovery /\ ~r.dir[d].final
                     THEN Schedule(r.dir[d], TRUE) ELSE r.dir[d]]
           ask == [d \in Members |->
                     IF r.recovery /\ ~r.dir[d].final
                     THEN <<Request(dir[d])>> ELSE <<>>]
       IN IF OnRoute(f) /\ ~r.accepted
          THEN Reply(p, [hub EXCEPT !.route.accepted = TRUE, !.route.dir = dir],
                     [ask EXCEPT ![Peer(p)] = <<f>> \o @])
          ELSE Refuse(p)
    /\ HubRest

HubReject(p) ==
    /\ Arrives(p, "Reject")
    /\ LET f == Head(toHub[p])
       IN IF OnRoute(f) /\ ~hub.route.accepted
          THEN Reply(p, [hub EXCEPT !.route = None,
                                    !.active = @ /\ hub.route.recovery],
                     To(Peer(p), <<f>>))
          ELSE Refuse(p)
    /\ HubRest

\* Data: counted, forwarded, and at the window's boundary billed.
HubData(p) ==
    /\ Arrives(p, "Data")
    /\ LET f == Head(toHub[p])
           d == hub.route.dir[p]
           counted == [d EXCEPT !.cum = @ + f.n,
                                !.win = IF @ = "none" THEN "open" ELSE @]
           due == counted.req = None /\ counted.cum - counted.base >= Window
           next == IF due THEN Schedule(counted, FALSE) ELSE counted
       IN IF /\ OnRoute(f) /\ hub.route.accepted /\ ~hub.route.recovery
             /\ AcceptsMoreData(d, f.n)
             /\ chain.time = "valid"
          THEN Reply(p, [hub EXCEPT !.route.dir[p] = next],
                     [m \in Members |->
                        IF m # p THEN <<f>>
                        ELSE IF due THEN <<Request(next)>> ELSE <<>>])
          ELSE Refuse(p)
    /\ HubRest

\* CloseIntent: answered with the final request, or remembered while a bill
\* is still outstanding.
HubCloseIntent(p) ==
    /\ Arrives(p, "CloseIntent")
    /\ LET f == Head(toHub[p])
           d == hub.route.dir[p]
           busy == d.pend # None \/ (IF d.req = None THEN FALSE ELSE ~d.req.final)
           next == IF busy THEN [d EXCEPT !.closing = TRUE]
                   ELSE IF d.req # None THEN d ELSE Schedule(d, TRUE)
       IN IF OnRoute(f) /\ f.n = d.cum
          THEN Reply(p, [hub EXCEPT !.route.dir[p] = next],
                     To(p, IF busy THEN <<>> ELSE <<Request(next)>>))
          ELSE Refuse(p)
    /\ HubRest

\* SenderCheckpoint: must be the answer to the request, at the hub's position.
HubCheckpoint(p) ==
    /\ Arrives(p, "Checkpoint")
    /\ LET f == Head(toHub[p])
           d == hub.route.dir[p]
           next == [d EXCEPT !.win = "none", !.base = f.n,
                             !.pend = [cum |-> f.n, final |-> f.flag]]
       IN IF /\ OnRoute(f) /\ d.req # None /\ d.pend = None
             /\ f.n = d.cum /\ CoversRequest(f.n, d.req) /\ f.flag = d.req.final
             /\ Timely(f)
          THEN Reply(p, [hub EXCEPT !.route.dir[p] = next], To(Peer(p), <<f>>))
          ELSE Refuse(p)
    /\ HubRest

\* store_pending_traffic_settlement: a row gives way only to a later one.
Stored(old, new) ==
    IF old = None THEN new
    ELSE IF (~old.final \/ new.final) /\ new.cum >= old.cum THEN new ELSE old

\* A close waits behind the bill the receipt pays.
CloseBilled(d) == d.closing /\ ~d.pend.final

\* Mutant: one final direction ends the session.
OneSideFinal(r, d) == r.dir[d].final
FullyFinal(r, d) == BothFinal(r)

\* ReceiverReceipt: persisted before the prefix counts as paid; a close that
\* waited behind this bill is billed next.
HubReceipt(p) ==
    /\ Arrives(p, "Receipt")
    /\ LET f == Head(toHub[p])
           s == Peer(p)
           d == hub.route.dir[s]
           receipt == [cum |-> d.pend.cum, final |-> d.pend.final,
                       late |-> f.at # "valid", sent |-> FALSE]
           paid == [d EXCEPT !.final = d.pend.final, !.paid = d.pend.cum,
                             !.pend = None, !.req = None]
           billed == CloseBilled(d)
           next == IF billed THEN Schedule([paid EXCEPT !.closing = FALSE], TRUE)
                   ELSE paid
           h == [hub EXCEPT !.route.dir[s] = next,
                            !.row[s] = Stored(@, receipt)]
           done == FullyFinal(h.route, s)
       IN IF /\ OnRoute(f) /\ d.pend # None
             /\ f.n = d.pend.cum
             /\ Timely(f)
          THEN Reply(p, IF done THEN [h EXCEPT !.unsettled = FALSE, !.held = None]
                        ELSE h,
                     To(s, <<f>> \o (IF billed THEN <<Request(next)>> ELSE <<>>)))
          ELSE Refuse(p)
    /\ HubRest

\* Close removes the route whatever its state; the session's rows go only
\* when both final receipts are on disk.
HubClose(p) ==
    /\ Arrives(p, "Close")
    /\ LET f == Head(toHub[p])
           gone == [hub EXCEPT !.route = None]
       IN IF OnRoute(f)
          THEN Reply(p, IF BothFinal(hub.route)
                        THEN [gone EXCEPT !.unsettled = FALSE, !.active = FALSE,
                                          !.held = None]
                        ELSE gone,
                     To(Peer(p), <<f>>))
          ELSE Refuse(p)
    /\ HubRest

(***************************************************************************)
(* Ticks of the Node's main loop                                           *)
(***************************************************************************)

HubWindowElapses(p) ==
    /\ bound.elapse
    /\ hub.route # None
    /\ ~hub.route.recovery
    /\ hub.route.dir[p].win = "open"
    /\ hub' = [hub EXCEPT !.route.dir[p].win = "elapsed"]
    /\ UNCHANGED <<conn, toHub, toPeer, end>>
    /\ HubRest

\* The Node's process ends and starts again: memory and connections are gone,
\* active sessions become holds (promote_active_relay_sessions), and those
\* without a receipt waiting are abandoned unless submitting that fails.
Restarted ==
    LET hold == (hub.unsettled \/ hub.active) /\ LedgerOpen
    IN /\ conn' = [m \in Members |-> FALSE]
       /\ toHub' = Nothing /\ toPeer' = Nothing
       /\ end' = [m \in Members |-> Idle("lost", m)]
       /\ \E abandons \in BOOLEAN :
            /\ abandons => hold /\ hub.row = NoRows
            /\ chain' = [chain EXCEPT !.refunded = @ \/ abandons]
            /\ hub' = [hub EXCEPT !.route = None, !.held = None,
                                  !.draining = FALSE, !.active = FALSE,
                                  !.unsettled = hold /\ ~abandons]
       /\ tick' = [pc |-> "idle", mem |-> FALSE, cand |-> FALSE]
       /\ worker' = None

\* tick_payment_windows for one direction.  Its error ends the Node.
HubWindowTick(p) ==
    /\ hub.route # None
    /\ ~hub.route.recovery
    /\ LET d == hub.route.dir[p]
           next == Schedule(d, FALSE)
       IN /\ d.win = "elapsed" /\ d.cum > d.base /\ d.req = None /\ d.pend = None
          /\ IF Room(p, <<Request(next)>>)
             THEN /\ hub' = [hub EXCEPT !.route.dir[p] = next]
                  /\ toPeer' = [toPeer EXCEPT ![p] = Append(@, Request(next))]
                  /\ UNCHANGED <<conn, toHub, end, chain, tick, worker>>
             ELSE Restarted
    /\ UNCHANGED <<delivered, opens, breaks, bound>>

TickRest == UNCHANGED <<conn, toHub, toPeer, end, worker, delivered, opens,
                        breaks, bound>>

\* tick_interrupted_routes reads the hub's memory under its lock ...
TickStart ==
    /\ bound.ticks /\ tick.pc = "idle"
    /\ \E grace \in BOOLEAN :
          tick' = [pc |-> "policy", mem |-> hub.held # None,
                   cand |-> grace /\ hub.held # None]
    /\ UNCHANGED <<hub, chain>>
    /\ TickRest

\* ... then, without it, the waiting receipts and the abandon budget, ...
TickPolicy ==
    /\ tick.pc = "policy"
    /\ tick' = [tick EXCEPT !.pc = IF tick.cand /\ hub.row = NoRows /\ AutoAbandon
                                   THEN "abandon" ELSE "lost",
                             !.cand = FALSE]
    /\ UNCHANGED <<hub, chain>>
    /\ TickRest

\* ... abandons the tails that qualify (submitting may fail), ...
Abandon(next, forget) ==
    /\ tick' = [tick EXCEPT !.pc = next]
    /\ \/ /\ LedgerOpen
          /\ chain' = [chain EXCEPT !.refunded = TRUE]
          /\ hub' = [hub EXCEPT !.unsettled = FALSE,
                                !.held = IF forget THEN None ELSE @]
       \/ UNCHANGED <<hub, chain>>
    /\ TickRest

TickAbandon == tick.pc = "abandon" /\ Abandon("lost", TRUE)

\* ... and looks for holds the memory it read does not know
\* (abandon_lost_relay_sessions).
TickLost ==
    /\ tick.pc = "lost"
    /\ LET hold == hub.unsettled /\ LedgerOpen
       IN /\ hub' = [hub EXCEPT !.unsettled = hold]
          /\ tick' = [tick EXCEPT !.pc =
                         IF hold /\ ~tick.mem /\ hub.row = NoRows
                         THEN "abandonLost" ELSE "idle",
                                  !.mem = FALSE]
    /\ UNCHANGED chain
    /\ TickRest

TickAbandonLost == tick.pc = "abandonLost" /\ Abandon("idle", FALSE)

(***************************************************************************)
(* The settlement worker.  The ledger it reads has the Node's pending      *)
(* operations applied: a settlement counts as done once it is submitted,   *)
(* and until a block rejects or omits it.                                  *)
(***************************************************************************)

\* pending_traffic_settlements lists the rows; one is taken up at a time.
WorkerTake(d) ==
    /\ worker = None
    /\ hub.row[d] # None
    /\ worker' = [dir |-> d, row |-> hub.row[d]]
    /\ UNCHANGED <<conn, toHub, toPeer, end, hub, chain, tick, delivered,
                   opens, breaks, bound>>

\* Mutant: the row is removed whatever it holds by now.
Removed(old, r) == None

\* remove_pending_traffic_settlement_if_not_newer
RemovedIfNotNewer(old, r) ==
    IF old = None THEN None
    ELSE IF old.cum < r.cum \/ (old.cum = r.cum /\ (r.final \/ ~old.final))
    THEN None ELSE old

Settled(d, r) == IF r.final THEN chain.settled[d].final
                 ELSE chain.settled[d].cum >= r.cum

\* The operation a row is submitted as; sent stands for its
\* submission_operation_id, and these for the status it has on the ledger.
Settlement(d, r) == [dir |-> d, cum |-> r.cum, final |-> r.final]
OperationPending(d, r) == r.sent /\ Settlement(d, r) \in chain.pool
OperationFinalized(d, r) ==
    /\ r.sent /\ chain.finalized[d].cum >= r.cum
    /\ r.final => chain.finalized[d].final

\* apply_traffic_settlement takes the receipt.
Claimable(d, r) ==
    /\ LedgerOpen /\ chain.time # "over" /\ ~r.late
    /\ ~chain.settled[d].final
    /\ r.cum >= chain.settled[d].cum
    /\ r.final \/ r.cum > chain.settled[d].cum

\* flush_one_traffic_settlement: drop a row that is settled or can no longer
\* be, leave one whose operation is pending, else submit it, once more if the
\* operation it was submitted as is gone, and keep it with the new one's id.
WorkerFlush ==
    /\ worker # None
    /\ LET d == worker.dir
           r == worker.row
       IN IF \/ Settled(d, r) \/ chain.refunded \/ chain.time = "over"
             \/ OperationFinalized(d, r)
          THEN /\ hub' = [hub EXCEPT !.row[d] = RemovedIfNotNewer(@, r)]
               /\ UNCHANGED chain
          ELSE IF ~OperationPending(d, r) /\ Claimable(d, r)
          THEN /\ chain' = [chain EXCEPT
                              !.settled[d] = [cum |-> r.cum, final |-> r.final],
                              !.pool = @ \cup {Settlement(d, r)}]
               /\ hub' = [hub EXCEPT !.row[d] = Stored(@, [r EXCEPT !.sent = TRUE])]
          ELSE UNCHANGED <<hub, chain>>
    /\ worker' = None
    /\ UNCHANGED <<conn, toHub, toPeer, end, tick, delivered, opens, breaks, bound>>

(***************************************************************************)
(* Connections, shutdown and restart                                       *)
(***************************************************************************)

\* register; a draining hub takes no connection.
Connect(p) ==
    /\ ~conn[p] /\ ~hub.draining
    /\ conn' = [conn EXCEPT ![p] = TRUE]
    /\ end' = [end EXCEPT ![p] = Idle("idle", p)]
    /\ UNCHANGED <<toHub, toPeer, hub>>
    /\ HubRest

\* A connection breaks, or the member's process ends.
Disconnect(p) ==
    /\ conn[p] /\ breaks < bound.breaks
    /\ breaks' = breaks + 1
    /\ Refuse(p)
    /\ UNCHANGED <<chain, tick, worker, delivered, opens, bound>>

\* begin_graceful_shutdown
Drain ==
    /\ bound.drain /\ ~hub.draining
    /\ hub' = [hub EXCEPT !.draining = TRUE]
    /\ LET drain == <<Frame("Drain", hub.route.ch, 0, FALSE)>>
       IN toPeer' = [m \in Members |->
                       IF hub.route = None THEN toPeer[m]
                       ELSE IF hub.route.recovery \/ ~Room(m, drain) THEN toPeer[m]
                       ELSE toPeer[m] \o drain]
    /\ UNCHANGED <<conn, toHub, end>>
    /\ HubRest

\* The Node stops (drained, timed out, or killed) and is started again.
Restart ==
    /\ breaks < bound.breaks
    /\ breaks' = breaks + 1
    /\ Restarted
    /\ UNCHANGED <<delivered, opens, bound>>
=============================================================================
