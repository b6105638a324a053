---------------------------- MODULE RelaySession ----------------------------
(***************************************************************************)
(* One paid Relay session: the two SDK ends, the Node's hub, its ticks and *)
(* its settlement worker, and the authorization's life on the ledger.      *)
(***************************************************************************)
EXTENDS RelayStream

Init ==
    /\ conn = [m \in Members |-> TRUE]
    /\ toHub = Nothing /\ toPeer = Nothing
    /\ end = [m \in Members |-> Idle("idle", m)]
    /\ hub = [route |-> None, held |-> None, draining |-> FALSE,
              active |-> FALSE, unsettled |-> FALSE, row |-> NoRows]
    /\ chain = [settled |-> Unsettled, finalized |-> Unsettled, pool |-> {},
                refunded |-> FALSE, reopened |-> FALSE, time |-> "valid"]
    /\ tick = [pc |-> "idle", mem |-> FALSE, cand |-> FALSE]
    /\ worker = None
    /\ delivered = [d \in Members |-> 0]
    /\ opens = 0 /\ breaks = 0 /\ bound \in Scenarios

ChainRest == UNCHANGED <<conn, toHub, toPeer, end, hub, tick, worker, delivered,
                         opens, breaks, bound>>

\* valid_until, then claim_until, pass.
TimePasses ==
    /\ \/ chain.time = "valid" /\ bound.time >= 1
       \/ chain.time = "claim" /\ bound.time >= 2
    /\ chain' = [chain EXCEPT !.time = IF @ = "valid" THEN "claim" ELSE "over"]
    /\ ChainRest

\* The next automatic reservation reclaims what is left after claim_until.
Reclaim ==
    /\ chain.time = "over" /\ LedgerOpen
    /\ chain' = [chain EXCEPT !.refunded = TRUE]
    /\ ChainRest

\* What a block may leave of a direction: the last of the pending settlements
\* that it takes, or what was finalized before.
Finalizable(d) ==
    {chain.finalized[d]} \cup
    {[cum |-> o.cum, final |-> o.final] : o \in {x \in chain.pool : x.dir = d}}

\* A block takes some of the pending settlements; it rejects or omits the
\* others, and they are gone from the ledger that follows.  reopened says that
\* an authorization was closed by settlements that are gone.
FinalizeBlock ==
    /\ bound.blocks /\ chain.pool # {}
    /\ \E s \in Finalizable("sender"), r \in Finalizable("receiver") :
         LET after == [d \in Members |-> IF d = "sender" THEN s ELSE r]
         IN chain' = [chain EXCEPT
                        !.settled = after, !.finalized = after, !.pool = {},
                        !.reopened = @ \/ (~LedgerOpen /\ ~(s.final /\ r.final))]
    /\ ChainRest

HubFrame(p) ==
    \/ HubOpen(p) \/ HubAccept(p) \/ HubReject(p) \/ HubData(p)
    \/ HubCloseIntent(p) \/ HubCheckpoint(p) \/ HubReceipt(p) \/ HubClose(p)

EndFrame(p) ==
    \/ OpenAnswered(p) \/ AnswerIncoming(p) \/ Unexpected(p)
    \/ GetData(p) \/ GetRequest(p) \/ GetCheckpoint(p) \/ GetReceipt(p)
    \/ GetDrain(p) \/ GetClose(p) \/ Recover(p)

Tick == TickStart \/ TickPolicy \/ TickAbandon \/ TickLost \/ TickAbandonLost

Next ==
    \/ \E p \in Members :
         \/ HubFrame(p) \/ HubWindowElapses(p) \/ HubWindowTick(p)
         \/ Connect(p) \/ Disconnect(p)
         \/ OpenSession(p) \/ EndFrame(p)
         \/ SendClose(p) \/ SendFin(p) \/ SendData(p) \/ AppClose(p)
         \/ EndWindowElapses(p) \/ RecoveryTimeout(p)
         \/ WorkerTake(p)
    \/ WorkerFlush \/ Tick \/ Drain \/ Restart \/ TimePasses \/ Reclaim
    \/ FinalizeBlock

Spec == Init /\ [][Next]_vars

\* Threads and tasks that are always serviced: the hub reads every socket,
\* and the stream loop looks at its head and reads its queue.
Fairness ==
    \A p \in Members :
      /\ WF_vars(HubFrame(p))
      /\ WF_vars(SendClose(p) \/ SendFin(p) \/ EndFrame(p))

FairSpec == Spec /\ Fairness

(***************************************************************************)
(* Properties                                                              *)
(***************************************************************************)

\* A direction ends at most one FIN record after its traffic.
Positions == 0 .. (bound.traffic["sender"] + bound.traffic["receiver"] + Overhead)

\* Phases, windows and positions are in range, and a route exists only while
\* both members are connected, since unregister removes it.
TypeOK ==
    /\ conn \in [Members -> BOOLEAN]
    /\ \A p \in Members :
         /\ end[p].phase \in {"idle", "opening", "reopening", "stream",
                              "recovery", "done", "failed", "lost"}
         /\ end[p].out.cum \in Positions /\ end[p].got \in Positions
         /\ end[p].out.win \in {"none", "open", "elapsed"}
         /\ delivered[p] \in Positions
    /\ hub.route # None =>
         /\ conn = [m \in Members |-> TRUE]
         /\ \A d \in Members : hub.route.dir[d].cum \in Positions
    /\ tick.pc \in {"idle", "policy", "abandon", "lost", "abandonLost"}
    /\ chain.time \in {"valid", "claim", "over"}

\* Bytes the hub has forwarded without a persisted receipt never exceed two
\* payment windows, in a live route and in the tail kept for recovery
\* (direction_accepts_more_data).
TwoWindows ==
    \A d \in Members :
      /\ hub.route # None =>
           hub.route.dir[d].cum - hub.route.dir[d].paid <= 2 * Window
      /\ hub.held # None => hub.held[d].cum - hub.held[d].paid <= 2 * Window

\* Data bytes of channel ch in a queue.
InFlight(queue, ch) ==
    LET data[i \in 0 .. Len(queue)] ==
          IF i = 0 THEN 0
          ELSE data[i - 1] + (IF queue[i].type = "Data" /\ queue[i].ch = ch
                              THEN queue[i].n ELSE 0)
    IN data[Len(queue)]

\* While the hub serves a stream both ends still run, its count of a
\* direction is what the sender sent less what is in flight, and what the
\* receiver decrypted plus what is in flight; the checkpoints that the three
\* compare (handle_frame, validate_incoming_checkpoint) rest on it.
CountsAgree ==
    hub.route # None =>
      \A p \in Members :
        LET r == hub.route IN
        /\ (r.accepted /\ ~r.recovery /\ end[p].phase = "stream" /\ end[p].ch = r.ch)
             => end[p].out.cum = r.dir[p].cum + InFlight(toHub[p], r.ch)
        /\ (r.accepted /\ ~r.recovery /\ end[p].phase = "stream" /\ end[p].ch = r.ch)
             => r.dir[Peer(p)].cum = end[p].got + InFlight(toPeer[p], r.ch)

\* Nobody is billed for bytes that were not delivered, but for the recovery
\* allowance the members themselves set (max_auto_recovery_bytes).
BilledAsDelivered ==
    \A d \in Members :
      /\ chain.settled[d].cum <= delivered[d] + MaxRecovery
      /\ hub.row[d] # None => hub.row[d].cum <= delivered[d] + MaxRecovery

\* A direction the ledger holds final was settled for everything that was
\* delivered in it: recovery starts from the tail, not from the ledger.
PaidInFull ==
    \A d \in Members :
      chain.settled[d].final => delivered[d] <= chain.settled[d].cum

\* A session that is not final on both sides has a row on disk from which a
\* restarted Node learns of it (promote_active_relay_sessions), as long as it
\* has a route and a reservation.
TailOnDisk ==
    (IF hub.route = None THEN FALSE ELSE ~BothFinal(hub.route))
      /\ LedgerOpen
      => hub.active \/ hub.unsettled

\* A receipt on disk is removed, or replaced by a lesser one, only when the
\* Node's ledger with its pending operations has it, or can no longer take it
\* (flush_one_traffic_settlement).  It does not wait for the block that
\* finalizes the settlement.
ReceiptsKept ==
    [][\A d \in Members :
         (/\ hub.row[d] # None
          /\ \/ hub'.row[d] = None
             \/ hub'.row[d].cum < hub.row[d].cum
             \/ hub.row[d].final /\ ~hub'.row[d].final)
         => \/ chain.refunded \/ chain.time = "over"
            \/ /\ chain.settled[d].cum >= hub.row[d].cum
               /\ hub.row[d].final => chain.settled[d].final]_vars

\* When the Close of an initiator that ended cleanly reaches the hub, the
\* final receipts of both directions are on disk: run_stream_loop says it
\* closes only after the final receipts.
CleanClose ==
    (/\ end["sender"].phase = "done" /\ end["sender"].fin
     /\ Arrives("sender", "Close") /\ OnRoute(Head(toHub["sender"])))
    => BothFinal(hub.route)

\* Receipts waiting on disk are not given up with an abandoned session, by
\* tick_interrupted_routes or at a restart.
ReceiptsNotAbandoned ==
    [][(~chain.refunded /\ chain'.refunded /\ chain.time # "over")
         => hub.row = NoRows]_vars

\* When both sides want to end the stream (local_close_requested), both stream
\* actors return, given queues of the length of the code, which one session
\* does not fill.
StreamEnds ==
    (/\ bound.queue >= 8
     /\ \A p \in Members : end[p].phase = "stream" /\ end[p].closing)
      ~> (\A p \in Members : end[p].phase # "stream")
=============================================================================
