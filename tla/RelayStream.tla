---------------------------- MODULE RelayStream -----------------------------
(***************************************************************************)
(* The SDK's side of a session: opening and answering, the stream actor    *)
(* (run_stream_loop) and the recovery channel (run_recovery_channel).      *)
(* The key exchange before the first record is left out: its frames are    *)
(* Data frames far smaller than a window, and a failure of it closes the   *)
(* channel like a failure of the stream.                                   *)
(***************************************************************************)
EXTENDS RelayHub

EndRest == UNCHANGED <<conn, hub, chain, tick, worker, opens, breaks, bound>>

Gets(p, type) ==
    conn[p] /\ toPeer[p] # <<>> /\ Head(toPeer[p]).type = type

\* The end consumes the head of its queue, becomes e and sends frames.
Take(p, e, frames) ==
    /\ end' = [end EXCEPT ![p] = e]
    /\ toPeer' = [toPeer EXCEPT ![p] = Tail(@)]
    /\ toHub' = [toHub EXCEPT ![p] = @ \o frames]

\* The end acts of its own accord.
Does(p, e, frames) ==
    /\ end' = [end EXCEPT ![p] = e]
    /\ toHub' = [toHub EXCEPT ![p] = @ \o frames]
    /\ UNCHANGED toPeer

\* run_stream_actor answers a failed stream with Close; a recovery channel
\* that fails just goes away.
Fail(p) ==
    Take(p, [end[p] EXCEPT !.phase = "failed"],
         IF end[p].phase = "stream"
         THEN <<Frame("Close", end[p].ch, 0, FALSE)>> ELSE <<>>)

(***************************************************************************)
(* Opening and answering                                                   *)
(***************************************************************************)

\* open_auto: the first use of the authorization.  recover_existing: the
\* Node lists a hold (payment.unsettled) and resolve_authorization finds the
\* authorization open.
OpenSession(p) ==
    /\ p = "sender" /\ conn[p] /\ end[p].phase \in {"idle", "done", "failed"}
    /\ LedgerOpen
    /\ \/ /\ opens = 0 /\ chain.time = "valid"
          /\ end' = [end EXCEPT ![p] = EndAt("opening", 0, chain.settled, p)]
          /\ toHub' = [toHub EXCEPT ![p] = Append(@, Frame("Open", 0, 0, FALSE))]
          /\ opens' = 1
       \/ /\ opens \in 1 .. bound.opens - 1 /\ hub.unsettled /\ chain.time # "over"
          /\ end' = [end EXCEPT ![p] = EndAt("reopening", 0, chain.settled, p)]
          /\ toHub' = [toHub EXCEPT ![p] = Append(@, Frame("Open", 0, 0, TRUE))]
          /\ opens' = opens + 1
    /\ UNCHANGED <<conn, toPeer, hub, chain, tick, worker, delivered, breaks,
                   bound>>

\* The opener's driver gets the answer.
OpenAnswered(p) ==
    /\ Gets(p, "Accept") \/ Gets(p, "Reject")
    /\ end[p].phase \in {"opening", "reopening"}
    /\ LET f == Head(toPeer[p])
           phase == IF f.type = "Reject" THEN "failed"
                    ELSE IF end[p].phase = "opening" THEN "stream" ELSE "recovery"
       IN Take(p, EndAt(phase, f.ch, end[p].view, p), <<>>)
    /\ UNCHANGED delivered
    /\ EndRest

\* IncomingStream: accept or recover, each after resolve_authorization, or
\* reject, which is also what dropping it does.
AnswerIncoming(p) ==
    /\ Gets(p, "Incoming")
    /\ end[p].phase \in {"idle", "done", "failed"}
    /\ LET f == Head(toPeer[p])
           phase == IF f.flag THEN "recovery" ELSE "stream"
       IN \/ /\ LedgerOpen
             /\ IF f.flag THEN chain.time # "over" ELSE chain.time = "valid"
             /\ Take(p, EndAt(phase, f.ch, chain.settled, p),
                     <<Frame("Accept", f.ch, 0, FALSE)>>)
          \/ Take(p, Idle("idle", p), <<Frame("Reject", f.ch, 0, FALSE)>>)
    /\ UNCHANGED delivered
    /\ EndRest

\* The driver breaks off the connection on an Error frame, on a frame for a
\* channel it does not know, and on an answer nobody waits for.  A frame for
\* a channel whose actor has just gone may instead be dropped.
Unexpected(p) ==
    /\ conn[p] /\ toPeer[p] # <<>>
    /\ LET f == Head(toPeer[p])
           live == end[p].phase \in {"stream", "recovery"} /\ end[p].ch = f.ch
       IN /\ f.type # "Incoming"
          /\ f.type \in {"Accept", "Reject"} =>
                end[p].phase \notin {"opening", "reopening"}
          /\ f.type # "Error" => ~live
          /\ \/ /\ Refuse(p)
                /\ UNCHANGED <<chain, tick, worker, opens, breaks, bound>>
             \/ /\ f.type \notin {"Accept", "Reject", "Error"}
                /\ end[p].phase \in {"done", "failed"} /\ end[p].ch = f.ch
                /\ Take(p, end[p], <<>>)
                /\ EndRest
    /\ UNCHANGED delivered

(***************************************************************************)
(* run_stream_loop                                                         *)
(***************************************************************************)

\* The two checks at the head of the loop, taken before anything else.  For
\* a recovery channel only the first exists.
CloseDue(p) ==
    /\ p = "sender" /\ end[p].finPaid /\ end[p].peerFinPaid
    /\ \/ end[p].phase = "recovery"
       \/ end[p].phase = "stream" /\ end[p].fin /\ end[p].peerFin

\* Mutant: each side waits for the other's FIN.
FinAfterPeer(p) ==
    /\ end[p].phase = "stream" /\ end[p].peerFin
    /\ end[p].closing /\ ~end[p].fin /\ end[p].out.pend = None
FinDue(p) ==
    /\ end[p].phase = "stream"
    /\ end[p].closing /\ ~end[p].fin /\ end[p].out.pend = None

Selecting(p) ==
    conn[p] /\ end[p].phase = "stream" /\ ~CloseDue(p) /\ ~FinDue(p)

SendClose(p) ==
    /\ conn[p] /\ CloseDue(p)
    /\ Does(p, [end[p] EXCEPT !.phase = "done"],
            <<Frame("Close", end[p].ch, 0, FALSE)>>)
    /\ UNCHANGED delivered
    /\ EndRest

\* advance_outgoing_state
Advance(out, n) ==
    [out EXCEPT !.cum = @ + n, !.win = IF @ = "none" THEN "open" ELSE @]

\* The FIN record, then send_close_intent.
SendFin(p) ==
    /\ conn[p] /\ FinDue(p) /\ ~CloseDue(p)
    /\ LET out == Advance(end[p].out, Overhead)
       IN Does(p, [end[p] EXCEPT !.out = out, !.fin = TRUE],
               <<Frame("Data", end[p].ch, Overhead, TRUE),
                 Frame("CloseIntent", end[p].ch, out.cum, FALSE)>>)
    /\ UNCHANGED delivered
    /\ EndRest

\* outgoing_write_allowance
Allowance(out) ==
    LET risk == 2 * Window - (out.cum - out.paid)
        window == Window - (out.cum - out.base)
    IN IF out.pend = None THEN risk
       ELSE IF out.win = "elapsed" THEN 0
       ELSE Least(risk, window)

\* Application bytes, as many as the allowance leaves room for.
SendData(p) ==
    /\ Selecting(p) /\ ~end[p].closing /\ ~end[p].fin
    /\ \E c \in Chunks :
         /\ c + Overhead <= Allowance(end[p].out)
         /\ end[p].out.cum + c + Overhead <= bound.traffic[p]
         /\ Does(p, [end[p] EXCEPT !.out = Advance(@, c + Overhead)],
                 <<Frame("Data", end[p].ch, c + Overhead, FALSE)>>)
    /\ UNCHANGED delivered
    /\ EndRest

\* The application shuts its side down, or the authorization is about to
\* expire.
AppClose(p) ==
    /\ Selecting(p) /\ ~end[p].closing /\ p \in bound.closes
    /\ Does(p, [end[p] EXCEPT !.closing = TRUE], <<>>)
    /\ UNCHANGED delivered
    /\ EndRest

\* payment_window_seconds pass in the window opened after a checkpoint.
EndWindowElapses(p) ==
    /\ bound.elapse /\ Selecting(p) /\ end[p].out.pend # None /\ end[p].out.win = "open"
    /\ Does(p, [end[p] EXCEPT !.out.win = "elapsed"], <<>>)
    /\ UNCHANGED delivered
    /\ EndRest

StreamGets(p, type) ==
    Selecting(p) /\ Gets(p, type) /\ Head(toPeer[p]).ch = end[p].ch

\* Mutant: the FIN record is not counted.
GotWithoutFin(e, f) == [e EXCEPT !.got = @ + (IF f.flag THEN 0 ELSE f.n),
                                 !.peerFin = @ \/ f.flag]
\* advance_incoming_state and the record's type.
Got(e, f) == [e EXCEPT !.got = @ + f.n, !.peerFin = @ \/ f.flag]

GetData(p) ==
    /\ StreamGets(p, "Data")
    /\ LET f == Head(toPeer[p])
           e == Got(end[p], f)
       IN /\ IF end[p].peerFin THEN Fail(p) ELSE Take(p, e, <<>>)
          /\ delivered' = [delivered EXCEPT ![Peer(p)] =
                             IF e.got > @ THEN e.got ELSE @]
    /\ EndRest

\* send_checkpoint: the request must name the current prefix, or an earlier
\* one if it is not the final request.
GetRequest(p) ==
    /\ StreamGets(p, "Request")
    /\ LET f == Head(toPeer[p])
           out == end[p].out
       IN IF (f.n = out.cum \/ (~f.flag /\ f.n < out.cum)) /\ out.pend = None
          THEN Take(p, [end[p] EXCEPT !.out.win = "none", !.out.base = out.cum,
                                      !.out.pend = out.cum],
                    <<Signed("Checkpoint", end[p].ch, out.cum, f.flag)>>)
          ELSE Fail(p)
    /\ UNCHANGED delivered
    /\ EndRest

\* validate_incoming_checkpoint and sign_receipt.
GetCheckpoint(p) ==
    /\ StreamGets(p, "Checkpoint")
    /\ LET f == Head(toPeer[p])
       IN IF f.n = end[p].got
          THEN Take(p, [end[p] EXCEPT !.peerFinPaid =
                          @ \/ (end[p].peerFin /\ f.flag)],
                    <<Signed("Receipt", end[p].ch, f.n, FALSE)>>)
          ELSE Fail(p)
    /\ UNCHANGED delivered
    /\ EndRest

\* validate_outgoing_receipt; any receipt after the FIN counts as its receipt.
GetReceipt(p) ==
    /\ StreamGets(p, "Receipt")
    /\ LET f == Head(toPeer[p])
       IN IF end[p].out.pend = f.n
          THEN Take(p, [end[p] EXCEPT !.out.paid = f.n, !.out.pend = None,
                                      !.finPaid = @ \/ end[p].fin], <<>>)
          ELSE Fail(p)
    /\ UNCHANGED delivered
    /\ EndRest

GetDrain(p) ==
    /\ StreamGets(p, "Drain")
    /\ Take(p, [end[p] EXCEPT !.closing = TRUE], <<>>)
    /\ UNCHANGED delivered
    /\ EndRest

GetClose(p) ==
    /\ StreamGets(p, "Close")
    /\ IF p = "receiver" /\ end[p].fin /\ end[p].peerFin /\ end[p].peerFinPaid
       THEN Take(p, [end[p] EXCEPT !.phase = "done"], <<>>)
       ELSE Fail(p)
    /\ UNCHANGED delivered
    /\ EndRest

(***************************************************************************)
(* run_recovery_channel                                                    *)
(***************************************************************************)

Recovering(p) == conn[p] /\ end[p].phase = "recovery" /\ ~CloseDue(p)

\* Mutant: the limit is not looked at.
Unlimited(delta, other) == delta >= 0
\* recovery_delta, and the limit on both directions together.
WithinLimit(delta, other) == delta >= 0 /\ delta + other <= MaxRecovery

\* Signs what the Node reports, within max_auto_recovery_bytes for the two
\* directions together.
Recover(p) ==
    /\ Recovering(p) /\ toPeer[p] # <<>> /\ Head(toPeer[p]).ch = end[p].ch
    /\ LET f == Head(toPeer[p])
           e == end[p]
           deltaOut == f.n - e.view[p].cum
           deltaIn == f.n - e.view[Peer(p)].cum
           next == CASE f.type = "Request" /\ f.flag
                        /\ WithinLimit(deltaOut, e.deltaIn) ->
                          <<[e EXCEPT !.deltaOut = deltaOut, !.out.pend = f.n],
                            <<Signed("Checkpoint", e.ch, f.n, TRUE)>>>>
                     [] f.type = "Checkpoint" /\ f.flag
                        /\ WithinLimit(deltaIn, e.deltaOut) ->
                          <<[e EXCEPT !.deltaIn = deltaIn, !.peerFinPaid = TRUE],
                            <<Signed("Receipt", e.ch, f.n, FALSE)>>>>
                     [] f.type = "Receipt" /\ e.out.pend = f.n ->
                          <<[e EXCEPT !.finPaid = TRUE], <<>>>>
                     [] f.type = "Close" /\ p = "receiver"
                        /\ e.finPaid /\ e.peerFinPaid ->
                          <<[e EXCEPT !.phase = "done"], <<>>>>
                     [] OTHER -> <<[e EXCEPT !.phase = "failed"], <<>>>>
       IN f.type # "Error" /\ Take(p, next[1], next[2])
    /\ UNCHANGED delivered
    /\ EndRest

\* No frame for 30 s.
RecoveryTimeout(p) ==
    /\ Recovering(p) /\ toPeer[p] = <<>>
    /\ Does(p, [end[p] EXCEPT !.phase = "failed"], <<>>)
    /\ UNCHANGED delivered
    /\ EndRest
=============================================================================
