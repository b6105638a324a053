----------------------------- MODULE RelayState -----------------------------
(***************************************************************************)
(* The state a paid Relay session is spread over: the two SDK ends, the    *)
(* frames in flight, the serving Node's hub with the rows it keeps on      *)
(* disk, and the payment authorization on the ledger.  RelayHub and        *)
(* RelayStream hold the steps of the Node and of the SDK, RelaySession     *)
(* composes them.                                                          *)
(*                                                                         *)
(* One authorization between two members, one connection for each.  A      *)
(* direction is named by the member that sends in it.  Its position is the *)
(* cumulative byte count: sequence and transcript hash are functions of    *)
(* the frames counted, and every comparison of the code asks for the       *)
(* three to agree.                                                         *)
(***************************************************************************)
EXTENDS Integers, Sequences

CONSTANTS Window,       \* payment_window_bytes
          Overhead,     \* AEAD_OVERHEAD: bytes a record adds to its plaintext
          Chunks,       \* plaintext sizes the application writes
          MaxRecovery,  \* max_auto_recovery_bytes of both members
          AutoAbandon,  \* the Node's auto-abandon budget covers the tail
          Scenarios,    \* the bounds of a behaviour, one of them chosen at first
          None

Members == {"sender", "receiver"}
Peer(p) == IF p = "sender" THEN "receiver" ELSE "sender"

\* traffic: most bytes a member sends; opens: of the session, recoveries
\* included; breaks: connections lost and restarts; ticks, elapse, drain: do
\* recovery ticks, window timeouts and shutdown happen; time: of valid_until
\* and claim_until, how many pass; closes: whose application closes; queue:
\* OUTBOUND_QUEUE_MESSAGES, less what has piled up; blocks: are there any.
Bounds == [traffic : [Members -> Nat], opens : Nat, breaks : Nat,
           ticks : BOOLEAN, elapse : BOOLEAN, drain : BOOLEAN, time : 0 .. 2,
           closes : SUBSET Members, queue : Nat, blocks : BOOLEAN]

ASSUME RelayAssumption ==
    /\ Window \in Nat \ {0} /\ Overhead \in Nat \ {0}
    /\ Chunks \subseteq Nat \ {0}
    /\ MaxRecovery \in Nat /\ AutoAbandon \in BOOLEAN
    /\ Scenarios \subseteq Bounds
    /\ None \notin Nat

VARIABLES conn,             \* member_connections: is the member connected
          toHub, toPeer,    \* frames in flight from and to each member
          end,              \* the SDK's stream, or recovery channel, per member
          hub,              \* HubState and the rows of the relay tables
          chain,            \* the authorization on the Node's ledger: settled has
                            \* the operations in the pool applied, finalized has not
          tick,             \* progress of tick_interrupted_routes
          worker,           \* the row the settlement worker is flushing
          delivered,        \* auxiliary: most bytes ever decrypted per direction
          opens, breaks,    \* so far
          bound             \* the scenario

vars == <<conn, toHub, toPeer, end, hub, chain, tick, worker, delivered,
          opens, breaks, bound>>

\* A frame; n is its length (Data) or the position it names, flag is the FIN
\* record (Data), the final flag (Request, Checkpoint) or the recovery marker
\* (Open, Incoming).  Checkpoints and receipts carry the time of signing.
Frame(type, ch, n, flag) ==
    [type |-> type, ch |-> ch, n |-> n, flag |-> flag, at |-> "valid"]
Signed(type, ch, n, flag) == [Frame(type, ch, n, flag) EXCEPT !.at = chain.time]

\* DirectionState of the hub at position n.  awaiting_receipt holds exactly
\* when pending_checkpoint is present: pend.
DirectionAt(n, final) ==
    [cum |-> n, base |-> n, paid |-> n, win |-> "none", req |-> None,
     pend |-> None, closing |-> FALSE, final |-> final]

\* DirectionState of the SDK (outgoing), and the rest of a stream's locals.
\* In recovery finPaid and peerFinPaid are outgoing_done and incoming_done.
EndAt(phase, ch, view, p) ==
    [phase |-> phase, ch |-> ch, view |-> view,
     out |-> [cum |-> view[p].cum, base |-> view[p].cum, paid |-> view[p].cum,
              win |-> "none", pend |-> None],
     got |-> view[Peer(p)].cum,
     closing |-> FALSE, fin |-> FALSE, peerFin |-> FALSE,
     finPaid |-> phase = "recovery" /\ view[p].final,
     peerFinPaid |-> phase = "recovery" /\ view[Peer(p)].final,
     deltaOut |-> 0, deltaIn |-> 0]

Unsettled == [d \in Members |-> [cum |-> 0, final |-> FALSE]]

Idle(phase, p) == EndAt(phase, 0, Unsettled, p)

NoRows == [d \in Members |-> None]

\* The authorization still holds a reservation: neither refunded nor closed,
\* as far as the Node's ledger with its pending operations tells.
LedgerOpen ==
    /\ ~chain.refunded
    /\ \E d \in Members : ~chain.settled[d].final

BothFinal(r) == \A d \in Members : r.dir[d].final
=============================================================================
