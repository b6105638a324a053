-------------------------- MODULE MCTrafficPayment --------------------------
(***************************************************************************)
(* Instances of TrafficPayment for TLC.  Each direction has one transcript *)
(* of DATA frames; a receipt covers a prefix of it and may be final.       *)
(***************************************************************************)
EXTENDS TrafficPayment, TLC

CONSTANTS m1, m2, s1, s2

MCSessions == {s1, s2}
MCMembers == {m1, m2}

Receipt(d, q, b, f) == [direction |-> d, sequence |-> q, bytes |-> b, final |-> f]

\* One session: the sender sends two frames of one byte; the
\* receiver answers with nothing or with one frame.
LongReceipts ==
    {Receipt("SenderToReceiver", 1, 1, FALSE),
     Receipt("SenderToReceiver", 2, 2, FALSE),
     Receipt("SenderToReceiver", 2, 2, TRUE),
     Receipt("ReceiverToSender", 0, 0, TRUE),
     Receipt("ReceiverToSender", 1, 1, FALSE),
     Receipt("ReceiverToSender", 1, 1, TRUE)}

\* Two sessions: one frame of 3 bytes, and silence in return.
ShortReceipts ==
    {Receipt("SenderToReceiver", 1, 3, FALSE),
     Receipt("SenderToReceiver", 1, 3, TRUE),
     Receipt("ReceiverToSender", 0, 0, TRUE)}

Spending(on, session, member) ==
    [enabled |-> on, maxSession |-> session, maxMember |-> member,
     maxPrice |-> 3, maxDuration |-> 1]

\* A generous policy, and the tighter one an Owner may replace it with.
Generous == Spending(TRUE, 6, 10)
TwoPolicies == {Generous, Spending(TRUE, 5, 5)}
ThreePolicies == TwoPolicies \cup {Spending(FALSE, 5, 5)}

\* Two plays.  In "sessions" two sessions compete for the fund while the Node,
\* whose own MRK went into fees, quotes one price; in "receipts" a single
\* session settles both directions under price updates.
VARIABLE play

Play(policies, prices, receipts, sessions, funds) ==
    [policies |-> policies, prices |-> prices, receipts |-> receipts,
     sessions |-> sessions, funds |-> funds]

Plays == {Play(TwoPolicies, {3}, ShortReceipts, 2, 0),
          Play(ThreePolicies, {1, 3}, LongReceipts, 1, NodeFunds)}

MCReceipts == ShortReceipts \cup LongReceipts

MCInit ==
    /\ play \in Plays
    /\ now = 0
    /\ owner = OwnerFunds /\ node = play.funds
    /\ escrow = 0 /\ treasury = 0 /\ burned = NodeFunds - play.funds
    /\ policy = Generous /\ revision = 0
    /\ price \in play.prices /\ accepting = TRUE
    /\ revokedAt = [m \in Members |-> Never]
    /\ auth = [s \in Sessions |-> NoAuth]

MCNext ==
    /\ \/ Tick
       \/ \E amount \in Requests : FundNetwork(amount)
       \/ \E p \in play.policies : SetSpendingPolicy(p)
       \/ \E m \in Members, at \in Stamps : RevokeMember(m, at)
       \/ \E p \in play.prices : UpdatePrice(p)
       \/ DrainNode
       \/ \E s \in Sessions, m, r \in Members, request \in Requests, at \in Stamps :
             /\ Cardinality(Issued \cup {s}) <= play.sessions
             /\ \E until \in at + 1 .. Expiry : ReserveSession(s, m, r, request, until, at)
       \/ \E s \in Sessions, at \in Stamps : RefundByOwner(s, at)
       \/ \E s \in Sessions : RefundByNode(s)
       \/ \E s \in Sessions, rcpt \in play.receipts, at \in Stamps : Settle(s, rcpt, at)
    /\ play' = play

MCSpec == MCInit /\ [][MCNext]_<<vars, play>>

MCSymmetry == Permutations(Sessions) \cup Permutations(Members)
=============================================================================
