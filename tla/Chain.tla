------------------------------- MODULE Chain -------------------------------
(***************************************************************************)
(* The chain in Node 1 mode: signed transfers enter the pools of the       *)
(* daemons, Node 1 replays its pool on the last finalized ledger and       *)
(* commits a block, the other daemons install a bootstrap checkpoint and   *)
(* then fetch and apply the blocks that follow.  Everything a daemon knows *)
(* is in its tables, db[d] (see Store); a chunked download in progress,    *)
(* fetch[d], is lost with the process.                                     *)
(***************************************************************************)
EXTENDS Store, SequencesExt

CONSTANTS
  Peers, Lite,            \* the daemons beside Node 1, and those in LITE mode
  Opening,                \* the accounts of the first finalized ledger
  BaseFee, MinMult, MaxMult, Target, Denominator,
  MaxOps, MaxUnits,       \* per block
  Window,                 \* of nonces a staged candidate may lie ahead
  Validity, EpochLength, Interval,
  ChunkSize, RetainBlocks, RetainIds, Gap, Retention,
  Addresses, Amounts, MaxFees, Ahead, MaxSigned, MaxHeight, MaxTime   \* what is explored

VARIABLES now, db, signed, fetch, backup,
  rewound                 \* whether Node 1 was restored from before its tip; history

vars == <<now, db, signed, fetch, backup, rewound>>

Node1 == 1

Daemons == {Node1} \cup Peers

-----------------------------------------------------------------------------
(* Operations.  A transfer is its signed envelope; all its fields are covered
   by its identifier, and a unit of fee is due for it. *)

Key(o) == <<o.until, o.from, o.nonce, o.to, o.amount, o.max>>

Smaller(x, y) == \E i \in DOMAIN x : x[i] < y[i] /\ \A j \in 1..(i - 1) : x[j] = y[j]

Before(o, p) == Smaller(Key(o), Key(p))

Sorted(S) == SetToSortSeq(S, Before)

Newest(S, n) == {o \in S : Cardinality({p \in S : Before(o, p)}) < n}

Account == [balance |-> 0, nonce |-> 0, key |-> FALSE, ids |-> {}]

AccountOf(L, a) == IF a \in DOMAIN L.acc THEN L.acc[a] ELSE Account

-----------------------------------------------------------------------------
(* prune_history: the most recent blocks, the operations in them, and of these the
   newest in the history of an account. *)

Pruned(L, blocks, kept, ids) ==
  [L EXCEPT !.blocks = blocks,
            !.base = Height(L) - Len(blocks),
            !.baseTip = IF Len(blocks) < Len(L.blocks) THEN L.blocks[Len(L.blocks) - Len(blocks)] ELSE @,
            !.from = Height(L) - Len(blocks) + 1,
            !.ops = [o \in kept |-> L.ops[o]],
            !.acc = WithIds(L.acc, LAMBDA a : Newest(L.acc[a].ids \cap kept, ids))]

PruneHistory(L, n, ids) ==
  Pruned(L, Recent(L.blocks, n), KeptOps(L, Recent(L.blocks, n)), ids)

-----------------------------------------------------------------------------
(* Fees (fee.rs). *)

Fee(L) == BaseFee * L.mult

Buffered(fee) == (fee * 5 + 3) \div 4

(* The version of the fee policy is that of the ledger; governance does not change
   it here. *)
MaxFeeCovers(L, o) == Fee(L) = 0 \/ o.max >= Fee(L)

UnitsFit(L) == Len(L.pending) + 1 <= MaxUnits

Clamped(m) == Max({MinMult, Min({MaxMult, m})})

Pressure(used) == Min({Target, IF used > Target THEN used - Target ELSE Target - used})

NextMultiplier(L) ==
  LET change == ((L.mult * Pressure(L.used)) \div Target) \div Denominator IN
  IF Target = 0 THEN L.mult
  ELSE Clamped(CASE L.used > Target -> L.mult + Max({1, change})
                 [] L.used < Target -> L.mult - change
                 [] L.used = Target -> L.mult)

(* advance_epochs_for_block, for the fees. *)
NextEpoch(L) == [L EXCEPT !.epoch = @ + 1, !.mult = Clamped(NextMultiplier(L)), !.used = 0]

AdvanceEpochs(L, t) ==
  FoldLeft(LAMBDA S, i : NextEpoch(S), L, [i \in 1..Max({0, t \div EpochLength - L.epoch}) |-> i])

-----------------------------------------------------------------------------
(* Executing an operation on a ledger. *)

(* Mutant: the fee is charged from an account that lacks it. *)
MutChargeable(L, o) ==
  Len(L.pending) < MaxOps /\ MaxFeeCovers(L, o) /\ UnitsFit(L)

(* What finalize_operation and charge_operation_fee require. *)
Chargeable(L, o) ==
  /\ Len(L.pending) < MaxOps /\ MaxFeeCovers(L, o) /\ UnitsFit(L)
  /\ AccountOf(L, o.from).balance >= Fee(L)

NextNonce(L, o) == o.nonce = AccountOf(L, o.from).nonce + 1

Record(status, fee) == [status |-> status, height |-> None, fee |-> fee]

Noted(acc, o) == [acc EXCEPT !.ids = @ \cup {o}]

FinalizeOperation(L, o, status) ==
  [L EXCEPT
     !.acc = (o.from :> [Noted(AccountOf(L, o.from), o) EXCEPT
                           !.balance = @ - Fee(L), !.nonce = o.nonce, !.key = TRUE]) @@ @,
     !.ops = (o :> Record(status, Fee(L))) @@ @,
     !.burned = @ + Fee(L), !.used = IF Fee(L) = 0 THEN @ ELSE @ + 1,
     !.pending = Sorted(Range(@) \cup {o})]

(* submit_signed_transfer. *)
CanTransfer(L, o, t) ==
  /\ t <= o.until /\ NextNonce(L, o) /\ Chargeable(L, o)
  /\ AccountOf(L, o.from).balance >= o.amount + Fee(L)

Debited(L, o) ==
  [L EXCEPT !.acc = (o.from :> [AccountOf(L, o.from) EXCEPT !.balance = @ - o.amount]) @@ @]

Moved(L, o) ==
  LET D == Debited(L, o) IN
  [D EXCEPT !.acc = (o.to :> Noted([AccountOf(D, o.to) EXCEPT !.balance = @ + o.amount], o)) @@ @]

(* Mutant: a command records the transfer as final. *)
MutTransferred(L, o) == FinalizeOperation(Moved(L, o), o, "finalized")

Transferred(L, o) == FinalizeOperation(Moved(L, o), o, "pending")

(* finalize_rejected_consensus_operation: the fee alone. *)
CanReject(L, o, t) == t <= o.until /\ NextNonce(L, o) /\ Chargeable(L, o)

(* Mutant: a rejected transfer still moves its amount. *)
MutRejected(L, o) == FinalizeOperation(Moved(L, o), o, "rejected")

Rejected(L, o) == FinalizeOperation(L, o, "rejected")

-----------------------------------------------------------------------------
(* The pool (submit_consensus_operation): an operation that executes is
   executed, another one is staged, without effect, as a candidate. *)

FinalizedNonce(L, o) == IF L.chk = None THEN 0 ELSE AccountOf(L.chk, o.from).nonce

CanStage(L, o, t) ==
  /\ t <= o.until
  /\ \A p \in Range(L.pending) : p.from # o.from \/ p.nonce # o.nonce
  /\ Len(L.pending) < MaxOps
  /\ o.nonce \in (FinalizedNonce(L, o) + 1)..(FinalizedNonce(L, o) + Window)
  /\ MaxFeeCovers(L, o) /\ UnitsFit(L)
  /\ AccountOf(L, o.from).balance >= Fee(L)

Staged(L, o) ==
  [L EXCEPT !.acc = (o.from :> [AccountOf(L, o.from) EXCEPT !.key = TRUE]) @@ @,
            !.ops = (o :> Record("pending", 0)) @@ @,
            !.pending = Sorted(Range(@) \cup {o})]

Known(T, o) == o \in DOMAIN T.ops

Executable(T, o, t) == ~Known(T, o) /\ CanTransfer(FullView(T), o, t)

Stageable(T, o, t) == ~Known(T, o) /\ ~CanTransfer(FullView(T), o, t) /\ CanStage(ActiveView(T), o, t)

Submitted(T, o, t) ==
  IF CanTransfer(FullView(T), o, t) THEN PersistFull(T, Transferred(FullView(T), o))
  ELSE PersistActive(T, Staged(ActiveView(T), o))

-----------------------------------------------------------------------------
(* Replaying a pool (replay_block_operations). *)

(* The finalized ledger, with the chain and the finished operations of the view;
   the active view has none. *)
ReplayBase(L) ==
  [L.chk EXCEPT !.pending = <<>>, !.base = L.base, !.baseTip = L.baseTip, !.from = L.from,
                !.acc = WithIds(@, LAMBDA a : {})]
    @@ [ops |-> <<>>, chk |-> None]

Replay1(S, o, t) ==
  IF CanTransfer(S, o, t) THEN Transferred(S, o)
  ELSE IF CanReject(S, o, t) THEN Rejected(S, o)
  ELSE S

Replayed(L, t) == FoldLeft(LAMBDA S, o : Replay1(S, o, t), AdvanceEpochs(ReplayBase(L), t), L.pending)

Finality(r, h) == [r EXCEPT !.status = IF @ = "pending" THEN "finalized" ELSE @, !.height = h]

Committed(S, h) == [S EXCEPT !.ops = [o \in DOMAIN @ |-> Finality(@[o], h)], !.pending = <<>>]

Block(L, S, ids, t) ==
  [height |-> Height(L) + 1, prev |-> Tip(L), ts |-> t, ids |-> ids, root |-> StateRoot(S)]

(* produce_node1_block: the accepted operations, in the order of the pool. *)
Extended(L, S, ids, t) ==
  Checkpointed([Committed(S, Height(L) + 1) EXCEPT !.blocks = <<Block(L, S, ids, t)>>])

Produced(L, S, t) == Extended(L, S, SelectSeq(L.pending, LAMBDA o : o \in DOMAIN S.ops), t)

-----------------------------------------------------------------------------
(* Verifying a chain (verify_blockchain_inner). *)

IdsOf(blocks) == UNION {Range(blocks[i].ids) : i \in DOMAIN blocks}

LinkedChain(L) ==
  \A i \in DOMAIN L.blocks :
     LET prev == IF i = 1 THEN L.baseTip ELSE L.blocks[i - 1] IN
     /\ L.blocks[i].height = L.base + i /\ L.blocks[i].prev = prev
     /\ prev # None => L.blocks[i].ts >= prev.ts
     /\ Len(L.blocks[i].ids) <= MaxOps

OperationsOfChain(L) ==
  /\ \A i \in DOMAIN L.blocks : \A j \in DOMAIN L.blocks[i].ids :
        LET o == L.blocks[i].ids[j] IN
        /\ \A k \in 1..(i - 1) : o \notin Range(L.blocks[k].ids)
        /\ IF o \notin DOMAIN L.ops THEN L.blocks[i].height < L.from
           ELSE /\ L.ops[o].status \in {"finalized", "rejected"} /\ L.ops[o].height = L.blocks[i].height
                /\ AccountOf(L, o.from).key
  /\ \A o \in DOMAIN L.ops :
        L.ops[o].height # None => L.ops[o].height <= L.base \/ o \in IdsOf(L.blocks)

Verified(L) ==
  /\ Len(L.pending) <= MaxOps /\ (L.base = 0) = (L.baseTip = None)
  /\ LinkedChain(L) /\ OperationsOfChain(L)
  /\ \A o \in Range(L.pending) : o \in DOMAIN L.ops /\ L.ops[o].status = "pending"

-----------------------------------------------------------------------------
(* Catch-up: collect_catch_up_from_tables answers for the blocks after a height,
   with the finalized ledger once they reach the tip. *)

ChunkBlocks(T, h) ==
  [i \in 1..Min({ChunkSize, TipHeight(T) - h}) |-> T.blocks[h + i]]

CanServe(T, h) ==
  h <= TipHeight(T) /\ h >= T.meta.base /\ IdsOf(ChunkBlocks(T, h)) \subseteq DOMAIN T.ops

Chunk(T, blocks, h) ==
  [blocks |-> blocks, ops |-> [o \in IdsOf(blocks) |-> T.ops[o]],
   chk |-> IF h + Len(blocks) = TipHeight(T) /\ T.committed # None /\ Finalized(T).base = TipHeight(T)
           THEN Finalized(T) ELSE None]

(* apply_consensus_catch_up: the received chain extends the local one, and no
   local pending operation is left out of it. *)
Extends(L, f) ==
  /\ f.blocks[1].height = Height(L) + 1 /\ f.blocks[1].prev = Tip(L)
  /\ \A i \in 2..Len(f.blocks) :
        f.blocks[i].height = Height(L) + i /\ f.blocks[i].prev = f.blocks[i - 1]

KeepsPool(L, f) == Range(L.pending) \subseteq IdsOf(f.blocks) \cup Range(f.chk.pending)

GoodCheckpoint(f) == f.chk.base = Last(f.blocks).height /\ f.chk.baseTip = Last(f.blocks)

(* Mutant: the local records win over the received ones. *)
MutCandidate(L, f) ==
  [base |-> L.base, baseTip |-> L.baseTip, blocks |-> L.blocks \o f.blocks,
   ops |-> L.ops @@ f.ops, chk |-> None]
    @@ f.chk

(* The ledger it becomes: the received state with the local history before it. *)
Candidate(L, f) ==
  [base |-> L.base, baseTip |-> L.baseTip, blocks |-> L.blocks \o f.blocks,
   ops |-> f.ops @@ L.ops, chk |-> None]
    @@ f.chk

RootMatches(C) == StateRoot(C) = Last(C.blocks).root

CanApply(T, L, f) ==
  /\ Extends(L, f) /\ KeepsPool(L, f) /\ GoodCheckpoint(f)
  /\ RootMatches(Candidate(L, f)) /\ Verified(Candidate(L, f))
  /\ Persistable(T, L, Checkpointed(Candidate(L, f)))

-----------------------------------------------------------------------------
(* The initial tables: Node 1 has committed its first block, and the accounts of
   Opening were funded by it; its peers are initialized and empty. *)

FirstLedger ==
  [acc |-> Opening, pending |-> <<>>, ops |-> <<>>, blocks |-> <<>>, base |-> 0, baseTip |-> None,
   from |-> 1, burned |-> 0, mult |-> MinMult, used |-> 0, epoch |-> 0, chk |-> None]

FirstTables ==
  PersistLatest(PersistActive(Empty, Extended(FirstLedger, FirstLedger, <<>>, 0)), Gap, Retention)

Init ==
  /\ now = 0 /\ signed = {}
  /\ db = [d \in Daemons |-> IF d = Node1 THEN FirstTables ELSE Empty]
  /\ fetch = [d \in Peers |-> None]
  /\ backup = [d \in Daemons |-> None]
  /\ rewound = FALSE

Write(d, T) == db' = [db EXCEPT ![d] = T]

-----------------------------------------------------------------------------
(* transfer: the command of a local account; preview, signature and execution
   see the same ledger. *)
Transfer(d, from, to, amount) ==
  LET L == FullView(db[d])
      o == [from |-> from, to |-> to, amount |-> amount, nonce |-> AccountOf(L, from).nonce + 1,
            until |-> now + Validity, max |-> Buffered(Fee(L))]
  IN  /\ from # to
      /\ Executable(db[d], o, now)
      /\ Write(d, PersistFull(db[d], Transferred(L, o)))
      /\ UNCHANGED <<now, signed, fetch, backup, rewound>>

(* sign_transfer_for_submission: a wallet signs with the nonce and the largest
   fee it was told.  This one refuses to send to its own account; the daemon, to
   which another wallet may submit, does not. *)
Sign(from, to, amount, nonce, max) ==
  /\ signed' = signed \cup {[from |-> from, to |-> to, amount |-> amount, nonce |-> nonce,
                             until |-> now + Validity, max |-> max]}
  /\ UNCHANGED <<now, db, fetch, backup, rewound>>

Submit(d, o) ==
  /\ Executable(db[d], o, now) \/ Stageable(db[d], o, now)
  /\ Write(d, Submitted(db[d], o, now))
  /\ UNCHANGED <<now, signed, fetch, backup, rewound>>

(* The first part of run_public_chain_sync: the peer offers its pool to Node 1. *)
Forward(d) == \E o \in Range(db[d].meta.pending) : Submit(Node1, o)

(* What follows a commit in a transaction of its own, unless the process stops
   between the two. *)
ThenCheckpoint(T, stored) == IF stored THEN PersistLatest(T, Gap, Retention) ELSE T

(* produce_node1_block, with the checkpoint it may store after its commit. *)
ProduceBlock(stored) ==
  LET L == ActiveView(db[Node1]) IN
  /\ now >= Tip(L).ts
  /\ Write(Node1, ThenCheckpoint(PersistActive(db[Node1], Produced(L, Replayed(L, now), now)), stored))
  /\ UNCHANGED <<now, signed, fetch, backup, rewound>>

(* The rest of run_public_chain_sync: one chunk after the other, ... *)
FetchedTo(d) == IF fetch[d] = None THEN TipHeight(db[d]) ELSE Last(fetch[d].blocks).height

Joined(f, c) == IF f = None THEN c ELSE [blocks |-> f.blocks \o c.blocks, ops |-> f.ops @@ c.ops, chk |-> c.chk]

FetchChunk(d) ==
  /\ db[d].committed # None
  /\ fetch[d] # None => fetch[d].chk = None
  /\ CanServe(db[Node1], FetchedTo(d)) /\ FetchedTo(d) < TipHeight(db[Node1])
  /\ fetch' = [fetch EXCEPT ![d] =
                 Joined(@, Chunk(db[Node1], ChunkBlocks(db[Node1], FetchedTo(d)), FetchedTo(d)))]
  /\ UNCHANGED <<now, db, signed, backup, rewound>>

(* ... and, when the finalized ledger has come, their application, which may be
   refused. *)
Applied(T, L, f) == PersistFull(T, Checkpointed(Candidate(L, f)))

ApplyCatchUp(d, stored) ==
  /\ fetch[d] # None /\ fetch[d].chk # None
  /\ IF CanApply(db[d], FullView(db[d]), fetch[d])
     THEN Write(d, ThenCheckpoint(Applied(db[d], FullView(db[d]), fetch[d]), stored))
     ELSE db' = db
  /\ fetch' = [fetch EXCEPT ![d] = None]
  /\ UNCHANGED <<now, signed, backup, rewound>>

(* prune_lite_history. *)
Prune(d) ==
  LET L == FullView(db[d]) IN
  /\ d \in Lite
  /\ \/ Len(L.blocks) > RetainBlocks
     \/ \E a \in DOMAIN L.acc : Cardinality(L.acc[a].ids) > RetainIds
  /\ Write(d, PersistFull(db[d], PruneHistory(L, RetainBlocks, RetainIds)))
  /\ UNCHANGED <<now, signed, fetch, backup, rewound>>

-----------------------------------------------------------------------------
(* bootstrap_snapshot(_at) on Node 1 and install_bootstrap_snapshot on an empty
   peer.  A snapshot of the tip is stored by the server too, a stored checkpoint
   is never replaced by another of the same height, and if the peer cannot write
   its configuration, it puts the old ledger back. *)

Installed(T, chk) ==
  PersistFull(StoreCheckpoint(T, chk, Retention), chk @@ [ops |-> <<>>, chk |-> chk])

Uninstalled(T, old) == PersistFull(T, old)

Snapshots(T) == {Finalized(T)} \cup {T.ckpts[h] : h \in {k \in DOMAIN T.ckpts : k < TipHeight(T)}}

Served(T, chk) == IF chk.base = TipHeight(T) THEN StoreCheckpoint(T, chk, Retention) ELSE T

Bootstrap(d, chk, written) ==
  /\ chk.base = TipHeight(db[Node1]) => CanStore(db[Node1], chk)
  /\ CanStore(db[d], chk)
  /\ db[d].committed = None /\ db[d].blocks = <<>> /\ db[d].meta.pending = <<>>
  /\ db' = [db EXCEPT ![Node1] = Served(@, chk),
                      ![d] = IF written THEN Installed(@, chk)
                             ELSE Uninstalled(Installed(@, chk), FullView(@))]
  /\ UNCHANGED <<now, signed, fetch, backup, rewound>>

(* backup_ledger, and restore_ledger_backup with the daemon stopped: any daemon
   takes any verified backup, its own or that of another, however old it is. *)
Backup(d) ==
  /\ db[d].committed # None /\ Verified(FullView(db[d]))
  /\ backup' = [backup EXCEPT ![d] = FullView(db[d])]
  /\ UNCHANGED <<now, db, signed, fetch, rewound>>

Restore(d, source) ==
  /\ backup[source] # None
  /\ Persistable(db[d], FullView(db[d]), backup[source])
  /\ Write(d, PersistFull(db[d], backup[source]))
  /\ fetch' = [p \in Peers |-> IF p = d THEN None ELSE fetch[p]]
  /\ rewound' = (rewound \/ (d = Node1 /\ Tip(backup[source]) # Tip(FullView(db[d]))))
  /\ UNCHANGED <<now, signed, backup>>

(* A crash, or an answer that does not come or is refused, loses the download. *)
Crash(d) ==
  fetch[d] # None /\ fetch' = [fetch EXCEPT ![d] = None] /\ UNCHANGED <<now, db, signed, backup, rewound>>

Tick == now' = now + 1 /\ UNCHANGED <<db, signed, fetch, backup, rewound>>

-----------------------------------------------------------------------------
NewTransfer(d) == \E from, to \in Addresses, amount \in Amounts : Transfer(d, from, to, amount)

NewSignature ==
  /\ Cardinality(signed) < MaxSigned
  /\ \E from, to \in Addresses, amount \in Amounts, max \in MaxFees, k \in 1..Ahead :
        Sign(from, to, amount, AccountOf(Finalized(db[Node1]), from).nonce + k, max)

SubmitSigned == \E d \in Daemons, o \in signed : Submit(d, o)

NextBlock == TipHeight(db[Node1]) < MaxHeight /\ \E stored \in BOOLEAN : ProduceBlock(stored)

BootstrapFrom(d) == \E chk \in Snapshots(db[Node1]), written \in BOOLEAN : Bootstrap(d, chk, written)

NextTick == now < MaxTime /\ Tick

PeerStep(d) ==
  \/ NewTransfer(d) \/ Forward(d) \/ FetchChunk(d) \/ Prune(d)
  \/ \E stored \in BOOLEAN : ApplyCatchUp(d, stored)
  \/ BootstrapFrom(d) \/ Crash(d)

RestoreAny == \E d, source \in Daemons : Restore(d, source)

Next ==
  \/ NewTransfer(Node1) \/ NewSignature \/ SubmitSigned \/ NextBlock \/ NextTick
  \/ \E d \in Daemons : Backup(d)
  \/ RestoreAny
  \/ \E d \in Peers : PeerStep(d)

ChainSpec == Init /\ [][Next]_vars

-----------------------------------------------------------------------------
Running(d) == db[d].committed # None

Records == [status : {"pending", "finalized", "rejected"}, height : Nat \cup {None}, fee : Nat]

(* Balances never go below zero, neither in the rows nor in the finalized ledger;
   the pool is within the limits of a block, its operations are stored as pending
   and no others are (charge_operation_fee, finalize_operation, persist_operations). *)
ChainTypeOK ==
  \A d \in Daemons :
    /\ \A a \in DOMAIN db[d].acc : db[d].acc[a].balance \in Nat /\ db[d].acc[a].nonce \in Nat
    /\ Running(d) => \A a \in DOMAIN Finalized(db[d]).acc : Finalized(db[d]).acc[a].balance \in Nat
    /\ Len(db[d].meta.pending) <= MaxOps
    /\ \A o \in DOMAIN db[d].ops : db[d].ops[o] \in Records
    /\ {o \in DOMAIN db[d].ops : db[d].ops[o].status = "pending"} = Range(db[d].meta.pending)
    /\ db[d].meta.mult \in MinMult..MaxMult

(* The finalized ledger a daemon rebuilds from its rows and the overlay is the one
   the tip of its chain commits to by its state root, whatever was executed, staged,
   pruned, restored or rolled back on the rows since (state::hydrate, persist_string_overlay). *)
CheckpointFaithful ==
  \A d \in Daemons : Running(d) => StateRoot(Finalized(db[d])) = Tip(FullView(db[d])).root

(* The retained chain of every daemon passes its own verification at any time, so
   that verify, backup and catch-up can always rely on it (verify_blockchain_inner). *)
ChainVerifies == \A d \in Daemons : Running(d) => Verified(FullView(db[d]))

Finished(T) == {o \in DOMAIN T.ops : T.ops[o].status # "pending"}

SumOf(S, F(_)) == MapThenSumSet(F, S)

Received(T, a) == {o \in Finished(T) : o.to = a /\ T.ops[o].status = "finalized"}

Sent(T, a) == {o \in Finished(T) : o.from = a /\ T.ops[o].status = "finalized"}

By(T, a) == {o \in Finished(T) : o.from = a}

(* The accounts that are final on Node 1, while it has all of its history (it may be
   restored from a pruned copy), are the result of that history: each is its
   opening balance with the finalized transfers and the fees of all its finished
   operations, the nonces of these are 1, 2, ... with no gap and none twice, and
   the history of the account links to each, so that nothing is applied twice, early
   or without being recorded (replay_block_operations, persist_account_histories,
   finalize_rejected_consensus_operation). *)
LedgerMatchesHistory ==
  LET T == db[Node1] IN
  T.meta.base = 0 => \A a \in DOMAIN Finalized(T).acc :
    LET final == Finalized(T).acc[a] IN
    /\ final.balance = AccountOf([acc |-> Opening], a).balance
                         + SumOf(Received(T, a), LAMBDA o : o.amount)
                         - SumOf(Sent(T, a), LAMBDA o : o.amount)
                         - SumOf(By(T, a), LAMBDA o : T.ops[o].fee)
    /\ {o.nonce : o \in By(T, a)} = 1..final.nonce /\ Cardinality(By(T, a)) = final.nonce
    /\ By(T, a) \cup Received(T, a) \subseteq Linked(T, a)

(* Blocks that continue the chain of a peer, fetched with the finalized ledger in
   any number of chunks while Node 1 went on, are refused for one reason only: an
   operation in the pool of the peer that they leave out (apply_consensus_catch_up,
   collect_catch_up_from_tables, block::persist, persist_operations).  Heights that
   follow each other are enough, unless Node 1 was set back. *)
CatchUpAccepted ==
  \A d \in Peers :
    (fetch[d] # None /\ fetch[d].chk # None
      /\ Last(fetch[d].blocks).height > TipHeight(db[d]) /\ fetch[d].blocks[1].height = TipHeight(db[d]) + 1
      /\ (rewound => Extends(FullView(db[d]), fetch[d]))
      /\ KeepsPool(FullView(db[d]), fetch[d]))
    => CanApply(db[d], FullView(db[d]), fetch[d])

(* As long as Node 1 was not restored from a backup that lacks blocks it had made, all
   daemons agree on what is final: a block a peer has is the block of Node 1 at
   that height, and an operation it has finished has there the same outcome, fee and
   height, as far as the history of Node 1 goes back (apply_consensus_catch_up merges
   the received records over the local ones). *)
FinalityAgrees ==
  ~rewound => \A d \in Peers :
    /\ \A h \in DOMAIN db[d].blocks :
          h > db[Node1].meta.base => db[d].blocks[h] = At(db[Node1].blocks, h)
    /\ \A o \in Finished(db[d]) :
          \/ db[d].ops[o].height # None /\ db[d].ops[o].height <= db[Node1].meta.base
          \/ db[d].ops[o] = At(db[Node1].ops, o)
=============================================================================
