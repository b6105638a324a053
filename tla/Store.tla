------------------------------- MODULE Store -------------------------------
(***************************************************************************)
(* How a daemon keeps its ledger on disk.  One redb transaction reads the  *)
(* tables into a ledger (a view), runs the command on it and writes back   *)
(* the differences.  There are two views: the full one, with all blocks,   *)
(* operations and account histories, and the active one of block           *)
(* production, in which the chain is a pruned prefix up to its tip and     *)
(* only the pending operations are loaded.  The finalized ledger has no    *)
(* rows of its own: it is the current rows with an overlay on them.        *)
(*                                                                         *)
(* A ledger is a record with the accounts acc, the pending operations in   *)
(* order, the operations with their finality, the blocks after the pruned  *)
(* prefix (base and baseTip), the height from which operations are kept,   *)
(* the burned fees, the fee multiplier, the units used in the epoch and    *)
(* chk, the finalized ledger.  Tables have a row per account and height.   *)
(***************************************************************************)
EXTENDS Integers, Sequences, FiniteSets, FiniteSetsExt, Functions, TLC

CONSTANTS None

MetaFields == {"pending", "base", "baseTip", "from", "burned", "mult", "used", "epoch"}

(* persisted_state: the small row beside the tables. *)
MetaOf(L) == [f \in MetaFields |-> L[f]]

At(f, k) == IF k \in DOMAIN f THEN f[k] ELSE None

(* What f says, and g where f is silent. *)
Over(f, g) == [k \in DOMAIN f \cup DOMAIN g |-> IF k \in DOMAIN f THEN f[k] ELSE g[k]]

Without(f, K) == [k \in DOMAIN f \ K |-> f[k]]

WithIds(acc, Ids(_)) == [a \in DOMAIN acc |-> [acc[a] EXCEPT !.ids = Ids(a)]]

Empty ==
  [acc |-> <<>>, over |-> <<>>, committed |-> None, blocks |-> <<>>, ops |-> <<>>, links |-> {},
   ckpts |-> <<>>,
   meta |-> [pending |-> <<>>, base |-> 0, baseTip |-> None, from |-> 1, burned |-> 0,
             mult |-> 1, used |-> 0, epoch |-> 0]]

-----------------------------------------------------------------------------
(* The chain of a ledger (chain.rs). *)

Height(L) == L.base + Len(L.blocks)

Tip(L) == IF L.blocks = <<>> THEN L.baseTip ELSE L.blocks[Len(L.blocks)]

StateRoot(L) ==
  [acc |-> WithIds(L.acc, LAMBDA a : {}), burned |-> L.burned, mult |-> L.mult,
   used |-> L.used, epoch |-> L.epoch]

-----------------------------------------------------------------------------
(* Reading: state::hydrate and the two views. *)

Overlaid(acc, over) ==
  [a \in (DOMAIN acc \cup DOMAIN over) \ {b \in DOMAIN over : over[b] = None} |->
     IF a \in DOMAIN over THEN over[a] ELSE acc[a]]

(* A ledger without blocks: the small row m and the accounts. *)
Small(m, acc) ==
  [acc |-> acc, blocks |-> <<>>, pending |-> m.pending, base |-> m.base, baseTip |-> m.baseTip,
   from |-> m.from, burned |-> m.burned, mult |-> m.mult, used |-> m.used, epoch |-> m.epoch]

Finalized(T) == IF T.committed = None THEN None ELSE Small(T.committed, Overlaid(T.acc, T.over))

(* A ledger with the accounts and the small row of the tables. *)
StateView(T, acc, ops, blocks) ==
  [acc |-> acc, ops |-> ops, blocks |-> blocks, chk |-> Finalized(T),
   pending |-> T.meta.pending, base |-> T.meta.base, baseTip |-> T.meta.baseTip,
   from |-> T.meta.from, burned |-> T.meta.burned, mult |-> T.meta.mult,
   used |-> T.meta.used, epoch |-> T.meta.epoch]

Linked(T, a) == {o \in {l[2] : l \in T.links} : <<a, o>> \in T.links}

FullView(T) ==
  StateView(T, WithIds(T.acc, LAMBDA a : Linked(T, a)), T.ops,
            [i \in 1..Cardinality(DOMAIN T.blocks) |-> T.blocks[T.meta.base + i]])

TipHeight(T) == Max(DOMAIN T.blocks \cup {T.meta.base})

PendingOps(T) == [o \in Range(T.meta.pending) |-> T.ops[o]]

ActiveView(T) ==
  [StateView(T, WithIds(T.acc, LAMBDA a : {}), PendingOps(T), <<>>) EXCEPT
     !.base = TipHeight(T),
     !.baseTip = IF T.blocks = <<>> THEN @ ELSE T.blocks[TipHeight(T)]]

-----------------------------------------------------------------------------
(* Writing: persist_histories compares the ledger before and after. *)

Rows(rows, before, after) ==
  [a \in DOMAIN after |-> IF At(before, a) = after[a] THEN rows[a] ELSE after[a]]

(* Mutant: rows the finalized ledger lacks are not marked. *)
MutOverlay(current, chk) ==
  IF chk = None THEN <<>>
  ELSE [a \in {b \in DOMAIN chk.acc : At(current, b) # chk.acc[b]} |-> chk.acc[a]]

(* persist_string_overlay: None stands for a row the finalized ledger lacks. *)
Overlay(current, chk) ==
  IF chk = None THEN <<>>
  ELSE [a \in {b \in DOMAIN current \cup DOMAIN chk.acc : At(current, b) # At(chk.acc, b)} |->
          At(chk.acc, a)]

BlocksAt(blocks) == [h \in {blocks[i].height : i \in DOMAIN blocks} |->
                       blocks[CHOOSE i \in DOMAIN blocks : blocks[i].height = h]]

Keys(L) == UNION {{<<a, o>> : o \in L.acc[a].ids} : a \in DOMAIN L.acc}

(* The rows that came with before and not with after go, the new ones come. *)
Changed(table, before, after) == Over(after, Without(table, DOMAIN before))

Persist(T, before, after) ==
  [acc |-> Rows(T.acc, before.acc, after.acc),
   over |-> Overlay(after.acc, after.chk),
   committed |-> IF after.chk = None THEN None ELSE MetaOf(after.chk),
   blocks |-> Changed(T.blocks, BlocksAt(before.blocks), BlocksAt(after.blocks)),
   ops |-> Changed(T.ops, before.ops, after.ops),
   links |-> (T.links \ (Keys(before) \ Keys(after))) \cup (Keys(after) \ Keys(before)),
   meta |-> MetaOf(after), ckpts |-> T.ckpts]

(* The conditions without which the transaction fails: heights are contiguous,
   blocks are only appended and never modified, bodies are never overwritten. *)
Contiguous(L) == \A i \in DOMAIN L.blocks : L.blocks[i].height = L.base + i

AppendOnly(table, before, after) ==
  /\ \A h \in DOMAIN after \cap DOMAIN before : after[h] = before[h]
  /\ \A h \in DOMAIN after \ DOMAIN before :
        h \notin DOMAIN table /\ \A k \in DOMAIN before : h > k

Persistable(T, before, after) ==
  /\ Contiguous(after)
  /\ AppendOnly(T.blocks, BlocksAt(before.blocks), BlocksAt(after.blocks))
  /\ (DOMAIN after.ops \ DOMAIN before.ops) \cap DOMAIN T.ops = {}

(* with_ledger_mut and with_active_ledger_mut: the latter keeps the pruned
   prefix that is on disk. *)
PersistFull(T, after) == Persist(T, FullView(T), after)

PersistActive(T, after) ==
  [Persist(T, ActiveView(T), after) EXCEPT !.meta.base = T.meta.base,
                                           !.meta.baseTip = T.meta.baseTip]

-----------------------------------------------------------------------------
(* The finalized ledger, the bootstrap checkpoints and the pruning of LITE. *)

(* update_finalized_checkpoint: of the histories only the operations of the tip
   and the unfinished ones stay. *)
CheckpointOf(L) ==
  [Small(L, WithIds(L.acc, LAMBDA a :
              {o \in L.acc[a].ids \cap DOMAIN L.ops : L.ops[o].height \in {None, Height(L)}}))
     EXCEPT !.base = Height(L), !.baseTip = Tip(L)]

Checkpointed(L) == [L EXCEPT !.chk = CheckpointOf(L)]

CanStore(T, chk) == At(T.ckpts, chk.base) \in {None, chk}

Latest(ckpts, n) == {h \in DOMAIN ckpts : Cardinality({k \in DOMAIN ckpts : k > h}) < n}

StoreCheckpoint(T, chk, n) ==
  [T EXCEPT !.ckpts = LET all == (chk.base :> chk) @@ @ IN Without(all, DOMAIN all \ Latest(all, n))]

(* should_persist: the first one, then one per interval. *)
ShouldPersist(T, gap) ==
  T.ckpts = <<>> \/ Finalized(T).baseTip.ts - T.ckpts[Max(DOMAIN T.ckpts)].baseTip.ts >= gap

PersistLatest(T, gap, n) ==
  IF ShouldPersist(T, gap) /\ CanStore(T, Finalized(T)) THEN StoreCheckpoint(T, Finalized(T), n) ELSE T

(* Mutant: the operations of the oldest retained block are dropped. *)
MutKeptOps(L, blocks) ==
  {o \in DOMAIN L.ops :
     L.ops[o].status = "pending" \/ \E i \in 2..Len(blocks) : o \in Range(blocks[i].ids)}

(* prune_history: what is kept of the operations and the blocks (see Chain). *)
KeptOps(L, blocks) ==
  {o \in DOMAIN L.ops :
     L.ops[o].status = "pending" \/ \E i \in DOMAIN blocks : o \in Range(blocks[i].ids)}

Recent(blocks, n) == SubSeq(blocks, Max({1, Len(blocks) - n + 1}), Len(blocks))
=============================================================================
