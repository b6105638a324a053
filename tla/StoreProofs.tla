---------------------------- MODULE StoreProofs ----------------------------
(***************************************************************************)
(* What reading gives back of what a transaction wrote, for every ledger.  *)
(*                                                                         *)
(* The finalized ledger has no rows of its own: it is the current rows     *)
(* with an overlay of those in which it differs, and a row it lacks is     *)
(* marked by None.  A row is rewritten only if the command changed it, and *)
(* rows carry no histories, which are in a table of their own; the overlay *)
(* therefore gives back the accounts up to their histories, which is what  *)
(* the state root covers.                                                  *)
(***************************************************************************)
EXTENDS Store, FiniteSetTheorems, TLAPS

\* Tables and views hold accounts, and None is not one.
Accounts(acc) ==
    /\ acc = [a \in DOMAIN acc |-> acc[a]]
    /\ \A a \in DOMAIN acc : acc[a] # None

\* Two rows of an account that may differ in its history.
SameRow(r, q) == [r EXCEPT !.ids = {}] = [q EXCEPT !.ids = {}]

\* A view shows the rows of the accounts table, each with some history.
Shows(acc, rows) ==
    /\ DOMAIN acc = DOMAIN rows
    /\ \A a \in DOMAIN rows : SameRow(acc[a], rows[a])

-----------------------------------------------------------------------------
\* The overlay is exact: laid over the rows it was computed from, it gives the
\* finalized accounts, the rows it lacks included (persist_string_overlay).
LEMMA OverlayReadsBack ==
    ASSUME NEW current, NEW chk, chk # None, Accounts(current), Accounts(chk.acc)
    PROVE  Overlaid(current, Overlay(current, chk)) = chk.acc
  <1> DEFINE over == Overlay(current, chk)
             S == {b \in DOMAIN current \cup DOMAIN chk.acc : At(current, b) # At(chk.acc, b)}
  <1>1. over = [a \in S |-> At(chk.acc, a)]
    BY DEF Overlay
  <1>2. DOMAIN over = S /\ \A a \in S : over[a] = At(chk.acc, a)
    BY <1>1
  <1>3. (DOMAIN current \cup DOMAIN over) \ {b \in DOMAIN over : over[b] = None} = DOMAIN chk.acc
    BY <1>2 DEF At, Accounts
  <1>4. \A a \in DOMAIN chk.acc : (IF a \in DOMAIN over THEN over[a] ELSE current[a]) = chk.acc[a]
    BY <1>2 DEF At, Accounts
  <1> HIDE DEF over
  <1>5. Overlaid(current, over) = [a \in DOMAIN chk.acc |-> IF a \in DOMAIN over THEN over[a] ELSE current[a]]
    BY <1>3 DEF Overlaid
  <1>6. @ = [a \in DOMAIN chk.acc |-> chk.acc[a]]
    BY <1>4
  <1> QED
    BY <1>5, <1>6 DEF Accounts, over

\* Rows that the command did not change stay, the others are rewritten: the
\* table shows the accounts of the ledger (persist_histories).
LEMMA RowsShow ==
    ASSUME NEW rows, NEW before, NEW after, Shows(before, rows), \A a \in DOMAIN after : after[a] # None
    PROVE  Shows(after, Rows(rows, before, after))
  <1> SUFFICES ASSUME NEW a \in DOMAIN after
               PROVE  SameRow(after[a], Rows(rows, before, after)[a])
    BY DEF Shows, Rows
  <1>1. CASE At(before, a) = after[a]
    <2>1. a \in DOMAIN before /\ before[a] = after[a]
      BY <1>1 DEF At
    <2>2. Rows(rows, before, after)[a] = rows[a]
      BY <1>1 DEF Rows
    <2> QED
      BY <2>1, <2>2 DEF Shows
  <1>2. CASE At(before, a) # after[a]
    BY <1>2 DEF Rows, SameRow
  <1> QED
    BY <1>1, <1>2

\* The overlay is computed from the ledger's accounts and laid over the rows,
\* which have no histories: it gives the finalized accounts up to theirs.
LEMMA OverlayOnRows ==
    ASSUME NEW rows, NEW current, NEW chk, chk # None,
           Accounts(current), Accounts(chk.acc), Shows(current, rows)
    PROVE  Shows(chk.acc, Overlaid(rows, Overlay(current, chk)))
  <1> DEFINE over == Overlay(current, chk)
  <1>1. Overlaid(current, over) = chk.acc
    BY OverlayReadsBack
  <1>2. DOMAIN Overlaid(rows, over) = DOMAIN Overlaid(current, over)
    BY DEF Overlaid, Shows
  <1>3. ASSUME NEW a \in DOMAIN Overlaid(rows, over)
        PROVE  SameRow(Overlaid(current, over)[a], Overlaid(rows, over)[a])
    <2> HIDE DEF over
    <2>1. CASE a \in DOMAIN over
      BY <1>3, <2>1 DEF Overlaid, SameRow, Shows
    <2>2. CASE a \notin DOMAIN over
      BY <1>3, <2>2 DEF Overlaid, SameRow, Shows
    <2> QED
      BY <2>1, <2>2
  <1> HIDE DEF over
  <1> QED
    BY <1>1, <1>2, <1>3 DEF Shows, over

\* Accounts that are shown have the same part in the state root.
LEMMA ShownRoot ==
    ASSUME NEW acc, NEW rows, Shows(acc, rows)
    PROVE  WithIds(acc, LAMBDA a : {}) = WithIds(rows, LAMBDA a : {})
  BY DEF Shows, SameRow, WithIds

\* Both views show the rows of the accounts table, whatever the histories.
LEMMA ViewsShow ==
    ASSUME NEW T
    PROVE  Shows(FullView(T).acc, T.acc) /\ Shows(ActiveView(T).acc, T.acc)
  <1>1. FullView(T).acc = [a \in DOMAIN T.acc |-> [T.acc[a] EXCEPT !.ids = Linked(T, a)]]
    BY DEF FullView, StateView, WithIds
  <1>2. ActiveView(T).acc = [a \in DOMAIN T.acc |-> [T.acc[a] EXCEPT !.ids = {}]]
    BY DEF ActiveView, StateView, WithIds
  <1> QED
    BY Zenon, <1>1, <1>2 DEF Shows, SameRow

\* What a transaction writes of the finalized ledger, read back.
LEMMA PersistedFinalized ==
    ASSUME NEW T, NEW before, NEW after, NEW D, Shows(before.acc, T.acc),
           after.chk # None, MetaOf(after.chk) # None,
           Accounts(after.acc), Accounts(after.chk.acc),
           D.acc = Persist(T, before, after).acc, D.over = Persist(T, before, after).over,
           D.committed = Persist(T, before, after).committed
    PROVE  /\ StateRoot(Finalized(D)) = StateRoot(after.chk)
           /\ \A f \in MetaFields : Finalized(D)[f] = after.chk[f]
  <1>1. /\ D.acc = Rows(T.acc, before.acc, after.acc)
        /\ D.over = Overlay(after.acc, after.chk)
        /\ D.committed = MetaOf(after.chk)
    BY DEF Persist
  <1>2. Shows(after.acc, D.acc)
    BY <1>1, RowsShow DEF Accounts
  <1>3. Shows(after.chk.acc, Overlaid(D.acc, D.over))
    BY <1>1, <1>2, OverlayOnRows
  <1> DEFINE F == Finalized(D)
  <1>4. \A f \in MetaFields : F[f] = D.committed[f]
    BY SMTT(30), <1>1 DEF Finalized, Small, MetaFields
  <1>5. \A f \in MetaFields : F[f] = after.chk[f]
    BY <1>1, <1>4 DEF MetaOf
  <1>6. F.acc = Overlaid(D.acc, D.over)
    BY <1>1 DEF Finalized, Small
  <1>7. WithIds(F.acc, LAMBDA a : {}) = WithIds(after.chk.acc, LAMBDA a : {})
    BY Zenon, <1>3, <1>6, ShownRoot
  <1> HIDE DEF F
  <1>8. F.burned = after.chk.burned /\ F.mult = after.chk.mult /\ F.used = after.chk.used /\ F.epoch = after.chk.epoch
    BY <1>5 DEF MetaFields
  <1>9. StateRoot(F) = StateRoot(after.chk)
    BY Zenon, <1>7, <1>8 DEF StateRoot
  <1> QED
    BY <1>5, <1>9 DEF F

\* Whatever the command did, the finalized ledger that with_ledger_mut or
\* with_active_ledger_mut wrote is the one that is read back, in its state
\* root, height, tip and small row.
THEOREM FinalizedReadsBack ==
    ASSUME NEW T, NEW after, after.chk # None, MetaOf(after.chk) # None,
           Accounts(after.acc), Accounts(after.chk.acc)
    PROVE  \A D \in {PersistFull(T, after), PersistActive(T, after)} :
             /\ StateRoot(Finalized(D)) = StateRoot(after.chk)
             /\ \A f \in MetaFields : Finalized(D)[f] = after.chk[f]
  <1>1. Shows(FullView(T).acc, T.acc) /\ Shows(ActiveView(T).acc, T.acc)
    BY ViewsShow
  <1> DEFINE D == PersistActive(T, after)
             P == Persist(T, ActiveView(T), after)
  <1>2. D.acc = P.acc /\ D.over = P.over /\ D.committed = P.committed
    BY DEF PersistActive, Persist
  <1>3. /\ StateRoot(Finalized(D)) = StateRoot(after.chk)
        /\ \A f \in MetaFields : Finalized(D)[f] = after.chk[f]
    <2> HIDE DEF D
    <2> QED
      BY <1>1, <1>2, PersistedFinalized
  <1> DEFINE E == PersistFull(T, after)
  <1>4. /\ StateRoot(Finalized(E)) = StateRoot(after.chk)
        /\ \A f \in MetaFields : Finalized(E)[f] = after.chk[f]
    BY <1>1, PersistedFinalized DEF PersistFull
  <1> HIDE DEF D, E
  <1> QED
    BY <1>3, <1>4 DEF D, E

\* The finalized ledger of a block (update_finalized_checkpoint) covers the
\* ledger's own state: taking the checkpoint and writing it, in either view,
\* leaves on disk the state root and the height of the ledger at its tip.
THEOREM CheckpointReadsBack ==
    ASSUME NEW T, NEW L, "chk" \in DOMAIN L, CheckpointOf(L) # None, MetaOf(CheckpointOf(L)) # None,
           Accounts(L.acc), Accounts(CheckpointOf(L).acc)
    PROVE  \A D \in {PersistFull(T, Checkpointed(L)), PersistActive(T, Checkpointed(L))} :
             /\ StateRoot(Finalized(D)) = StateRoot(L)
             /\ Finalized(D).base = Height(L) /\ Finalized(D).baseTip = Tip(L)
  <1> DEFINE K == CheckpointOf(L)
             C == Checkpointed(L)
             Ids(a) == {o \in L.acc[a].ids \cap DOMAIN L.ops : L.ops[o].height \in {None, Height(L)}}
  <1>1. C.chk = K /\ C.acc = L.acc
    BY DEF Checkpointed
  <1>2. /\ K.acc = [a \in DOMAIN L.acc |-> [L.acc[a] EXCEPT !.ids = Ids(a)]]
        /\ K.base = Height(L) /\ K.baseTip = Tip(L) /\ K.burned = L.burned /\ K.mult = L.mult
        /\ K.used = L.used /\ K.epoch = L.epoch
    BY DEF CheckpointOf, Small, WithIds
  <1> HIDE DEF K, C, Ids
  <1>3. WithIds(K.acc, LAMBDA a : {}) = WithIds(L.acc, LAMBDA a : {})
    <2>1. DOMAIN K.acc = DOMAIN L.acc
      BY <1>2
    <2>2. \A a \in DOMAIN L.acc : [K.acc[a] EXCEPT !.ids = {}] = [L.acc[a] EXCEPT !.ids = {}]
      BY Zenon, <1>2
    <2> QED
      BY Zenon, <2>1, <2>2 DEF WithIds
  <1>4. StateRoot(K) = StateRoot(L)
    BY Zenon, <1>2, <1>3 DEF StateRoot
  <1>5. \A D \in {PersistFull(T, C), PersistActive(T, C)} :
           StateRoot(Finalized(D)) = StateRoot(K) /\ \A f \in MetaFields : Finalized(D)[f] = K[f]
    BY <1>1, FinalizedReadsBack DEF K
  <1> QED
    BY <1>2, <1>4, <1>5 DEF C, MetaFields

-----------------------------------------------------------------------------
\* The block table: one row per height after the pruned prefix, without gaps.
History(T) ==
    /\ T.meta.base \in Nat
    /\ T.blocks = [h \in DOMAIN T.blocks |-> T.blocks[h]]
    /\ \E n \in Nat : DOMAIN T.blocks = (T.meta.base + 1) .. (T.meta.base + n)
    /\ \A h \in DOMAIN T.blocks : T.blocks[h].height = h

\* n blocks whose heights follow base.
Consecutive(blocks, base, n) ==
    /\ base \in Nat /\ n \in Nat
    /\ DOMAIN blocks = 1 .. n
    /\ \A i \in 1 .. n : blocks[i].height = base + i

\* The table of those blocks: one row for each height.
RowPerBlock(table, blocks, base, n) ==
    /\ DOMAIN table = (base + 1) .. (base + n)
    /\ \A h \in (base + 1) .. (base + n) : table[h] = blocks[h - base]
    /\ table = [h \in (base + 1) .. (base + n) |-> blocks[h - base]]

\* Contiguous blocks become one row each.
LEMMA BlocksAtHeights ==
    ASSUME NEW base, NEW n, NEW blocks, Consecutive(blocks, base, n)
    PROVE  RowPerBlock(BlocksAt(blocks), blocks, base, n)
  <1> base \in Nat /\ n \in Nat /\ DOMAIN blocks = 1 .. n /\ \A i \in 1 .. n : blocks[i].height = base + i
    BY DEF Consecutive
  <1>1. {blocks[i].height : i \in 1 .. n} = (base + 1) .. (base + n)
    <2>1. \A h \in (base + 1) .. (base + n) : h - base \in 1 .. n /\ blocks[h - base].height = h
      OBVIOUS
    <2>2. \A i \in 1 .. n : blocks[i].height \in (base + 1) .. (base + n)
      OBVIOUS
    <2>3. (base + 1) .. (base + n) \subseteq {blocks[i].height : i \in 1 .. n}
      BY Zenon, <2>1
    <2>4. {blocks[i].height : i \in 1 .. n} \subseteq (base + 1) .. (base + n)
      BY Zenon, <2>2
    <2> QED
      BY Zenon, <2>3, <2>4
  <1>2. ASSUME NEW h \in (base + 1) .. (base + n)
        PROVE  (CHOOSE i \in 1 .. n : blocks[i].height = h) = h - base
    <2>1. h - base \in 1 .. n /\ blocks[h - base].height = h
      OBVIOUS
    <2>2. \A i \in 1 .. n : blocks[i].height = h => i = h - base
      OBVIOUS
    <2> QED
      BY <2>1, <2>2
  <1> DEFINE Where(h) == CHOOSE i \in DOMAIN blocks : blocks[i].height = h
             heights == {blocks[i].height : i \in DOMAIN blocks}
  <1>3. BlocksAt(blocks) = [h \in heights |-> blocks[Where(h)]]
    BY Zenon DEF BlocksAt
  <1>4. \A h \in (base + 1) .. (base + n) : Where(h) = h - base
    BY <1>2
  <1>5. heights = (base + 1) .. (base + n)
    BY <1>1
  <1> HIDE DEF Where, heights
  <1> QED
    BY <1>3, <1>4, <1>5 DEF RowPerBlock

\* The full view has all rows of the block table, in order.
LEMMA FullBlocks ==
    ASSUME NEW T, History(T)
    PROVE  BlocksAt(FullView(T).blocks) = T.blocks
  <1> DEFINE base == T.meta.base
             blocks == FullView(T).blocks
  <1>1. PICK n \in Nat : DOMAIN T.blocks = (base + 1) .. (base + n)
    BY DEF History
  <1>2. base \in Nat /\ \A h \in DOMAIN T.blocks : T.blocks[h].height = h
    BY DEF History
  <1>3. blocks = [i \in 1 .. Cardinality(DOMAIN T.blocks) |-> T.blocks[base + i]]
    BY DEF FullView, StateView
  <1> HIDE DEF base, blocks
  <1>4. Cardinality(DOMAIN T.blocks) = n
    <2>1. base + 1 \in Int /\ base + n \in Int
      BY <1>2
    <2>2. Cardinality((base + 1) .. (base + n)) = IF base + 1 > base + n THEN 0 ELSE (base + n) - (base + 1) + 1
      BY <2>1, FS_Interval
    <2> QED
      BY <1>1, <1>2, <2>2
  <1>5. DOMAIN blocks = 1 .. n /\ \A i \in 1 .. n : blocks[i] = T.blocks[base + i]
    BY <1>3, <1>4
  <1>6. \A i \in 1 .. n : blocks[i].height = base + i
    <2> TAKE i \in 1 .. n
    <2>1. base + i \in DOMAIN T.blocks
      BY <1>1, <1>2
    <2> QED
      BY <1>2, <1>5, <2>1
  <1>7. BlocksAt(blocks) = [h \in (base + 1) .. (base + n) |-> blocks[h - base]]
    <2>1. Consecutive(blocks, base, n)
      BY <1>2, <1>5, <1>6 DEF Consecutive
    <2>2. RowPerBlock(BlocksAt(blocks), blocks, base, n)
      BY Zenon, <2>1, BlocksAtHeights
    <2> QED
      BY Zenon, <2>2 DEF RowPerBlock
  <1>8. \A h \in (base + 1) .. (base + n) : blocks[h - base] = T.blocks[h]
    <2> TAKE h \in (base + 1) .. (base + n)
    <2>1. h - base \in 1 .. n /\ base + (h - base) = h
      BY <1>2
    <2> QED
      BY <1>5, <2>1
  <1>9. BlocksAt(blocks) = [h \in DOMAIN T.blocks |-> T.blocks[h]]
    BY <1>1, <1>7, <1>8
  <1> QED
    BY <1>9 DEF blocks, History

\* A transaction that does not fail never changes a block that is on disk: the
\* full view may drop rows (pruning), the active one keeps them all
\* (persist_histories and its "immutable" checks).
THEOREM BlocksStand ==
    ASSUME NEW T, NEW after, History(T)
    PROVE  /\ Persistable(T, FullView(T), after) =>
                 \A h \in DOMAIN T.blocks \cap DOMAIN PersistFull(T, after).blocks :
                   PersistFull(T, after).blocks[h] = T.blocks[h]
           /\ Persistable(T, ActiveView(T), after) =>
                 \A h \in DOMAIN T.blocks :
                   /\ h \in DOMAIN PersistActive(T, after).blocks
                   /\ PersistActive(T, after).blocks[h] = T.blocks[h]
  <1> DEFINE new == BlocksAt(after.blocks)
  <1>1. ASSUME Persistable(T, FullView(T), after),
               NEW h \in DOMAIN T.blocks \cap DOMAIN PersistFull(T, after).blocks
        PROVE  PersistFull(T, after).blocks[h] = T.blocks[h]
    <2>1. PersistFull(T, after).blocks = Over(new, Without(T.blocks, DOMAIN T.blocks))
      BY FullBlocks DEF PersistFull, Persist, Changed
    <2>2. AppendOnly(T.blocks, T.blocks, new)
      BY <1>1, FullBlocks DEF Persistable
    <2> HIDE DEF new
    <2>3. h \in DOMAIN new /\ PersistFull(T, after).blocks[h] = new[h]
      BY <1>1, <2>1 DEF Over, Without
    <2> QED
      BY <2>2, <2>3 DEF AppendOnly
  <1>2. ASSUME Persistable(T, ActiveView(T), after), NEW h \in DOMAIN T.blocks
        PROVE  /\ h \in DOMAIN PersistActive(T, after).blocks
               /\ PersistActive(T, after).blocks[h] = T.blocks[h]
    <2>1. ActiveView(T).blocks = <<>>
      BY Zenon DEF ActiveView, StateView
    <2>2. DOMAIN BlocksAt(<<>>) = {}
      BY DEF BlocksAt
    <2> DEFINE P == Persist(T, ActiveView(T), after)
    <2>3. PersistActive(T, after).blocks = Over(new, Without(T.blocks, DOMAIN BlocksAt(<<>>)))
      <3>1. P.blocks = Over(new, Without(T.blocks, DOMAIN BlocksAt(<<>>)))
        BY <2>1 DEF Persist, Changed
      <3> HIDE DEF P
      <3>2. PersistActive(T, after).blocks = P.blocks
        BY DEF PersistActive, P
      <3> QED
        BY <3>1, <3>2
    <2>4. AppendOnly(T.blocks, BlocksAt(<<>>), new)
      BY <1>2, <2>1 DEF Persistable
    <2> HIDE DEF new
    <2>5. h \notin DOMAIN new
      BY <2>2, <2>4 DEF AppendOnly
    <2> QED
      BY <2>2, <2>3, <2>5 DEF Over, Without
  <1> QED
    BY <1>1, <1>2

-----------------------------------------------------------------------------
\* The history table links accounts that exist to operations; the rows of the
\* accounts have room for them.
Links(T) ==
    /\ \A a \in DOMAIN T.acc : "ids" \in DOMAIN T.acc[a]
    /\ \A l \in T.links : \E a \in DOMAIN T.acc, o \in {k[2] : k \in T.links} : l = <<a, o>>

\* A ledger as a command leaves it: functions where the program has maps, a
\* sequence of contiguous blocks.
Written(L) ==
    /\ Accounts(L.acc)
    /\ \A a \in DOMAIN L.acc :
         L.acc[a] = [f \in DOMAIN L.acc[a] |-> L.acc[a][f]] /\ "ids" \in DOMAIN L.acc[a]
    /\ L.ops = [o \in DOMAIN L.ops |-> L.ops[o]]
    /\ L.base \in Nat
    /\ \E n \in Nat : L.blocks = [i \in 1 .. n |-> L.blocks[i]]
    /\ Contiguous(L)

\* The full view shows the links of the history table.
LEMMA FullKeys ==
    ASSUME NEW T, Links(T)
    PROVE  Keys(FullView(T)) = T.links
  <1>1. /\ DOMAIN FullView(T).acc = DOMAIN T.acc
        /\ \A a \in DOMAIN T.acc : FullView(T).acc[a] = [T.acc[a] EXCEPT !.ids = Linked(T, a)]
    BY DEF FullView, StateView, WithIds
  <1>2. \A a \in DOMAIN T.acc : FullView(T).acc[a].ids = Linked(T, a)
    BY Zenon, <1>1 DEF Links
  <1>3. Keys(FullView(T)) = UNION {{<<a, o>> : o \in Linked(T, a)} : a \in DOMAIN T.acc}
    BY <1>1, <1>2 DEF Keys
  <1>4. ASSUME NEW l \in T.links
        PROVE  l \in UNION {{<<a, o>> : o \in Linked(T, a)} : a \in DOMAIN T.acc}
    <2>1. PICK a \in DOMAIN T.acc, o \in {k[2] : k \in T.links} : l = <<a, o>>
      BY DEF Links
    <2>2. o \in Linked(T, a)
      BY <2>1 DEF Linked
    <2> QED
      BY <2>1, <2>2
  <1>5. ASSUME NEW l \in UNION {{<<a, o>> : o \in Linked(T, a)} : a \in DOMAIN T.acc}
        PROVE  l \in T.links
    <2>1. PICK a \in DOMAIN T.acc : l \in {<<a, o>> : o \in Linked(T, a)}
      OBVIOUS
    <2>2. PICK o \in Linked(T, a) : l = <<a, o>>
      BY <2>1
    <2> QED
      BY <2>2 DEF Linked
  <1> QED
    BY <1>3, <1>4, <1>5

\* A table whose old rows all go is the new one.
LEMMA OverNothing ==
    ASSUME NEW f, NEW g, f = [k \in DOMAIN f |-> f[k]]
    PROVE  Over(f, Without(g, DOMAIN g)) = f
  <1>1. DOMAIN Without(g, DOMAIN g) = {}
    BY DEF Without
  <1>2. Over(f, Without(g, DOMAIN g)) = [k \in DOMAIN f |-> f[k]]
    BY Zenon, <1>1 DEF Over
  <1> QED
    BY <1>2

\* Of the tables that with_ledger_mut writes, read back by the next command.
LEMMA PersistedTables ==
    ASSUME NEW T, NEW after, History(T), Links(T), Written(after)
    PROVE  LET D == PersistFull(T, after)
           IN  /\ Shows(after.acc, D.acc)
               /\ D.links = Keys(after)
               /\ D.ops = after.ops
               /\ D.blocks = BlocksAt(after.blocks)
               /\ D.meta = MetaOf(after)
  <1> DEFINE D == PersistFull(T, after)
  <1>1. Shows(FullView(T).acc, T.acc)
    BY ViewsShow
  <1>2. D.acc = Rows(T.acc, FullView(T).acc, after.acc)
    BY DEF PersistFull, Persist
  <1>3. Shows(after.acc, D.acc)
    BY <1>1, <1>2, RowsShow DEF Written, Accounts
  <1>4. D.links = (T.links \ (T.links \ Keys(after))) \cup (Keys(after) \ T.links)
    BY FullKeys DEF PersistFull, Persist
  <1>5. FullView(T).ops = T.ops
    BY DEF FullView, StateView
  <1>6. D.ops = Over(after.ops, Without(T.ops, DOMAIN T.ops))
    BY <1>5 DEF PersistFull, Persist, Changed
  <1>7. D.ops = after.ops
    BY <1>6, OverNothing DEF Written
  <1>8. D.blocks = Over(BlocksAt(after.blocks), Without(T.blocks, DOMAIN T.blocks))
    BY SMTT(30), FullBlocks DEF PersistFull, Persist, Changed
  <1>9. D.blocks = BlocksAt(after.blocks)
    <2> DEFINE new == BlocksAt(after.blocks)
    <2>1. new = [h \in DOMAIN new |-> new[h]]
      BY SMTT(30) DEF BlocksAt
    <2> HIDE DEF new
    <2> QED
      BY <1>8, <2>1, OverNothing DEF new
  <1>10. D.meta = MetaOf(after)
    BY DEF PersistFull, Persist
  <1> HIDE DEF D
  <1> QED
    BY <1>3, <1>4, <1>7, <1>9, <1>10 DEF D

\* The table of histories that belongs to a ledger gives each account its own.
LEMMA KeysLinked ==
    ASSUME NEW T, NEW L, T.links = Keys(L), NEW a \in DOMAIN L.acc
    PROVE  Linked(T, a) = L.acc[a].ids
  <1>1. ASSUME NEW o \in L.acc[a].ids
        PROVE  o \in Linked(T, a)
    <2>1. <<a, o>> \in T.links
      BY DEF Keys
    <2>2. <<a, o>>[2] = o
      OBVIOUS
    <2> QED
      BY <2>1, <2>2 DEF Linked
  <1>2. ASSUME NEW o \in Linked(T, a)
        PROVE  o \in L.acc[a].ids
    <2>1. <<a, o>> \in Keys(L)
      BY DEF Linked
    <2>2. PICK b \in DOMAIN L.acc : <<a, o>> \in {<<b, k>> : k \in L.acc[b].ids}
      BY <2>1 DEF Keys
    <2>3. PICK k \in L.acc[b].ids : <<a, o>> = <<b, k>>
      BY <2>2
    <2> QED
      BY <2>3
  <1> QED
    BY <1>1, <1>2

\* A row with the history of the account it shows is the account.
LEMMA RowWithHistory ==
    ASSUME NEW r, NEW q, SameRow(r, q), r = [f \in DOMAIN r |-> r[f]], "ids" \in DOMAIN r
    PROVE  [q EXCEPT !.ids = r.ids] = r /\ "ids" \in DOMAIN q
  <1>1. DOMAIN q = DOMAIN r
    BY DEF SameRow
  <1>2. \A f \in DOMAIN r : f # "ids" => q[f] = r[f]
    BY <1>1 DEF SameRow
  <1> QED
    BY <1>1, <1>2

\* with_ledger_mut is a plain map: whatever a command leaves in its ledger, the
\* next command reads the same accounts with their histories, operations,
\* blocks and small row, and the tables are again such that this is so.
THEOREM FullReadsBack ==
    ASSUME NEW T, NEW after, History(T), Links(T), Written(after)
    PROVE  LET D == PersistFull(T, after)
           IN  /\ FullView(D).acc = after.acc
               /\ FullView(D).ops = after.ops
               /\ FullView(D).blocks = after.blocks
               /\ \A f \in MetaFields : FullView(D)[f] = after[f]
               /\ History(D) /\ Links(D)
  <1> DEFINE D == PersistFull(T, after)
  <1>1. /\ Shows(after.acc, D.acc)
        /\ D.links = Keys(after)
        /\ D.ops = after.ops
        /\ D.blocks = BlocksAt(after.blocks)
        /\ D.meta = MetaOf(after)
    BY PersistedTables
  <1> HIDE DEF D
  <1>2. \A a \in DOMAIN after.acc :
           /\ [D.acc[a] EXCEPT !.ids = Linked(D, a)] = after.acc[a]
           /\ "ids" \in DOMAIN D.acc[a]
    <2> TAKE a \in DOMAIN after.acc
    <2>1. SameRow(after.acc[a], D.acc[a])
      BY <1>1 DEF Shows
    <2>2. Linked(D, a) = after.acc[a].ids
      BY <1>1, KeysLinked
    <2>3. after.acc[a] = [f \in DOMAIN after.acc[a] |-> after.acc[a][f]] /\ "ids" \in DOMAIN after.acc[a]
      BY DEF Written
    <2> QED
      BY <2>1, <2>2, <2>3, RowWithHistory
  <1>3. FullView(D).acc = after.acc
    <2>1. FullView(D).acc = [a \in DOMAIN D.acc |-> [D.acc[a] EXCEPT !.ids = Linked(D, a)]]
      BY DEF FullView, StateView, WithIds
    <2>2. DOMAIN D.acc = DOMAIN after.acc
      BY <1>1 DEF Shows
    <2> QED
      BY Zenon, <1>2, <2>1, <2>2 DEF Written, Accounts
  <1>4. FullView(D).ops = after.ops
    BY <1>1 DEF FullView, StateView
  <1>5. \A f \in MetaFields : FullView(D)[f] = after[f]
    <2>1. \A f \in MetaFields : FullView(D)[f] = D.meta[f]
      BY DEF FullView, StateView, MetaFields
    <2> QED
      BY <1>1, <2>1 DEF MetaOf
  <1> DEFINE base == after.base
             blocks == after.blocks
  <1>6. PICK n \in Nat : blocks = [i \in 1 .. n |-> blocks[i]]
    BY DEF Written
  <1>7. base \in Nat /\ \A i \in DOMAIN blocks : blocks[i].height = base + i
    BY DEF Written, Contiguous
  <1>8. D.meta.base = base
    BY <1>1 DEF MetaOf, MetaFields
  <1>9. FullView(D).blocks = [i \in 1 .. Cardinality(DOMAIN D.blocks) |-> D.blocks[base + i]]
    BY <1>8 DEF FullView, StateView
  <1> HIDE DEF base, blocks
  <1>10. DOMAIN blocks = 1 .. n
    BY <1>6
  <1>11. /\ DOMAIN D.blocks = (base + 1) .. (base + n)
         /\ \A h \in (base + 1) .. (base + n) : D.blocks[h] = blocks[h - base]
         /\ D.blocks = [h \in (base + 1) .. (base + n) |-> blocks[h - base]]
    <2>1. D.blocks = BlocksAt(blocks)
      BY <1>1 DEF blocks
    <2>2. Consecutive(blocks, base, n)
      BY <1>7, <1>10 DEF Consecutive
    <2>3. RowPerBlock(BlocksAt(blocks), blocks, base, n)
      BY Zenon, <2>2, BlocksAtHeights
    <2> QED
      BY Zenon, <2>1, <2>3 DEF RowPerBlock
  <1>12. Cardinality(DOMAIN D.blocks) = n
    <2>1. base + 1 \in Int /\ base + n \in Int
      BY <1>7
    <2>2. Cardinality((base + 1) .. (base + n)) = IF base + 1 > base + n THEN 0 ELSE (base + n) - (base + 1) + 1
      BY <2>1, FS_Interval
    <2> QED
      BY <1>7, <1>11, <2>2
  <1>13. \A i \in 1 .. n : D.blocks[base + i] = blocks[i]
    <2> TAKE i \in 1 .. n
    <2>1. base + i \in (base + 1) .. (base + n) /\ (base + i) - base = i
      BY <1>7
    <2> QED
      BY <1>11, <2>1
  <1>14. FullView(D).blocks = blocks
    BY <1>6, <1>9, <1>12, <1>13
  <1>15. History(D)
    <2>1. \A h \in DOMAIN D.blocks : D.blocks[h].height = h
      <3> TAKE h \in DOMAIN D.blocks
      <3>1. h - base \in 1 .. n /\ base + (h - base) = h
        BY <1>7, <1>11
      <3> QED
        BY <1>7, <1>10, <1>11, <3>1
    <2>2. D.blocks = [h \in DOMAIN D.blocks |-> D.blocks[h]]
      BY <1>11
    <2> QED
      BY Zenon, <1>7, <1>8, <1>11, <2>1, <2>2 DEF History
  <1>16. Links(D)
    <2>1. ASSUME NEW l \in D.links
          PROVE  \E a \in DOMAIN D.acc, o \in {k[2] : k \in D.links} : l = <<a, o>>
      <3>1. PICK a \in DOMAIN after.acc : l \in {<<a, o>> : o \in after.acc[a].ids}
        BY <1>1 DEF Keys
      <3>2. PICK o \in after.acc[a].ids : l = <<a, o>>
        BY <3>1
      <3>3. l[2] = o
        BY <3>2
      <3>4. DOMAIN D.acc = DOMAIN after.acc
        BY <1>1 DEF Shows
      <3> QED
        BY <3>2, <3>3, <3>4
    <2>2. DOMAIN D.acc = DOMAIN after.acc
      BY <1>1 DEF Shows
    <2> QED
      BY Zenon, <1>2, <2>1, <2>2 DEF Links
  <1> QED
    BY <1>3, <1>4, <1>5, <1>14, <1>15, <1>16 DEF D, blocks

=============================================================================
