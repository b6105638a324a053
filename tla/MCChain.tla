------------------------------ MODULE MCChain ------------------------------
(***************************************************************************)
(* Three plays on a chain.  In "pool" wallets sign transfers, ahead of     *)
(* each other and with tight fees, for the pool of Node 1 while epochs     *)
(* pass; in "follow" a peer at the tip makes transfers of its own, syncs   *)
(* chunk by chunk and is pruned (peer 2, LITE) or not (peer 3, FULL); in   *)
(* "install" an empty peer installs a checkpoint, is backed up and         *)
(* restored.  left is the number of commands still to be given; Node 1's   *)
(* own transfer comes between the signatures of the wallets.               *)
(***************************************************************************)
EXTENDS Chain

CONSTANT Commands

VARIABLES play, peer, left

MCOpening == 1 :> [balance |-> 6, nonce |-> 0, key |-> FALSE, ids |-> {}]

MCCommands == [pool |-> 3, follow |-> 3, install |-> 4]

StartTables(d) ==
  IF d = Node1 THEN FirstTables
  ELSE IF play = "follow" /\ d = peer THEN Installed(Empty, Finalized(FirstTables))
  ELSE Empty

MCInit ==
  /\ play \in DOMAIN Commands /\ left = Commands[play]
  /\ peer \in IF play = "follow" THEN Peers ELSE {2}
  /\ now = 0 /\ signed = {}
  /\ db = [d \in Daemons |-> StartTables(d)]
  /\ fetch = [d \in Peers |-> None]
  /\ backup = [d \in Daemons |-> None]
  /\ rewound = FALSE

Command == left > 0 /\ left' = left - 1

Free == left' = left

(* A transfer of an account to itself, if any, is signed first. *)
SelfFirst(o) == o.from # o.to \/ (signed \subseteq {o} /\ o.max = 2)

PoolStep ==
  \/ Command /\ NewSignature /\ \A o \in signed' : o.from \in DOMAIN db[Node1].acc /\ SelfFirst(o)
  \/ Command /\ left = 2 /\ NewTransfer(Node1)
  \/ Free /\ \E o \in signed : Submit(Node1, o)

FollowStep ==
  \/ Command /\ \E d \in {Node1, peer}, to \in Addresses \ {1} : Transfer(d, 1, to, 1)
  \/ Command /\ Crash(peer)
  \/ Free /\ (Forward(peer) \/ FetchChunk(peer) \/ ApplyCatchUp(peer, TRUE) \/ Prune(peer))

InstallStep ==
  \/ Command /\ (BootstrapFrom(peer) \/ \E d \in {Node1, peer} : Backup(d) \/ \E e \in {Node1, peer} : Restore(d, e))
  \/ Command /\ \E d \in {Node1, peer} : Transfer(d, 1, 2, 1)
  \/ Free /\ (FetchChunk(peer) \/ \E stored \in BOOLEAN : ApplyCatchUp(peer, stored))

(* A block when it is due (produce_node1_block_if_due). *)
DueBlock ==
  /\ now >= Tip(ActiveView(db[Node1])).ts + Interval
  /\ IF play = "install" THEN NextBlock ELSE TipHeight(db[Node1]) < MaxHeight /\ ProduceBlock(TRUE)

MCNext ==
  /\ \/ play = "pool" /\ PoolStep
     \/ play = "follow" /\ FollowStep
     \/ play = "install" /\ InstallStep
     \/ Free /\ DueBlock
     \/ Free /\ NextTick
  /\ UNCHANGED <<play, peer>>

MCChainSpec == MCInit /\ [][MCNext]_<<vars, play, peer, left>>
=============================================================================
