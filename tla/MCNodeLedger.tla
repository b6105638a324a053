---------------------------- MODULE MCNodeLedger ----------------------------
(***************************************************************************)
(* Plays that start from different ledgers and take different steps.       *)
(***************************************************************************)
EXTENDS NodeLedger

VARIABLES play, left       \* the play, and the commands it may still take

Commands == [service |-> 4, address |-> 4, stake |-> 3, multi |-> 3]

MCSlotOf == [e1 |-> "a", e2 |-> "b", e3 |-> "b", e4 |-> "c", e5 |-> "d"]

(* A node that has served for an epoch, with its address and bonds b. *)
Served(n, b) ==
  [NewNode(n, [owner |-> n, endpoint |-> b.at, price |-> DefaultPrice, stamp |-> 0]) EXCEPT
     !.status = "active", !.warmupUntil = 0, !.probe = 0, !.total = MinService, !.service = b.service,
     !.governance = b.governance, !.bondedAt = IF b.governance = 0 THEN None ELSE 0 - Maturity,
     !.validatorBond = b.validator, !.candidateSince = IF b.validator = 0 THEN None ELSE 0]

Bonds(at, s, g, v) == [at |-> at, service |-> s, governance |-> g, validator |-> v]

(* Nodes with addresses and bonds B, who minted the bonds from the pool. *)
Joined(B) ==
  LET slots == {MCSlotOf[B[n].at] : n \in DOMAIN B}
      first(s) == Min({n \in DOMAIN B : MCSlotOf[B[n].at] = s})
  IN  [Genesis EXCEPT
         !.nodes = [n \in DOMAIN B |-> Served(n, B[n])], !.next = Len(B) + 1,
         !.pool = @ - MapThenSumSet(LAMBDA n : B[n].service + B[n].governance + B[n].validator, DOMAIN B),
         !.slots = [s \in slots |-> [node |-> first(s), bound |-> 0, released |-> None]]]

Open(L) == WithContext(ActivateMulti(RefreshCommittee(L, 0)))

Start ==
  [service |-> [Open(Joined(<<Bonds("e1", 0, 0, 0), Bonds("e2", 0, 0, 0)>>)) EXCEPT
                  !.nodes[2].vesting = (2 :> 1), !.pool = @ - 1],
   address |-> Open(Joined(<<Bonds("e1", 0, 0, 0), Bonds("e2", 2, 0, 0), Bonds("e3", 0, 0, 0)>>)),
   stake |-> Open(Joined(<<Bonds("e1", 2, 1, 1), Bonds("e2", 2, 1, 0), Bonds("e4", 2, 0, 0)>>)),
   multi |-> Open(Joined(<<Bonds("e1", 2, 1, 1), Bonds("e2", 2, 1, 1), Bonds("e4", 2, 1, 0),
                           Bonds("e5", 2, 1, 1)>>))]

MCInit ==
  /\ play \in DOMAIN Start
  /\ left = Commands[play]
  /\ now = 0 /\ pending = <<>>
  /\ mem = Start[play] /\ fin = Start[play]

Service ==
  \/ AttestProbe(1, 2) \/ DrainNode(2) \/ ClaimNodeRewards(2)
  \/ now = 0 /\ (AttestProbe(1, 1) \/ UpdateNodePrice(2, 2) \/ UpdateRelayCapabilities(2))
  \/ now < 4 /\ \E on \in BOOLEAN : PauseEmission(on)

Address ==
  \/ \E t \in {2, 3} : AttestProbe(1, t)
  \/ UpdateRewardIp(2, "e4") \/ DrainNode(2) \/ WithdrawServiceBond(2) \/ JoinNode(2, "e2")
  \/ now = 1 /\ UpdateRewardIp(2, "e2")

Staking ==
  \/ RequestValidatorExit(1) \/ WithdrawValidatorBond(1)
  \/ RequestGovernanceExit(1) \/ WithdrawGovernanceBond(1)
  \/ JoinValidatorPool(2) \/ DrainNode(2)
  \/ BondGovernance(3) \/ JoinValidatorPool(3)

Multi ==
  \/ \E v \in DOMAIN mem.nodes, t \in {1, 3} : AttestProbe(v, t)
  \/ RequestValidatorExit(1) \/ WithdrawValidatorBond(1) \/ JoinValidatorPool(3)

Command ==
  \/ play = "service" /\ Service
  \/ play = "address" /\ Address
  \/ play = "stake" /\ Staking
  \/ play = "multi" /\ Multi

(* No operation waits for more than one unit of time, and empty blocks come only
   when an epoch begins or is settled. *)
Prompt == \A i \in 1 .. Len(pending) : pending[i].stamp = now

BlockDue == pending # <<>> \/ now % EpochLength <= Grace

MCNext ==
  /\ UNCHANGED play
  /\ \/ left > 0 /\ left' = left - 1 /\ Command
     \/ BlockDue /\ ProduceBlock /\ UNCHANGED left
     \/ Prompt /\ Tick /\ UNCHANGED left

MCNodeSpec == MCInit /\ [][MCNext]_<<vars, play, left>>

=============================================================================
