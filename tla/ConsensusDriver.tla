-------------------------- MODULE ConsensusDriver --------------------------
(***************************************************************************)
(* The scheduling of the finality protocol: the pass that the node daemon  *)
(* makes every second (drive_validator_consensus_once in                   *)
(* mrk-node/src/lib.rs) and the gossip with its peers every two seconds    *)
(* (sync_consensus_peer in mrk-core/src/relay_client.rs).  The steps are    *)
(* those of Consensus, except that one gossip session takes over all a     *)
(* peer offers at once; the driver decides which are tried and when.       *)
(*                                                                         *)
(* A pass ends at the first error, so the round timeout is reached only    *)
(* by a validator whose pass has nothing left to propose or to vote.       *)
(* Timing is abstracted: in rounds before SyncRound a timeout may fire at  *)
(* any moment, from SyncRound on only when gossip has nothing to deliver   *)
(* (a round lasts at least 5 s, gossip runs every 2 s).                    *)
(***************************************************************************)
EXTENDS Consensus

CONSTANTS
  SyncRound,   \* first round in which timeouts are longer than gossip
  MaxCrashes   \* bound: validators that may stop for good

ASSUME DriverAssumption == SyncRound \in Nat /\ MaxCrashes \in Nat

VARIABLE alive   \* validators whose daemon is running

driverVars == <<vars, alive>>

DriverInit == Init /\ alive = Validators

Running(n) == n \in alive /\ tip[n] = None

----------------------------------------------------------------------------
(* One pass of the driver. *)

ShouldPropose(n) == proposal[n] = None /\ n = Proposer(round[n])

ShouldPrevote(n) == proposal[n] # None /\ prevotes[n][n] = None

(* prevote_count counts every prevote of the round, whatever its target. *)
ShouldPrecommit(n) ==
  /\ proposal[n] # None
  /\ precommits[n][n] = None
  /\ Cardinality({v \in Validators : prevotes[n][v] # None}) >= Quorum

DrivePropose(n) == Running(n) /\ ShouldPropose(n) /\ ProposeConsensusBlock(n) /\ UNCHANGED alive

DrivePrevote(n) == Running(n) /\ ShouldPrevote(n) /\ CastPrevote(n) /\ UNCHANGED alive

DrivePrecommit(n) == Running(n) /\ ShouldPrecommit(n) /\ CastPrecommit(n) /\ UNCHANGED alive

(* The pass gets as far as the timeout. *)
ReachesTimeout(n) == ~ShouldPropose(n) /\ ~ShouldPrevote(n) /\ ~ShouldPrecommit(n)

(* What the pass would do next fails: an error on every pass. *)
ProposeFails(n) ==
  ShouldPropose(n) /\ valid[n] # None /\
    \A s \in Stamps : ~RootVerifies(n, [round |-> round[n], stamp |-> s, ops |-> valid[n].ops])

VoteFails(n) == (ShouldPrevote(n) \/ ShouldPrecommit(n)) /\ ~MayVote(n, proposal[n])

Blocked(n) == ProposeFails(n) \/ VoteFails(n)

(* The pass has something to propose or to vote and does not fail at it. *)
HasVote(n) ==
  Running(n) /\ ~Blocked(n) /\ (ShouldPropose(n) \/ ShouldPrevote(n) \/ ShouldPrecommit(n))

(* Passes, made every second, come before the next gossip, made every two. *)
Voting == \E n \in Validators : HasVote(n)

----------------------------------------------------------------------------
(* Gossip: n connects to m, catches up, then takes over what m holds. *)

Aligned(n, m) == Running(n) /\ Running(m) /\ n # m /\ round[n] = round[m]

Merged(mine, theirs) == [v \in Validators |-> IF mine[v] = None THEN theirs[v] ELSE mine[v]]

OffersBlock(n, m) == Running(n) /\ m \in alive /\ tip[m] # None

OffersState(n, m) ==
  /\ Aligned(n, m)
  /\ \/ proposal[n] = None /\ proposal[m] # None
     \/ Merged(prevotes[n], prevotes[m]) # prevotes[n]
     \/ Merged(precommits[n], precommits[m]) # precommits[n]

OffersRound(n, m) == Running(n) /\ Running(m) /\ round[n] < round[m] /\ round[n] < MaxRound

SyncCatchUp(n, m) == OffersBlock(n, m) /\ ApplyConsensusCatchUp(n, m) /\ UNCHANGED alive

(* The SyncState of a peer in the same round, applied in its order: proposal,
   prevotes, precommits.  A different proposal in hand is an error and ends
   the session. *)
SyncState(n, m) ==
  /\ OffersState(n, m)
  /\ ~Voting
  /\ proposal[n] # None /\ proposal[m] # None => proposal[n] = proposal[m]
  /\ LET block == IF proposal[n] = None THEN proposal[m] ELSE proposal[n]
         box == Merged(precommits[n], precommits[m])
     IN  \/ /\ block # None
            /\ Count(box, block) >= Quorum
            /\ Finalize(n, block)
         \/ /\ block = None \/ Count(box, block) < Quorum
            /\ proposal' = [proposal EXCEPT ![n] = block]
            /\ prevotes' = [prevotes EXCEPT ![n] = Merged(@, prevotes[m])]
            /\ precommits' = [precommits EXCEPT ![n] = box]
            /\ UNCHANGED <<round, valid, lock, evidence, tip>>
  /\ UNCHANGED <<proposed, signed, alive>>

----------------------------------------------------------------------------
(* Timeouts. *)

Delivering == \E n, m \in Validators : OffersBlock(n, m) \/ OffersState(n, m)

Elapsed(n) == round[n] < SyncRound \/ ~(Delivering \/ Voting)

DriveTimeout(n) ==
  /\ Running(n)
  /\ ReachesTimeout(n)
  /\ Elapsed(n)
  /\ round[n] < SyncRound \/ \A m \in Validators : ~OffersRound(m, n)
  /\ AdvanceConsensusRound(n)
  /\ UNCHANGED alive

(* A peer in a higher round is followed by one round, after the local timeout. *)
SyncRoundUp(n, m) ==
  /\ OffersRound(n, m)
  /\ Elapsed(n)
  /\ AdvanceConsensusRound(n)
  /\ UNCHANGED alive

Crash(n) ==
  /\ n \in alive
  /\ Cardinality(Validators \ alive) < MaxCrashes
  /\ alive' = alive \ {n}
  /\ UNCHANGED vars

Drive(n) == DrivePropose(n) \/ DrivePrevote(n) \/ DrivePrecommit(n) \/ DriveTimeout(n)

Gossip(n) == \E m \in Validators : SyncCatchUp(n, m) \/ SyncState(n, m) \/ SyncRoundUp(n, m)

DriverNext == \E n \in Validators : Drive(n) \/ Gossip(n) \/ Crash(n)

DriverSpec == DriverInit /\ [][DriverNext]_driverVars

(* The daemons make a pass every second and gossip every two: while some running
   validator has a step to take, one is taken.  Every such step makes progress,
   so this weak form of fairness is enough. *)
Progress == \E n \in Validators : Drive(n) \/ Gossip(n)

FairDriverSpec == DriverSpec /\ WF_driverVars(Progress)

----------------------------------------------------------------------------
(* Every validator that stays up finalizes the height. *)
HeightFinalized == <>(\A n \in Validators : n \in alive => tip[n] # None)

(* Unless the height is done, a validator that is running can still propose,
   vote, learn something from a peer or time out. *)
NotStalled ==
  (\E n \in Validators : Running(n)) =>
    \E n \in Validators : Running(n) /\
      \/ ~Blocked(n)
      \/ \E m \in Validators : OffersBlock(n, m) \/ OffersRound(n, m)

============================================================================
