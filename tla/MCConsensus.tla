---------------------------- MODULE MCConsensus ----------------------------
(***************************************************************************)
(* Model checking of Consensus and ConsensusDriver in four plays.  In two  *)
(* no driver runs and the handlers are called at any time: two rounds with *)
(* every validator honest, and one round with faults.  In two the daemons  *)
(* drive the protocol, over up to four rounds: with timeouts that fire too *)
(* early, and with a validator that stops.                                 *)
(***************************************************************************)
EXTENDS ConsensusDriver

VARIABLE play

mcVars == <<driverVars, play>>

----------------------------------------------------------------------------
(* Handlers called at any time.  Receiving a proposal or votes and advancing
   the round change only the validator's own records, which no other validator
   reads, so they can be postponed until just before its next visible step.
   A validator that has begun to receive, or has advanced, therefore finishes
   its step before another one moves; votes are delivered only where they
   complete a quorum, from one such set of voters.  Steps of an earlier round
   read nothing of a later one, so they are made before it begins.  Every
   behaviour of Spec has the same signatures and finalizations as one of this
   schedule. *)

Held(n) == {proposal[n]} \ {None}

Receiving(n) ==
  \/ round[n] > 0 /\ tip[n] = None /\ proposal[n] = None
  \/ proposal[n] # None /\ n # Proposer(round[n]) /\ prevotes[n][n] = None
  \/ precommits[n][n] = None /\ \E v \in Validators \ {n} : prevotes[n][v] # None

Movers ==
  LET busy == {n \in Validators : Receiving(n)}
  IN  IF busy = {} THEN Validators ELSE busy

(* The least set of voters, if any, whose votes for t complete a quorum. *)
Completing(n, kind, t) ==
  LET missing == {v \in Signers(kind, round[n], t) : Box(n, kind)[v] = None}
      need == Quorum - Count(Box(n, kind), t)
  IN  IF need \in 1 .. Cardinality(missing)
        THEN {CHOOSE Q \in SUBSET missing : Cardinality(Q) = need} ELSE {}

(* A validator that catches up only takes over a tip and signs no more, so one
   that may do so stands for all. *)
Laggards == {4}

(* Which value is proposed first does not matter, only whether a later one is
   another.  Nobody uses the manual nil votes. *)
FirstProposal == \A b \in proposed' : b.round = 0 => b.ops = Operations

NoNilVotes == \A v \in signed' : v.target # Nil

(* Nothing has been proposed in a later round. *)
InLatest(n) == \A b \in proposed : b.round <= round[n]

HonestNext ==
  \E n \in Movers :
    \/ /\ InLatest(n)
       /\ \/ ProposeConsensusBlock(n) /\ FirstProposal
          \/ CastPrevote(n) /\ NoNilVotes
          \/ CastPrecommit(n) /\ NoNilVotes
          \/ \E b \in proposed : SubmitConsensusProposal(n, b)
          \/ \E t \in Held(n) : \E Q \in Completing(n, "prevote", t) : SubmitPrevotes(n, t, Q)
          \/ \E t \in Held(n) : \E Q \in Completing(n, "precommit", t) : SubmitPrecommits(n, t, Q)
    \/ round[n] < 1 /\ AdvanceConsensusRound(n)
    \/ n \in Laggards /\ \E m \in Validators : ApplyConsensusCatchUp(n, m)

(* The same with double-signing and with validators that fall back to Node 1
   mode for a while.  The single votes of a faulty validator, which matter only
   to whoever detects the conflict, arrive at the validators in Witnesses. *)
Witnesses == {1}

Arriving(n, kind, t) ==
  Completing(n, kind, t) \cup
    {{f} : f \in {v \in Faulty \cap Signers(kind, round[n], t) :
                    n \in Witnesses /\ Box(n, kind)[v] = None}}

FaultsNext ==
  \E n \in Movers :
    \/ ProposeConsensusBlock(n) /\ \A b \in proposed' : b.ops = {}
    \/ CastPrevote(n)
    \/ CastPrecommit(n)
    \/ ResetToNode1Mode(n)
    \/ DoubleSign(n)
    \/ \E b \in proposed : SubmitConsensusProposal(n, b)
    \/ \E t \in Held(n) \cup {Nil} : \E Q \in Arriving(n, "prevote", t) : SubmitPrevotes(n, t, Q)
    \/ \E t \in Held(n) \cup {Nil} : \E Q \in Arriving(n, "precommit", t) : SubmitPrecommits(n, t, Q)
    \/ n \in Witnesses /\ \E v \in signed : SubmitConflictingVote(n, v)
    \/ n \in Laggards /\ \E m \in Validators : ApplyConsensusCatchUp(n, m)

----------------------------------------------------------------------------
(* The daemons.  Passes of different validators touch different records, so
   they are made in the order of validators.  In the first play the validators
   in Late hear nothing of the rounds before SyncRound, and from then on gossip
   is made in order, too. *)

Late == {2}

First(S) == {n \in S : \A m \in S : n <= m}

Passing == {n \in Validators : HasVote(n)}

Hearing ==
  {n \in Validators : \E m \in Validators : OffersBlock(n, m) \/ OffersState(n, m)}

Settled == \A n \in Validators : Running(n) => round[n] >= SyncRound

LateProgress ==
  \/ \E n \in First(Passing) : Drive(n) /\ NoNilVotes
  \/ /\ Passing = {}
     /\ \/ ~Settled /\ \E n \in Validators : (n \in Late => round[n] >= SyncRound) /\ Gossip(n)
        \/ Settled /\ \E n \in IF Hearing = {} THEN Validators ELSE First(Hearing) : Gossip(n)
        \/ \E n \in Validators : DriveTimeout(n)

(* A schedule in which no timeout is early and a validator may stop at any
   point.  The pools are empty.  Validators gossip in any order, each with the
   first peer that has something for it; a finalized block is taken over at
   once. *)
Behind == {n \in Validators : \E m \in Validators : OffersBlock(n, m)}

CrashProgress ==
  IF Passing # {} THEN \E n \in First(Passing) : Drive(n) /\ NoNilVotes /\ \A b \in proposed' : b.ops = {}
  ELSE IF Behind # {} THEN \E n \in First(Behind), m \in Validators : SyncCatchUp(n, m)
  ELSE IF Hearing # {}
    THEN \E n \in Hearing : \E m \in First({k \in Validators : OffersState(n, k)}) : SyncState(n, m)
  ELSE \/ \E n, m \in Validators : SyncRoundUp(n, m)
       \/ \E n \in Validators : (\A m \in Validators : ~OffersRound(m, n)) /\ DriveTimeout(n)

----------------------------------------------------------------------------
Driven == play \in {"late", "crash"}

MCInit ==
  /\ Init
  /\ play \in {"honest", "faults", "late", "crash"}
  /\ alive = IF Driven THEN Validators ELSE {}

Called ==
  /\ \/ play = "honest" /\ HonestNext
     \/ play = "faults" /\ FaultsNext
  /\ UNCHANGED <<alive, play>>

MCProgress ==
  /\ \/ play = "late" /\ LateProgress
     \/ play = "crash" /\ CrashProgress
  /\ play' = play

StopOne == play = "crash" /\ (\E n \in Validators : Crash(n)) /\ play' = play

MCNext == Called \/ MCProgress \/ StopOne

MCSpec == MCInit /\ [][MCNext]_mcVars /\ WF_mcVars(MCProgress)

(* The first play of each kind by itself, the second with validators that stop
   once the committee has left the early rounds. *)
HonestSpec == MCInit /\ play = "honest" /\ [][Called]_mcVars

StoppingNext ==
  /\ LateProgress \/ (Settled /\ \E n \in Validators : Crash(n))
  /\ play' = play

StoppingSpec == MCInit /\ play = "late" /\ [][StoppingNext]_mcVars

=============================================================================
