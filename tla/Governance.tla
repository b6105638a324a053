----------------------------- MODULE Governance -----------------------------
(***************************************************************************)
(* Proposals, votes, treasury spending and direct governance by Node 1.    *)
(*                                                                         *)
(* A daemon holds two ledgers: fin, as of the last finalized block, and    *)
(* mem, on which it has already executed pending operations.  Every        *)
(* operation has two implementations: the command of the daemon's own      *)
(* operator (nodes in Here), which checks and executes on mem, and the     *)
(* replicated one, which executes what arrives by gossip on mem and what a *)
(* block contains on fin.  What arrives and cannot be executed on mem is   *)
(* staged: it waits for the block without an effect.  A block replays the  *)
(* pending operations from fin, in canonical order, and replaces both      *)
(* ledgers by the result.                                                  *)
(*                                                                         *)
(* Which nodes are eligible, and who sits on the committee, is decided by  *)
(* the node registry and is an input here.                                 *)
(***************************************************************************)
EXTENDS Settings, Sequences, Functions, TLC

CONSTANTS
  Nodes, Here,                       \* node ids; those whose commands run on this daemon
  EligibleSets, Committees, Ballots, \* what the registry may say; what a vote may say
  Age,                               \* days of service of every node
  Actions, Kinds,                    \* what is proposed, and as what kind of proposal
  DirectActions,                     \* what Node 1 does directly
  DistributedThreshold, CriticalThreshold, DirectEnd, MinValidators,
  MatureDays, ShareFloor, ShareUnit, \* 180 days; 1% of 10000 bps
  Voting, Timelock,                  \* periods by kind
  Bond, Fee, Funds, Treasury,        \* proposal bond and fee, initial balances
  SpendUnit, SingleSpend, ShortSpend, LongSpend, ShortWindow, LongWindow,
  InitialSettings, EpochLength, Validity, MaxTime, MaxProposals, MaxPending, Recipient

(* Node 1 can change parameters and pause emission directly, and nothing else. *)
ASSUME GovernanceAssumption ==
  /\ Nodes \subseteq Nat /\ IsFiniteSet(Nodes) /\ 1 \in Nodes /\ Here \subseteq Nodes
  /\ Recipient \notin Nodes
  /\ EligibleSets \subseteq SUBSET Nodes /\ Committees \subseteq SUBSET Nodes
  /\ \A action \in Actions :
       \/ action.type \in {"set", "pause", "resume"}
       \/ action.type = "spend" /\ action.amount \in Nat
  /\ \A action \in DirectActions : action.type \in {"set", "pause", "resume"}
  /\ \A action \in Actions \cup DirectActions :
       action.type = "set" => action.effective \in Nat \cup {NoEpoch}
  /\ Age \in [Nodes -> Nat]
  /\ Bond \in Nat /\ Fee \in Nat /\ Funds \in Nat /\ Treasury \in Nat /\ MaxTime \in Nat
  /\ EpochLength \in Nat \ {0}
  /\ SpendUnit \in Nat \ {0} /\ SingleSpend \in Nat /\ ShortSpend \in Nat /\ LongSpend \in Nat
  /\ ShortWindow \in Nat /\ LongWindow \in Nat
  /\ MatureDays \in Nat \ {0} /\ ShareFloor \in Nat /\ ShareUnit \in Nat
  /\ DOMAIN InitialSettings = Parameters \cup {"version"} /\ ValidSettings(InitialSettings)

VARIABLES
  now,          \* the clock
  eligible,     \* Governance-Eligible Nodes
  committee,    \* Active Validators
  mem, fin,     \* the two ledgers
  pending       \* pending operations, in canonical order

vars == <<now, eligible, committee, mem, fin, pending>>

Accounts == Nodes \cup {Recipient}

Genesis ==
  [props |-> <<>>, funds |-> [a \in Accounts |-> IF a = Recipient THEN 0 ELSE Funds],
   treasury |-> Treasury, burned |-> 0, spends |-> <<>>, paused |-> FALSE,
   settings |-> InitialSettings, queue |-> [e \in {} |-> 0], epoch |-> 0]

Init ==
  /\ now = 0
  /\ eligible = Nodes
  /\ committee \in Committees
  /\ mem = Genesis
  /\ fin = Genesis
  /\ pending = <<>>

-----------------------------------------------------------------------------
(* Thresholds and snapshots. *)

Threshold(kind) == IF kind = "standard" THEN DistributedThreshold ELSE CriticalThreshold

DistributedMode == Cardinality(eligible) >= DistributedThreshold

EnoughFor(kind) == Cardinality(eligible) >= Threshold(kind)

IsSpend(action) == action.type = "spend"

Mature == {n \in eligible : Age[n] >= MatureDays}

Clamp(days) == IF days < 1 THEN 1 ELSE IF days > MatureDays THEN MatureDays ELSE days

AtMost(a, b) == IF a <= b THEN a ELSE b

(* The binary search for the greatest cap under which no node exceeds its share. *)
Share(N) == LET even == (ShareUnit + Cardinality(N) - 1) \div Cardinality(N)
            IN  IF even > ShareFloor THEN even ELSE ShareFloor

Capped(raw, N, cap) == [n \in N |-> AtMost(raw[n], cap)]

Fits(raw, N, cap) == SumFunctionOnSet(Capped(raw, N, cap), N) * Share(N) >= cap * ShareUnit

(* Mutant: the greatest raw power is the cap. *)
MutCapSearch(raw, N, high) == high

CapSearch(raw, N, high) ==
  LET search[i \in (1 .. high) \X (1 .. high)] ==
        LET low == i[1]  up == i[2]  mid == low + (up - low + 1) \div 2
        IN  IF low >= up THEN low
            ELSE IF Fits(raw, N, mid) THEN search[<<mid, up>>] ELSE search[<<low, mid - 1>>]
  IN  search[<<1, high>>]

PowerSnapshot(N) ==
  LET raw == [n \in N |-> Clamp(Age[n])]
  IN  Capped(raw, N, CapSearch(raw, N, Max({raw[n] : n \in N})))

SnapshotNodes(action) == IF IsSpend(action) THEN Mature ELSE eligible

SnapshotLargeEnough(action) ==
  Cardinality(SnapshotNodes(action)) >=
    IF IsSpend(action) THEN CriticalThreshold ELSE DistributedThreshold

-----------------------------------------------------------------------------
(* Tallies. *)

Total(p) == SumFunctionOnSet(p.power, DOMAIN p.power)

Cast(p, choice) == SumFunctionOnSet(p.power, {n \in DOMAIN p.votes : p.votes[n] = choice})

Participation(p) == SumFunctionOnSet(p.power, DOMAIN p.votes)

VetoPower(p) == SumFunctionOnSet(p.power, p.vetoes)

ValidatorYes(p) == Cardinality({n \in DOMAIN p.vvotes : p.vvotes[n] = "yes"})

ValidatorQuorum(k) == (2 * k + 2) \div 3

QuorumReached(p) == 2 * Participation(p) >= Total(p)

TallyPassed(p) ==
  IF p.kind = "standard"
    THEN /\ QuorumReached(p)
         /\ 3 * Cast(p, "yes") >= 2 * (Cast(p, "yes") + Cast(p, "no"))
         /\ 2 * Cast(p, "yes") > Total(p)
    ELSE /\ 3 * Cast(p, "yes") >= 2 * Total(p)
         /\ IsSpend(p.action) =>
              /\ Cardinality(p.validators) >= MinValidators
              /\ ValidatorYes(p) >= ValidatorQuorum(Cardinality(p.validators))

-----------------------------------------------------------------------------
(* What a proposal may ask for, and what executing it does. *)

Spends(g) == [k \in DOMAIN g.spends |-> g.spends[k].amount]

SpentSince(g, since) ==
  SumFunctionOnSet(Spends(g), {k \in DOMAIN g.spends : g.spends[k].at > since})

Limit(g, part) == (g.treasury * part) \div SpendUnit

(* Mutant: neither the balance nor the limits are looked at. *)
MutSpendAllowed(g, amount, at) == amount > 0

SpendAllowed(g, amount, at) ==
  /\ amount > 0 /\ amount <= g.treasury
  /\ amount <= Limit(g, SingleSpend)
  /\ SpentSince(g, at - ShortWindow) + amount <= Limit(g, ShortSpend)
  /\ SpentSince(g, at - LongWindow) + amount <= Limit(g, LongSpend)

ActionValid(g, kind, action, at) ==
  CASE action.type = "set" ->
         /\ ValidBatch(g.settings, g.queue, action.changes, action.effective, g.epoch)
         /\ DOMAIN action.changes \cap CriticalParameters # {} => kind = "critical"
    [] action.type = "spend" -> kind = "critical" /\ SpendAllowed(g, action.amount, at)
    [] OTHER -> TRUE

ActionApplies(g, action, at) ==
  CASE action.type = "set" ->
         ValidBatch(g.settings, g.queue, action.changes, action.effective, g.epoch)
    [] action.type = "pause" -> ~g.paused
    [] action.type = "resume" -> g.paused
    [] action.type = "spend" -> SpendAllowed(g, action.amount, at)

ActionApplied(g, action) ==
  CASE action.type = "set" ->
         [g EXCEPT !.settings = BatchSettings(@, action.changes, action.effective),
                   !.queue = BatchQueue(@, action.changes, action.effective)]
    [] action.type = "pause" -> [g EXCEPT !.paused = TRUE]
    [] action.type = "resume" -> [g EXCEPT !.paused = FALSE]
    [] action.type = "spend" ->
         [g EXCEPT !.treasury = @ - action.amount, !.funds[Recipient] = @ + action.amount]

-----------------------------------------------------------------------------
(* What every operation ends with: proposals of a kind that no longer has
   enough eligible nodes are cancelled and refunded, then the fee is burned. *)

Open(p) == p.status \in {"voting", "passed"}

Bonds(g) == [i \in DOMAIN g.props |-> g.props[i].bond]

(* Mutant: closed proposals are cancelled, too. *)
MutCancelBelowThreshold(g) ==
  LET gone == {i \in DOMAIN g.props : ~EnoughFor(g.props[i].kind)}
  IN  [g EXCEPT !.props = [i \in DOMAIN @ |->
                             IF i \in gone THEN [@[i] EXCEPT !.status = "cancelled", !.bond = 0] ELSE @[i]],
                !.funds = [a \in Accounts |->
                             @[a] + SumFunctionOnSet(Bonds(g), {i \in gone : g.props[i].proposer = a})]]

CancelBelowThreshold(g) ==
  LET gone == {i \in DOMAIN g.props : Open(g.props[i]) /\ ~EnoughFor(g.props[i].kind)}
  IN  [g EXCEPT !.props = [i \in DOMAIN @ |->
                             IF i \in gone THEN [@[i] EXCEPT !.status = "cancelled", !.bond = 0] ELSE @[i]],
                !.funds = [a \in Accounts |->
                             @[a] + SumFunctionOnSet(Bonds(g), {i \in gone : g.props[i].proposer = a})]]

FeeOf(op) == IF op.type = "create" THEN Fee ELSE 0

FeePayable(g, op) == CancelBelowThreshold(g).funds[op.node] >= FeeOf(op)

FinalizeOperation(g, op) ==
  [CancelBelowThreshold(g) EXCEPT !.funds[op.node] = @ - FeeOf(op), !.burned = @ + FeeOf(op)]

-----------------------------------------------------------------------------
(* Effects the command and the replicated operation share. *)

Created(g, op) ==
  [g EXCEPT !.funds[op.node] = @ - Bond,
            !.props = Append(@,
               [kind |-> op.kind, action |-> op.action, proposer |-> op.node, ends |-> op.ends,
                after |-> op.after, status |-> "voting", power |-> op.power, votes |-> <<>>,
                validators |-> op.validators, vvotes |-> <<>>, vetoes |-> {}, bond |-> Bond,
                executed |-> -1])]

Voted(g, op) == [g EXCEPT !.props[op.prop].votes = @ @@ (op.node :> op.choice)]

ValidatorVoted(g, op) == [g EXCEPT !.props[op.prop].vvotes = @ @@ (op.node :> op.choice)]

Vetoed(g, op) == [g EXCEPT !.props[op.prop].vetoes = @ \cup {op.node}]

(* A fifth of the bond of a STANDARD proposal nobody cared to vote on is kept. *)
Forfeit(p) == IF ~TallyPassed(p) /\ p.kind = "standard" /\ ~QuorumReached(p) THEN p.bond \div 5 ELSE 0

Decided(g, op) ==
  LET p == g.props[op.prop]
  IN  [g EXCEPT !.props[op.prop].status = IF TallyPassed(p) THEN "passed" ELSE "rejected",
                !.props[op.prop].bond = 0,
                !.funds[p.proposer] = @ + p.bond - Forfeit(p)]

Executed(g, op) ==
  LET done == ActionApplied(g, g.props[op.prop].action)
  IN  [done EXCEPT !.props[op.prop].status = "executed", !.props[op.prop].executed = op.stamp,
                   !.spends = IF IsSpend(g.props[op.prop].action)
                                THEN Append(@, [amount |-> g.props[op.prop].action.amount, at |-> op.stamp])
                                ELSE @]

-----------------------------------------------------------------------------
(* The checks and effects of the daemon's commands. *)

CommandAllowed(g, op) ==
  LET p == g.props[op.prop]
  IN  CASE op.type = "create" ->
             /\ DistributedMode /\ EnoughFor(op.kind)
             /\ ActionValid(g, op.kind, op.action, op.stamp)
             /\ op.node \in SnapshotNodes(op.action)
             /\ g.funds[op.node] >= Bond
             /\ SnapshotLargeEnough(op.action)
             /\ IsSpend(op.action) => Cardinality(committee) >= MinValidators
        [] op.type = "direct" ->
             /\ op.node = 1 /\ Cardinality(eligible) < DirectEnd
             /\ ActionApplies(CancelBelowThreshold(g), op.action, op.stamp)
        [] OTHER ->
             /\ DistributedMode
             /\ op.prop \in DOMAIN g.props
             /\ EnoughFor(p.kind)
             /\ CASE op.type = "vote" -> /\ p.status = "voting" /\ op.stamp < p.ends
                                         /\ op.node \in DOMAIN p.power \ DOMAIN p.votes
                  [] op.type = "validatorVote" -> /\ IsSpend(p.action)
                                                  /\ p.status = "voting" /\ op.stamp < p.ends
                                                  /\ op.node \in p.validators \ DOMAIN p.vvotes
                  [] op.type = "veto" -> /\ IsSpend(p.action)
                                         /\ p.status = "passed" /\ op.stamp < p.after
                                         /\ op.node \in DOMAIN p.power \ p.vetoes
                  [] op.type = "finalize" -> p.status = "voting" /\ op.stamp >= p.ends
                  [] op.type = "execute" -> /\ p.status = "passed" /\ op.stamp >= p.after
                                            /\ ActionApplies(g, p.action, op.stamp)

CommandVeto(g, op) ==
  LET v == Vetoed(g, op)
  IN  IF 3 * VetoPower(v.props[op.prop]) > Total(v.props[op.prop])
        THEN [v EXCEPT !.props[op.prop].status = "cancelled"] ELSE v

CommandFinalize(g, op) == [Decided(g, op) EXCEPT !.treasury = @ + Forfeit(g.props[op.prop])]

CommandEffect(g, op) ==
  CASE op.type = "create" -> Created(g, op)
    [] op.type = "vote" -> Voted(g, op)
    [] op.type = "validatorVote" -> ValidatorVoted(g, op)
    [] op.type = "veto" -> CommandVeto(g, op)
    [] op.type = "finalize" -> CommandFinalize(g, op)
    [] op.type = "execute" -> Executed(g, op)
    [] op.type = "direct" -> ActionApplied(CancelBelowThreshold(g), op.action)

-----------------------------------------------------------------------------
(* The checks and effects of a replicated operation. *)

ReplicatedAllowed(g, op) ==
  LET p == g.props[op.prop]
  IN  CASE op.type = "create" ->
             /\ DistributedMode /\ EnoughFor(op.kind)
             /\ op.prop = Len(g.props) + 1
             /\ ActionValid(g, op.kind, op.action, op.stamp)
             /\ SnapshotLargeEnough(op.action)
             /\ op.power = PowerSnapshot(SnapshotNodes(op.action))
             /\ IsSpend(op.action) => op.validators = committee
             /\ g.funds[op.node] >= Bond
             /\ op.epoch = g.epoch
        [] op.type = "direct" ->
             /\ op.node = 1 /\ Cardinality(eligible) < DirectEnd
             /\ ActionApplies(CancelBelowThreshold(g), op.action, op.stamp)
        [] OTHER ->
             /\ op.prop \in DOMAIN g.props
             /\ EnoughFor(p.kind)
             /\ CASE op.type = "vote" -> /\ p.status = "voting" /\ op.stamp < p.ends
                                         /\ op.node \in DOMAIN p.power \ DOMAIN p.votes
                  [] op.type = "validatorVote" -> /\ p.status = "voting"
                                                  /\ op.node \in p.validators \ DOMAIN p.vvotes
                  [] op.type = "veto" -> /\ p.status = "passed" /\ op.stamp < p.after
                                         /\ op.node \in DOMAIN p.power \ p.vetoes
                  [] op.type = "finalize" -> p.status = "voting" /\ op.stamp >= p.ends
                  [] op.type = "execute" -> /\ p.status = "passed" /\ op.stamp >= p.after
                                            /\ p.action = op.action
                                            /\ ActionApplies(g, p.action, op.stamp)

(* Mutant: the vetoes are recorded and not counted. *)
MutReplicatedVeto(g, op) == Vetoed(g, op)

ReplicatedVeto(g, op) ==
  LET v == Vetoed(g, op)
      p == v.props[op.prop]
  IN  IF 10 * VetoPower(p) >= Total(p)
        THEN [v EXCEPT !.props[op.prop].status = "rejected", !.props[op.prop].bond = 0,
                       !.funds[p.proposer] = @ + p.bond]
        ELSE v

(* Mutant: the forfeited part is credited nowhere. *)
MutReplicatedFinalize(g, op) == Decided(g, op)

ReplicatedFinalize(g, op) == [Decided(g, op) EXCEPT !.burned = @ + Forfeit(g.props[op.prop])]

ReplicatedEffect(g, op) ==
  CASE op.type = "veto" -> ReplicatedVeto(g, op)
    [] op.type = "finalize" -> ReplicatedFinalize(g, op)
    [] OTHER -> CommandEffect(g, op)

(* An operation that fails is still finalized, as rejected, if it can pay. *)
Replicate(g, op, t) ==
  IF t > op.stamp + Validity THEN g
  ELSE IF ReplicatedAllowed(g, op) /\ FeePayable(ReplicatedEffect(g, op), op)
    THEN FinalizeOperation(ReplicatedEffect(g, op), op)
  ELSE IF FeePayable(g, op) THEN FinalizeOperation(g, op) ELSE g

-----------------------------------------------------------------------------
(* Steps. *)

(* A proposal is signed by the reward account, everything else by the owner. *)
Signer(op) == 2 * op.node + IF op.type = "create" THEN 1 ELSE 0

(* Pending operations are ordered by expiry, signer and nonce. *)
Key(op) == <<op.stamp, Signer(op)>>

Before(j, k) == j[1] < k[1] \/ (j[1] = k[1] /\ j[2] <= k[2])

InsertedAt(s, i, e) == SubSeq(s, 1, i - 1) \o <<e>> \o SubSeq(s, i, Len(s))

Sorted(ops, op) ==
  InsertedAt(ops, Cardinality({i \in DOMAIN ops : Before(Key(ops[i]), Key(op))}) + 1, op)

(* A command on this daemon. *)
Command(op) ==
  LET effect == CommandEffect(mem, op)
  IN  /\ op.stamp = now /\ ~op.staged
      /\ CommandAllowed(mem, op) /\ FeePayable(effect, op)
      /\ mem' = FinalizeOperation(effect, op)

(* The nonce is the next one of its signer, unless an earlier operation of the
   signer is only staged, and the replicated rules allow it now. *)
Executable(op) ==
  /\ \A i \in DOMAIN pending : Signer(pending[i]) = Signer(op) => ~pending[i].staged
  /\ ReplicatedAllowed(mem, op) /\ FeePayable(ReplicatedEffect(mem, op), op)

(* An operation of another daemon arrives.  It carries the time of its signer,
   whose operations arrive in the order of their nonces. *)
Arrive(op) ==
  /\ now <= op.stamp + Validity
  /\ \A i \in DOMAIN pending : Signer(pending[i]) = Signer(op) => pending[i].stamp <= op.stamp
  /\ op.staged = ~Executable(op)
  /\ IF op.staged THEN mem.funds[op.node] >= FeeOf(op) /\ mem' = mem
                  ELSE mem' = FinalizeOperation(ReplicatedEffect(mem, op), op)

Submit(op) ==
  /\ Len(pending) < MaxPending
  /\ IF op.node \in Here THEN Command(op) ELSE Arrive(op)
  /\ pending' = Sorted(pending, op)
  /\ UNCHANGED <<now, eligible, committee, fin>>

(* When an operation was signed, and whether it is staged. *)
Sent == [stamp : Nat, staged : BOOLEAN]

(* The command computes the times of a proposal, the replicated operation takes
   those it carries. *)
Times == [ends : Nat, after : Nat]

CommandTimes(kind) == [ends |-> now + Voting[kind], after |-> now + Voting[kind] + Timelock[kind]]

CreateProposal(n, kind, action, times, sent) ==
  /\ Len(mem.props) < MaxProposals
  /\ SnapshotNodes(action) # {}
  /\ n \in Here => times = CommandTimes(kind)
  /\ Submit([type |-> "create", node |-> n, prop |-> Len(mem.props) + 1, kind |-> kind,
             action |-> action, epoch |-> mem.epoch, power |-> PowerSnapshot(SnapshotNodes(action)),
             validators |-> IF IsSpend(action) THEN committee ELSE {},
             ends |-> times.ends, after |-> times.after,
             stamp |-> sent.stamp, staged |-> sent.staged])

VoteProposal(n, i, choice, sent) ==
  Submit([type |-> "vote", node |-> n, prop |-> i, choice |-> choice,
          stamp |-> sent.stamp, staged |-> sent.staged])

ValidatorVoteProposal(n, i, choice, sent) ==
  Submit([type |-> "validatorVote", node |-> n, prop |-> i, choice |-> choice,
          stamp |-> sent.stamp, staged |-> sent.staged])

VetoTreasuryProposal(n, i, sent) ==
  Submit([type |-> "veto", node |-> n, prop |-> i, stamp |-> sent.stamp, staged |-> sent.staged])

FinalizeProposal(n, i, sent) ==
  Submit([type |-> "finalize", node |-> n, prop |-> i, stamp |-> sent.stamp, staged |-> sent.staged])

(* The command takes the action from the proposal. *)
ExecuteProposal(n, i, action, sent) ==
  /\ n \in Here => i \in DOMAIN mem.props /\ action = mem.props[i].action
  /\ Submit([type |-> "execute", node |-> n, prop |-> i, action |-> action,
             stamp |-> sent.stamp, staged |-> sent.staged])

DirectGovernance(action, sent) ==
  Submit([type |-> "direct", node |-> 1, prop |-> 0, action |-> action,
          stamp |-> sent.stamp, staged |-> sent.staged])

(* A block first enters the epochs that have begun, applying what is queued for
   them, and then replays the pending operations. *)
EnterEpochs(g, e) ==
  IF e <= g.epoch THEN g
  ELSE LET due == Due(g.queue, e)
       IN  [g EXCEPT !.epoch = e, !.queue = Later(@, e),
                     !.settings = Planned(@, due, g.epoch)[Max(DOMAIN due \cup {g.epoch})]]

CanEnterEpochs(g, e) == QueueApplies(g.settings, Due(g.queue, e), g.epoch)

Replayed(g, ops, t) ==
  LET after[k \in 0 .. Len(ops)] == IF k = 0 THEN g ELSE Replicate(after[k - 1], ops[k], t)
  IN  after[Len(ops)]

ProduceBlock ==
  /\ CanEnterEpochs(fin, now \div EpochLength)
  /\ fin' = Replayed(EnterEpochs(fin, now \div EpochLength), pending, now)
  /\ mem' = fin'
  /\ pending' = <<>>
  /\ UNCHANGED <<now, eligible, committee>>

Tick == now < MaxTime /\ now' = now + 1 /\ UNCHANGED <<eligible, committee, mem, fin, pending>>

(* Nodes gain and lose eligibility, and the committee changes. *)
RegistryChanges(E, C) ==
  /\ <<E, C>> # <<eligible, committee>>
  /\ eligible' = E /\ committee' = C
  /\ UNCHANGED <<now, mem, fin, pending>>

Next ==
  \/ \E sent \in Sent :
       \/ \E n \in Nodes, kind \in Kinds, action \in Actions, times \in Times :
            CreateProposal(n, kind, action, times, sent)
       \/ \E n \in Nodes, i \in 1 .. MaxProposals :
            \/ \E c \in Ballots : VoteProposal(n, i, c, sent) \/ ValidatorVoteProposal(n, i, c, sent)
            \/ VetoTreasuryProposal(n, i, sent)
            \/ FinalizeProposal(n, i, sent)
            \/ \E action \in Actions : ExecuteProposal(n, i, action, sent)
       \/ \E action \in DirectActions : DirectGovernance(action, sent)
  \/ ProduceBlock
  \/ Tick
  \/ \E E \in EligibleSets, C \in Committees : RegistryChanges(E, C)

GovernanceSpec == Init /\ [][Next]_vars

-----------------------------------------------------------------------------
(* Balances never go below zero in either ledger, and proposals have one of the
   states of the code. *)
GovernanceTypeOK ==
  /\ now \in 0 .. MaxTime /\ eligible \subseteq Nodes /\ committee \subseteq Nodes
  /\ \A g \in {mem, fin} :
       /\ g.funds \in [Accounts -> Nat] /\ g.treasury \in Nat /\ g.burned \in Nat
       /\ \A i \in DOMAIN g.props :
            g.props[i].status \in {"voting", "passed", "rejected", "cancelled", "executed"}

(* Neither ledger creates or loses money: what the accounts, the treasury and
   the bonds of proposals hold and what was burned always add up, whichever of
   finalize, veto and cancellation returned a bond (submit and replay of
   Governance operations). *)
GovernanceConserves ==
  \A g \in {mem, fin} :
    SumFunctionOnSet(g.funds, Accounts) + g.treasury + g.burned
      + SumFunctionOnSet(Bonds(g), DOMAIN g.props)
      = Treasury + Funds * Cardinality(Nodes)

(* The spends that count towards a window of the k-th: those executed before it
   whose time is within the window, or after it, and itself. *)
Counted(g, k, window) == {j \in 1 .. k : j = k \/ g.spends[j].at > g.spends[k].at - window}

(* What they spend is within a part of what the treasury held then. *)
WithinPart(g, k, J, part) ==
  SumFunctionOnSet(Spends(g), J) * SpendUnit
    <= (g.treasury + SumFunctionOnSet(Spends(g), k .. Len(g.spends))) * part

(* What was executed had, by the power snapshot of its creation, the majority
   its kind asks for, waited for its timelock, and was not vetoed by more than a
   third of the power (architecture.md:316), and what was spent was within the
   limits of the treasury alone and in each window, whatever order the votes,
   vetoes and executions arrived and were replayed in and whatever their times
   (apply_replicated_governance_terminal_action, validate_treasury_spend_amount). *)
ExecutedWithMandate ==
  /\ \A i \in DOMAIN fin.props :
       LET p == fin.props[i]
       IN  p.status = "executed" =>
             /\ TallyPassed(p) /\ p.executed >= p.after /\ 3 * VetoPower(p) <= Total(p)
  /\ \A k \in DOMAIN fin.spends :
       /\ WithinPart(fin, k, {k}, SingleSpend)
       /\ WithinPart(fin, k, Counted(fin, k, ShortWindow), ShortSpend)
       /\ WithinPart(fin, k, Counted(fin, k, LongWindow), LongSpend)

(* Vetoes stop a proposal that has passed only when they hold strictly more than
   a third of the power of its snapshot (architecture.md:316, blockchain.md:571). *)
VetoNeedsThird ==
  \A i \in DOMAIN fin.props :
    LET p == fin.props[i]
    IN  p.status = "rejected" /\ p.vetoes # {} => 3 * VetoPower(p) > Total(p)

(* The batches queued for later epochs can all be applied when their epochs
   begin: an immediate change or a batch queued later for an earlier epoch
   cannot make one of them fail, which would stop block production
   (validate_scheduled_governance_parameter_changes, advance_epochs_for_block). *)
QueueStaysApplicable ==
  \A g \in {mem, fin} : ValidSettings(g.settings) /\ QueueApplies(g.settings, g.queue, g.epoch)

(* No node of a snapshot has more than its share of the power, and the cap the
   binary search found is the greatest that achieves it
   (governance_power_snapshot_for_nodes). *)
SnapshotCapped ==
  \A i \in DOMAIN fin.props :
    LET p == fin.props[i]
        N == DOMAIN p.power
        raw == [n \in N |-> Clamp(Age[n])]
        cap == Max({p.power[n] : n \in N})
    IN  /\ \A n \in N : p.power[n] * ShareUnit <= Share(N) * Total(p)
        /\ \A c \in (cap + 1) .. Max({raw[n] : n \in N}) : ~Fits(raw, N, c)

(* A finalized outcome stands: a proposal that was rejected, cancelled or
   executed keeps its status, one that passed is never voted on again, and its
   votes, snapshot and times never change after the fact. *)
OutcomeStands ==
  [][\A i \in DOMAIN fin.props :
       LET p == fin.props[i]
           q == fin'.props[i]
       IN  /\ i \in DOMAIN fin'.props /\ q.power = p.power /\ q.ends = p.ends /\ q.after = p.after
           /\ p.status # "voting" => q.votes = p.votes /\ q.vvotes = p.vvotes /\ q.bond = 0
           /\ ~Open(p) => q = p]_vars

=============================================================================
