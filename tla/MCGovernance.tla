---------------------------- MODULE MCGovernance ----------------------------
(***************************************************************************)
(* Plays keep the instance small: a treasury spend with its validator      *)
(* votes and vetoes, two spends that have passed and compete for the       *)
(* treasury's limits, operations of other daemons that arrive late or      *)
(* before they can be executed, a change of parameters while nodes gain    *)
(* and lose eligibility, and direct governance by Node 1 with queued       *)
(* batches.                                                                *)
(***************************************************************************)
EXTENDS Governance

VARIABLE play

MCValues == [service |-> {1, 2}, max |-> {3, 6}, rotations |-> {1, 2}, base |-> {1, 2, 4},
             least |-> {1}, most |-> {1}]

MCSettings == [service |-> 1, max |-> 6, rotations |-> 1, base |-> 1, least |-> 1, most |-> 1,
               version |-> 0]

Set(changes, e) == [type |-> "set", changes |-> changes, effective |-> e]

MCActions == {[type |-> "spend", amount |-> 1], [type |-> "spend", amount |-> 20],
              Set([service |-> 2], 2)}

MCDirect == {Set([max |-> 3], NoEpoch), Set([rotations |-> 2], 1), Set([max |-> 3], 2), Set([rotations |-> 1], 2),
             [type |-> "resume"], [type |-> "pause"]}

MCAge == <<1, 3, 3, 3>>

MCEligible == {{1, 2, 3, 4}, {1, 2}, {1}}

MCVoting == [standard |-> 1, critical |-> 1]

(* A spend by node 2 that everybody voted for and whose timelock ends at 0. *)
Passed(amount) ==
  [kind |-> "critical", action |-> [type |-> "spend", amount |-> amount], proposer |-> 2,
   ends |-> 0 - 1, after |-> 0, status |-> "passed", power |-> PowerSnapshot(Mature),
   votes |-> [n \in Mature |-> "yes"], validators |-> committee,
   vvotes |-> [n \in committee |-> "yes"], vetoes |-> {}, bond |-> 0, executed |-> -1]

TwoPassed ==
  [Genesis EXCEPT !.props = <<Passed(2), Passed(1)>>, !.funds[2] = @ - 2 * Fee, !.burned = 2 * Fee]

(* A spend that lacks the votes of the nodes of other daemons. *)
Undecided ==
  LET p == [Passed(1) EXCEPT !.status = "voting", !.ends = 1, !.after = 2, !.bond = Bond,
                             !.votes = (2 :> "yes"), !.vvotes = (2 :> "yes")]
  IN  [Genesis EXCEPT !.props = <<p>>, !.funds[2] = @ - Bond - Fee, !.burned = Fee]

MCInit ==
  /\ play \in {"spend", "limits", "late", "change", "direct"}
  /\ now = 0 /\ eligible = Nodes /\ committee \in Committees /\ pending = <<>>
  /\ mem \in CASE play = "limits" -> {TwoPassed} [] play = "late" -> {Undecided, Genesis} [] OTHER -> {Genesis}
  /\ fin = mem

(* Operations of other daemons arrive at once and can be executed, or, in the
   play about them, one unit of time late or before they can be executed. *)
MCSent(n) ==
  IF n \notin Here /\ play = "late"
    THEN {sent \in [stamp : {now - 1, now}, staged : BOOLEAN] : sent.stamp >= 0}
    ELSE {[stamp |-> now, staged |-> FALSE]}

(* Another daemon may ask for a vote that ends at once. *)
MCTimes(n, kind) == IF n \in Here THEN {CommandTimes(kind)} ELSE {[ends |-> now, after |-> now + 1]}

ProposalSteps(proposers, kind, action) ==
  \/ \E n \in proposers : \E times \in MCTimes(n, kind), sent \in MCSent(n) :
       CreateProposal(n, kind, action, times, sent)
  \/ \E n \in Nodes, i \in 1 .. MaxProposals : \E sent \in MCSent(n) :
       \/ \E c \in Ballots : (c = "no" => n = 4) /\ VoteProposal(n, i, c, sent)
       \/ n \in Here /\ FinalizeProposal(n, i, sent)
       \/ n \notin Here /\ ExecuteProposal(n, i, action, sent)

Spend ==
  \/ \E action \in Actions : IsSpend(action) /\ ProposalSteps({2, 3}, "critical", action)
  \/ \E n \in Nodes, i \in 1 .. MaxProposals : \E sent \in MCSent(n) :
       ValidatorVoteProposal(n, i, "yes", sent) \/ VetoTreasuryProposal(n, i, sent)

Late ==
  \/ \E times \in MCTimes(3, "critical"), sent \in MCSent(3) :
       CreateProposal(3, "critical", [type |-> "spend", amount |-> 1], times, sent)
  \/ \E n \in Nodes, i \in 1 .. MaxProposals : \E sent \in MCSent(n) :
       \/ n \notin Here /\ (VoteProposal(n, i, "yes", sent) \/ ValidatorVoteProposal(n, i, "yes", sent))
       \/ n = 3 /\ VetoTreasuryProposal(n, i, sent)
       \/ n = 2 /\ FinalizeProposal(n, i, sent)
       \/ n = 3 /\ ExecuteProposal(n, i, [type |-> "spend", amount |-> 1], sent)

Direct(action) == \E sent \in MCSent(1) : DirectGovernance(action, sent)

Change ==
  \/ \E action \in Actions : ~IsSpend(action) /\ ProposalSteps({1}, "standard", action)
  \/ \E action \in DirectActions : action.type = "pause" /\ Direct(action)
  \/ \E E \in EligibleSets, C \in Committees : Cardinality(E) # 2 /\ RegistryChanges(E, C)

MCNext ==
  /\ UNCHANGED play
  /\ \/ play = "spend" /\ Spend
     \/ /\ play = "limits"
        /\ \E n \in Nodes, i \in DOMAIN mem.props : \E sent \in MCSent(n) :
             ExecuteProposal(n, i, mem.props[i].action, sent)
     \/ play = "late" /\ Late
     \/ play = "change" /\ Change
     \/ play = "direct" /\ \/ \E action \in DirectActions : Direct(action)
                            \/ \E E \in EligibleSets, C \in Committees : RegistryChanges(E, C)
     \/ ProduceBlock
     \/ Tick

MCGovernanceSpec == MCInit /\ [][MCNext]_<<vars, play>>

=============================================================================
