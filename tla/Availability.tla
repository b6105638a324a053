---------------------------- MODULE Availability ----------------------------
(***************************************************************************)
(* Availability attestations: who may attest, when a slot is credited, and *)
(* how many seconds it adds to the epoch of the node that was probed.      *)
(*                                                                         *)
(* An epoch context fixes, for one epoch, its bounds, the verification mode*)
(* and the validators.  A slot is half of the time for primaries and half  *)
(* for auditors.                                                           *)
(***************************************************************************)
EXTENDS Stake

CONSTANTS
  SlotLength, PrimaryCount, PrimaryQuorum, AuditorCount, AuditQuorum, MinAudited,
  AuditedSlots             \* the slots a hash samples for auditing

ASSUME AvailabilityAssumption ==
  SlotLength \in Nat \ {0} /\ PrimaryQuorum \in Nat \ {0} /\ AuditedSlots \subseteq Nat

SlotStart(ctx, slot) == ctx.start + slot * SlotLength

SlotInEpoch(ctx, slot) == slot >= 0 /\ SlotStart(ctx, slot) + SlotLength <= ctx.end

ActiveSlot(ctx, at) == (at - ctx.start) \div SlotLength

(* A hash of epoch, target, slot and node orders the validators. *)
HashRank(e, target, slot, n) == (n + e + target + slot) % (MaxNodes + 1)

FirstByHash(k, S, e, target, slot) ==
  FirstOf(k, S, LAMBDA a, b : HashRank(e, target, slot, a) < HashRank(e, target, slot, b))

Nobody == [primary |-> {}, audit |-> {}, quorum |-> PrimaryQuorum, auditQuorum |-> 0]

(* Sampled slots are audited by validators that are not primaries. *)
Audited(slot, validators, rest) ==
  /\ slot \in AuditedSlots /\ Cardinality(validators) >= MinAudited
  /\ Cardinality(rest) >= AuditorCount /\ AuditQuorum <= AuditorCount

WithAuditors(primaries, rest, audited, e, target, slot) ==
  [primary |-> primaries,
   audit |-> IF audited THEN FirstByHash(AuditorCount, rest, e, target, slot) ELSE {},
   quorum |-> PrimaryQuorum, auditQuorum |-> IF audited THEN AuditQuorum ELSE 0]

FromCommittee(validators, others, primaries, e, target, slot) ==
  IF \/ Cardinality(validators) < MinDecentralized
     \/ Cardinality(others) < PrimaryCount \/ PrimaryQuorum > PrimaryCount
    THEN Nobody
    ELSE WithAuditors(primaries, others \ primaries, Audited(slot, validators, others \ primaries),
                      e, target, slot)

VerifierSet(L, e, target, slot) ==
  LET validators == L.contexts[e].validators
  IN  IF L.contexts[e].mode = "node1"
        THEN [Nobody EXCEPT !.primary = {1} \cap DOMAIN L.nodes, !.quorum = 1]
        ELSE FromCommittee(validators, validators \ {target},
                           FirstByHash(PrimaryCount, validators \ {target}, e, target, slot),
                           e, target, slot)

RoleOf(set, verifier) ==
  IF verifier \in set.primary THEN "primary" ELSE IF verifier \in set.audit THEN "audit" ELSE "none"

(* The half of the slot in which a role is scheduled to probe. *)
Scheduled(ctx, slot, role, at) ==
  LET half == SlotStart(ctx, slot) + SlotLength \div 2
  IN  IF role = "primary" THEN at < half ELSE at >= half

-----------------------------------------------------------------------------
(* The record of a slot; ip, the address it was credited for, is kept for the
   properties only. *)
AttestsFor(L, key) ==
  IF key \in DOMAIN L.avail THEN L.avail[key]
  ELSE [set |-> VerifierSet(L, key[1], key[2], key[3]), primary |-> {}, audit |-> {},
        seen |-> None, seenInBlock |-> None, credited |-> FALSE, seconds |-> 0, ip |-> None]

(* The verifier probes the nodes that serve and that it has not attested yet in
   the slot. *)
ShouldProbe(L, verifier, target, at) ==
  LET ctx == L.contexts[L.epoch]
      slot == ActiveSlot(ctx, at)
      role == RoleOf(VerifierSet(L, L.epoch, target, slot), verifier)
  IN  /\ at >= ctx.start /\ at < ctx.end
      /\ L.nodes[target].status \notin Leaving
      /\ role # "none" /\ (ctx.mode = "multi" => Scheduled(ctx, slot, role, at))
      /\ verifier \notin AttestsFor(L, <<L.epoch, target, slot>>)[role]

(* The stamp of an attestation is both the time of the probe and the time at which
   it is executed; the code lets them lie up to 30 seconds apart. *)
InSlot(ctx, op) ==
  /\ op.stamp <= ctx.deadline
  /\ SlotInEpoch(ctx, op.slot)
  /\ op.stamp >= SlotStart(ctx, op.slot) /\ op.stamp < SlotStart(ctx, op.slot) + SlotLength
  /\ ctx.mode = "multi" => Scheduled(ctx, op.slot, op.role, op.stamp)

CanAttest(L, op) ==
  /\ op.epoch \in DOMAIN L.contexts
  /\ op.node \in DOMAIN L.nodes /\ op.target \in DOMAIN L.nodes
  /\ InSlot(L.contexts[op.epoch], op)
  /\ LET set == VerifierSet(L, op.epoch, op.target, op.slot)
         record == AttestsFor(L, <<op.epoch, op.target, op.slot>>)
     IN  /\ op.role # "none" /\ op.node \in set[op.role]
         /\ record.set = set
         /\ op.node \notin record[op.role]

-----------------------------------------------------------------------------
(* Crediting a slot. *)

Latest(a, b) == IF a = None \/ a < b THEN b ELSE a

Adding(r, op, role) == IF role = op.role THEN r[role] \cup {op.node} ELSE r[role]

WithAttestation(r, op) ==
  [r EXCEPT !.primary = Adding(r, op, "primary"), !.audit = Adding(r, op, "audit"),
            !.seen = Latest(@, op.stamp), !.seenInBlock = Latest(@, op.stamp)]

Recorded(L, op, key) ==
  [L EXCEPT !.avail = [k \in DOMAIN @ \cup {key} |->
     IF k = key THEN WithAttestation(AttestsFor(L, key), op) ELSE @[k]]]

QuorumOf(r) ==
  Cardinality(r.primary) >= r.set.quorum /\ Cardinality(r.audit) >= r.set.auditQuorum

CreditFrom(L, op) ==
  Max({SlotStart(L.contexts[op.epoch], op.slot), L.nodes[op.target].warmupUntil})

CreditTo(L, op) == SlotStart(L.contexts[op.epoch], op.slot) + SlotLength

AddSeconds(seconds, e, s) ==
  [f \in DOMAIN seconds \cup {e} |->
     (IF f \in DOMAIN seconds THEN seconds[f] ELSE 0) + IF f = e THEN s ELSE 0]

(* Mutant: a slot is credited with every attestation. *)
MutFirstCredit(r) == TRUE

FirstCredit(r) == ~r.credited

Credited(B, op, key, seen, owns, eligible, earned) ==
  [B EXCEPT
     !.avail[key].credited = TRUE, !.avail[key].seconds = earned,
     !.avail[key].ip = IpSlot(B, op.target),
     !.nodes[op.target] = [@ EXCEPT
        !.probe = IF owns THEN seen ELSE @,
        !.status = IF eligible THEN "active" ELSE @,
        !.seconds = IF earned > 0 THEN AddSeconds(@, op.epoch, earned) ELSE @,
        !.total = @ + earned]]

Earned(B, op, owns) ==
  IF owns /\ CreditTo(B, op) > CreditFrom(B, op) /\ ~B.paused
    THEN CreditTo(B, op) - CreditFrom(B, op) ELSE 0

Ready(B, op, key, seen, serves, owns) ==
  IF FirstCredit(B.avail[key])
    THEN Credited(B, op, key, seen, owns, owns /\ CreditTo(B, op) > CreditFrom(B, op),
                  Earned(B, op, owns))
    ELSE [B EXCEPT !.nodes[op.target].probe = IF serves THEN Latest(@, seen) ELSE @]

Probed(R, op, key, seen) ==
  IF R.nodes[op.target].status \in Leaving THEN Ready(R, op, key, seen, FALSE, FALSE)
  ELSE LET B == BindIpSlotIfAvailable(R, IpSlot(R, op.target), op.target, seen)
       IN  Ready(B, op, key, seen, TRUE, NodeOwnsIpSlotAt(B, op.target, seen))

Counted(R, op, key, full) ==
  IF QuorumOf(R.avail[key])
    THEN Probed(R, op, key, IF full THEN R.avail[key].seen ELSE R.avail[key].seenInBlock)
    ELSE R

(* A slot that has its quorums binds the address if it can, and is credited
   once; a later attestation only moves the probe clock forward.  The time of
   the latest probe is taken from the operations in the ledger: all of them when
   full, as a command sees it, those of the block when a block is replayed. *)
Attested(L, op, full) ==
  LET key == <<op.epoch, op.target, op.slot>>
  IN  Counted(Recorded(L, op, key), op, key, full)

=============================================================================
