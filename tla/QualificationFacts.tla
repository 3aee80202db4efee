------------------------- MODULE QualificationFacts -------------------------
(***************************************************************************)
(* What the review batches may rely on of the qualification authority: a   *)
(* receipt, once issued, stays; receipts exist only for pools that have    *)
(* been active; and a pool goes from sealed over active to retired, never  *)
(* back.  Whatever happens to a pool before it is activated, and a legacy  *)
(* pool, which no batch accepts, count as sealed here.                     *)
(***************************************************************************)
CONSTANTS Reviewers,  \* opaque reviewer ids
          Pools       \* qualification pools, each one version

VARIABLES receipts,   \* which reviewer holds a receipt of which pool
          poolState   \* how far each pool has come

facts == <<receipts, poolState>>

TypeOK ==
  /\ receipts \subseteq Reviewers \X Pools
  /\ poolState \in [Pools -> {"SEALED", "ACTIVE", "RETIRED"}]

Init ==
  /\ receipts = {}
  /\ poolState = [p \in Pools |-> "SEALED"]

IssueReceipt(r, p) ==
  /\ poolState[p] # "SEALED"
  /\ receipts' = receipts \cup {<<r, p>>}
  /\ UNCHANGED poolState

ActivatePool(p) ==
  /\ poolState[p] = "SEALED"
  /\ poolState' = [poolState EXCEPT ![p] = "ACTIVE"]
  /\ UNCHANGED receipts

(* A pool may be registered as retired without having been active here.     *)
RetirePool(p) ==
  /\ poolState[p] # "RETIRED"
  /\ poolState' = [poolState EXCEPT ![p] = "RETIRED"]
  /\ UNCHANGED receipts

Next ==
  \/ \E r \in Reviewers, p \in Pools : IssueReceipt(r, p)
  \/ \E p \in Pools : ActivatePool(p) \/ RetirePool(p)

Spec == Init /\ [][Next]_facts
=============================================================================
