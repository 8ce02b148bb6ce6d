----------------------------- MODULE PlanGates -----------------------------
(* What a plan lets its user do: the table every gate reads, the refusal a  *)
(* gate answers with, and a user who upgrades as the refusal says.          *)
EXTENDS Tariff

CONSTANT MaxTiers   \* bound: changes of plan

VARIABLES tier, wants,   \* the options of the dub, or a tool
          step, refusal, \* what is refused, and the plan it is said to be part of
          refused,       \* features refused since the plan was last lost
          changes
vars == <<tier, wants, step, refusal, refused, changes>>

Nothing == [feature |-> "none", required |-> "FREE"]
Init == /\ tier = "FREE" /\ wants \in (SUBSET {Options[n] : n \in DOMAIN Options}) \cup {{t} : t \in Tools}
        /\ step = "ask" /\ refusal = Nothing /\ refused = {} /\ changes = 0

-----------------------------------------------------------------------------
\* The first plan in order that has the feature.
\* Variant: the one after the user's.
RequiredNext(feature) == Tiers[IF Rank(tier) < 3 THEN Rank(tier) + 1 ELSE 3]
Required(feature) ==
  LET having == {n \in DOMAIN Tiers : feature \in Features(Tiers[n])}
  IN Tiers[CHOOSE n \in having : \A k \in having : n <= k]
Missing == wants \ Features(tier)
FirstMissing ==
  IF Missing \subseteq Tools THEN CHOOSE f \in Missing : TRUE
  ELSE Options[CHOOSE n \in DOMAIN Options :
                 Options[n] \in Missing /\ \A k \in 1 .. n - 1 : Options[k] \notin Missing]
Gate ==
  /\ step = "ask"
  /\ IF Missing = {} THEN step' = "allowed" /\ refusal' = Nothing /\ UNCHANGED refused
     ELSE /\ step' = "refused" /\ refused' = refused \cup {FirstMissing}
          /\ refusal' = [feature |-> FirstMissing, required |-> Required(FirstMissing)]
  /\ UNCHANGED <<tier, wants, changes>>
Upgrade ==
  /\ step = "refused" /\ step' = "ask" /\ tier' = refusal.required
  /\ changes < MaxTiers /\ changes' = changes + 1
  /\ UNCHANGED <<wants, refusal, refused>>
\* The period ends between the preflight and the charge, or at any other time.
Lapse ==
  /\ tier # "FREE" /\ tier' = "FREE" /\ refused' = {} /\ refusal' = Nothing
  /\ step' = IF step = "refused" THEN "ask" ELSE step
  /\ changes < MaxTiers /\ changes' = changes + 1 /\ UNCHANGED wants
\* The pipeline names the quality alone; the tools are not charged.
Commit ==
  /\ step = "allowed" /\ wants \cap Tools = {}
  /\ step' = IF wants \cap {"studio"} \subseteq Features(tier) THEN "charged" ELSE "unpaid"
  /\ UNCHANGED <<tier, wants, refusal, refused, changes>>
Next == Gate \/ Upgrade \/ Lapse \/ Commit
Spec == Init /\ [][Next]_vars

-----------------------------------------------------------------------------
TypeOK ==
  /\ tier \in {"FREE", "PRO", "STUDIO"} /\ step \in {"ask", "refused", "allowed", "charged", "unpaid"}
  /\ changes \in 0 .. MaxTiers /\ refused \subseteq {Options[n] : n \in DOMAIN Options} \cup Tools

\* The plan a refusal names has what was refused: a user who buys it is not refused that
\* again, nor told to buy less than they have (plan-features.ts:157-177, 216-229).
UpgradeHelps ==
  /\ step = "refused" => Rank(refusal.required) > Rank(tier)
  /\ step = "ask" => refused \subseteq Features(tier)
=============================================================================
