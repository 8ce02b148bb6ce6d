------------------------------ MODULE MCBilling ------------------------------
(* What is paid, and what it buys over time: small instances of OrderClaims and of
   Subscriptions, each behaviour in one scene.  "claims": a plan order and a pack order
   of one account that nobody but the sweep claims.  "renewals": one LS subscription
   followed by the hourly job and by webhooks.  "drips": the same with a drip, for a
   shorter time.  "switches": another plan is bought, beside overlapping drips and the
   hourly job, for a period. *)
EXTENDS Subscriptions, TLC

CONSTANTS u1, plan, pack, s1, s2, hook, cron, drip1, drip2,
          MaxAttempts, MaxRestarts, \* bounds of OrderClaims
          Scenes                    \* the scenes to play

VARIABLES scene,
  order, created, aged, lsSub, attached, store, claimsPayments, grants, subs, logged, claim, restarts

Claims == INSTANCE OrderClaims WITH
    payments <- claimsPayments, Users <- {u1}, Orders <- {plan, pack},
    OrderUser <- [o \in {plan, pack} |-> u1], Plans <- {plan}, Recurring <- {plan},
    Attached0 <- {pack}, Pages <- {}, Sweep <- Cron, StoreConfigured <- TRUE

ClaimsVars == <<order, created, aged, lsSub, attached, store, claimsPayments, grants, subs, logged, claim, restarts>>
allVars == <<scene, vars, ClaimsVars>>

ScenesInit == scene \in Scenes /\ Claims!Init /\ Init

Claiming == scene = "claims" /\ Claims!Next /\ UNCHANGED <<scene, vars>>
Renewing ==
  /\ scene \in {"renewals", "drips"} /\ Next
  /\ \A s \in LsSubs \ {First} : ls'[s] = NoSub
  /\ IF scene = "renewals" THEN UNCHANGED drip
     ELSE now' < MaxTime /\ \A d, e \in Drips : drip'[d] # None /\ drip'[e] # None => d = e
  /\ UNCHANGED <<scene, ClaimsVars>>
Switching ==
  /\ scene = "switches" /\ Next
  /\ now' <= Period
  /\ \A h \in Hooks : sync'[h] = Idle
  /\ UNCHANGED <<scene, ClaimsVars>>

ScenesNext == Claiming \/ Renewing \/ Switching
ScenesSpec == ScenesInit /\ [][ScenesNext]_allVars
\* The fairness of the component that moves.
ScenesFairSpec ==
  /\ ScenesSpec
  /\ \/ scene = "claims" /\ Claims!Fairness
     \/ scene # "claims" /\ Fairness

OneSub == {s1}
TwoSubs == {s1, s2}
OneDrip == {drip1}
TwoDrips == {drip1, drip2}
OneHook == {hook}
DripSymmetry == Permutations(TwoDrips)

\* Whatever closes the tab, loses the webhook, interrupts LS or restarts the API, a paid
\* order is credited by the sweep or leaves its window (OrderClaims,
\* payment.service.ts:559-600), and a charged renewal is credited while its row is in the
\* window of the hourly job (Subscriptions, payment.cron.ts:120-160).
PaidMeansCredited == Claims!PaidIsCredited /\ RenewalCredited
=============================================================================
