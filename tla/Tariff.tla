------------------------------- MODULE Tariff -------------------------------
(* What each plan lets its user do (plan-features.ts), the dubbing tariff   *)
(* (quality-cost.ts) and the quote canDub makes from it.  Durations are in  *)
(* milliseconds, as the backend rounds them, and the arithmetic is exact: a *)
(* product that divides evenly is a double exactly, any other is further    *)
(* from the next credit than a double's error.                              *)
EXTENDS Integers, Sequences

Tiers == <<"FREE", "PRO", "STUDIO">>
Rank(tier) == CHOOSE n \in DOMAIN Tiers : Tiers[n] = tier
\* What is asked for, in the order it is looked at; the tools have a gate each.
Options == <<"studio", "language", "voice", "reference", "background", "lipsync", "subtitles">>
Tools == {"speechEditor", "videoEditor"}
Pro == {"language", "voice", "reference", "background", "subtitles"}
Features(tier) == CASE tier = "FREE" -> {}
                    [] tier = "PRO" -> Pro
                    [] OTHER -> {Options[n] : n \in DOMAIN Options} \cup Tools

-----------------------------------------------------------------------------
CreditsPerMinute == 20

Qualities == {"fast", "balanced", "studio", "unknown"}

(* A quality the table does not have is priced as balanced.                *)
RateFor(q) == CASE q = "fast"   -> CreditsPerMinute \div 2
                [] q = "studio" -> CreditsPerMinute * 2
                [] OTHER        -> CreditsPerMinute

(* Variant: rounded down.                                                  *)
CostForDubFloor(ms, q) ==
    LET credits == (ms * RateFor(q)) \div 60000 IN
    IF ms <= 0 THEN 0 ELSE IF credits > 1 THEN credits ELSE 1

CostForDub(ms, q) ==
    LET credits == (ms * RateFor(q) + 59999) \div 60000 IN
    IF ms <= 0 THEN 0 ELSE IF credits > 1 THEN credits ELSE 1

(* Variant: rounded up.                                                    *)
AffordableSecondsUp(b, q) ==
    IF b <= 0 THEN 0 ELSE (b * 60 + RateFor(q) - 1) \div RateFor(q)

AffordableSeconds(b, q) ==
    IF b <= 0 THEN 0 ELSE (b * 60) \div RateFor(q)

(* canDub: how much of a clip a balance pays for, and at what price.     *)
Billable(b, ms, q) ==
    LET covered == 1000 * AffordableSeconds(b, q)
    IN  IF ms < covered THEN ms ELSE covered

BillableCost(b, ms, q) == CostForDub(Billable(b, ms, q), q)

Allowed(b, ms, q) == Billable(b, ms, q) > 0

Trimmed(b, ms, q) ==
    /\ Allowed(b, ms, q)
    /\ Billable(b, ms, q) < ms
=============================================================================
