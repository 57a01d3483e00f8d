-------------------------- MODULE PopulationScaling --------------------------
(***************************************************************************)
(* The arithmetic of GameService::handlePopulationScaling: what reaching a *)
(* population goal does to the goal and to a resource's change per tick.   *)
(* The code multiplies a long long by a double and truncates toward zero;  *)
(* these definitions compute the result in integers.                       *)
(***************************************************************************)
EXTENDS Integers

Abs(n) == IF n < 0 THEN -n ELSE n

WithSign(n, magnitude) == IF n < 0 THEN -magnitude ELSE magnitude

(* nextPopulationGoal * SCALING_FACTOR (1.2) *)
NextGoal(goal) == (6 * goal) \div 5

(* currentDelta * demandIncrease (1.10) *)
Raised(d) == WithSign(d, (11 * Abs(d)) \div 10)

(* currentDelta * (2 - demandIncrease).  The double is 0.8999999999999999,   *)
(* below 9/10, so where 9/10 of d is a whole number x the product may round  *)
(* to just under x and lose one to the truncation: it does when the binary   *)
(* significand of x is above 9/8.                                            *)
MaxExponent == 26
LosesOne(x) == \E k \in 0 .. MaxExponent : 9 * 2^k < 8 * x /\ x < 2^(k + 1)

NineTenths(d) ==
    LET x == (9 * Abs(d)) \div 10
    IN  WithSign(d, IF d % 10 = 0 /\ LosesOne(x) THEN x - 1 ELSE x)

(* Mutation: the two factors swapped for water and energy. *)
ScaledDeltaSwapped(r, d) ==
    CASE r \in {"WATER", "ENERGY"} -> IF d < 0 THEN NineTenths(d) ELSE Raised(d)
      [] r = "CO2"                 -> IF d > 0 THEN Raised(d) ELSE d - NineTenths(d)
      [] r = "MONEY"               -> Raised(d)
      [] OTHER                     -> d

(* applyDeltaRule *)
ScaledDelta(r, d) ==
    CASE r \in {"WATER", "ENERGY"} -> IF d < 0 THEN Raised(d) ELSE NineTenths(d)
      [] r = "CO2"                 -> IF d > 0 THEN Raised(d) ELSE d - NineTenths(d)
      [] r = "MONEY"               -> Raised(d)
      [] OTHER                     -> d
=============================================================================
