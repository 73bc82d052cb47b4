------------------------------- MODULE Rating -------------------------------
(***************************************************************************)
(* The Elo computation of server/src/rating.c.  The code computes          *)
(* round(K * (score - E(d))) in doubles, E(d) = 1/(1 + 10^(-d/400)) being  *)
(* the score a player expects who is d points ahead, K = 32.  No value     *)
(* K * E(d) with an integer d lies half way between two integers but those *)
(* of E(0), so rounding is a step function of d and the table below is     *)
(* exact for every pair of ratings: 32 * (1 - E(d)) rounds to at least g   *)
(* iff 10^d <= ((65 - 2g) / (2g - 1))^400 iff d <= Threshold[g].           *)
(***************************************************************************)
EXTENDS Integers, FiniteSets

\* DEFAULT_K_FACTOR
KFactor == 32

Threshold == << 719,  523,  428,  364,  314,  273,  237,  205,
                176,  149,  124,  100,   77,   54,   32,   10,
                -11,  -33,  -55,  -78, -101, -125, -150, -177,
               -206, -238, -274, -315, -365, -429, -524, -720 >>

\* round(K * (1 - E(d))): what a win pays a player d points ahead.
WinGain(d) == Cardinality({g \in 1..KFactor : d <= Threshold[g]})

Results == {"red_win", "black_win", "draw"}

\* round(K * (score - E(d))) for the three scores.
Gain(score, d) == CASE score = "win"  -> WinGain(d)
                    [] score = "half" -> WinGain(d) - KFactor \div 2
                    [] score = "loss" -> WinGain(d) - KFactor

\* Mutant: the expected score of black is computed as that of red.
RatingChangeOneView(redRating, blackRating, result) ==
  LET d == redRating - blackRating IN
  CASE result = "red_win"   -> [red |-> Gain("win", d),  black |-> Gain("loss", d)]
    [] result = "black_win" -> [red |-> Gain("loss", d), black |-> Gain("win", d)]
    [] OTHER                -> [red |-> Gain("half", d), black |-> Gain("half", d)]

\* rating_calculate: a result that is no win of either side counts as a draw.
RatingChange(redRating, blackRating, result) ==
  LET d == redRating - blackRating IN
  CASE result = "red_win"   -> [red |-> Gain("win", d),  black |-> Gain("loss", -d)]
    [] result = "black_win" -> [red |-> Gain("loss", d), black |-> Gain("win", -d)]
    [] OTHER                -> [red |-> Gain("half", d), black |-> Gain("half", -d)]
=============================================================================
