---------------------------- MODULE RatingProofs ----------------------------
(***************************************************************************)
(* What rating_calculate does for every pair of integer ratings.           *)
(***************************************************************************)
EXTENDS Rating, FiniteSetTheorems, TLAPS

\* The thresholds are integers, symmetric about -1/2.
LEMMA ThresholdTable ==
  ASSUME NEW g \in 1..32
  PROVE  /\ Threshold[g] \in Int
         /\ Threshold[33 - g] = -Threshold[g] - 1
<1>1. g \in {1, 2, 3, 4, 5, 6, 7, 8} \/ g \in {9, 10, 11, 12, 13, 14, 15, 16}
      \/ g \in {17, 18, 19, 20, 21, 22, 23, 24} \/ g \in {25, 26, 27, 28, 29, 30, 31, 32}
  OBVIOUS
<1>2. CASE g \in {1, 2, 3, 4, 5, 6, 7, 8}          BY <1>2 DEF Threshold
<1>3. CASE g \in {9, 10, 11, 12, 13, 14, 15, 16}   BY <1>3 DEF Threshold
<1>4. CASE g \in {17, 18, 19, 20, 21, 22, 23, 24}  BY <1>4 DEF Threshold
<1>5. CASE g \in {25, 26, 27, 28, 29, 30, 31, 32}  BY <1>5 DEF Threshold
<1>6. QED  BY <1>1, <1>2, <1>3, <1>4, <1>5

\* There are KFactor steps from a sure win to a sure loss.
LEMMA KSteps == IsFiniteSet(1..32) /\ Cardinality(1..32) = 32
<1>1. 1 \in Int /\ 32 \in Int
  OBVIOUS
<1>2. /\ IsFiniteSet(1..32)
      /\ Cardinality(1..32) = IF 1 > 32 THEN 0 ELSE 32 - 1 + 1
  BY <1>1, FS_Interval, Zenon
<1>3. QED
  BY <1>2

\* A win pays between nothing and K points.
LEMMA WinGainBounds ==
  ASSUME NEW d \in Int
  PROVE  WinGain(d) \in 0..32
<1> DEFINE S == {g \in 1..KFactor : d <= Threshold[g]}
<1>1. IsFiniteSet(1..32) /\ Cardinality(1..32) = 32
  BY KSteps
<1>2. S \in SUBSET (1..32)
  BY DEF KFactor
<1>3. IsFiniteSet(S) /\ Cardinality(S) <= 32
  BY <1>1, <1>2, FS_Subset
<1>4. Cardinality(S) \in Nat
  BY <1>3, FS_CardinalityType
<1>5. QED
  BY <1>3, <1>4 DEF WinGain

(***************************************************************************)
(* round(32 * (1 - E(-d))) + round(32 * (1 - E(d))) = 32: the table is     *)
(* symmetric, so the steps that -d has passed are those d has not, counted *)
(* from the other end.                                                     *)
(***************************************************************************)
LEMMA WinGainSymmetry ==
  ASSUME NEW d \in Int
  PROVE  WinGain(-d) = 32 - WinGain(d)
<1> DEFINE S == {g \in 1..32 : d <= Threshold[g]}
           T == {g \in 1..32 : -d <= Threshold[g]}
           N == (1..32) \ S
<1>1. IsFiniteSet(1..32) /\ Cardinality(1..32) = 32
  BY KSteps
<1>2. S \in SUBSET (1..32) /\ (1..32) \cap S = S
  OBVIOUS
<1>3. IsFiniteSet(N) /\ Cardinality(N) = 32 - Cardinality(S)
  BY <1>1, <1>2, FS_Difference, SMTT(30)
<1>4. \A g \in 1..32 : g \in N <=> 33 - g \in T
  <2>1. SUFFICES ASSUME NEW g \in 1..32
                 PROVE  g \in N <=> 33 - g \in T
    OBVIOUS
  <2>2. 33 - g \in 1..32
    OBVIOUS
  <2>3. Threshold[g] \in Int /\ Threshold[33 - g] = -Threshold[g] - 1
    BY ThresholdTable
  <2>4. g \in N <=> ~(d <= Threshold[g])
    OBVIOUS
  <2>5. 33 - g \in T <=> -d <= -Threshold[g] - 1
    BY <2>2, <2>3
  <2>6. QED
    BY <2>3, <2>4, <2>5
<1>5. ExistsBijection(N, T)
  <2> DEFINE f == [g \in N |-> 33 - g]
  <2>1. f \in [N -> T]
    BY <1>4
  <2>2. \A a, b \in N : f[a] = f[b] => a = b
    OBVIOUS
  <2>3. \A t \in T : \E g \in N : f[g] = t
    <3>1. SUFFICES ASSUME NEW t \in T
                   PROVE  \E g \in N : f[g] = t
      OBVIOUS
    <3>2. 33 - t \in 1..32 /\ 33 - (33 - t) = t
      OBVIOUS
    <3>3. 33 - t \in N
      BY <1>4, <3>2
    <3>4. QED
      BY <3>2, <3>3
  <2>4. f \in Bijection(N, T)
    BY <2>1, <2>2, <2>3, Zenon DEF Bijection, Injection, Surjection, IsInjective
  <2>5. QED
    BY <2>4 DEF ExistsBijection
<1>6. Cardinality(T) = Cardinality(N)
  BY <1>3, <1>5, FS_Bijection
<1>7. WinGain(d) = Cardinality(S) /\ WinGain(-d) = Cardinality(T)
  BY DEF WinGain, KFactor
<1>8. QED
  BY <1>3, <1>6, <1>7

(***************************************************************************)
(* rating_calculate rounds the two changes separately, and still what one  *)
(* player gains the other loses; nobody's rating moves by more than K.     *)
(***************************************************************************)
THEOREM RatingChangeZeroSum ==
  ASSUME NEW red \in Int, NEW black \in Int, NEW result
  PROVE  LET change == RatingChange(red, black, result) IN
         /\ change.red \in -32..32
         /\ change.black = -change.red
<1> DEFINE d == red - black
<1>1. WinGain(d) \in 0..32 /\ WinGain(-d) \in 0..32
  BY WinGainBounds
<1>2. WinGain(-d) = 32 - WinGain(d)
  BY WinGainSymmetry
<1> HIDE DEF d
<1>3. /\ Gain("win", d) = WinGain(d) /\ Gain("loss", d) = WinGain(d) - 32
      /\ Gain("half", d) = WinGain(d) - 16
  BY DEF Gain, KFactor
<1>4. /\ Gain("win", -d) = WinGain(-d) /\ Gain("loss", -d) = WinGain(-d) - 32
      /\ Gain("half", -d) = WinGain(-d) - 16
  BY DEF Gain, KFactor
<1>5. RatingChange(red, black, result) =
        CASE result = "red_win"   -> [red |-> Gain("win", d),  black |-> Gain("loss", -d)]
          [] result = "black_win" -> [red |-> Gain("loss", d), black |-> Gain("win", -d)]
          [] OTHER                -> [red |-> Gain("half", d), black |-> Gain("half", -d)]
  BY DEF RatingChange, d
<1>6. CASE result = "red_win"
  BY <1>1, <1>2, <1>3, <1>4, <1>5, <1>6
<1>7. CASE result = "black_win"
  BY <1>1, <1>2, <1>3, <1>4, <1>5, <1>7
<1>8. CASE result # "red_win" /\ result # "black_win"
  BY <1>1, <1>2, <1>3, <1>4, <1>5, <1>8
<1>9. QED
  BY <1>6, <1>7, <1>8

(***************************************************************************)
(* The winner does not lose points, whatever the ratings.                  *)
(***************************************************************************)
THEOREM WinnerDoesNotPay ==
  ASSUME NEW red \in Int, NEW black \in Int
  PROVE  /\ RatingChange(red, black, "red_win").red >= 0
         /\ RatingChange(red, black, "black_win").red <= 0
<1>1. WinGain(red - black) \in 0..32
  BY WinGainBounds
<1>2. QED
  BY <1>1 DEF RatingChange, Gain, KFactor
=============================================================================
