---------------------------- MODULE LadderProofs ----------------------------
EXTENDS Ladder, RatingProofs

\* What every step keeps.
LadderInv == TypeOK /\ PointsConserved /\ GapSaturates

\* From 720 points ahead a win pays nothing, from 524 ahead one point.
LEMMA WinGainAtTheTop ==
  ASSUME NEW d \in Int
  PROVE  /\ d > 719 => WinGain(d) = 0
         /\ d > 523 => WinGain(d) <= 1
<1> DEFINE S == {g \in 1..32 : d <= Threshold[g]}
<1>1. \A g \in 1..32 : Threshold[g] <= 719 /\ (g > 1 => Threshold[g] <= 523)
  <2>1. SUFFICES ASSUME NEW g \in 1..32
                 PROVE  Threshold[g] <= 719 /\ (g > 1 => Threshold[g] <= 523)
    OBVIOUS
  <2>2. CASE g \in 1..8    BY <2>2 DEF Threshold
  <2>3. CASE g \in 9..16   BY <2>3 DEF Threshold
  <2>4. CASE g \in 17..24  BY <2>4 DEF Threshold
  <2>5. CASE g \in 25..32  BY <2>5 DEF Threshold
  <2>6. QED  BY <2>2, <2>3, <2>4, <2>5
<1>2. \A g \in 1..32 : Threshold[g] \in Int
  BY ThresholdTable
<1>3. d > 719 => S = {}
  BY <1>1, <1>2
<1>4. d > 523 => S \in SUBSET {1}
  BY <1>1, <1>2
<1>5. IsFiniteSet({1}) /\ Cardinality({1}) = 1 /\ Cardinality({}) = 0
  BY FS_Singleton, FS_EmptySet
<1>6. S \in SUBSET {1} => Cardinality(S) <= 1
  BY <1>5, FS_Subset
<1>7. WinGain(d) = Cardinality(S)
  BY DEF WinGain, KFactor
<1>8. QED
  BY <1>3, <1>4, <1>5, <1>6, <1>7

\* What a match changes red's rating by, red being d points ahead.
Changes(d) == {WinGain(d), WinGain(d) - 16, WinGain(d) - 32}

\* A result changes red's rating by one of three amounts.
LEMMA ChangeOfRed ==
  ASSUME NEW red \in Int, NEW black \in Int, NEW result \in Results
  PROVE  RatingChange(red, black, result).red \in Changes(red - black)
BY DEF RatingChange, Gain, KFactor, Results, Changes

\* One match changes the lead d of red to d + 2c.
LEMMA LeadStaysBounded ==
  ASSUME NEW d \in Int, NEW c \in Int, d \in -721..721, c \in Changes(d)
  PROVE  d + 2 * c \in -721..721
<1> DEFINE g == WinGain(d)
           h == WinGain(-d)
<1>1. d \in Int /\ -d \in Int
  OBVIOUS
<1>2. g \in 0..32 /\ h \in 0..32 /\ h = 32 - g
  BY <1>1, WinGainBounds, WinGainSymmetry
<1>3. (d > 719 => g = 0) /\ (d > 523 => g <= 1)
  BY <1>1, WinGainAtTheTop
<1>4. (-d > 719 => h = 0) /\ (-d > 523 => h <= 1)
  BY <1>1, WinGainAtTheTop
<1>5. c \in {g, g - 16, g - 32}
  BY DEF Changes
<1> HIDE DEF g, h
<1>6. QED
  BY <1>1, <1>2, <1>3, <1>4, <1>5

\* The inductive invariant is what the runs check, and nothing more.
LEMMA LadderInvariance == Spec => []LadderInv
<1>1. Init => LadderInv
  BY InitialRatingAssumption
     DEF Init, LadderInv, TypeOK, PointsConserved, GapSaturates
<1>2. LadderInv /\ [Next]_vars => LadderInv'
  <2> SUFFICES ASSUME LadderInv, [Next]_vars
               PROVE  LadderInv'
    OBVIOUS
  <2>1. anna \in Int /\ bert \in Int /\ anna - bert \in -721..721
    BY DEF LadderInv, TypeOK, GapSaturates
  <2>2. ASSUME NEW result \in Results, AnnaRed(result)
        PROVE  LadderInv'
    <3> DEFINE change == RatingChange(anna, bert, result)
    <3>1. change.red \in -32..32 /\ change.black = -change.red
      BY <2>1, RatingChangeZeroSum
    <3>2. change.red \in Changes(anna - bert)
      BY <2>1, ChangeOfRed
    <3>3. anna' = anna + change.red /\ bert' = bert + change.black
      BY <2>2 DEF AnnaRed
    <3>4. PICK c \in Int : c = change.red /\ -c = change.black
      BY <3>1
    <3>5. PICK d \in Int : d = anna - bert
      BY <2>1
    <3>6. d \in -721..721 /\ c \in Changes(d)
      BY <2>1, <3>2, <3>4, <3>5
    <3>7. d + 2 * c \in -721..721
      BY <3>6, LeadStaysBounded
    <3>8. anna' = anna + c /\ bert' = bert - c
      BY <2>1, <3>3, <3>4
    <3>9. QED
      BY <2>1, <3>5, <3>7, <3>8, InitialRatingAssumption
         DEF LadderInv, TypeOK, PointsConserved, GapSaturates
  <2>3. ASSUME NEW result \in Results, BertRed(result)
        PROVE  LadderInv'
    <3> DEFINE change == RatingChange(bert, anna, result)
    <3>1. change.red \in -32..32 /\ change.black = -change.red
      BY <2>1, RatingChangeZeroSum
    <3>2. change.red \in Changes(bert - anna)
      BY <2>1, ChangeOfRed
    <3>3. bert' = bert + change.red /\ anna' = anna + change.black
      BY <2>3 DEF BertRed
    <3>4. PICK c \in Int : c = change.red /\ -c = change.black
      BY <3>1
    <3>5. PICK d \in Int : d = bert - anna
      BY <2>1
    <3>6. d \in -721..721 /\ c \in Changes(d)
      BY <2>1, <3>2, <3>4, <3>5
    <3>7. d + 2 * c \in -721..721
      BY <3>6, LeadStaysBounded
    <3>8. bert' = bert + c /\ anna' = anna - c
      BY <2>1, <3>3, <3>4
    <3>9. QED
      BY <2>1, <3>5, <3>7, <3>8, InitialRatingAssumption
         DEF LadderInv, TypeOK, PointsConserved, GapSaturates
  <2>4. CASE UNCHANGED vars
    BY <2>4 DEF vars, LadderInv, TypeOK, PointsConserved, GapSaturates
  <2>5. QED
    BY <2>2, <2>3, <2>4 DEF Next
<1>3. QED
  BY <1>1, <1>2, PTL DEF Spec

(***************************************************************************)
(* However many matches two players play, rating points are neither        *)
(* created nor destroyed, although the two changes are rounded separately. *)
(***************************************************************************)
THEOREM PointsTheorem == Spec => []PointsConserved
<1>1. LadderInv => PointsConserved
  BY DEF LadderInv
<1>2. QED
  BY <1>1, LadderInvariance, PTL

(***************************************************************************)
(* However often one player beats the other, the gap stays at most 721.    *)
(***************************************************************************)
THEOREM GapTheorem == Spec => []GapSaturates
<1>1. LadderInv => GapSaturates
  BY DEF LadderInv
<1>2. QED
  BY <1>1, LadderInvariance, PTL

\* Up to 10 points ahead a draw costs nothing, up to 32 ahead at most one.
LEMMA WinGainNearTheTie ==
  ASSUME NEW d \in Int
  PROVE  /\ d <= 10 => WinGain(d) >= 16
         /\ d <= 32 => WinGain(d) >= 15
<1> DEFINE S == {g \in 1..32 : d <= Threshold[g]}
<1>1. /\ \A g \in 1..15 : Threshold[g] \in Int /\ Threshold[g] >= 32
      /\ Threshold[16] = 10
  <2>1. SUFFICES ASSUME NEW g \in 1..15
                 PROVE  Threshold[g] \in Int /\ Threshold[g] >= 32
    BY DEF Threshold
  <2>2. CASE g \in 1..8    BY <2>2 DEF Threshold
  <2>3. CASE g \in 9..15   BY <2>3 DEF Threshold
  <2>4. QED  BY <2>2, <2>3
<1>2. d <= 32 => 1..15 \subseteq S
  BY <1>1
<1>3. d <= 10 => 1..16 \subseteq S
  BY <1>1
<1>4. IsFiniteSet(S)
  <2>1. IsFiniteSet(1..32) /\ S \subseteq 1..32
    BY KSteps
  <2>2. QED
    BY <2>1, FS_Subset
<1>5. Cardinality(1..15) = 15 /\ Cardinality(1..16) = 16
  <2>1. /\ Cardinality(1..15) = IF 1 > 15 THEN 0 ELSE 15 - 1 + 1
        /\ Cardinality(1..16) = IF 1 > 16 THEN 0 ELSE 16 - 1 + 1
    <3>1. 1 \in Int /\ 15 \in Int /\ 16 \in Int
      OBVIOUS
    <3>2. QED
      BY <3>1, FS_Interval, Zenon
  <2>2. QED
    BY <2>1
<1>6. Cardinality(S) \in Nat
  BY <1>4, FS_CardinalityType
<1>7. /\ 1..15 \subseteq S => Cardinality(S) >= 15
      /\ 1..16 \subseteq S => Cardinality(S) >= 16
  <2>1. /\ 1..15 \subseteq S => Cardinality(1..15) <= Cardinality(S)
        /\ 1..16 \subseteq S => Cardinality(1..16) <= Cardinality(S)
    BY <1>4, FS_Subset
  <2> HIDE DEF S
  <2>2. QED
    BY <1>5, <1>6, <2>1
<1>8. WinGain(d) = Cardinality(S)
  BY DEF WinGain, KFactor
<1> HIDE DEF S
<1>9. QED
  BY <1>2, <1>3, <1>7, <1>8

\* A draw takes from the one who leads less than half of his lead.
LEMMA DrawKeepsTheLead ==
  ASSUME NEW d \in Int, NEW c \in Int, c = WinGain(d) - 16
  PROVE  /\ d >= 0 => d + 2 * c >= 0
         /\ d <= 0 => d + 2 * c <= 0
<1> DEFINE g == WinGain(d)
           h == WinGain(-d)
<1>1. d \in Int /\ -d \in Int
  OBVIOUS
<1>2. g \in 0..32 /\ h \in 0..32 /\ h = 32 - g
  BY <1>1, WinGainBounds, WinGainSymmetry
<1>3. (d <= 10 => g >= 16) /\ (d <= 32 => g >= 15)
  BY <1>1, WinGainNearTheTie
<1>4. (-d <= 10 => h >= 16) /\ (-d <= 32 => h >= 15)
  BY <1>1, WinGainNearTheTie
<1>5. c = g - 16
  OBVIOUS
<1> HIDE DEF g, h
<1>6. QED
  BY <1>1, <1>2, <1>3, <1>4, <1>5

\* Leads on the same side have a product that is not negative.
LEMMA SameSide ==
  ASSUME NEW d \in Int, NEW e \in Int,
         d >= 0 => e >= 0, d <= 0 => e <= 0
  PROVE  d * e >= 0
BY SMT

(***************************************************************************)
(* A draw brings the ratings together and never past one another, from     *)
(* every pair of ratings that matches can lead to.                         *)
(***************************************************************************)
THEOREM DrawsTheorem == Spec => DrawsNeverOvertake
<1> DEFINE Kept == AnnaRed("draw") \/ BertRed("draw") =>
                     (anna - bert) * (anna' - bert') >= 0
<1>1. ASSUME LadderInv
      PROVE  Kept
  <2>1. anna \in Int /\ bert \in Int
    BY <1>1 DEF LadderInv, TypeOK
  <2>2. PICK d \in Int : d = anna - bert
    BY <2>1
  <2>3. ASSUME AnnaRed("draw")
        PROVE  anna' - bert' = d + 2 * (WinGain(d) - 16)
    <3> DEFINE change == RatingChange(anna, bert, "draw")
    <3>1. change.red \in -32..32 /\ change.black = -change.red
      BY <2>1, RatingChangeZeroSum
    <3>2. change.red = WinGain(d) - 16
      BY <2>2 DEF RatingChange, Gain, KFactor
    <3>3. anna' = anna + change.red /\ bert' = bert + change.black
      BY <2>3 DEF AnnaRed
    <3> HIDE DEF change
    <3>4. PICK c \in Int : c = change.red
      BY <3>1
    <3>5. anna' = anna + c /\ bert' = bert - c
      BY <2>1, <3>1, <3>3, <3>4
    <3>6. QED
      BY <2>1, <2>2, <3>2, <3>4, <3>5
  <2>4. ASSUME BertRed("draw")
        PROVE  anna' - bert' = d + 2 * (WinGain(d) - 16)
    <3> DEFINE change == RatingChange(bert, anna, "draw")
    <3>1. change.red \in -32..32 /\ change.black = -change.red
      BY <2>1, RatingChangeZeroSum
    <3>2. change.red = WinGain(-d) - 16
      <4>1. bert - anna = -d
        BY <2>1, <2>2
      <4>2. QED
        BY <4>1 DEF RatingChange, Gain, KFactor
    <3>3. WinGain(-d) = 32 - WinGain(d) /\ WinGain(d) \in 0..32
      BY WinGainBounds, WinGainSymmetry
    <3>4. bert' = bert + change.red /\ anna' = anna + change.black
      BY <2>4 DEF BertRed
    <3> HIDE DEF change
    <3>5. PICK c \in Int : c = change.red
      BY <3>1
    <3>6. bert' = bert + c /\ anna' = anna - c
      BY <2>1, <3>1, <3>4, <3>5
    <3>7. QED
      BY <2>1, <2>2, <3>2, <3>3, <3>5, <3>6
  <2>5. WinGain(d) - 16 \in Int
    BY WinGainBounds
  <2>6. PICK e \in Int : e = d + 2 * (WinGain(d) - 16)
    BY <2>5
  <2>7. (d >= 0 => e >= 0) /\ (d <= 0 => e <= 0)
    BY <2>5, <2>6, DrawKeepsTheLead
  <2>8. d * e >= 0
    BY <2>7, SameSide
  <2>9. QED
    BY <2>2, <2>3, <2>4, <2>6, <2>8
<1>2. LadderInv => [Kept]_vars
  BY <1>1
<1>3. QED
  BY <1>2, LadderInvariance, PTL DEF Spec, DrawsNeverOvertake
=============================================================================
