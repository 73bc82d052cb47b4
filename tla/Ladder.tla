------------------------------- MODULE Ladder -------------------------------
(***************************************************************************)
(* Two players who play rated matches against one another for ever, every  *)
(* match settled by the rating update of handlers_match.c (both ratings    *)
(* are read, rating_calculate is applied to the pair, both are written).   *)
(* The players may swap colours between matches, as a rematch does.        *)
(***************************************************************************)
EXTENDS Rating

CONSTANT InitialRating
ASSUME InitialRatingAssumption == InitialRating \in Int

VARIABLES anna, bert
vars == <<anna, bert>>

Init == anna = InitialRating /\ bert = InitialRating

\* A match with Anna red and Bert black, and one with the colours swapped.
AnnaRed(result) ==
  LET change == RatingChange(anna, bert, result) IN
  /\ anna' = anna + change.red
  /\ bert' = bert + change.black

BertRed(result) ==
  LET change == RatingChange(bert, anna, result) IN
  /\ bert' = bert + change.red
  /\ anna' = anna + change.black

Next == \E result \in Results : AnnaRed(result) \/ BertRed(result)

Spec == Init /\ [][Next]_vars
-----------------------------------------------------------------------------
TypeOK == anna \in Int /\ bert \in Int

(***************************************************************************)
(* rating_calculate rounds the two changes separately; yet no sequence of  *)
(* matches creates or destroys rating points.                              *)
(***************************************************************************)
PointsConserved == anna + bert = 2 * InitialRating

(***************************************************************************)
(* A win pays nothing from 720 points ahead on, so however often the same  *)
(* player wins the ratings stay within 721 points of each other.           *)
(***************************************************************************)
GapSaturates == anna - bert \in -721..721

(***************************************************************************)
(* Equal ratings are the fixed point of draws, and a drawn match never     *)
(* carries the weaker player past the stronger one.                        *)
(***************************************************************************)
DrawsNeverOvertake ==
  [][AnnaRed("draw") \/ BertRed("draw") =>
       (anna - bert) * (anna' - bert') >= 0]_vars
=============================================================================
