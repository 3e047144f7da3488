---------------------------- MODULE MCSpecReview ----------------------------
(* Instances of SpecReview for TLC.                                          *)
EXTENDS SpecReview
MCReviews == 1 .. 2
MCNoReview == 0
=============================================================================
