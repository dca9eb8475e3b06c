-------------------------- MODULE MCETHBucketManager --------------------------
(* The instance of ETHBucketManager that TLC explores: a line of positions *)
(* over three buckets, one of them below zero.                             *)
EXTENDS ETHBucketManager

CONSTANTS e1, e2

MCEntity == {e1, e2}
MCPosition == {-1, 0, 1, 2}
MCFileId == {0, 2}

===============================================================================
