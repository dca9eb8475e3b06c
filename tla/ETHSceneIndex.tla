---------------------------- MODULE ETHSceneIndex ----------------------------
(***************************************************************************)
(* What the bucket manager promises to the scripts and to the rest of the  *)
(* engine, with no ids, requests or loops.  A call to add, move or delete  *)
(* an entity takes effect on the entity at once, and on no other.  What    *)
(* the buckets show may lag behind: an entity that moved is shown where it *)
(* was, and one deleted then is still shown.  A refresh, atomic to every   *)
(* observer, makes all of them exact.                                      *)
(***************************************************************************)
EXTENDS Integers

CONSTANTS Entity, Position, BucketSize

VARIABLES
  created,    \* the entities that have been added
  live,       \* those that have not been deleted
  position,   \* where each is
  shows       \* the entities each bucket shows

vars == <<created, live, position, shows>>

BucketOf(p) == p \div BucketSize
Bucket == {BucketOf(p) : p \in Position}

Init ==
  /\ created = {}
  /\ live = {}
  /\ position \in [Entity -> Position]
  /\ shows = [b \in Bucket |-> {}]

Add(e, p) ==
  /\ e \notin created
  /\ created' = created \union {e}
  /\ live' = live \union {e}
  /\ position' = [position EXCEPT ![e] = p]
  /\ shows' = [shows EXCEPT ![BucketOf(p)] = @ \union {e}]

(* A deleted entity may still be moved through a handle to it.             *)
Move(e, p) ==
  /\ e \in created
  /\ position' = [position EXCEPT ![e] = p]
  /\ UNCHANGED <<created, live, shows>>

(* It vanishes at once from the bucket it is in, if it is shown there.     *)
Delete(e) ==
  /\ e \in created
  /\ live' = live \ {e}
  /\ shows' = [shows EXCEPT ![BucketOf(position[e])] = @ \ {e}]
  /\ UNCHANGED <<created, position>>

Refresh ==
  /\ shows' = [b \in Bucket |-> {e \in live : BucketOf(position[e]) = b}]
  /\ UNCHANGED <<created, live, position>>

Next ==
  \/ \E e \in Entity :
       \/ \E p \in Position : Add(e, p) \/ Move(e, p)
       \/ Delete(e)
  \/ Refresh

Spec == Init /\ [][Next]_vars

=============================================================================
