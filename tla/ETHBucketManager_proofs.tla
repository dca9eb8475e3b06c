------------------------ MODULE ETHBucketManager_proofs ------------------------
(***************************************************************************)
(* Theorems about ETHBucketManager, for every set of entities, positions   *)
(* and file ids, every bucket size and every bound on the requests.        *)
(***************************************************************************)
EXTENDS ETHBucketManager, TLAPS

LEMMA BucketOfPosition == ASSUME NEW p \in Position PROVE GetBucket(p) \in Bucket
  BY DEF Bucket

LEMMA RequestBucketMoveType ==
  ASSUME TypeOK, NEW e \in Entity, NEW p \in Position, NEW q \in Position,
         RequestBucketMove(e, p, q)
  PROVE  moveRequests' \in Seq(MoveRequest)
<1>1. GetBucket(p) \in Bucket /\ GetBucket(q) \in Bucket
  BY BucketOfPosition
<1>2. [entity |-> e, oldBucket |-> GetBucket(p), newBucket |-> GetBucket(q)]
        \in MoveRequest
  BY <1>1 DEF MoveRequest
<1>3. QED
  BY <1>2 DEF RequestBucketMove, TypeOK

LEMMA AddEntityType ==
  ASSUME TypeOK, NEW e \in Entity, NEW fileId \in Int, NEW p \in Position,
         AddEntity(e, fileId, p)
  PROVE  TypeOK'
<1>1. MaxOf(fileId + 1, idCounter + 1) \in Nat
  BY DEF TypeOK, MaxOf
<1>2. entities' \in [Bucket -> SUBSET Entity]
  BY BucketOfPosition DEF TypeOK, AddEntity
<1>3. position' \in [Entity -> Position]
  BY DEF TypeOK, AddEntity
<1>4. id' \in [Entity -> Int] /\ idCounter' \in Nat
  BY <1>1 DEF TypeOK, AddEntity
<1>5. constructed' \in SUBSET Entity
  BY DEF TypeOK, AddEntity
<1>6. QED
  BY <1>2, <1>3, <1>4, <1>5 DEF TypeOK, AddEntity

LEMMA DeleteByIdType ==
  ASSUME TypeOK, NEW i, DeleteById(i)
  PROVE  /\ entities' \in [Bucket -> SUBSET Entity]
         /\ alive' \in [Entity -> BOOLEAN]
<1>1. ASSUME NEW x \in WithId(i), NEW b \in Bucket, Kill(x), RemoveFrom(x, b)
      PROVE  /\ entities' \in [Bucket -> SUBSET Entity]
             /\ alive' \in [Entity -> BOOLEAN]
  BY <1>1 DEF Kill, RemoveFrom, TypeOK
<1>2. QED
  BY <1>1 DEF DeleteById, TypeOK

LEMMA MoveEntityType ==
  ASSUME TypeOK, NEW i, NEW b1 \in Bucket, NEW b2 \in Bucket,
         MoveEntity(i, b1, b2)
  PROVE  /\ entities' \in [Bucket -> SUBSET Entity]
         /\ alive' \in [Entity -> BOOLEAN]
  BY DEF MoveEntity, TypeOK, WithId

LEMMA TypeInit == Init => TypeOK
<1>1. (CHOOSE p \in Position : TRUE) \in Position
  BY PositionAssumption
<1>2. QED
  BY <1>1 DEF Init, TypeOK, NoId

LEMMA TypeStep == TypeOK /\ [Next]_vars => TypeOK'
<1> SUFFICES ASSUME TypeOK, [Next]_vars PROVE TypeOK'
  OBVIOUS
<1>1. ASSUME NEW e \in Entity, NEW p \in Position, NEW fileId \in FileId,
             LoadEntityFromFile(e, fileId, p)
      PROVE  TypeOK'
  BY <1>1, AddEntityType, FileIdAssumption DEF LoadEntityFromFile
<1>2. ASSUME NEW e \in Entity, NEW p \in Position, AddEntityFromScript(e, p)
      PROVE  TypeOK'
  BY <1>2, AddEntityType DEF AddEntityFromScript, NoId
<1>3. ASSUME NEW e \in Entity, NEW p \in Position, SetPosition(e, p)
      PROVE  TypeOK'
  <2>1. position[e] \in Position
    BY DEF TypeOK
  <2>2. moveRequests' \in Seq(MoveRequest)
    BY <1>3, <2>1, RequestBucketMoveType DEF SetPosition
  <2>3. QED
    BY <1>3, <2>2 DEF SetPosition, TypeOK
<1>4. ASSUME NEW e \in Entity, DeleteEntity(e)
      PROVE  TypeOK'
  BY <1>4 DEF DeleteEntity, TypeOK, Kill, RemoveFrom
<1>5. CASE FinishLoading
  BY <1>5 DEF FinishLoading, TypeOK
<1>6. CASE BeginResolve
  BY <1>6 DEF BeginResolve, TypeOK, sceneVars
<1>7. CASE ResolveNext
  <2>1. moveRequests[resolving] \in MoveRequest
    BY <1>7 DEF ResolveNext, TypeOK
  <2>2. /\ entities' \in [Bucket -> SUBSET Entity]
        /\ alive' \in [Entity -> BOOLEAN]
    <3>1. CASE DeleteById(id[moveRequests[resolving].entity])
      BY <3>1, DeleteByIdType
    <3>2. CASE MoveEntity(id[moveRequests[resolving].entity],
                          moveRequests[resolving].oldBucket,
                          moveRequests[resolving].newBucket)
      BY <2>1, <3>2, MoveEntityType DEF MoveRequest
    <3>3. QED
      BY <1>7, <3>1, <3>2 DEF ResolveNext
  <2>3. resolving' \in Nat /\ UNCHANGED <<moveRequests, position, id, idCounter,
                                          constructed, loading>>
    BY <1>7 DEF ResolveNext, TypeOK
  <2>4. QED
    BY <2>2, <2>3 DEF TypeOK
<1>8. CASE EndResolve
  BY <1>8 DEF EndResolve, TypeOK, sceneVars
<1>9. CASE UNCHANGED vars
  BY <1>9 DEF vars, sceneVars, TypeOK
<1>10. QED
  BY <1>1, <1>2, <1>3, <1>4, <1>5, <1>6, <1>7, <1>8, <1>9
  DEF Next, ResolveMoveRequests

(* Whatever is done to the index and to the entities of a scene, the       *)
(* buckets list entities, the requests lead from bucket to bucket, and     *)
(* every position, id and flag stays in its range.                         *)
THEOREM TypeCorrect == Spec => []TypeOK
BY TypeInit, TypeStep, PTL DEF Spec, Safety

-------------------------------------------------------------------------------

(* The three parts of the path of one entity, and what depends on them     *)
(* only through the entity's own pending requests.                         *)
PathOf(e) == PathStarts(e) /\ PathLinked(e) /\ PathEnds(e)

LEMMA PathFrame ==
  ASSUME NEW e, PathOf(e), PendingOf(e)' = PendingOf(e),
         \A i \in PendingOf(e) : moveRequests'[i] = moveRequests[i],
         GetBucket(position'[e]) = GetBucket(position[e]),
         \A b \in Bucket : e \in entities[b] => e \in entities'[b],
         \A i \in PendingOf(e) : moveRequests[i].oldBucket \in Bucket,
         GetBucket(position[e]) \in Bucket
  PROVE  PathOf(e)'
  BY DEF PathOf, PathStarts, PathLinked, PathEnds

LEMMA RequestInRange ==
  ASSUME TypeOK, NEW i \in 1 .. Len(moveRequests)
  PROVE  moveRequests[i] \in MoveRequest
  BY DEF TypeOK

LEMMA WithIdUnique ==
  ASSUME TypeOK, IdsDistinct, EntitiesExist, NEW e \in constructed
  PROVE  WithId(id[e]) \subseteq {e}
  BY DEF TypeOK, IdsDistinct, EntitiesExist, WithId, IsListed

LEMMA AddEntityIndexInv ==
  ASSUME IndexInv, NEW e \in Entity, NEW fileId \in Int, NEW p \in Position,
         AddEntity(e, fileId, p),
         fileId >= 0 => \A other \in constructed : id[other] # fileId
  PROVE  IndexInv'
<1> DEFINE counter == MaxOf(fileId + 1, idCounter + 1)
<1>1. TypeOK'
  BY AddEntityType DEF IndexInv
<1>2. counter \in Nat /\ counter > fileId /\ counter > idCounter
  BY DEF IndexInv, TypeOK, MaxOf
<1>3. IdsDistinct'
  <2>1. id'[e] = (IF fileId < 0 THEN counter ELSE fileId) /\ idCounter' = counter
    BY DEF AddEntity, IndexInv, TypeOK
  <2>2. \A other \in constructed : id'[other] = id[other] /\ other # e
    BY DEF AddEntity, IndexInv, TypeOK
  <2>3. \A other \in constructed : id[other] # id'[e]
    BY <1>2, <2>1 DEF IndexInv, IdsDistinct, TypeOK
  <2>4. constructed' = constructed \union {e}
    BY DEF AddEntity
  <2>5. \A other \in constructed : id[other] \in Int /\ id[other] <= counter
    BY <1>2 DEF IndexInv, IdsDistinct, TypeOK
  <2>6. QED
    BY <1>2, <2>1, <2>2, <2>3, <2>4, <2>5 DEF IndexInv, IdsDistinct
<1>4. EntitiesExist'
  BY BucketOfPosition DEF IndexInv, EntitiesExist, AddEntity, TypeOK
<1>5. (resolving <= Len(moveRequests) + 1)'
  BY DEF IndexInv, AddEntity
<1>6. \A b \in Bucket : e \notin entities[b]
  BY DEF IndexInv, EntitiesExist, AddEntity
<1>7. /\ \A b \in Bucket : entities[b] \subseteq entities'[b]
      /\ \A b \in Bucket : entities'[b] \subseteq entities[b] \union {e}
      /\ \A b \in Bucket : e \in entities'[b] => b = GetBucket(p)
      /\ e \in entities'[GetBucket(p)]
  BY <1>6, BucketOfPosition DEF AddEntity, IndexInv, TypeOK
<1>8. ListedOnce'
  BY <1>7 DEF IndexInv, ListedOnce
<1>9. /\ \A f \in Entity : PendingOf(f)' = PendingOf(f)
      /\ PendingOf(e) = {}
  BY DEF AddEntity, PendingOf, PendingIndex, IndexInv, EntitiesExist
<1>10. MovePath'
  <2> SUFFICES ASSUME NEW f \in constructed', alive'[f] PROVE PathOf(f)'
    BY DEF MovePath, PathOf
  <2>1. CASE f = e
    BY <1>7, <1>9, <2>1, BucketOfPosition
    DEF PathOf, PathStarts, PathLinked, PathEnds, AddEntity, IndexInv, TypeOK
  <2>2. CASE f # e
    <3>1. f \in constructed /\ PathOf(f) /\ position'[f] = position[f]
      <4>1. f \in constructed /\ alive[f] /\ position'[f] = position[f]
        BY <2>2 DEF AddEntity, IndexInv, TypeOK
      <4>2. QED
        BY <4>1 DEF IndexInv, MovePath, PathOf
    <3>2. position[f] \in Position
      BY <3>1 DEF IndexInv, TypeOK
    <3>3. \A i \in PendingOf(f) : moveRequests[i].oldBucket \in Bucket
      BY RequestInRange DEF IndexInv, PendingOf, PendingIndex, MoveRequest
    <3>4. moveRequests' = moveRequests
      BY DEF AddEntity
    <3>5. QED
      BY <1>7, <1>9, <3>1, <3>2, <3>3, <3>4, PathFrame, BucketOfPosition
      DEF IndexInv, TypeOK
  <2>3. QED
    BY <2>1, <2>2
<1>11. LostHasRequest'
  <2> SUFFICES ASSUME NEW f \in Entity, IsListed(f)', ~alive'[f]
               PROVE  PendingOf(f)' # {}
    BY DEF LostHasRequest
  <2>1. f # e /\ ~alive[f]
    BY DEF AddEntity, IndexInv, TypeOK
  <2>2. QED
    BY <1>7, <1>9, <2>1 DEF IndexInv, LostHasRequest, IsListed
<1>12. LiveAreListed'
  <2> SUFFICES ASSUME NEW f \in constructed', alive'[f] PROVE IsListed(f)'
    BY DEF LiveAreListed
  <2>1. CASE f = e
    BY <1>7, <2>1, BucketOfPosition DEF IsListed
  <2>2. CASE f # e
    BY <1>7, <2>2 DEF AddEntity, IndexInv, TypeOK, LiveAreListed, IsListed
  <2>3. QED
    BY <2>1, <2>2
<1>13. QED
  BY <1>1, <1>3, <1>4, <1>5, <1>8, <1>10, <1>11, <1>12 DEF IndexInv

LEMMA SetPositionIndexInv ==
  ASSUME IndexInv, NEW e \in Entity, NEW p \in Position, SetPosition(e, p)
  PROVE  IndexInv'
<1> DEFINE n == Len(moveRequests)
<1> DEFINE old == GetBucket(position[e])
<1> DEFINE new == GetBucket(p)
<1> DEFINE request == [entity |-> e, oldBucket |-> old, newBucket |-> new]
<1>1. /\ TypeOK /\ resolving = 0 /\ e \in constructed
      /\ UNCHANGED <<entities, resolving, alive, id, idCounter, constructed, loading>>
      /\ position[e] \in Position
      /\ n \in Nat
  BY DEF IndexInv, TypeOK, SetPosition
<1>2. old \in Bucket /\ new \in Bucket
  BY <1>1, BucketOfPosition
<1>3. moveRequests' \in Seq(MoveRequest)
  BY <1>1, RequestBucketMoveType DEF SetPosition
<1>4. TypeOK'
  BY <1>1, <1>3 DEF SetPosition, TypeOK
<1>5. \A f \in Entity : f # e => position'[f] = position[f]
  BY <1>1 DEF SetPosition, TypeOK
<1>6. position'[e] = p
  BY <1>1 DEF SetPosition, TypeOK
<1>7. CASE old = new
  <2>1. moveRequests' = moveRequests
    BY <1>7 DEF SetPosition, RequestBucketMove
  <2>2. \A f \in Entity : PendingOf(f)' = PendingOf(f)
    BY <1>1, <2>1 DEF PendingOf, PendingIndex
  <2>3. MovePath'
    BY <1>1, <1>5, <1>6, <1>7, <2>1, <2>2
    DEF IndexInv, MovePath, PathStarts, PathLinked, PathEnds, TypeOK
  <2>4. LostHasRequest'
    BY <1>1, <2>2 DEF IndexInv, LostHasRequest, IsListed
  <2>5. QED
    BY <1>1, <1>4, <2>1, <2>3, <2>4
    DEF IndexInv, IdsDistinct, EntitiesExist, ListedOnce, LiveAreListed, IsListed
<1>8. CASE old # new
  <2>1. moveRequests' = Append(moveRequests, request)
    BY <1>8 DEF SetPosition, RequestBucketMove
  <2>2. /\ Len(moveRequests') = n + 1
        /\ \A i \in 1 .. n : moveRequests'[i] = moveRequests[i]
        /\ moveRequests'[n + 1] = request
    BY <1>1, <2>1 DEF TypeOK
  <2>3. \A f \in Entity : f # e => PendingOf(f)' = PendingOf(f)
    BY <1>1, <2>2 DEF PendingOf, PendingIndex
  <2>4. PendingOf(e)' = PendingOf(e) \union {n + 1}
    BY <1>1, <2>2 DEF PendingOf, PendingIndex
  <2>5. \A f \in Entity : PendingOf(f) \subseteq 1 .. n
    BY DEF PendingOf, PendingIndex
  <2>6. EntitiesExist'
    BY <1>1, <2>2 DEF IndexInv, EntitiesExist
  <2>7. MovePath'
    <3> SUFFICES ASSUME NEW f \in constructed, alive[f] PROVE PathOf(f)'
      BY <1>1 DEF MovePath, PathOf
    <3>1. PathOf(f) /\ f \in Entity
      BY <1>1 DEF IndexInv, MovePath, PathOf, TypeOK
    <3>2. CASE f # e
      <4>1. \A i \in PendingOf(f) : /\ moveRequests'[i] = moveRequests[i]
                                    /\ moveRequests[i].oldBucket \in Bucket
        BY <1>1, <2>2, <2>5, <3>1, RequestInRange DEF MoveRequest
      <4>2. position[f] \in Position
        BY <1>1, <3>1 DEF TypeOK
      <4>3. QED
        BY <1>1, <1>5, <2>3, <3>1, <3>2, <4>1, <4>2, PathFrame, BucketOfPosition
    <3>3. CASE f = e
      <4>1. /\ PendingOf(e)' = PendingOf(e) \union {n + 1}
            /\ PendingOf(e) \subseteq 1 .. n
            /\ PathOf(e)
        BY <2>4, <2>5, <3>1, <3>3
      <4>2. PathStarts(e)'
        BY <1>1, <2>2, <4>1 DEF PathOf, PathStarts, PathEnds
      <4>3. PathLinked(e)'
        <5> SUFFICES ASSUME NEW i \in PendingOf(e)', NEW j \in PendingOf(e)', i < j,
                            \A k \in PendingOf(e)' : k <= i \/ k >= j
                     PROVE  moveRequests'[i].newBucket = moveRequests'[j].oldBucket
          BY DEF PathLinked
        <5>1. i \in PendingOf(e) /\ i \in 1 .. n
          BY <1>1, <4>1
        <5>2. CASE j = n + 1
          BY <1>1, <2>2, <4>1, <5>1, <5>2 DEF PathOf, PathEnds
        <5>3. CASE j \in PendingOf(e)
          BY <1>1, <2>2, <4>1, <5>1, <5>3 DEF PathOf, PathLinked
        <5>4. QED
          BY <4>1, <5>2, <5>3
      <4>4. PathEnds(e)'
        <5>1. ASSUME NEW i \in PendingOf(e)', \A k \in PendingOf(e)' : k <= i
              PROVE  i = n + 1
          <6>1. n + 1 <= i
            BY <4>1, <5>1
          <6>2. i \in 1 .. n + 1
            BY <1>1, <4>1
          <6>3. QED
            BY <1>1, <6>1, <6>2
        <5>2. moveRequests'[n + 1].newBucket = GetBucket(position'[e])
          BY <1>6, <2>2
        <5>3. QED
          BY <4>1, <5>1, <5>2 DEF PathEnds
      <4>5. QED
        BY <3>3, <4>2, <4>3, <4>4 DEF PathOf
    <3>4. QED
      BY <3>2, <3>3
  <2>8. LostHasRequest'
    BY <1>1, <2>3, <2>4 DEF IndexInv, LostHasRequest, IsListed
  <2>9. QED
    BY <1>1, <1>4, <2>2, <2>6, <2>7, <2>8
    DEF IndexInv, IdsDistinct, ListedOnce, LiveAreListed, IsListed
<1>9. QED
  BY <1>7, <1>8

LEMMA DeleteEntityIndexInv ==
  ASSUME IndexInv, NEW e \in Entity, DeleteEntity(e)
  PROVE  IndexInv'
<1> DEFINE searchBucket == GetBucket(position[e])
<1>1. /\ TypeOK /\ e \in constructed
      /\ UNCHANGED <<moveRequests, resolving, position, id, idCounter, constructed,
                     loading>>
  BY DEF IndexInv, DeleteEntity
<1>2. searchBucket \in Bucket
  BY <1>1, BucketOfPosition DEF TypeOK
<1>3. WithId(id[e]) \subseteq {e}
  BY <1>1, WithIdUnique DEF IndexInv
<1>4. \A f : PendingOf(f)' = PendingOf(f)
  BY <1>1 DEF PendingOf, PendingIndex
<1>5. TypeOK'
  BY <1>1, <1>2 DEF DeleteEntity, TypeOK, Kill, RemoveFrom
(* Only the entity itself is killed or unlisted.                           *)
<1>6. /\ \A f \in Entity : f # e => alive'[f] = alive[f]
      /\ \A b \in Bucket : entities'[b] \subseteq entities[b]
      /\ \A b \in Bucket, f \in Entity :
           f # e /\ f \in entities[b] => f \in entities'[b]
  BY <1>1, <1>2, <1>3 DEF DeleteEntity, TypeOK, Kill, RemoveFrom
<1>7. IsListed(e) => e \in WithId(id[e])
  BY DEF WithId
(* Either it is dead and unlisted, or dead and not where it should be      *)
(* listed, or it was not listed and nothing changes.                       *)
<1>8. \/ /\ ~alive'[e]
         /\ entities' = [entities EXCEPT ![searchBucket] = @ \ {e}]
         /\ e \in entities[searchBucket]
      \/ /\ ~alive'[e] /\ entities' = entities
         /\ e \notin entities[searchBucket]
      \/ /\ ~IsListed(e) /\ UNCHANGED <<alive, entities>>
  <2>1. CASE \E x \in WithId(id[e]) \intersect entities[searchBucket] :
               Kill(x) /\ RemoveFrom(x, searchBucket)
    BY <1>1, <1>3, <2>1 DEF Kill, RemoveFrom, TypeOK
  <2>2. CASE /\ WithId(id[e]) \intersect entities[searchBucket] = {}
             /\ \E x \in WithId(id[e]) : Kill(x)
             /\ UNCHANGED entities
    <3>1. e \in WithId(id[e])
      BY <1>3, <2>2
    <3>2. QED
      BY <1>1, <1>3, <2>2, <3>1 DEF Kill, TypeOK
  <2>3. CASE WithId(id[e]) = {} /\ UNCHANGED <<alive, entities>>
    BY <1>7, <2>3
  <2>4. QED
    BY <2>1, <2>2, <2>3 DEF DeleteEntity
<1>9. ListedOnce' /\ IdsDistinct' /\ EntitiesExist'
  BY <1>1, <1>6 DEF IndexInv, ListedOnce, IdsDistinct, EntitiesExist
<1>10. MovePath'
  <2> SUFFICES ASSUME NEW f \in constructed, alive'[f] PROVE PathOf(f)'
    BY <1>1 DEF MovePath, PathOf
  <2>1. CASE f = e
    <3>1. UNCHANGED <<alive, entities>>
      BY <1>8, <2>1
    <3>2. PathOf(f)
      BY <3>1 DEF IndexInv, MovePath, PathOf
    <3>3. QED
      BY <1>1, <1>4, <3>1, <3>2 DEF PathOf, PathStarts, PathLinked, PathEnds
  <2>2. CASE f # e
    <3>1. f \in Entity /\ PathOf(f)
      BY <1>1, <1>6, <2>2 DEF IndexInv, MovePath, PathOf, TypeOK
    <3>2. \A i \in PendingOf(f) : moveRequests[i].oldBucket \in Bucket
      BY <1>1, RequestInRange DEF PendingOf, PendingIndex, MoveRequest
    <3>3. GetBucket(position[f]) \in Bucket
      BY <1>1, <3>1, BucketOfPosition DEF TypeOK
    <3>4. QED
      BY <1>1, <1>4, <1>6, <2>2, <3>1, <3>2, <3>3, PathFrame
  <2>3. QED
    BY <2>1, <2>2
<1>11. LostHasRequest'
  <2> SUFFICES ASSUME NEW f \in Entity, IsListed(f)', ~alive'[f]
               PROVE  PendingOf(f) # {}
    BY <1>4 DEF LostHasRequest
  <2>1. IsListed(f)
    BY <1>6 DEF IsListed
  <2>2. CASE ~alive[f]
    BY <2>1, <2>2 DEF IndexInv, LostHasRequest
  <2>3. CASE alive[f]
    <3>1. f = e
      BY <1>6, <2>3
    <3>2. e \notin entities[searchBucket]
      <4>1. CASE entities' = [entities EXCEPT ![searchBucket] = @ \ {e}]
                 /\ e \in entities[searchBucket]
        BY <1>1, <1>2, <3>1, <4>1 DEF IsListed, TypeOK, IndexInv, ListedOnce
      <4>2. QED
        BY <1>8, <2>1, <3>1, <4>1
    <3>3. QED
      BY <1>1, <2>3, <3>1, <3>2 DEF IndexInv, MovePath, PathEnds
  <2>4. QED
    BY <2>2, <2>3
<1>12. LiveAreListed'
  <2> SUFFICES ASSUME NEW f \in constructed, alive'[f] PROVE IsListed(f)'
    BY <1>1 DEF LiveAreListed
  <2>1. CASE f = e
    BY <1>8, <2>1 DEF IndexInv, LiveAreListed, IsListed
  <2>2. CASE f # e
    BY <1>1, <1>6, <2>2 DEF IndexInv, LiveAreListed, IsListed, TypeOK
  <2>3. QED
    BY <2>1, <2>2
<1>13. QED
  BY <1>1, <1>5, <1>9, <1>10, <1>11, <1>12 DEF IndexInv

LEMMA BeginResolveIndexInv ==
  ASSUME IndexInv, BeginResolve
  PROVE  IndexInv'
<1>1. /\ TypeOK /\ resolving = 0 /\ resolving' = 1
      /\ UNCHANGED <<entities, moveRequests, position, alive, id, idCounter,
                     constructed, loading>>
  BY DEF IndexInv, BeginResolve, sceneVars
<1>2. \A f : PendingOf(f)' = PendingOf(f)
  BY <1>1 DEF PendingOf, PendingIndex
<1>3. MovePath'
  BY <1>1, <1>2 DEF IndexInv, MovePath, PathStarts, PathLinked, PathEnds
<1>4. LostHasRequest'
  BY <1>1, <1>2 DEF IndexInv, LostHasRequest, IsListed
<1>5. TypeOK' /\ IdsDistinct' /\ EntitiesExist' /\ ListedOnce' /\ LiveAreListed'
  BY <1>1 DEF IndexInv, TypeOK, IdsDistinct, EntitiesExist, ListedOnce,
              LiveAreListed, IsListed
<1>6. (resolving <= Len(moveRequests) + 1)'
  BY <1>1 DEF TypeOK
<1>7. QED
  BY <1>3, <1>4, <1>5, <1>6 DEF IndexInv

LEMMA EndResolveIndexInv ==
  ASSUME IndexInv, EndResolve
  PROVE  IndexInv'
<1>1. /\ TypeOK /\ resolving > Len(moveRequests)
      /\ resolving' = 0 /\ moveRequests' = <<>>
      /\ UNCHANGED <<entities, position, alive, id, idCounter, constructed, loading>>
  BY DEF IndexInv, EndResolve, sceneVars
<1>2. Len(moveRequests) \in Nat /\ Len(moveRequests') = 0
  BY <1>1 DEF TypeOK
<1>3. \A f : PendingOf(f) = {} /\ PendingOf(f)' = {}
  BY <1>1, <1>2 DEF PendingOf, PendingIndex, TypeOK
<1>4. MovePath'
  BY <1>1, <1>3 DEF IndexInv, MovePath, PathStarts, PathLinked, PathEnds
<1>5. LostHasRequest'
  BY <1>1, <1>3 DEF IndexInv, LostHasRequest, IsListed
<1>6. EntitiesExist'
  BY <1>1, <1>2 DEF IndexInv, EntitiesExist
<1>7. TypeOK' /\ IdsDistinct' /\ ListedOnce' /\ LiveAreListed'
  BY <1>1 DEF IndexInv, TypeOK, IdsDistinct, ListedOnce, LiveAreListed, IsListed
<1>8. QED
  BY <1>1, <1>2, <1>4, <1>5, <1>6, <1>7 DEF IndexInv

LEMMA FinishLoadingIndexInv ==
  ASSUME IndexInv, FinishLoading
  PROVE  IndexInv'
<1>1. /\ loading' = FALSE
      /\ UNCHANGED <<entities, moveRequests, resolving, position, alive, id,
                     idCounter, constructed>>
  BY DEF FinishLoading
<1>2. \A f : PendingOf(f)' = PendingOf(f)
  BY <1>1 DEF PendingOf, PendingIndex
<1>3. MovePath'
  BY <1>1, <1>2 DEF IndexInv, MovePath, PathStarts, PathLinked, PathEnds
<1>4. LostHasRequest'
  BY <1>1, <1>2 DEF IndexInv, LostHasRequest, IsListed
<1>5. QED
  BY <1>1, <1>3, <1>4 DEF IndexInv, TypeOK, IdsDistinct, EntitiesExist, ListedOnce,
                          LiveAreListed, IsListed

(* What one request does to the index: the request of a dead entity takes  *)
(* it out, that of a live one takes it from one bucket to the other.       *)
LEMMA ResolveNextEffect ==
  ASSUME IndexInv, ResolveNext, NEW e, e = moveRequests[resolving].entity
  PROVE  /\ alive' = alive
         /\ e \in constructed
         /\ \A b \in Bucket, f \in Entity :
              f # e => (f \in entities'[b] <=> f \in entities[b])
         /\ ~alive[e] => \A b \in Bucket : e \notin entities'[b]
         /\ alive[e] => \A b \in Bucket :
                e \in entities'[b] <=> b = moveRequests[resolving].newBucket
<1> DEFINE r == resolving
<1> DEFINE old == moveRequests[r].oldBucket
<1> DEFINE new == moveRequests[r].newBucket
<1>1. /\ TypeOK /\ r \in 1 .. Len(moveRequests)
      /\ e \in Entity /\ old \in Bucket /\ new \in Bucket /\ e \in constructed
  BY RequestInRange DEF IndexInv, ResolveNext, MoveRequest, EntitiesExist
<1>2. WithId(id[e]) \subseteq {e}
  BY <1>1, WithIdUnique DEF IndexInv
<1>3. IsListed(e) => e \in WithId(id[e])
  BY <1>1 DEF WithId
<1>4. CASE ~alive[e]
  <2>1. DeleteById(id[e])
    BY <1>4 DEF ResolveNext
  <2>2. CASE WithId(id[e]) = {} /\ UNCHANGED <<alive, entities>>
    BY <1>1, <1>3, <1>4, <2>2 DEF IsListed
  <2>3. ASSUME NEW x \in WithId(id[e]), NEW b \in Bucket,
               x \in entities[b], Kill(x), RemoveFrom(x, b)
        PROVE  /\ alive' = alive
               /\ \A c \in Bucket, f \in Entity :
                    f # e => (f \in entities'[c] <=> f \in entities[c])
               /\ \A c \in Bucket : e \notin entities'[c]
    <3>1. x = e
      BY <1>2
    <3>2. alive' = alive
      BY <1>1, <1>4, <2>3, <3>1 DEF Kill, TypeOK
    <3>3. entities' = [entities EXCEPT ![b] = @ \ {e}]
      BY <2>3, <3>1 DEF RemoveFrom
    <3>4. \A c \in Bucket : e \in entities[c] => c = b
      BY <1>1, <2>3, <3>1 DEF IndexInv, ListedOnce
    <3>5. QED
      BY <1>1, <3>2, <3>3, <3>4 DEF TypeOK
  <2>4. QED
    BY <1>1, <1>4, <2>1, <2>2, <2>3 DEF DeleteById
<1>5. CASE alive[e]
  <2>1. MoveEntity(id[e], old, new)
    BY <1>5 DEF ResolveNext
  (* The request is the first of the entity: it starts where it is listed. *)
  <2>2. e \in entities[old]
    <3>1. r \in PendingOf(e) /\ \A k \in PendingOf(e) : k >= r
      BY <1>1 DEF PendingOf, PendingIndex, TypeOK
    <3>2. PathStarts(e)
      BY <1>1, <1>5 DEF IndexInv, MovePath
    <3>3. QED
      BY <3>1, <3>2 DEF PathStarts
  <2>3. WithId(id[e]) \intersect entities[old] = {e}
    BY <1>1, <1>2, <1>3, <2>2 DEF IsListed
  <2>4. \A b \in Bucket : e \in entities[b] => b = old
    BY <1>1, <2>2 DEF IndexInv, ListedOnce
  <2>5. CASE old = new
    <3>1. entities' = entities /\ alive' = alive
      BY <2>1, <2>5 DEF MoveEntity
    <3>2. QED
      BY <1>1, <1>5, <2>2, <2>4, <2>5, <3>1
  <2>6. CASE old # new
    <3>1. /\ entities' = [entities EXCEPT ![old] = @ \ {e}, ![new] = @ \union {e}]
          /\ alive' = alive
      BY <2>1, <2>3, <2>6 DEF MoveEntity
    <3>2. QED
      BY <1>1, <1>5, <2>4, <2>6, <3>1 DEF TypeOK
  <2>7. QED
    BY <2>5, <2>6
<1>6. QED
  BY <1>4, <1>5

LEMMA ResolveNextIndexInv ==
  ASSUME IndexInv, ResolveNext, TypeOK'
  PROVE  IndexInv'
<1> PICK r \in 1 .. Len(moveRequests) : r = resolving
  BY DEF ResolveNext
<1> PICK e \in Entity : e = moveRequests[r].entity
  BY RequestInRange DEF IndexInv, MoveRequest
<1>1. /\ TypeOK /\ r \in 1 .. Len(moveRequests) /\ r = resolving
      /\ resolving' = r + 1
      /\ UNCHANGED <<moveRequests, position, id, idCounter, constructed, loading>>
      /\ e = moveRequests[r].entity
      /\ moveRequests[r].newBucket \in Bucket
  BY RequestInRange DEF IndexInv, ResolveNext, MoveRequest
<1>2. /\ alive' = alive
      /\ e \in constructed
      /\ \A b \in Bucket, f \in Entity :
           f # e => (f \in entities'[b] <=> f \in entities[b])
      /\ ~alive[e] => \A b \in Bucket : e \notin entities'[b]
      /\ alive[e] => \A b \in Bucket :
             e \in entities'[b] <=> b = moveRequests[r].newBucket
  BY <1>1, ResolveNextEffect
<1>3. /\ \A f \in Entity : f # e => PendingOf(f)' = PendingOf(f)
      /\ PendingOf(e)' = PendingOf(e) \ {r}
      /\ r \in PendingOf(e)
      /\ \A k \in PendingOf(e) : k \in 1 .. Len(moveRequests) /\ k >= r
  BY <1>1 DEF PendingOf, PendingIndex, TypeOK
<1>4. IdsDistinct'
  BY <1>1 DEF IndexInv, IdsDistinct
<1>5. EntitiesExist'
  BY <1>1, <1>2 DEF IndexInv, EntitiesExist, TypeOK
<1>6. (resolving <= Len(moveRequests) + 1)'
  BY <1>1 DEF TypeOK
<1>7. ListedOnce'
  BY <1>1, <1>2 DEF IndexInv, ListedOnce, TypeOK
<1>8. MovePath'
  <2> SUFFICES ASSUME NEW f \in constructed, alive[f] PROVE PathOf(f)'
    BY <1>1, <1>2 DEF MovePath, PathOf
  <2>1. f \in Entity /\ PathOf(f)
    BY <1>1 DEF IndexInv, MovePath, PathOf, TypeOK
  <2>2. CASE f # e
    <3>1. \A i \in PendingOf(f) : moveRequests[i].oldBucket \in Bucket
      BY <1>1, RequestInRange DEF PendingOf, PendingIndex, MoveRequest
    <3>2. GetBucket(position[f]) \in Bucket
      BY <1>1, <2>1, BucketOfPosition DEF TypeOK
    <3>3. QED
      BY <1>1, <1>2, <1>3, <2>1, <2>2, <3>1, <3>2, PathFrame
  <2>3. CASE f = e
    <3>1. PathStarts(e)'
      <4> SUFFICES ASSUME NEW i \in PendingOf(e) \ {r},
                          \A k \in PendingOf(e) \ {r} : k >= i
                   PROVE  e \in entities'[moveRequests[i].oldBucket]
        BY <1>1, <1>3 DEF PathStarts
      <4>1. r < i /\ \A k \in PendingOf(e) : k <= r \/ k >= i
        BY <1>1, <1>3
      <4>2. moveRequests[r].newBucket = moveRequests[i].oldBucket
        BY <1>3, <2>1, <2>3, <4>1 DEF PathOf, PathLinked
      <4>3. QED
        BY <1>1, <1>2, <2>3, <4>2
    <3>2. PathLinked(e)'
      <4> SUFFICES ASSUME NEW i \in PendingOf(e) \ {r}, NEW j \in PendingOf(e) \ {r},
                          i < j,
                          \A k \in PendingOf(e) \ {r} : k <= i \/ k >= j
                   PROVE  moveRequests[i].newBucket = moveRequests[j].oldBucket
        BY <1>1, <1>3 DEF PathLinked
      <4>1. \A k \in PendingOf(e) : k <= i \/ k >= j
        BY <1>1, <1>3
      <4>2. QED
        BY <2>1, <2>3, <4>1 DEF PathOf, PathLinked
    <3>3. PathEnds(e)'
      <4>1. ASSUME NEW i \in PendingOf(e) \ {r},
                   \A k \in PendingOf(e) \ {r} : k <= i
            PROVE  moveRequests[i].newBucket = GetBucket(position[e])
        <5>1. \A k \in PendingOf(e) : k <= i
          BY <1>1, <1>3, <4>1
        <5>2. QED
          BY <2>1, <2>3, <5>1 DEF PathOf, PathEnds
      <4>2. ASSUME PendingOf(e) \ {r} = {}
            PROVE  e \in entities'[GetBucket(position[e])]
        <5>1. \A k \in PendingOf(e) : k <= r
          BY <1>1, <1>3, <4>2
        <5>2. moveRequests[r].newBucket = GetBucket(position[e])
          BY <1>3, <2>1, <2>3, <5>1 DEF PathOf, PathEnds
        <5>3. QED
          BY <1>1, <1>2, <2>3, <5>2
      <4>3. QED
        BY <1>1, <1>3, <4>1, <4>2 DEF PathEnds
    <3>4. QED
      BY <2>3, <3>1, <3>2, <3>3 DEF PathOf
  <2>4. QED
    BY <2>2, <2>3
<1>9. LostHasRequest'
  BY <1>1, <1>2, <1>3 DEF IndexInv, LostHasRequest, IsListed
<1>10. LiveAreListed'
  BY <1>1, <1>2 DEF IndexInv, LiveAreListed, IsListed, TypeOK
<1>11. QED
  BY <1>4, <1>5, <1>6, <1>7, <1>8, <1>9, <1>10 DEF IndexInv

(* The index and the entities it lists never disagree by more than the     *)
(* pending requests repair, whatever scripts do between two frames.        *)
LEMMA IndexInvStep == IndexInv /\ [Next]_vars => IndexInv'
<1> SUFFICES ASSUME IndexInv, [Next]_vars PROVE IndexInv'
  OBVIOUS
<1>1. ASSUME NEW e \in Entity, NEW p \in Position, NEW fileId \in FileId,
             LoadEntityFromFile(e, fileId, p)
      PROVE  IndexInv'
  BY <1>1, AddEntityIndexInv, FileIdAssumption DEF LoadEntityFromFile
<1>2. ASSUME NEW e \in Entity, NEW p \in Position, AddEntityFromScript(e, p)
      PROVE  IndexInv'
  BY <1>2, AddEntityIndexInv DEF AddEntityFromScript, NoId
<1>3. ASSUME NEW e \in Entity, NEW p \in Position, SetPosition(e, p)
      PROVE  IndexInv'
  BY <1>3, SetPositionIndexInv
<1>4. ASSUME NEW e \in Entity, DeleteEntity(e)
      PROVE  IndexInv'
  BY <1>4, DeleteEntityIndexInv
<1>5. CASE FinishLoading
  BY <1>5, FinishLoadingIndexInv
<1>6. CASE BeginResolve
  BY <1>6, BeginResolveIndexInv
<1>7. CASE ResolveNext
  BY <1>7, ResolveNextIndexInv, TypeStep DEF IndexInv, Next, ResolveMoveRequests
<1>8. CASE EndResolve
  BY <1>8, EndResolveIndexInv
<1>9. CASE UNCHANGED vars
  <2>1. UNCHANGED <<entities, moveRequests, resolving, position, alive, id, idCounter,
                    constructed, loading>>
    BY <1>9 DEF vars, sceneVars
  <2>2. TypeOK' /\ IdsDistinct' /\ EntitiesExist' /\ ListedOnce'
    BY <2>1 DEF IndexInv, TypeOK, IdsDistinct, EntitiesExist, ListedOnce
  <2>3. PendingIndex' = PendingIndex /\ \A e : PendingOf(e)' = PendingOf(e)
    BY <2>1 DEF PendingOf, PendingIndex
  <2>4. MovePath' /\ LostHasRequest' /\ LiveAreListed'
    BY <2>1, <2>3 DEF IndexInv, MovePath, PathStarts, PathLinked, PathEnds,
       LostHasRequest, LiveAreListed, IsListed
  <2>5. QED
    BY <2>1, <2>2, <2>4 DEF IndexInv
<1>10. QED
  BY <1>1, <1>2, <1>3, <1>4, <1>5, <1>6, <1>7, <1>8, <1>9
  DEF Next, ResolveMoveRequests

LEMMA InitIndexInv == Init => IndexInv
<1> SUFFICES ASSUME Init PROVE IndexInv
  OBVIOUS
<1>1. TypeOK
  BY TypeInit
<1>2. QED
  BY <1>1 DEF Init, IndexInv, IdsDistinct, EntitiesExist, ListedOnce, MovePath,
              LostHasRequest, LiveAreListed, IsListed

LEMMA SafetyIndexInv == Safety => []IndexInv
BY InitIndexInv, IndexInvStep, PTL DEF Safety

(* The inductive invariant holds in every state of every behaviour.        *)
THEOREM IndexInvariant == Spec => []IndexInv
BY SafetyIndexInv, PTL DEF Spec

(* A search, a move or a deletion by id reaches one entity at most.        *)
THEOREM IdsUnique == Spec => []UniqueIds
<1>1. IndexInv => UniqueIds
  BY DEF IndexInv, IdsDistinct, EntitiesExist, UniqueIds, IsListed
<1>2. QED
  BY <1>1, IndexInvariant, PTL

(* The requests of a live entity lead from its bucket to its position.     *)
THEOREM RequestsLead == Spec => []MovePath
<1>1. IndexInv => MovePath
  BY DEF IndexInv
<1>2. QED
  BY <1>1, IndexInvariant, PTL

(* A killed entity that is still listed has a request that removes it.     *)
THEOREM LostAreDiscarded == Spec => []LostHasRequest
<1>1. IndexInv => LostHasRequest
  BY DEF IndexInv
<1>2. QED
  BY <1>1, IndexInvariant, PTL

(* A live entity is listed, even when its bucket is out of date.           *)
THEOREM LiveEntitiesFound == Spec => []LiveAreListed
<1>1. IndexInv => LiveAreListed
  BY DEF IndexInv
<1>2. QED
  BY <1>1, IndexInvariant, PTL

(* No step of the resolving loop kills an entity: the deletion by id that  *)
(* a dead entity's request runs cannot hit a live one.                     *)
THEOREM ResolvingIsHarmless == Spec => ResolveKillsNoOne
<1>1. IndexInv /\ [Next]_vars => [resolving # 0 => alive' = alive]_vars
  <2> SUFFICES ASSUME IndexInv, Next, resolving # 0 PROVE alive' = alive
    BY DEF vars, sceneVars
  <2>1. ASSUME NEW e \in Entity, NEW p \in Position PROVE
          /\ \A fileId \in FileId : ~LoadEntityFromFile(e, fileId, p)
          /\ ~AddEntityFromScript(e, p)
          /\ ~SetPosition(e, p)
          /\ ~DeleteEntity(e)
    BY DEF LoadEntityFromFile, AddEntityFromScript, AddEntity, SetPosition,
           DeleteEntity
  <2>2. CASE FinishLoading
    BY <2>2 DEF FinishLoading
  <2>3. CASE ResolveNext
    BY <2>3, ResolveNextEffect
  <2>4. CASE BeginResolve \/ EndResolve
    BY <2>4 DEF BeginResolve, EndResolve, sceneVars
  <2>5. Position # {}
    BY PositionAssumption
  <2>6. QED
    BY <2>1, <2>2, <2>3, <2>4, <2>5 DEF Next, ResolveMoveRequests
<1>2. QED
  BY <1>1, IndexInvariant, PTL DEF Spec, Safety, ResolveKillsNoOne

-------------------------------------------------------------------------------

(* What a call of DeleteEntity does to the flags: it kills its entity and  *)
(* no other, however far behind the index is.                              *)
LEMMA DeleteEntityKills ==
  ASSUME IndexInv, NEW e \in Entity, DeleteEntity(e)
  PROVE  /\ \A f \in Entity : f # e => alive'[f] = alive[f]
         /\ ~alive'[e]
<1>1. e \in constructed /\ TypeOK
  BY DEF DeleteEntity, IndexInv
<1>2. WithId(id[e]) \subseteq {e}
  BY <1>1, WithIdUnique DEF IndexInv
<1>3. CASE \E x \in WithId(id[e]) : Kill(x)
  BY <1>1, <1>2, <1>3 DEF Kill, TypeOK
<1>4. CASE WithId(id[e]) = {} /\ UNCHANGED alive
  <2>1. ~IsListed(e)
    BY <1>4 DEF WithId
  <2>2. ~alive[e]
    BY <1>1, <2>1 DEF IndexInv, LiveAreListed
  <2>3. QED
    BY <1>4, <2>2
<1>5. QED
  BY <1>3, <1>4 DEF DeleteEntity

(* Deleting through a stale index kills the entity named and no other.     *)
THEOREM DeletionIsExact == Spec => DeleteKillsIt
<1>1. IndexInv /\ [Next]_vars =>
        [\A e \in Entity : DeleteEntity(e) => alive' = [alive EXCEPT ![e] = FALSE]]_vars
  <2> SUFFICES ASSUME IndexInv, [Next]_vars, NEW e \in Entity, DeleteEntity(e)
               PROVE  alive' = [alive EXCEPT ![e] = FALSE]
    BY DEF vars, sceneVars
  <2>1. TypeOK /\ TypeOK'
    BY TypeStep DEF IndexInv
  <2>2. /\ \A f \in Entity : f # e => alive'[f] = alive[f]
        /\ ~alive'[e]
    BY DeleteEntityKills
  <2>3. QED
    BY <2>1, <2>2 DEF TypeOK
<1>2. QED
  BY <1>1, IndexInvariant, PTL DEF Spec, Safety, DeleteKillsIt

(* When the last request is behind, every bucket lists what it should.     *)
LEMMA ExactWhenNonePending ==
  ASSUME IndexInv, \A e \in Entity : PendingOf(e) = {}
  PROVE  entities = Exact
<1>1. \A e \in constructed : alive[e] => e \in entities[GetBucket(position[e])]
  BY DEF IndexInv, MovePath, PathEnds, TypeOK
<1>2. \A b \in Bucket : \A e \in entities[b] : e \in constructed /\ alive[e]
  BY DEF IndexInv, EntitiesExist, LostHasRequest, IsListed, TypeOK
<1>3. \A e \in constructed : GetBucket(position[e]) \in Bucket
  BY BucketOfPosition DEF IndexInv, TypeOK
<1>4. \A b \in Bucket : entities[b] = {e \in Live : GetBucket(position[e]) = b}
  BY <1>1, <1>2, <1>3 DEF IndexInv, ListedOnce, TypeOK, Live
<1>5. QED
  BY <1>4 DEF Exact, IndexInv, TypeOK

(* With nothing pending a bucket lists exactly the live entities in it.    *)
THEOREM IndexExactAtRest == Spec => []ExactAtRest
<1>1. IndexInv => ExactAtRest
  <2> SUFFICES ASSUME IndexInv, moveRequests = <<>> PROVE ExactAtRest
    BY DEF ExactAtRest
  <2>1. \A e \in Entity : PendingOf(e) = {}
    BY DEF PendingOf, PendingIndex
  <2>2. QED
    BY <2>1, ExactWhenNonePending DEF ExactAtRest, Exact, Live
<1>2. QED
  BY <1>1, IndexInvariant, PTL

LEMMA SafetyImplementsIndex == Safety => ImplementsIndex
<1> DEFINE Shows == IF resolving = 0 THEN entities ELSE Exact
<1>1. /\ Index!Bucket = Bucket
      /\ \A p : Index!BucketOf(p) = GetBucket(p)
  BY DEF Index!Bucket, Index!BucketOf, Bucket, GetBucket
<1>2. Init => Index!Init
  <2>1. (CHOOSE p \in Position : TRUE) \in Position
    BY PositionAssumption
  <2>2. QED
    BY <1>1, <2>1 DEF Init, Index!Init, Live
<1>3. IndexInv /\ [Next]_vars => [Index!Next]_(Index!vars)
  <2> SUFFICES ASSUME IndexInv, [Next]_vars
               PROVE  Index!Next \/ UNCHANGED <<constructed, Live, position, Shows>>
    BY DEF Index!vars
  <2>1. ASSUME NEW e \in Entity, NEW p \in Position, NEW i, AddEntity(e, i, p)
        PROVE  Index!Next
    <3>1. Live' = Live \union {e}
      BY <2>1 DEF AddEntity, IndexInv, TypeOK, Live
    <3>2. Index!Add(e, p)
      BY <1>1, <2>1, <3>1 DEF AddEntity, Index!Add
    <3>3. QED
      BY <3>2 DEF Index!Next
  <2>2. ASSUME NEW e \in Entity, NEW p \in Position, SetPosition(e, p)
        PROVE  Index!Next
    <3>1. Index!Move(e, p)
      BY <2>2 DEF SetPosition, Index!Move, Live
    <3>2. QED
      BY <3>1 DEF Index!Next
  <2>3. ASSUME NEW e \in Entity, DeleteEntity(e)
        PROVE  Index!Next
    <3>1. /\ e \in constructed /\ constructed \subseteq Entity
          /\ UNCHANGED <<constructed, position, resolving>>
          /\ resolving = 0
          /\ TypeOK /\ GetBucket(position[e]) \in Bucket
      BY <2>3, BucketOfPosition DEF DeleteEntity, IndexInv, TypeOK
    <3>2. Live' = Live \ {e}
      BY <2>3, <3>1, DeleteEntityKills DEF Live
    <3>3. entities' = [entities EXCEPT ![GetBucket(position[e])] = @ \ {e}]
      <4>1. WithId(id[e]) \subseteq {e}
        BY <3>1, WithIdUnique DEF IndexInv
      <4>2. e \in entities[GetBucket(position[e])] => e \in WithId(id[e])
        BY <3>1 DEF WithId, IsListed
      <4>3. CASE e \in entities[GetBucket(position[e])]
        BY <2>3, <3>1, <4>1, <4>2, <4>3 DEF DeleteEntity, RemoveFrom
      <4>4. CASE e \notin entities[GetBucket(position[e])]
        <5>1. entities' = entities
          BY <2>3, <4>1, <4>4 DEF DeleteEntity
        <5>2. QED
          BY <3>1, <4>4, <5>1 DEF TypeOK
      <4>5. QED
        BY <4>3, <4>4
    <3>4. Index!Delete(e)
      BY <1>1, <3>1, <3>2, <3>3 DEF Index!Delete
    <3>5. QED
      BY <3>4 DEF Index!Next
  <2>4. CASE FinishLoading
    <3>1. UNCHANGED <<constructed, alive, position, entities, resolving>>
      BY <2>4 DEF FinishLoading
    <3>2. QED
      BY <3>1 DEF Live, Exact
  <2>5. CASE BeginResolve
    <3>1. /\ resolving' = 1 /\ resolving = 0
          /\ UNCHANGED <<constructed, alive, position>>
      BY <2>5 DEF BeginResolve, sceneVars
    <3>2. Index!Refresh
      BY <1>1, <3>1 DEF Index!Refresh, Live, Exact
    <3>3. QED
      BY <3>2 DEF Index!Next
  <2>6. CASE ResolveNext
    <3>1. alive' = alive /\ UNCHANGED <<constructed, position>>
      BY <2>6, ResolveNextEffect DEF ResolveNext
    <3>2. resolving # 0 /\ resolving' # 0
      BY <2>6 DEF ResolveNext
    <3>3. QED
      BY <3>1, <3>2 DEF Live, Exact
  <2>7. CASE EndResolve
    <3>1. /\ resolving > Len(moveRequests) /\ resolving' = 0
          /\ UNCHANGED <<constructed, alive, position, entities>>
      BY <2>7 DEF EndResolve, sceneVars
    <3>2. resolving # 0
      BY <3>1 DEF IndexInv, TypeOK
    <3>3. \A e \in Entity : PendingOf(e) = {}
      BY <3>1 DEF PendingOf, PendingIndex, IndexInv, TypeOK
    <3>4. entities = Exact
      BY <3>3, ExactWhenNonePending
    <3>5. QED
      BY <3>1, <3>2, <3>4 DEF Live
  <2>8. CASE UNCHANGED vars
    BY <2>8 DEF vars, sceneVars, Live, Exact
  <2>9. QED
    BY <2>1, <2>2, <2>3, <2>4, <2>5, <2>6, <2>7, <2>8
    DEF Next, ResolveMoveRequests, LoadEntityFromFile, AddEntityFromScript
<1>4. QED
  BY <1>2, <1>3, SafetyIndexInv, PTL DEF Safety, ImplementsIndex, Index!Spec

(* The buckets, ids, requests and the resolving loop implement an index    *)
(* that lags behind the entities and is refreshed in one step.             *)
THEOREM ImplementsSceneIndex == Spec => ImplementsIndex
BY SafetyImplementsIndex, PTL DEF Spec

===============================================================================
