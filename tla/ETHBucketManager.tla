--------------------------- MODULE ETHBucketManager ---------------------------
(***************************************************************************)
(* The spatial index of a scene (engine/Scene/ETHBucketManager.cpp).       *)
(*                                                                         *)
(* A scene keeps its entities in "buckets", the cells of a grid.  Moving   *)
(* an entity changes its position at once but not the bucket that lists    *)
(* it: a script callback may be running while that list is iterated, so    *)
(* the change of bucket is only requested, and the requests are resolved   *)
(* together at the end of the frame.  Between the two, what the buckets    *)
(* say and where the entities are disagree; every other part of the engine *)
(* that searches, deletes, draws or updates by bucket lives with that.     *)
(*                                                                         *)
(* Abstractions.  The grid is one-dimensional and positions are integers   *)
(* (each axis has a floor of its own).  The order inside a bucket's list   *)
(* only breaks ties of the drawing order, so a list is a set.              *)
(***************************************************************************)
EXTENDS Integers, Sequences

CONSTANTS
  Entity,       \* the entity objects a run may create
  Position,     \* the coordinates an entity may have
  BucketSize,   \* side of a bucket (ETHScene::GetBucketSize)
  FileId,       \* the ids a scene file gives to the entities it stores
  MaxRequests   \* bound: move requests pending at a time

ASSUME PositionAssumption == Position \subseteq Int /\ Position # {}
ASSUME BucketSizeAssumption == BucketSize \in Int /\ BucketSize > 0
ASSUME FileIdAssumption == FileId \subseteq Nat
ASSUME MaxRequestsAssumption == MaxRequests \in Nat

VARIABLES
  entities,      \* ETHBucketManager::m_entities: the entities each bucket lists
  moveRequests,  \* ETHBucketManager::m_moveRequests
  resolving,     \* the request ResolveMoveRequests is at, 0 outside it
  position,      \* ETHEntityController::m_pos
  alive,         \* ETHScriptEntity::m_isAlive
  id,            \* ETHEntity::m_id
  idCounter,     \* ETHScene::m_idCounter
  constructed,   \* the entities this scene was given (handles outlive them)
  loading        \* the scene file is still being read

sceneVars == <<position, alive, id, idCounter, constructed, loading>>
vars == <<entities, moveRequests, resolving, sceneVars>>

-------------------------------------------------------------------------------

(* The bucket of a position.  \div rounds towards minus infinity, as the   *)
(* floor of the code does.                                                 *)
GetBucket(p) == p \div BucketSize

Bucket == {GetBucket(p) : p \in Position}

MoveRequest == [entity : Entity, oldBucket : Bucket, newBucket : Bucket]

NoId == -1  \* an entity that is not from a file, before AddEntity

(* The entities the index lists, and those of them that carry an id.       *)
IsListed(e) == \E b \in Bucket : e \in entities[b]
WithId(i)   == {e \in Entity : IsListed(e) /\ id[e] = i}

Init ==
  /\ entities = [b \in Bucket |-> {}]
  /\ moveRequests = <<>>
  /\ resolving = 0
  /\ position = [e \in Entity |-> CHOOSE p \in Position : TRUE]
  /\ alive = [e \in Entity |-> TRUE]
  /\ id = [e \in Entity |-> NoId]
  /\ idCounter = 0
  /\ constructed = {}
  /\ loading = TRUE

-------------------------------------------------------------------------------

MaxOf(a, b) == IF a > b THEN a ELSE b

(* Faulty variant: the counter ignores the ids that come from the file.    *)
AddEntity_CounterIgnoresFile(e, fileId, p) ==
  /\ resolving = 0
  /\ e \notin constructed
  /\ constructed' = constructed \union {e}
  /\ position' = [position EXCEPT ![e] = p]
  /\ idCounter' = idCounter + 1
  /\ id' = [id EXCEPT ![e] = IF fileId < 0 THEN idCounter + 1 ELSE fileId]
  /\ entities' = [entities EXCEPT ![GetBucket(p)] = @ \union {e}]
  /\ alive' = [alive EXCEPT ![e] = TRUE]
  /\ UNCHANGED <<moveRequests, resolving, loading>>

(* ETHScene::AddEntity: the counter passes every id seen, an entity that   *)
(* has none gets the counter, and the bucket of its position lists it.     *)
AddEntity(e, fileId, p) ==
  LET counter == MaxOf(fileId + 1, idCounter + 1) IN
  /\ resolving = 0
  /\ e \notin constructed
  /\ constructed' = constructed \union {e}
  /\ position' = [position EXCEPT ![e] = p]
  /\ idCounter' = counter
  /\ id' = [id EXCEPT ![e] = IF fileId < 0 THEN counter ELSE fileId]
  /\ entities' = [entities EXCEPT ![GetBucket(p)] = @ \union {e}]
  /\ alive' = [alive EXCEPT ![e] = TRUE]
  /\ UNCHANGED <<moveRequests, resolving, loading>>

(* The scene file lists entities with the distinct ids they were saved     *)
(* with; nothing runs a script until it has been read.                     *)
LoadEntityFromFile(e, fileId, p) ==
  /\ loading
  /\ \A other \in constructed : id[other] # fileId
  /\ AddEntity(e, fileId, p)

FinishLoading ==
  /\ loading
  /\ loading' = FALSE
  /\ UNCHANGED <<entities, moveRequests, resolving, position, alive, id,
                 idCounter, constructed>>

(* A script adds an entity: it has no id yet.                              *)
AddEntityFromScript(e, p) ==
  /\ ~loading
  /\ AddEntity(e, NoId, p)

(* Faulty variants: the position is queued instead of its bucket; an       *)
(* entity that has a request already does not get another.                 *)
RequestBucketMove_RawPosition(e, oldPos, newPos) ==
  moveRequests' =
    IF GetBucket(oldPos) # GetBucket(newPos)
    THEN Append(moveRequests, [entity    |-> e,
                               oldBucket |-> GetBucket(oldPos),
                               newBucket |-> newPos])
    ELSE moveRequests
RequestBucketMove_OncePerEntity(e, oldPos, newPos) ==
  moveRequests' =
    IF /\ GetBucket(oldPos) # GetBucket(newPos)
       /\ \A i \in 1 .. Len(moveRequests) : moveRequests[i].entity # e
    THEN Append(moveRequests, [entity    |-> e,
                               oldBucket |-> GetBucket(oldPos),
                               newBucket |-> GetBucket(newPos)])
    ELSE moveRequests

(* The request is built (and holds the entity) even when it is dropped.    *)
RequestBucketMove(e, oldPos, newPos) ==
  moveRequests' =
    IF GetBucket(oldPos) # GetBucket(newPos)
    THEN Append(moveRequests, [entity    |-> e,
                               oldBucket |-> GetBucket(oldPos),
                               newBucket |-> GetBucket(newPos)])
    ELSE moveRequests

(* ETHEntity::SetPosition and AddToPosition*, and the update of a physics  *)
(* entity from its body.  A handle outlives the entity: a dead one, listed *)
(* or not, is moved like any other.                                        *)
SetPosition(e, p) ==
  /\ resolving = 0
  /\ ~loading
  /\ e \in constructed
  /\ Len(moveRequests) < MaxRequests
  /\ position' = [position EXCEPT ![e] = p]
  /\ RequestBucketMove(e, position[e], p)
  /\ UNCHANGED <<entities, resolving, alive, id, idCounter, constructed, loading>>

-------------------------------------------------------------------------------

Kill(e) == alive' = [alive EXCEPT ![e] = FALSE]

RemoveFrom(e, b) == entities' = [entities EXCEPT ![b] = @ \ {e}]

(* Faulty variant: the entity is killed and left to its move request even  *)
(* when the bucket lists it.                                               *)
DeleteEntity_KillOnly(e) ==
  /\ resolving = 0
  /\ ~loading
  /\ e \in constructed
  /\ \/ \E x \in WithId(id[e]) : Kill(x)
     \/ WithId(id[e]) = {} /\ UNCHANGED alive
  /\ UNCHANGED <<entities, moveRequests, resolving, position, id, idCounter,
                 constructed, loading>>

(* ETHBucketManager::DeleteEntity(id, searchBucket), called by             *)
(* ETHScene::DeleteEntity with the bucket of the entity's position.  When  *)
(* that bucket does not list the id but another does, the entity is killed *)
(* and stays listed: its move request is expected to remove it.            *)
DeleteEntity(e) ==
  LET searchBucket == GetBucket(position[e]) IN
  /\ resolving = 0
  /\ ~loading
  /\ e \in constructed
  /\ \/ \E x \in WithId(id[e]) \intersect entities[searchBucket] :
          Kill(x) /\ RemoveFrom(x, searchBucket)
     \/ /\ WithId(id[e]) \intersect entities[searchBucket] = {}
        /\ \E x \in WithId(id[e]) : Kill(x)
        /\ UNCHANGED entities
     \/ /\ WithId(id[e]) = {}
        /\ UNCHANGED <<alive, entities>>
  /\ UNCHANGED <<moveRequests, resolving, position, id, idCounter, constructed,
                 loading>>

(* ETHBucketManager::DeleteEntity(id): every bucket is searched.           *)
DeleteById(i) ==
  \/ \E x \in WithId(i), b \in Bucket :
       /\ x \in entities[b]
       /\ Kill(x)
       /\ RemoveFrom(x, b)
  \/ /\ WithId(i) = {}
     /\ UNCHANGED <<alive, entities>>

(* Faulty variants: the entity is not erased from the bucket it leaves; it *)
(* is not pushed to the bucket it enters.                                  *)
MoveEntity_KeepsOld(i, currentBucket, destBucket) ==
  /\ \/ \E x \in WithId(i) \intersect entities[currentBucket] :
          entities' = [entities EXCEPT ![destBucket] = @ \union {x}]
     \/ /\ WithId(i) \intersect entities[currentBucket] = {}
        /\ UNCHANGED entities
  /\ UNCHANGED alive
MoveEntity_DropsEntity(i, currentBucket, destBucket) ==
  /\ \/ \E x \in WithId(i) \intersect entities[currentBucket] :
          RemoveFrom(x, currentBucket)
     \/ /\ WithId(i) \intersect entities[currentBucket] = {}
        /\ UNCHANGED entities
  /\ UNCHANGED alive

(* ETHBucketManager::MoveEntity: nothing moves when the bucket the request *)
(* names does not list the id.                                             *)
MoveEntity(i, currentBucket, destBucket) ==
  /\ \/ /\ currentBucket # destBucket
        /\ \E x \in WithId(i) \intersect entities[currentBucket] :
             entities' = [entities EXCEPT ![currentBucket] = @ \ {x},
                                          ![destBucket] = @ \union {x}]
     \/ /\ \/ currentBucket = destBucket
           \/ WithId(i) \intersect entities[currentBucket] = {}
        /\ UNCHANGED entities
  /\ UNCHANGED alive

-------------------------------------------------------------------------------

(* ETHBucketManager::ResolveMoveRequests, called when the frame has been   *)
(* drawn and by ETHScene::ScaleEntities: the loop, one request per step.   *)
(* Nothing else runs until the list has been cleared.                      *)
BeginResolve ==
  /\ resolving = 0
  /\ ~loading
  /\ moveRequests # <<>>
  /\ resolving' = 1
  /\ UNCHANGED <<entities, moveRequests, sceneVars>>

(* Faulty variant: the request of a dead entity is skipped.                *)
ResolveNext_SkipsDead ==
  /\ resolving \in 1 .. Len(moveRequests)
  /\ LET request == moveRequests[resolving] IN
       IF ~alive[request.entity]
       THEN UNCHANGED <<alive, entities>>
       ELSE MoveEntity(id[request.entity], request.oldBucket, request.newBucket)
  /\ resolving' = resolving + 1
  /\ UNCHANGED <<moveRequests, position, id, idCounter, constructed, loading>>

ResolveNext ==
  /\ resolving \in 1 .. Len(moveRequests)
  /\ LET request == moveRequests[resolving] IN
       IF ~alive[request.entity]
       THEN DeleteById(id[request.entity])
       ELSE MoveEntity(id[request.entity], request.oldBucket, request.newBucket)
  /\ resolving' = resolving + 1
  /\ UNCHANGED <<moveRequests, position, id, idCounter, constructed, loading>>

EndResolve ==
  /\ resolving > Len(moveRequests)
  /\ resolving' = 0
  /\ moveRequests' = <<>>
  /\ UNCHANGED <<entities, sceneVars>>

ResolveMoveRequests == BeginResolve \/ ResolveNext \/ EndResolve

-------------------------------------------------------------------------------

Next ==
  \/ \E e \in Entity, p \in Position :
       \/ \E fileId \in FileId : LoadEntityFromFile(e, fileId, p)
       \/ AddEntityFromScript(e, p)
       \/ SetPosition(e, p)
  \/ \E e \in Entity : DeleteEntity(e)
  \/ FinishLoading
  \/ ResolveMoveRequests

(* Every frame is drawn, and drawing ends by resolving the requests.       *)
Fairness == WF_vars(ResolveMoveRequests)

Safety == Init /\ [][Next]_vars
Spec == Safety /\ Fairness

-------------------------------------------------------------------------------

TypeOK ==
  /\ entities \in [Bucket -> SUBSET Entity]
  /\ moveRequests \in Seq(MoveRequest)
  /\ resolving \in Nat
  /\ position \in [Entity -> Position]
  /\ alive \in [Entity -> BOOLEAN]
  /\ id \in [Entity -> Int]
  /\ idCounter \in Nat
  /\ constructed \in SUBSET Entity
  /\ loading \in BOOLEAN

(* The requests for an entity that are still to be resolved.               *)
PendingIndex == {i \in 1 .. Len(moveRequests) : i >= resolving}
PendingOf(e) == {i \in PendingIndex : moveRequests[i].entity = e}

(* No two listed entities answer to the same id: a search, a move or a     *)
(* deletion by id reaches the entity it was meant for.                     *)
UniqueIds ==
  \A e1, e2 \in Entity :
    IsListed(e1) /\ IsListed(e2) /\ id[e1] = id[e2] => e1 = e2

(* No entity is listed by two buckets: it would be drawn and updated twice *)
(* a frame.                                                                *)
ListedOnce ==
  \A e \in Entity, b1, b2 \in Bucket :
    e \in entities[b1] /\ e \in entities[b2] => b1 = b2

(* The pending requests of a live entity lead, one after the other, from   *)
(* the bucket that lists it to the bucket of its position.                 *)
PathStarts(e) ==
  \A i \in PendingOf(e) :
    (\A k \in PendingOf(e) : k >= i) => e \in entities[moveRequests[i].oldBucket]
PathLinked(e) ==
  \A i, j \in PendingOf(e) :
    i < j /\ (\A k \in PendingOf(e) : k <= i \/ k >= j)
      => moveRequests[i].newBucket = moveRequests[j].oldBucket
PathEnds(e) ==
  /\ \A i \in PendingOf(e) :
       (\A k \in PendingOf(e) : k <= i)
         => moveRequests[i].newBucket = GetBucket(position[e])
  /\ PendingOf(e) = {} => e \in entities[GetBucket(position[e])]
MovePath ==
  \A e \in constructed : alive[e] => PathStarts(e) /\ PathLinked(e) /\ PathEnds(e)

(* An entity that was killed but not removed has a request that will       *)
(* remove it (the comment in DeleteEntity: "its move request has been      *)
(* sent").                                                                 *)
LostHasRequest ==
  \A e \in Entity : IsListed(e) /\ ~alive[e] => PendingOf(e) # {}

(* Between two frames with nothing pending the index is exact: a bucket    *)
(* lists the live entities positioned in it and no other.                  *)
ExactAtRest ==
  moveRequests = <<>> =>
    \A b \in Bucket :
      entities[b] = {e \in constructed : alive[e] /\ GetBucket(position[e]) = b}

(* A live entity is found by every search over the buckets, whatever is    *)
(* pending (SeekEntity, GetEntityArray, saving the scene).                 *)
LiveAreListed == \A e \in constructed : alive[e] => IsListed(e)

(* The inductive invariant behind the six above: the ids of all entities, *)
(* listed or not, differ and are at most the counter; lists and requests   *)
(* name entities that exist; the loop stays in its list.                   *)
IdsDistinct ==
  /\ \A e1, e2 \in constructed : id[e1] = id[e2] => e1 = e2
  /\ \A e \in constructed : id[e] <= idCounter
EntitiesExist ==
  /\ \A b \in Bucket : entities[b] \subseteq constructed
  /\ \A i \in 1 .. Len(moveRequests) : moveRequests[i].entity \in constructed
IndexInv ==
  /\ TypeOK
  /\ IdsDistinct
  /\ EntitiesExist
  /\ resolving <= Len(moveRequests) + 1
  /\ ListedOnce
  /\ MovePath
  /\ LostHasRequest
  /\ LiveAreListed

(* To its users the index is one that lags and is refreshed atomically:    *)
(* the loop over the requests ends exactly where a refresh would, whatever *)
(* the requests and the deletions between them were.                       *)
Live == {e \in constructed : alive[e]}
Exact == [b \in Bucket |-> {e \in Live : GetBucket(position[e]) = b}]
Index == INSTANCE ETHSceneIndex WITH
  created <- constructed,
  live <- Live,
  shows <- IF resolving = 0 THEN entities ELSE Exact
ImplementsIndex == Index!Spec

(* Deleting an entity kills it, though it is looked for by id in buckets   *)
(* that may be out of date, and kills no other.                            *)
DeleteKillsIt ==
  [][\A e \in Entity : DeleteEntity(e) => alive' = [alive EXCEPT ![e] = FALSE]]_vars

(* Resolving the requests moves and discards; it never kills a live entity *)
(* ("if it's dead ... Let's just discard").                                *)
ResolveKillsNoOne == [][resolving # 0 => alive' = alive]_vars

(* A live entity eventually is in the bucket of its position, unless it    *)
(* moves again or dies; a dead one eventually leaves the index.            *)
EventuallyIndexed ==
  \A e \in Entity :
    /\ \A b \in Bucket :
         (e \in constructed /\ GetBucket(position[e]) = b) ~>
           (e \in entities[b] \/ GetBucket(position[e]) # b \/ ~alive[e])
    /\ (e \in constructed /\ ~alive[e]) ~> ~IsListed(e)

===============================================================================
