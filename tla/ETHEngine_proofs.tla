--------------------------- MODULE ETHEngine_proofs ---------------------------
(***************************************************************************)
(* Theorems about ETHEngine.  The index of a scene is sound though ids     *)
(* repeat between scenes, until a script moves an entity of an earlier one;*)
(* even then each live entity is in one bucket, so that the entities of a  *)
(* replaced scene are dead.  Requests are not lost and the right functions *)
(* are bound, provided that onSceneLoaded does not request a scene itself, *)
(* which the run engine_chained shows to be necessary.                     *)
(***************************************************************************)
EXTENDS ETHEngine, ETHBucketManager_proofs

(* What no request can spoil, whatever entity it names: the buckets list   *)
(* entities of this scene, none twice, and all that live.                  *)
Listed ==
  /\ \A b \in Bucket : entities[b] \subseteq constructed
  /\ ListedOnce
  /\ LiveAreListed

LEMMA AddKeepsListed ==
  ASSUME TypeOK, Listed, NEW e \in Entity, NEW fileId \in Int, NEW p \in Position,
         AddEntity(e, fileId, p)
  PROVE  Listed'
<1>1. \A b \in Bucket : e \notin entities[b]
  BY DEF Listed, AddEntity
<1>2. /\ constructed' = constructed \union {e}
      /\ \A b \in Bucket : entities[b] \subseteq entities'[b]
      /\ \A b \in Bucket : entities'[b] \subseteq entities[b] \union {e}
      /\ \A b \in Bucket : e \in entities'[b] => b = GetBucket(p)
      /\ e \in entities'[GetBucket(p)]
      /\ \A f \in Entity : f # e => alive'[f] = alive[f]
  BY <1>1, BucketOfPosition DEF AddEntity, TypeOK
<1>3. ListedOnce'
  BY <1>2 DEF Listed, ListedOnce
<1>4. LiveAreListed'
  BY <1>2, BucketOfPosition DEF Listed, LiveAreListed, IsListed, TypeOK
<1>5. QED
  BY <1>2, <1>3, <1>4 DEF Listed

(* Deleting removes at most an entity that it kills.                       *)
LEMMA KillKeepsListed ==
  ASSUME TypeOK, Listed, constructed' = constructed,
         NEW x \in Entity, alive' = [alive EXCEPT ![x] = FALSE],
         \A b \in Bucket : entities'[b] \subseteq entities[b],
         \A b \in Bucket, f \in Entity : f # x /\ f \in entities[b] => f \in entities'[b]
  PROVE  Listed'
BY DEF TypeOK, Listed, ListedOnce, LiveAreListed, IsListed

LEMMA DeleteKeepsListed ==
  ASSUME TypeOK, Listed, NEW e \in Entity, DeleteEntity(e)
  PROVE  Listed'
<1>1. constructed' = constructed
  BY DEF DeleteEntity
<1>2. CASE UNCHANGED <<alive, entities>>
  BY <1>1, <1>2 DEF Listed, ListedOnce, LiveAreListed, IsListed
<1>3. ASSUME NEW x \in WithId(id[e]), NEW b \in Bucket, Kill(x), RemoveFrom(x, b)
      PROVE  Listed'
  BY <1>1, <1>3, KillKeepsListed DEF WithId, Kill, RemoveFrom, TypeOK
<1>4. ASSUME NEW x \in WithId(id[e]), Kill(x), UNCHANGED entities
      PROVE  Listed'
  BY <1>1, <1>4, KillKeepsListed DEF WithId, Kill
<1>5. GetBucket(position[e]) \in Bucket
  BY BucketOfPosition DEF TypeOK
<1>6. QED
  BY <1>2, <1>3, <1>4, <1>5 DEF DeleteEntity

(* A request moves one listed entity, whichever it is, or discards it.     *)
LEMMA ResolveKeepsListed ==
  ASSUME TypeOK, Listed, ResolveNext
  PROVE  Listed'
<1> DEFINE request == moveRequests[resolving]
<1>1. /\ constructed' = constructed
      /\ request.oldBucket \in Bucket /\ request.newBucket \in Bucket
  BY RequestInRange DEF ResolveNext, MoveRequest
<1>2. CASE UNCHANGED <<alive, entities>>
  BY <1>1, <1>2 DEF Listed, ListedOnce, LiveAreListed, IsListed
<1>3. ASSUME NEW x \in WithId(id[request.entity]), NEW b \in Bucket,
             Kill(x), RemoveFrom(x, b)
      PROVE  Listed'
  BY <1>1, <1>3, KillKeepsListed DEF WithId, Kill, RemoveFrom, TypeOK
<1>4. ASSUME NEW old \in Bucket, NEW new \in Bucket, old # new,
             NEW x \in WithId(id[request.entity]) \intersect entities[old],
             entities' = [entities EXCEPT ![old] = @ \ {x}, ![new] = @ \union {x}],
             alive' = alive
      PROVE  Listed'
  <2>1. /\ x \in Entity /\ x \in constructed
        /\ \A b \in Bucket : x \in entities[b] => b = old
    BY <1>4 DEF WithId, Listed, ListedOnce
  <2>2. \A b \in Bucket : x \in entities'[b] <=> b = new
    BY <1>4, <2>1 DEF TypeOK
  <2>3. \A b \in Bucket, f \in Entity :
          f # x => (f \in entities'[b] <=> f \in entities[b])
    BY <1>4 DEF TypeOK
  <2>4. \A b \in Bucket : entities'[b] \subseteq Entity
    BY <1>4, <2>1 DEF TypeOK
  <2>5. \A b \in Bucket : entities'[b] \subseteq constructed'
    BY <1>1, <2>1, <2>3, <2>4 DEF Listed
  <2>6. ListedOnce'
    BY <2>2, <2>3 DEF Listed, ListedOnce
  <2>7. LiveAreListed'
    <3> SUFFICES ASSUME NEW f \in constructed, alive[f] PROVE IsListed(f)'
      BY <1>1, <1>4 DEF LiveAreListed
    <3>1. CASE f = x
      BY <1>4, <2>2, <3>1 DEF IsListed
    <3>2. CASE f # x
      BY <2>3, <3>2 DEF Listed, LiveAreListed, IsListed, TypeOK
    <3>3. QED
      BY <3>1, <3>2
  <2>8. QED
    BY <2>5, <2>6, <2>7 DEF Listed
<1>5. CASE alive[request.entity]
  BY <1>1, <1>2, <1>4, <1>5 DEF ResolveNext, MoveEntity
<1>6. CASE ~alive[request.entity]
  BY <1>2, <1>3, <1>6 DEF ResolveNext, DeleteById
<1>7. QED
  BY <1>5, <1>6

-------------------------------------------------------------------------------

(* No operation of the bucket manager revives an entity that was dead and  *)
(* unlisted, unless it adds it.                                            *)
Gone(f) == ~alive[f] /\ \A b \in Bucket : f \notin entities[b]

LEMMA AddKeepsGone ==
  ASSUME TypeOK, NEW e \in Entity, NEW fileId \in Int, NEW p \in Position,
         AddEntity(e, fileId, p), NEW f \in Entity, f # e, Gone(f)
  PROVE  Gone(f)'
<1>1. GetBucket(p) \in Bucket
  BY BucketOfPosition
<1>2. alive'[f] = alive[f]
  BY DEF AddEntity, TypeOK
<1>3. \A b \in Bucket : f \notin entities'[b]
  BY <1>1 DEF AddEntity, TypeOK, Gone
<1>4. QED
  BY <1>2, <1>3 DEF Gone

LEMMA DeleteKeepsGone ==
  ASSUME TypeOK, NEW e \in Entity, DeleteEntity(e), NEW f \in Entity, Gone(f)
  PROVE  Gone(f)'
<1>1. alive' = alive \/ \E x \in Entity : Kill(x)
  BY DEF DeleteEntity, WithId
<1>2. ~alive'[f]
  BY <1>1 DEF Kill, TypeOK, Gone
<1>3. entities' = entities \/ \E x, b : RemoveFrom(x, b)
  BY DEF DeleteEntity
<1>4. \A b \in Bucket : f \notin entities'[b]
  BY <1>3 DEF RemoveFrom, TypeOK, Gone
<1>5. QED
  BY <1>2, <1>4 DEF Gone

LEMMA ResolveKeepsGone ==
  ASSUME TypeOK, ResolveNext, NEW f \in Entity, Gone(f)
  PROVE  Gone(f)'
<1> DEFINE request == moveRequests[resolving]
<1>1. request.oldBucket \in Bucket /\ request.newBucket \in Bucket
  BY RequestInRange DEF ResolveNext, MoveRequest
<1>2. f \notin WithId(id[request.entity])
  BY DEF Gone, WithId, IsListed
<1>3. CASE alive[request.entity]
  <2> DEFINE i == id[request.entity]
  <2>1. MoveEntity(i, request.oldBucket, request.newBucket)
    BY <1>3 DEF ResolveNext
  <2>2. \/ entities' = entities
        \/ \E x \in WithId(i) :
             entities' = [entities EXCEPT ![request.oldBucket] = @ \ {x},
                                          ![request.newBucket] = @ \union {x}]
    BY <2>1 DEF MoveEntity
  <2>3. ASSUME NEW x \in WithId(i),
               entities' = [entities EXCEPT ![request.oldBucket] = @ \ {x},
                                            ![request.newBucket] = @ \union {x}]
        PROVE  \A b \in Bucket : f \notin entities'[b]
    <3>1. x # f
      BY <1>2
    <3> HIDE DEF request, i
    <3>2. QED
      BY <2>3, <3>1 DEF Gone, TypeOK
  <2>4. alive' = alive
    BY <2>1 DEF MoveEntity
  <2>5. QED
    BY <2>2, <2>3, <2>4 DEF Gone
<1>4. CASE ~alive[request.entity]
  <2> DEFINE i == id[request.entity]
  <2>1. \/ alive' = alive /\ entities' = entities
        \/ \E x \in WithId(i), b \in Bucket : Kill(x) /\ RemoveFrom(x, b)
    BY <1>4 DEF ResolveNext, DeleteById
  <2>2. ASSUME NEW x, NEW b, Kill(x), RemoveFrom(x, b)
        PROVE  Gone(f)'
    BY <2>2 DEF Kill, RemoveFrom, Gone, TypeOK
  <2>3. QED
    BY <2>1, <2>2 DEF Gone
<1>5. QED
  BY <1>3, <1>4

-------------------------------------------------------------------------------

(* A new scene starts with an index that is sound whatever the old one was *)
(* like, except that nothing may be in the middle of a resolution.         *)
LEMMA ReplacedIndexInv ==
  ASSUME TypeOK, SceneReplaced, resolving = 0
  PROVE  IndexInv'
<1>1. /\ entities' = [b \in Bucket |-> {}]
      /\ moveRequests' = <<>>
      /\ idCounter' = 0
      /\ constructed' = {}
      /\ loading' = TRUE
      /\ alive' = [e \in Entity |-> alive[e] /\ ~IsListed(e)]
      /\ UNCHANGED <<resolving, position, id>>
  BY DEF SceneReplaced, NewScene
<1>2. alive' \in [Entity -> BOOLEAN]
  <2>1. \A e \in Entity : (alive[e] /\ ~IsListed(e)) \in BOOLEAN
    BY Zenon
  <2>2. QED
    BY <1>1, <2>1
<1>3. TypeOK'
  BY <1>1, <1>2 DEF TypeOK
<1>4. Len(moveRequests') = 0
  BY <1>1
<1>5. IdsDistinct' /\ EntitiesExist' /\ ListedOnce'
  BY <1>1, <1>4 DEF IdsDistinct, EntitiesExist, ListedOnce
<1>6. MovePath' /\ LostHasRequest' /\ LiveAreListed'
  BY <1>1 DEF MovePath, LostHasRequest, LiveAreListed, IsListed
<1>7. resolving' <= Len(moveRequests') + 1
  BY <1>1, <1>4
<1>8. QED
  BY <1>3, <1>5, <1>6, <1>7 DEF IndexInv

(* The invariant of the scenes: the loop over the requests runs only in    *)
(* its own phase, and the entities of earlier scenes are out of the way.   *)
ScenesInv ==
  /\ TypeOK
  /\ Listed
  /\ StaleIsDead
  /\ stale \subseteq Entity
  /\ stale \intersect constructed = {}
  /\ phase # "resolve" => resolving = 0
  /\ ~tainted => IndexInv

LEMMA IndexInvListed == IndexInv => TypeOK /\ Listed
BY DEF IndexInv, EntitiesExist, Listed

LEMMA ScenesInit == EngineInit => ScenesInv
<1>1. Init => IndexInv
  BY InitIndexInv
<1>2. QED
  BY <1>1, IndexInvListed DEF EngineInit, Init, ScenesInv, StaleIsDead

(* Every step but the replacement of a scene and a move of an entity of an *)
(* earlier one is one of the bucket manager.                               *)
LEMMA SceneSteps ==
  ASSUME [EngineNext]_allVars
  PROVE  \/ [Next]_vars /\ UNCHANGED staleVars
         \/ SceneReplaced
         \/ ScriptMovesStale
<1>1. CASE Engine
  BY <1>1 DEF Engine, MainReturns, SceneLoaded, OnSceneLoadedReturns,
     NoSceneRequested, Abort, OnResumeRuns, UpdateScene, CallbacksReturn,
     RenderResolves, ResolveStep, FrameEnds, Next, ResolveMoveRequests, engineVars
<1>2. CASE ScriptCall
  BY <1>2 DEF ScriptCall, Next, engineVars
<1>3. CASE SceneReadsEntity
  BY <1>3 DEF SceneReadsEntity, Next, engineVars
<1>4. CASE LoadSceneInScript \/ Restore \/ Terminated \/ UNCHANGED allVars
  BY <1>4 DEF LoadSceneInScript, Restore, Terminated, allVars, engineVars
<1>5. QED
  BY <1>1, <1>2, <1>3, <1>4 DEF EngineNext

LEMMA StaleMoveKeepsType ==
  ASSUME ScenesInv, ScriptMovesStale
  PROVE  TypeOK'
<1>1. PICK e \in stale, p \in Position :
        /\ position' = [position EXCEPT ![e] = p]
        /\ RequestBucketMove(e, position[e], p)
  BY DEF ScriptMovesStale
<1>2. e \in Entity /\ position[e] \in Position
  BY DEF ScenesInv, TypeOK
<1>3. moveRequests' \in Seq(MoveRequest)
  BY <1>1, <1>2, RequestBucketMoveType DEF ScenesInv
<1>4. QED
  BY <1>1, <1>3 DEF ScriptMovesStale, ScenesInv, TypeOK

(* What happens to the buckets and the entities of a scene, and to the     *)
(* entities of earlier ones, as long as it is not replaced.                *)
LEMMA ListedStep ==
  ASSUME ScenesInv, [EngineNext]_allVars, ~SceneReplaced
  PROVE  Listed' /\ \A f \in stale : Gone(f)'
<1>1. /\ TypeOK /\ Listed
      /\ \A f \in stale : f \in Entity /\ Gone(f)
  BY DEF ScenesInv, StaleIsDead, Gone
<1>2. CASE UNCHANGED <<entities, alive, constructed>>
  BY <1>1, <1>2 DEF Listed, ListedOnce, LiveAreListed, IsListed, Gone
<1>3. CASE SceneReadsEntity
  <2>1. PICK e \in Entity \ stale, i \in FileId, p \in Position :
          LoadEntityFromFile(e, i, p)
    BY <1>3 DEF SceneReadsEntity
  <2>2. AddEntity(e, i, p) /\ i \in Int /\ \A f \in stale : f # e
    BY <2>1, FileIdAssumption DEF LoadEntityFromFile
  <2>3. QED
    BY <1>1, <2>1, <2>2, AddKeepsListed, AddKeepsGone
<1>4. CASE ScriptCall
  <2>1. ASSUME NEW e \in Entity, NEW p \in Position, e \notin stale,
               AddEntityFromScript(e, p)
        PROVE  Listed' /\ \A f \in stale : Gone(f)'
    BY <1>1, <2>1, AddKeepsListed, AddKeepsGone DEF AddEntityFromScript, NoId
  <2>2. ASSUME NEW e \in Entity, NEW p \in Position, SetPosition(e, p)
        PROVE  Listed' /\ \A f \in stale : Gone(f)'
    BY <1>2, <2>2 DEF SetPosition
  <2>3. ASSUME NEW e \in Entity, DeleteEntity(e)
        PROVE  Listed' /\ \A f \in stale : Gone(f)'
    BY <1>1, <2>3, DeleteKeepsListed, DeleteKeepsGone
  <2>4. QED
    BY <1>4, <2>1, <2>2, <2>3 DEF ScriptCall
<1>5. CASE ResolveStep
  BY <1>1, <1>5, ResolveKeepsListed, ResolveKeepsGone DEF ResolveStep
<1>6. CASE Engine /\ ~ResolveStep
  BY <1>2, <1>6 DEF Engine, MainReturns, SceneLoaded, OnSceneLoadedReturns,
     NoSceneRequested, Abort, OnResumeRuns, UpdateScene, CallbacksReturn,
     RenderResolves, FrameEnds, BeginResolve, EndResolve, FinishLoading, vars,
     sceneVars
<1>7. CASE LoadSceneInScript \/ Restore \/ Terminated \/ UNCHANGED allVars
  BY <1>2, <1>7 DEF LoadSceneInScript, Restore, Terminated, allVars, vars, sceneVars
<1>8. CASE ScriptMovesStale
  BY <1>2, <1>8 DEF ScriptMovesStale
<1>9. QED
  BY <1>3, <1>4, <1>5, <1>6, <1>7, <1>8 DEF EngineNext

LEMMA StaleAreDead ==
  ASSUME ScenesInv, SceneReplaced
  PROVE  StaleIsDead' /\ stale' \subseteq Entity
<1> SUFFICES ASSUME NEW f \in stale'
             PROVE  Gone(f)' /\ f \in Entity
  BY DEF StaleIsDead, Gone
<1>1. /\ f \in stale \union constructed
      /\ entities' = [b \in Bucket |-> {}]
      /\ alive' = [e \in Entity |-> alive[e] /\ ~IsListed(e)]
  BY DEF SceneReplaced, NewScene
<1>2. f \in Entity
  BY <1>1 DEF ScenesInv, TypeOK
<1>3. ~alive[f] \/ IsListed(f)
  BY <1>1 DEF ScenesInv, Listed, LiveAreListed, StaleIsDead
<1>4. QED
  BY <1>1, <1>2, <1>3 DEF Gone

(* Outside its own phase the loop over the requests does not run.          *)
LEMMA LoopInItsPhase ==
  ASSUME ScenesInv, [EngineNext]_allVars
  PROVE  phase' # "resolve" => resolving' = 0
<1>1. CASE ScriptCall
  BY <1>1 DEF ScriptCall, ScenesInv, AddEntityFromScript, AddEntity, SetPosition,
     DeleteEntity, engineVars
<1>2. CASE SceneReadsEntity
  BY <1>2 DEF SceneReadsEntity, LoadEntityFromFile, AddEntity, ScenesInv, engineVars
<1>3. CASE Engine
  <2>1. CASE MainReturns \/ OnSceneLoadedReturns \/ NoSceneRequested \/ Abort
             \/ OnResumeRuns \/ UpdateScene \/ CallbacksReturn
    BY <2>1 DEF MainReturns, OnSceneLoadedReturns, NoSceneRequested, Abort,
       OnResumeRuns, UpdateScene, CallbacksReturn, Returns, vars, ScenesInv
  <2>2. CASE SceneReplaced \/ SceneLoaded
    BY <2>2 DEF SceneReplaced, NewScene, SceneLoaded, FinishLoading, ScenesInv
  <2>3. CASE RenderResolves \/ ResolveStep \/ FrameEnds
    BY <2>3 DEF RenderResolves, ResolveStep, FrameEnds, EndResolve, BeginResolve,
       vars, engineVars, ScenesInv
  <2>4. QED
    BY <1>3, <2>1, <2>2, <2>3 DEF Engine
<1>4. CASE LoadSceneInScript \/ Restore \/ Terminated \/ UNCHANGED allVars
  BY <1>4 DEF LoadSceneInScript, Restore, Terminated, allVars, vars, engineVars,
     ScenesInv
<1>5. CASE ScriptMovesStale
  BY <1>5 DEF ScriptMovesStale, ScenesInv
<1>6. QED
  BY <1>1, <1>2, <1>3, <1>4, <1>5 DEF EngineNext

(* The entities of a scene are new ones.                                   *)
LEMMA ScenesApart ==
  ASSUME ScenesInv, [EngineNext]_allVars
  PROVE  stale' \intersect constructed' = {}
<1>1. CASE ScriptCall
  BY <1>1 DEF ScriptCall, ScenesInv, AddEntityFromScript, AddEntity, SetPosition,
     DeleteEntity, engineVars, staleVars
<1>2. CASE SceneReadsEntity
  BY <1>2 DEF SceneReadsEntity, LoadEntityFromFile, AddEntity, ScenesInv,
     engineVars, staleVars
<1>3. CASE Engine
  BY <1>3 DEF Engine, MainReturns, SceneReplaced, NewScene, SceneLoaded,
     OnSceneLoadedReturns, NoSceneRequested, Abort, OnResumeRuns, UpdateScene,
     CallbacksReturn, RenderResolves, ResolveStep, FrameEnds, BeginResolve,
     ResolveNext, EndResolve, FinishLoading, vars, sceneVars, engineVars, staleVars,
     ScenesInv
<1>4. CASE LoadSceneInScript \/ Restore \/ Terminated \/ UNCHANGED allVars
  BY <1>4 DEF LoadSceneInScript, Restore, Terminated, allVars, vars, sceneVars,
     engineVars, staleVars, ScenesInv
<1>5. CASE ScriptMovesStale
  BY <1>5 DEF ScriptMovesStale, ScenesInv
<1>6. QED
  BY <1>1, <1>2, <1>3, <1>4, <1>5 DEF EngineNext

LEMMA ScenesStep == ScenesInv /\ [EngineNext]_allVars => ScenesInv'
<1> SUFFICES ASSUME ScenesInv, [EngineNext]_allVars PROVE ScenesInv'
  OBVIOUS
<1>1. (phase # "resolve" => resolving = 0)' /\ (stale \intersect constructed = {})'
  BY LoopInItsPhase, ScenesApart
<1>2. CASE SceneReplaced
  <2>1. TypeOK /\ resolving = 0
    BY <1>2 DEF ScenesInv, SceneReplaced, NewScene
  <2>2. IndexInv'
    BY <1>2, <2>1, ReplacedIndexInv
  <2>3. TypeOK' /\ Listed'
    BY <2>2 DEF IndexInv, EntitiesExist, Listed
  <2>4. QED
    BY <1>1, <1>2, <2>2, <2>3, StaleAreDead DEF ScenesInv
<1>3. CASE ~SceneReplaced
  <2>1. Listed' /\ \A f \in stale : Gone(f)'
    BY <1>3, ListedStep
  <2>2. stale' = stale
    BY <1>3, SceneSteps DEF ScriptMovesStale, staleVars
  <2>3. StaleIsDead' /\ stale' \subseteq Entity
    BY <2>1, <2>2 DEF StaleIsDead, Gone, ScenesInv
  <2>4. CASE [Next]_vars /\ UNCHANGED staleVars
    <3>1. TypeOK'
      BY <2>4, TypeStep DEF ScenesInv
    <3>2. ~tainted' => IndexInv'
      BY <2>4, IndexInvStep DEF ScenesInv, staleVars
    <3>3. QED
      BY <1>1, <2>1, <2>3, <3>1, <3>2 DEF ScenesInv
  <2>5. CASE ScriptMovesStale
    <3>1. tainted'
      BY <2>5 DEF ScriptMovesStale
    <3>2. QED
      BY <1>1, <2>1, <2>3, <2>5, <3>1, StaleMoveKeepsType DEF ScenesInv
  <2>6. QED
    BY <1>3, <2>4, <2>5, SceneSteps
<1>4. QED
  BY <1>2, <1>3

LEMMA ScenesAlways == EngineSpec => []ScenesInv
BY ScenesInit, ScenesStep, PTL DEF EngineSpec, EngineSafety

(* Across the scenes of a game the index of the current one is sound: ids  *)
(* repeat from scene to scene and no harm comes of it.  Where a script has *)
(* moved an entity of an earlier scene, those of this one are still listed.*)
THEOREM EveryIndexIsSound == EngineSpec => []CurrentIndexInv
<1>1. ScenesInv => CurrentIndexInv
  BY DEF ScenesInv, Listed, CurrentIndexInv
<1>2. QED
  BY <1>1, ScenesAlways, PTL

(* The entities of a replaced scene are dead and in no bucket: destroying  *)
(* a scene kills what is listed, and all that lived was listed.            *)
THEOREM ReplacedScenesAreDead == EngineSpec => []StaleIsDead
<1>1. ScenesInv => StaleIsDead
  BY DEF ScenesInv
<1>2. QED
  BY <1>1, ScenesAlways, PTL

-------------------------------------------------------------------------------

(* The invariant of the requests: which function runs in which phase, and  *)
(* that the request being loaded is the one that was made.                 *)
RequestInv ==
  /\ running = "main" => phase = "start"
  /\ running = "onSceneLoaded" => phase = "reading"
  /\ running = "onResume" => phase = "resume"
  /\ running = "callback" => phase = "scene"
  /\ running \in Functions
  /\ phase = "reading" => ~pending /\ nextScene = scene
  /\ RequestNotLost
  /\ FunctionsOfScene

LEMMA RequestInit == EngineInit => RequestInv
BY DEF EngineInit, RequestInv, RequestNotLost, FunctionsOfScene, Functions

LEMMA RequestStep ==
  ASSUME "LoadSceneInOnSceneLoaded" \notin Calls
  PROVE  RequestInv /\ [EngineNext]_allVars => RequestInv'
<1> SUFFICES ASSUME RequestInv, [EngineNext]_allVars PROVE RequestInv'
  OBVIOUS
<1>1. CASE UNCHANGED engineVars
  BY <1>1 DEF engineVars, requestVars, RequestInv, RequestNotLost, FunctionsOfScene
<1>2. CASE LoadSceneInScript
  BY <1>2, NoSceneAssumption DEF LoadSceneInScript, RequestInv, RequestNotLost,
     FunctionsOfScene, Functions
<1>3. CASE Engine
  BY <1>3, <1>1 DEF Engine, MainReturns, SceneReplaced, NewScene, SceneLoaded,
     OnSceneLoadedReturns, NoSceneRequested, Abort, OnResumeRuns, UpdateScene,
     CallbacksReturn, RenderResolves, ResolveStep, FrameEnds, Returns, engineVars,
     requestVars, RequestInv, RequestNotLost, FunctionsOfScene, Functions
<1>4. CASE Restore
  BY <1>4 DEF Restore, requestVars, RequestInv, RequestNotLost, FunctionsOfScene
<1>5. CASE ScriptMovesStale
  BY <1>5 DEF ScriptMovesStale, requestVars, RequestInv, RequestNotLost,
     FunctionsOfScene
<1>6. CASE ScriptCall \/ SceneReadsEntity \/ Terminated \/ UNCHANGED allVars
  BY <1>1, <1>6 DEF ScriptCall, SceneReadsEntity, Terminated, allVars
<1>7. QED
  BY <1>2, <1>3, <1>4, <1>5, <1>6 DEF EngineNext

LEMMA RequestAlways ==
  ASSUME "LoadSceneInOnSceneLoaded" \notin Calls
  PROVE  EngineSpec => []RequestInv
BY RequestInit, RequestStep, PTL DEF EngineSpec, EngineSafety

(* A request that has not been loaded is not lost.                         *)
THEOREM RequestsAreKept ==
  ASSUME "LoadSceneInOnSceneLoaded" \notin Calls
  PROVE  EngineSpec => []RequestNotLost
<1>1. RequestInv => RequestNotLost
  BY DEF RequestInv
<1>2. QED
  BY <1>1, RequestAlways, PTL

(* The functions that run in a frame are those of the scene.               *)
THEOREM RightFunctionsRun ==
  ASSUME "LoadSceneInOnSceneLoaded" \notin Calls
  PROVE  EngineSpec => []FunctionsOfScene
<1>1. RequestInv => FunctionsOfScene
  BY DEF RequestInv
<1>2. QED
  BY <1>1, RequestAlways, PTL

===============================================================================
