---------------------------- MODULE ETHScene_proofs ----------------------------
(***************************************************************************)
(* Theorems about ETHScene: whatever the scripts call, and in whatever     *)
(* order the engine iterates, the scene uses its bucket manager as         *)
(* ETHBucketManager says, so that what is proved there holds of the scene. *)
(***************************************************************************)
EXTENDS ETHScene, ETHBucketManager_proofs

LEMMA ScriptCallStep == ScriptCall => [Next]_vars
<1> SUFFICES ASSUME ScriptCall PROVE [Next]_vars
  OBVIOUS
<1>1. CASE ScriptAddsEntity
  BY <1>1 DEF ScriptAddsEntity, Next
<1>2. CASE ScriptMovesEntity
  BY <1>2 DEF ScriptMovesEntity, Next
<1>3. CASE ScriptDeletesEntity
  BY <1>3 DEF ScriptDeletesEntity, Next
<1>4. CASE ScriptForcesRendering
  BY <1>4 DEF ScriptForcesRendering
<1>5. CASE ScriptHidesEntity
  BY <1>5 DEF ScriptHidesEntity
<1>6. CASE ScriptSetsSprite
  BY <1>6 DEF ScriptSetsSprite
<1>7. CASE ScriptTakesHandle
  BY <1>7 DEF ScriptTakesHandle
<1>8. CASE ScriptDropsHandle
  BY <1>8 DEF ScriptDropsHandle
<1>9. CASE ScaleBegins
  BY <1>9 DEF ScaleBegins
<1>10. QED
  BY <1>1, <1>2, <1>3, <1>4, <1>5, <1>6, <1>7, <1>8, <1>9 DEF ScriptCall

LEMMA UpdateStep ==
  ASSUME \/ RemoveDead \/ RemoveFinished \/ UpdateActive \/ UpdateFrameEntity
  PROVE  [Next]_vars
<1>1. CASE RemoveDead
  BY <1>1 DEF RemoveDead
<1>2. CASE RemoveFinished
  BY <1>2 DEF RemoveFinished, Next
<1>3. CASE UpdateActive
  BY <1>3 DEF UpdateActive, FollowBody, Next
<1>4. CASE UpdateFrameEntity
  BY <1>4 DEF UpdateFrameEntity
<1>5. QED
  BY <1>1, <1>2, <1>3, <1>4

LEMMA ResolvingStep ==
  ASSUME FrameResolves \/ ResolveOne \/ ResolveEnds \/ ScaleResolves
  PROVE  [Next]_vars
BY DEF FrameResolves, ResolveOne, ResolveEnds, ScaleResolves, Next,
       ResolveMoveRequests

LEMMA EngineStep ==
  ASSUME TypeOK, toScale \subseteq Entity \X Position, Engine
  PROVE  [Next]_vars
<1>1. CASE OnSceneLoadedReturns \/ BeginFrame \/ ContactCallbacksReturn
  BY <1>1 DEF OnSceneLoadedReturns, BeginFrame, ContactCallbacksReturn, Returns
<1>2. CASE RemoveDead \/ RemoveFinished \/ UpdateActive \/ UpdateFrameEntity
  BY <1>2, UpdateStep
<1>3. CASE CallbackReturns \/ BeginSceneUpdate \/ OnSceneUpdateReturns
  BY <1>3 DEF CallbackReturns, BeginSceneUpdate, OnSceneUpdateReturns, Returns
<1>4. CASE MapEntitiesToBeRendered \/ FrameCallbackReturns \/ EndUpdate
  BY <1>4 DEF MapEntitiesToBeRendered, FrameCallbackReturns, EndUpdate, Returns
<1>5. CASE RenderPieces \/ EndFrame
  BY <1>5 DEF RenderPieces, EndFrame
<1>6. CASE FrameResolves \/ ResolveOne \/ ResolveEnds \/ ScaleResolves
  BY <1>6, ResolvingStep
<1>7. CASE ScaleOne
  BY <1>7 DEF ScaleOne, Next
<1>8. QED
  BY <1>1, <1>2, <1>3, <1>4, <1>5, <1>6, <1>7 DEF Engine

LEMMA LoadingStep == SceneLoadsEntity \/ SceneLoaded => [Next]_vars
BY DEF SceneLoadsEntity, SceneLoaded, Next

(* A scaling moves entities, and only to positions.                        *)
ScalingOK == toScale \subseteq Entity \X Position

LEMMA ScalingStep == ScalingOK /\ [SceneNext]_allVars => ScalingOK'
<1> SUFFICES ASSUME ScalingOK, [SceneNext]_allVars PROVE ScalingOK'
  OBVIOUS
<1>1. CASE SceneLoadsEntity \/ SceneLoaded
  BY <1>1 DEF SceneLoadsEntity, SceneLoaded, Adopt, AdoptIn, scriptVars, ScalingOK
<1>2. CASE ScaleBegins
  <2>1. PICK factor \in Factors :
          LET listed == {e \in Entity : IsListed(e)} IN
          /\ \A e \in listed : position[e] * factor \in Position
          /\ toScale' = {<<e, position[e] * factor>> : e \in listed}
    BY <1>2 DEF ScaleBegins
  <2>2. QED
    BY <2>1 DEF ScalingOK
<1>3. CASE ScaleOne
  BY <1>3 DEF ScaleOne, ScalingOK
<1>4. CASE ScriptCall /\ ~ScaleBegins
  BY <1>4 DEF ScriptCall, ScriptAddsEntity, ScriptMovesEntity,
     ScriptDeletesEntity, ScriptForcesRendering, ScriptHidesEntity,
     ScriptSetsSprite, ScriptTakesHandle, ScriptDropsHandle, Adopt, AdoptIn,
     scriptVars, ScalingOK
<1>5. CASE Engine /\ ~ScaleOne
  BY <1>5 DEF Engine, OnSceneLoadedReturns, BeginFrame, ContactCallbacksReturn,
     RemoveDead, RemoveFinished, UpdateActive, CallbackReturns,
     BeginSceneUpdate, OnSceneUpdateReturns, MapEntitiesToBeRendered,
     UpdateFrameEntity, FrameCallbackReturns, EndUpdate, RenderPieces,
     FrameResolves, ResolveOne, ResolveEnds, EndFrame, ScaleResolves,
     RemoveAtIter, Returns, scriptVars, ScalingOK
<1>6. CASE UNCHANGED allVars
  BY <1>6 DEF allVars, scriptVars, ScalingOK
<1>7. QED
  BY <1>1, <1>2, <1>3, <1>4, <1>5, <1>6 DEF SceneNext

LEMMA SceneStep ==
  ASSUME TypeOK, ScalingOK, [SceneNext]_allVars
  PROVE  [Next]_vars
<1>1. CASE UNCHANGED allVars
  BY <1>1 DEF allVars
<1>2. QED
  BY <1>1, LoadingStep, ScriptCallStep, EngineStep DEF SceneNext, ScalingOK

LEMMA SceneSafety == SceneSpec => Safety /\ []IndexInv
<1>1. SceneInit => Init /\ IndexInv /\ ScalingOK
  BY InitIndexInv DEF SceneInit, ScalingOK
<1>2. IndexInv /\ ScalingOK /\ [SceneNext]_allVars
        => [Next]_vars /\ IndexInv' /\ ScalingOK'
  BY ScalingStep, SceneStep, IndexInvStep DEF IndexInv
<1>3. QED
  BY <1>1, <1>2, PTL DEF SceneSpec, Safety

(* Whatever scripts do at the points of the frame where they run, and      *)
(* however the engine's loops interleave with them, the index invariant of *)
(* the bucket manager holds: ids are unique, requests lead to positions,   *)
(* what was killed and is still listed has a request that discards it.     *)
THEOREM SceneIndexInvariant == SceneSpec => []IndexInv
BY SceneSafety, PTL

(* The scene's use of the buckets implements the lagging index: a call of  *)
(* a script takes effect on its entity at once, and the resolving of the   *)
(* requests is one refresh to whoever looks, even when SetScaleFactor      *)
(* resolves them in the middle of a callback.                              *)
THEOREM SceneImplementsIndex == SceneSpec => ImplementsIndex
BY SceneSafety, SafetyImplementsIndex, PTL

===============================================================================
