------------------------- MODULE ETHSceneFrame_proofs -------------------------
(***************************************************************************)
(* The frame of ETHScene.  The lists of a frame are empty when the next    *)
(* one fills them; the list of the active entities is complete and its     *)
(* pass leaves none out; as long as no script changes the sprite of an     *)
(* entity the two lists are disjoint and none is updated twice; a forced   *)
(* entity is drawn once; and every variable keeps its type.                *)
(***************************************************************************)
EXTENDS ETHSceneRefs_proofs

(* What was mapped is consumed before the phase that follows: the callback *)
(* list by the pass over it, the pieces by the drawing.                    *)
FrameInv ==
  /\ phase # "frameEntities" => lastFrameCallbacks = None
  /\ phase \notin {"frameEntities", "render"} => piecesToRender = None

LEMMA FrameInvStep == FrameInv /\ [SceneNext]_allVars => FrameInv'
<1> SUFFICES ASSUME FrameInv, [SceneNext]_allVars PROVE FrameInv'
  OBVIOUS
<1>1. CASE SceneLoadsEntity \/ SceneLoaded
  BY <1>1 DEF SceneLoadsEntity, SceneLoaded, Adopt, AdoptIn, scriptVars, listVars,
              FrameInv, None
<1>2. CASE ScriptCall
  BY <1>2 DEF ScriptCall, ScriptAddsEntity, ScriptMovesEntity,
     ScriptDeletesEntity, ScriptForcesRendering, ScriptHidesEntity,
     ScriptSetsSprite, ScriptTakesHandle, ScriptDropsHandle, ScaleBegins,
     Adopt, AdoptIn, scriptVars, listVars, FrameInv, None
<1>3. CASE \/ MapEntitiesToBeRendered \/ UpdateFrameEntity \/ FrameCallbackReturns
           \/ EndUpdate \/ RenderPieces
  BY <1>3 DEF MapEntitiesToBeRendered, UpdateFrameEntity, FrameCallbackReturns,
     EndUpdate, RenderPieces, Returns, listVars, FrameInv
<1>4. CASE \/ OnSceneLoadedReturns \/ BeginFrame \/ ContactCallbacksReturn
           \/ RemoveDead \/ RemoveFinished \/ UpdateActive \/ CallbackReturns
           \/ BeginSceneUpdate \/ OnSceneUpdateReturns
           \/ FrameResolves \/ ResolveOne \/ ResolveEnds \/ EndFrame
           \/ ScaleOne \/ ScaleResolves
  BY <1>4 DEF OnSceneLoadedReturns, BeginFrame, ContactCallbacksReturn,
     RemoveDead, RemoveFinished, UpdateActive, CallbackReturns,
     BeginSceneUpdate, OnSceneUpdateReturns, FrameResolves, ResolveOne,
     ResolveEnds, EndFrame, ScaleOne, ScaleResolves, RemoveAtIter, Returns,
     scriptVars, listVars, FrameInv, None
<1>5. CASE UNCHANGED allVars
  BY <1>5 DEF allVars, scriptVars, listVars, FrameInv, None
<1>6. QED
  BY <1>1, <1>2, <1>3, <1>4, <1>5 DEF SceneNext, Engine

(* The asserts at the head of Update and MapEntitiesToBeRendered hold:     *)
(* nothing of a frame is left in the lists of the next, so that no entity  *)
(* that died in between is drawn or updated from them.                     *)
THEOREM FramesStartClean == SceneSpec => []FrameStartsClean
<1>1. SceneInit => FrameInv
  BY DEF SceneInit, FrameInv
<1>2. FrameInv => FrameStartsClean
  BY DEF FrameInv, FrameStartsClean
<1>3. QED
  BY <1>1, <1>2, FrameInvStep, PTL DEF SceneSpec

-------------------------------------------------------------------------------

(* Which of the two lists an entity belongs to does not change, so that    *)
(* each list holds entities of its own kind only.                          *)
SplitInv ==
  /\ \A e \in Active : ShouldEntityBeAlwaysActive(e)
  /\ \A e \in Entity : ShouldEntityBeAlwaysActive(e) => lastFrameCallbacks[e] = 0
  /\ phase = "frameEntities" => \A e \in thisEntity : ~ShouldEntityBeAlwaysActive(e)

LEMMA SpritesFixed ==
  ASSUME ~ScriptSetsSprite, [SceneNext]_allVars
  PROVE  spriteless' = spriteless
<1>1. CASE ScriptCall
  BY <1>1 DEF ScriptCall, ScriptAddsEntity, ScriptMovesEntity,
     ScriptDeletesEntity, ScriptForcesRendering, ScriptHidesEntity,
     ScriptTakesHandle, ScriptDropsHandle, ScaleBegins,
     Adopt, AdoptIn, scriptVars, entityVars
<1>2. CASE Engine
  BY <1>2 DEF Engine, OnSceneLoadedReturns, BeginFrame, ContactCallbacksReturn,
     RemoveDead, RemoveFinished, UpdateActive, CallbackReturns,
     BeginSceneUpdate, OnSceneUpdateReturns, MapEntitiesToBeRendered,
     UpdateFrameEntity, FrameCallbackReturns, EndUpdate, RenderPieces,
     FrameResolves, ResolveOne, ResolveEnds, EndFrame, ScaleOne,
     ScaleResolves, Returns, entityVars
<1>3. CASE SceneLoadsEntity \/ SceneLoaded
  BY <1>3 DEF SceneLoadsEntity, SceneLoaded, Adopt, AdoptIn, entityVars
<1>4. CASE UNCHANGED allVars
  BY <1>4 DEF allVars, entityVars
<1>5. QED
  BY <1>1, <1>2, <1>3, <1>4 DEF SceneNext

LEMMA KindFixed ==
  ASSUME "SetSprite" \notin Calls, [SceneNext]_allVars
  PROVE  spriteless' = spriteless
BY SpritesFixed DEF ScriptSetsSprite, MayCall

LEMMA KindUnchanged ==
  ASSUME spriteless' = spriteless
  PROVE  \A e : ShouldEntityBeAlwaysActive(e)' <=> ShouldEntityBeAlwaysActive(e)
BY DEF ShouldEntityBeAlwaysActive, IsTemporary

(* The list of active entities takes in only such as belong there.         *)
LEMMA ActiveGrows ==
  ASSUME IndexInv, RefInv, [SceneNext]_allVars
  PROVE  \A x \in Active' : x \in Active \/ ShouldEntityBeAlwaysActive(x)
<1> SUFFICES ASSUME NEW x \in Active', x \notin Active
             PROVE  ShouldEntityBeAlwaysActive(x)
  OBVIOUS
<1>1. ASSUME NEW e \in Entity, NEW h, Adopt(e, h) PROVE ShouldEntityBeAlwaysActive(x)
  <2> DEFINE d == dynamicOrTempEntities
  <2>1. CASE ShouldEntityBeAlwaysActive(e)
    <3>1. d' = Append(d, e) /\ d \in Seq(Entity)
      BY <1>1, <2>1 DEF Adopt, AdoptIn, RefInv, CountsOK
    <3>2. Active' = Active \union {e}
      BY <3>1 DEF Active
    <3>3. QED
      BY <2>1, <3>2
  <2>2. CASE ~ShouldEntityBeAlwaysActive(e)
    BY <1>1, <2>2 DEF Adopt, AdoptIn, Active
  <2>3. QED
    BY <2>1, <2>2
<1>2. CASE RemoveDead \/ RemoveFinished
  BY <1>2, RemovedActive DEF RemoveDead, RemoveFinished, Iterates, RemoveAtIter,
                             RefInv, PlacesOK
<1>3. CASE UNCHANGED dynamicOrTempEntities
  BY <1>3 DEF Active
<1>4. CASE SceneLoadsEntity \/ ScriptAddsEntity
  BY <1>1, <1>4 DEF SceneLoadsEntity, ScriptAddsEntity
<1>5. CASE SceneLoaded \/ (ScriptCall /\ ~ScriptAddsEntity)
  BY <1>3, <1>5 DEF SceneLoaded, ScriptCall, ScriptMovesEntity,
     ScriptDeletesEntity, ScriptForcesRendering, ScriptHidesEntity,
     ScriptSetsSprite, ScriptTakesHandle, ScriptDropsHandle, ScaleBegins, listVars
<1>6. CASE Engine /\ ~(RemoveDead \/ RemoveFinished)
  BY <1>3, <1>6 DEF Engine, OnSceneLoadedReturns, BeginFrame,
     ContactCallbacksReturn, UpdateActive, CallbackReturns, BeginSceneUpdate,
     OnSceneUpdateReturns, MapEntitiesToBeRendered, UpdateFrameEntity,
     FrameCallbackReturns, EndUpdate, RenderPieces, FrameResolves, ResolveOne,
     ResolveEnds, EndFrame, ScaleOne, ScaleResolves, listVars
<1>7. QED
  BY <1>2, <1>3, <1>4, <1>5, <1>6 DEF SceneNext, allVars, listVars

LEMMA SplitInvStep ==
  ASSUME "SetSprite" \notin Calls, IndexInv, RefInv, SplitInv, [SceneNext]_allVars
  PROVE  SplitInv'
<1>1. \A e : ShouldEntityBeAlwaysActive(e)' <=> ShouldEntityBeAlwaysActive(e)
  BY KindFixed, KindUnchanged
<1>2. \A e \in Active' : ShouldEntityBeAlwaysActive(e)
  BY ActiveGrows DEF SplitInv
<1>3. /\ \A e \in Entity : ShouldEntityBeAlwaysActive(e) => lastFrameCallbacks'[e] = 0
      /\ phase' = "frameEntities" =>
           \A e \in thisEntity' : ~ShouldEntityBeAlwaysActive(e)
  <2>1. CASE MapEntitiesToBeRendered
    <3>1. thisEntity' = {}
      BY <2>1 DEF MapEntitiesToBeRendered, RefInv, PlacesOK
    <3>2. PICK view \in Views :
            lastFrameCallbacks' = Plus(lastFrameCallbacks, [e \in Entity |->
              IF IsStaticCallbackEligible(e) THEN Listings(view)[e] ELSE 0])
      BY <2>1 DEF MapEntitiesToBeRendered
    <3>3. QED
      BY <3>1, <3>2 DEF SplitInv, Plus, IsStaticCallbackEligible
  <2>2. CASE UpdateFrameEntity
    <3>1. PICK e \in Entity :
            /\ lastFrameCallbacks[e] > 0
            /\ \/ thisEntity' = {e} /\ UNCHANGED lastFrameCallbacks
               \/ /\ lastFrameCallbacks' = Minus(lastFrameCallbacks, One({e}))
                  /\ UNCHANGED thisEntity
      BY <2>2 DEF UpdateFrameEntity, LeavesFrame
    <3>2. ~ShouldEntityBeAlwaysActive(e)
      BY <3>1 DEF SplitInv
    <3>3. phase = "frameEntities"
      BY <2>2 DEF UpdateFrameEntity
    <3>4. QED
      BY <3>1, <3>2, <3>3 DEF SplitInv, Minus, One
  <2>3. CASE FrameCallbackReturns
    BY <2>3 DEF FrameCallbackReturns, Returns, LeavesFrame, SplitInv, Minus, One
  <2>4. CASE UNCHANGED lastFrameCallbacks /\ UNCHANGED <<phase, thisEntity>>
    BY <2>4 DEF SplitInv
  <2>5. CASE UNCHANGED lastFrameCallbacks /\ phase' # "frameEntities"
    BY <2>5 DEF SplitInv
  <2>6. CASE SceneLoadsEntity \/ SceneLoaded \/ ScriptCall \/ UNCHANGED allVars
    BY <2>4, <2>6 DEF SceneLoadsEntity, SceneLoaded, ScriptCall, ScriptAddsEntity,
       ScriptMovesEntity, ScriptDeletesEntity, ScriptForcesRendering,
       ScriptHidesEntity, ScriptSetsSprite, ScriptTakesHandle, ScriptDropsHandle,
       ScaleBegins, Adopt, AdoptIn, scriptVars, listVars, allVars
  <2>7. CASE RemoveDead \/ RemoveFinished \/ FrameResolves \/ ResolveOne
             \/ ResolveEnds \/ ScaleOne \/ ScaleResolves
    BY <2>4, <2>7 DEF RemoveDead, RemoveFinished, RemoveAtIter, FrameResolves,
       ResolveOne, ResolveEnds, ScaleOne, ScaleResolves, scriptVars, listVars
  <2>8. CASE \/ OnSceneLoadedReturns \/ BeginFrame \/ ContactCallbacksReturn
             \/ UpdateActive \/ CallbackReturns \/ BeginSceneUpdate
             \/ OnSceneUpdateReturns \/ EndUpdate \/ RenderPieces \/ EndFrame
    BY <2>5, <2>8 DEF OnSceneLoadedReturns, BeginFrame, ContactCallbacksReturn,
       UpdateActive, CallbackReturns, BeginSceneUpdate, OnSceneUpdateReturns,
       EndUpdate, RenderPieces, EndFrame, Iterates, listVars
  <2>9. QED
    BY <2>1, <2>2, <2>3, <2>6, <2>7, <2>8 DEF SceneNext, Engine
<1>4. QED
  BY <1>1, <1>2, <1>3 DEF SplitInv

(* The assert of TestEntityLists: no entity is in both lists, and so none  *)
(* is updated by both passes, provided that no script calls SetSprite;     *)
(* with it the assert fails (the run scene_lists).                         *)
THEOREM ListsAreDisjoint ==
  ASSUME "SetSprite" \notin Calls PROVE SceneSpec => []TestEntityLists
<1>1. SceneInit => SplitInv
  BY DEF SceneInit, SplitInv, Active, None
<1>2. SplitInv => TestEntityLists
  <2> SUFFICES ASSUME SplitInv, NEW e \in Entity, lastFrameCallbacks[e] # 0
               PROVE  ActiveCount(e) = 0
    BY DEF TestEntityLists
  <2>1. {i \in 1 .. Len(dynamicOrTempEntities) : dynamicOrTempEntities[i] = e} = {}
    BY DEF SplitInv, Active
  <2>2. QED
    BY <2>1, FS_EmptySet DEF ActiveCount
<1>3. IndexInv /\ RefInv /\ SplitInv /\ [SceneNext]_allVars => SplitInv'
  BY SplitInvStep
<1>4. QED
  BY <1>1, <1>2, <1>3, SceneRefInvariant, PTL DEF SceneSpec

-------------------------------------------------------------------------------
(* What a step does to the list of the active entities                     *)

(* ETHScene::AddEntity, from the file or from a script.                    *)
LEMMA Additions ==
  ASSUME SceneLoadsEntity \/ ScriptAddsEntity
  PROVE  \E e \in Entity :
           /\ e \notin constructed
           /\ constructed' = constructed \union {e}
           /\ alive' = [alive EXCEPT ![e] = TRUE]
           /\ dynamicOrTempEntities' = IF ShouldEntityBeAlwaysActive(e)
                                       THEN Append(dynamicOrTempEntities, e)
                                       ELSE dynamicOrTempEntities
           /\ UNCHANGED <<scriptVars, lastFrameCallbacks, piecesToRender,
                          persistentEntities, spriteless, updates>>
<1>1. ASSUME NEW e \in Entity, NEW i, NEW p, AddEntity(e, i, p), NEW h, Adopt(e, h)
      PROVE  /\ e \notin constructed
             /\ constructed' = constructed \union {e}
             /\ alive' = [alive EXCEPT ![e] = TRUE]
             /\ dynamicOrTempEntities' = IF ShouldEntityBeAlwaysActive(e)
                                         THEN Append(dynamicOrTempEntities, e)
                                         ELSE dynamicOrTempEntities
             /\ UNCHANGED <<scriptVars, lastFrameCallbacks, piecesToRender,
                            persistentEntities, spriteless, updates>>
  <2>1. /\ e \notin constructed
        /\ constructed' = constructed \union {e}
        /\ alive' = [alive EXCEPT ![e] = TRUE]
    BY <1>1 DEF AddEntity
  <2>2. UNCHANGED <<scriptVars, lastFrameCallbacks, piecesToRender,
                    persistentEntities, spriteless, updates>>
    BY <1>1 DEF Adopt, AdoptIn, scriptVars
  <2>3. CASE ShouldEntityBeAlwaysActive(e)
    BY <1>1, <2>1, <2>2, <2>3 DEF Adopt, AdoptIn
  <2>4. CASE ~ShouldEntityBeAlwaysActive(e)
    BY <1>1, <2>1, <2>2, <2>4 DEF Adopt, AdoptIn
  <2>5. QED
    BY <2>3, <2>4
<1>2. CASE SceneLoadsEntity
  BY <1>1, <1>2 DEF SceneLoadsEntity, LoadEntityFromFile
<1>3. CASE ScriptAddsEntity
  BY <1>1, <1>3 DEF ScriptAddsEntity, AddEntityFromScript
<1>4. QED
  BY <1>2, <1>3

(* Every other step but the removals leaves the list and the scene's       *)
(* entities alone.                                                         *)
LEMMA ActiveStays ==
  ASSUME [SceneNext]_allVars, ~SceneLoadsEntity, ~ScriptAddsEntity,
         ~RemoveDead, ~RemoveFinished
  PROVE  UNCHANGED <<dynamicOrTempEntities, constructed>>
<1>1. CASE SceneLoaded \/ UNCHANGED allVars
  BY <1>1 DEF SceneLoaded, FinishLoading, allVars, vars, sceneVars, listVars
<1>2. CASE ScriptCall
  BY <1>2 DEF ScriptCall, ScriptMovesEntity, ScriptDeletesEntity,
     ScriptForcesRendering, ScriptHidesEntity, ScriptSetsSprite,
     ScriptTakesHandle, ScriptDropsHandle, ScaleBegins, SetPosition,
     DeleteEntity, vars, sceneVars, listVars
<1>3. CASE \/ OnSceneLoadedReturns \/ BeginFrame \/ ContactCallbacksReturn
           \/ UpdateActive \/ CallbackReturns
           \/ BeginSceneUpdate \/ OnSceneUpdateReturns
  BY <1>3 DEF OnSceneLoadedReturns, BeginFrame, ContactCallbacksReturn,
     UpdateActive, FollowBody, SetPosition, CallbackReturns, BeginSceneUpdate,
     OnSceneUpdateReturns, Returns, vars, sceneVars, listVars
<1>4. CASE \/ MapEntitiesToBeRendered \/ UpdateFrameEntity \/ FrameCallbackReturns
           \/ EndUpdate \/ RenderPieces \/ EndFrame
  BY <1>4 DEF MapEntitiesToBeRendered, UpdateFrameEntity, FrameCallbackReturns,
     EndUpdate, RenderPieces, EndFrame, Returns, vars, sceneVars, listVars
<1>5. CASE \/ FrameResolves \/ ResolveOne \/ ResolveEnds \/ ScaleOne \/ ScaleResolves
  BY <1>5 DEF FrameResolves, ResolveOne, ResolveEnds, ScaleOne, ScaleResolves,
     BeginResolve, ResolveNext, EndResolve, SetPosition, vars, sceneVars, listVars
<1>6. QED
  BY <1>1, <1>2, <1>3, <1>4, <1>5 DEF SceneNext, Engine

(* No step brings an entity back to life.                                  *)
LEMMA NoneRevives ==
  ASSUME IndexInv, [Next]_vars
  PROVE  \A e \in constructed : alive'[e] => alive[e]
<1>1. ASSUME NEW e \in Entity, DeleteEntity(e)
      PROVE  \A f \in constructed : alive'[f] => alive[f]
  BY <1>1, DeleteEntityKills DEF IndexInv, TypeOK
<1>2. CASE ResolveNext
  BY <1>2, ResolveNextEffect
<1>3. ASSUME NEW e \in Entity, NEW i, NEW p, AddEntity(e, i, p)
      PROVE  \A f \in constructed : alive'[f] => alive[f]
  BY <1>3 DEF AddEntity, IndexInv, TypeOK
<1>4. ASSUME NEW e \in Entity, NEW p \in Position, SetPosition(e, p)
      PROVE  \A f \in constructed : alive'[f] => alive[f]
  BY <1>4 DEF SetPosition
<1>5. CASE FinishLoading \/ BeginResolve \/ EndResolve \/ UNCHANGED vars
  BY <1>5 DEF FinishLoading, BeginResolve, EndResolve, vars, sceneVars
<1>6. QED
  BY <1>1, <1>2, <1>3, <1>4, <1>5 DEF Next, ResolveMoveRequests,
     LoadEntityFromFile, AddEntityFromScript

-------------------------------------------------------------------------------
(* The list of the active entities is complete                             *)

(* The entities that belong to the list when the scene is given them: an   *)
(* entity is listed or not when it is added, and never again.              *)
StartsActive(e) ==
  (e \in Scripted \union Body /\ e \notin Static) \/ e \in Particles \intersect Spriteless
ActiveInv ==
  /\ \A e \in constructed : alive[e] /\ StartsActive(e) => e \in Active
  /\ \A e \in Entity \ constructed : e \in spriteless <=> e \in Spriteless

(* A script can set the sprite of an entity that exists, and of no other.  *)
LEMMA SpritesOfNew ==
  ASSUME IndexInv, RefInv, ActiveInv, [SceneNext]_allVars
  PROVE  \A e \in Entity \ constructed : e \in spriteless' <=> e \in Spriteless
<1>1. CASE ScriptSetsSprite
  <2>1. PICK e \in Entity : /\ Reaches(e)
                            /\ spriteless' \in {spriteless \union {e}, spriteless \ {e}}
    BY <1>1 DEF ScriptSetsSprite
  <2>2. e \in constructed
    BY <2>1 DEF Reaches, RefInv, PlacesOK, IndexInv, EntitiesExist, IsListed
  <2>3. QED
    BY <2>1, <2>2 DEF ActiveInv
<1>2. ASSUME ~ScriptSetsSprite PROVE spriteless' = spriteless
  BY <1>2, SpritesFixed
<1>3. QED
  BY <1>1, <1>2 DEF ActiveInv

LEMMA ActiveInvStep ==
  ASSUME IndexInv, ScalingOK, RefInv, ActiveInv, [SceneNext]_allVars
  PROVE  ActiveInv'
<1>1. \A e \in constructed : alive'[e] => alive[e]
  BY SceneStep, NoneRevives DEF IndexInv
<1>2. CASE SceneLoadsEntity \/ ScriptAddsEntity
  <2>1. PICK e \in Entity :
          /\ e \notin constructed
          /\ constructed' = constructed \union {e}
          /\ dynamicOrTempEntities' = IF ShouldEntityBeAlwaysActive(e)
                                      THEN Append(dynamicOrTempEntities, e)
                                      ELSE dynamicOrTempEntities
    BY <1>2, Additions
  <2>2. StartsActive(e) <=> ShouldEntityBeAlwaysActive(e)
    BY <2>1 DEF ActiveInv, StartsActive, ShouldEntityBeAlwaysActive, IsTemporary
  <2>3. Active' = IF ShouldEntityBeAlwaysActive(e) THEN Active \union {e} ELSE Active
    <3>1. CASE ShouldEntityBeAlwaysActive(e)
      <4>1. /\ dynamicOrTempEntities' = Append(dynamicOrTempEntities, e)
            /\ dynamicOrTempEntities \in Seq(Entity)
        BY <2>1, <3>1 DEF RefInv, CountsOK
      <4>2. QED
        BY <3>1, <4>1 DEF Active
    <3>2. CASE ~ShouldEntityBeAlwaysActive(e)
      BY <2>1, <3>2 DEF Active
    <3>3. QED
      BY <3>1, <3>2
  <2>4. QED
    BY <1>1, <2>1, <2>2, <2>3, SpritesOfNew DEF ActiveInv, StartsActive
<1>3. CASE RemoveDead \/ RemoveFinished
  <2>1. PICK e \in Entity : /\ Iterates(e)
                            /\ RemoveAtIter
                            /\ (RemoveDead /\ ~alive[e]) \/ DeleteEntity(e)
    BY <1>3 DEF RemoveDead, RemoveFinished
  <2>2. Active' = Active \ {e}
    BY <2>1, RemovedActive DEF Iterates, RemoveAtIter, RefInv, PlacesOK
  <2>3. constructed' = constructed /\ ~alive'[e]
    BY <2>1, DeleteEntityKills DEF RemoveDead, DeleteEntity, vars, sceneVars
  <2>4. QED
    BY <1>1, <2>2, <2>3, SpritesOfNew DEF ActiveInv, StartsActive
<1>4. CASE UNCHANGED <<dynamicOrTempEntities, constructed>>
  BY <1>1, <1>4, SpritesOfNew DEF ActiveInv, StartsActive, Active
<1>5. QED
  BY <1>2, <1>3, <1>4, ActiveStays

(* What a script may do for the list to stay complete: SetSprite is not    *)
(* called, or no temporary entity is made with a sprite it could lose.     *)
TemporaryFromTheStart == "SetSprite" \notin Calls \/ Particles \subseteq Spriteless

SpritesKept == "SetSprite" \notin Calls => spriteless = Spriteless

LEMMA BelongsFromTheStart ==
  ASSUME TemporaryFromTheStart, SpritesKept, NEW e, ShouldEntityBeAlwaysActive(e)
  PROVE  StartsActive(e)
BY DEF TemporaryFromTheStart, SpritesKept, ShouldEntityBeAlwaysActive, IsTemporary,
       StartsActive

LEMMA ActiveListHolds ==
  ASSUME TemporaryFromTheStart, SpritesKept, IndexInv, RefInv, ActiveInv
  PROVE  ActiveListComplete
<1> SUFFICES ASSUME NEW e \in constructed, alive[e], ShouldEntityBeAlwaysActive(e)
             PROVE  ActiveCount(e) = 1
  BY DEF ActiveListComplete
<1>1. e \in Entity /\ e \in Active
  BY BelongsFromTheStart DEF ActiveInv, IndexInv, TypeOK
<1>2. QED
  BY <1>1, ActiveCounted DEF RefInv, PlacesOK, One

LEMMA SceneActiveInvariant ==
  SceneSpec => [](IndexInv /\ RefInv /\ ScalingOK /\ ActiveInv /\ SpritesKept)
<1>1. SceneInit => /\ IndexInv /\ ScalingOK /\ RefInv
                   /\ ActiveInv /\ SpritesKept
  BY InitIndexInv, InitRefInv DEF SceneInit, ScalingOK, Init, ActiveInv, SpritesKept
<1>2. SpritesKept /\ [SceneNext]_allVars => SpritesKept'
  BY KindFixed DEF SpritesKept
<1>3. IndexInv /\ ScalingOK /\ RefInv /\ ActiveInv /\ [SceneNext]_allVars
        => IndexInv' /\ ScalingOK' /\ RefInv' /\ ActiveInv'
  BY ScalingStep, SceneStep, IndexInvStep, RefInvStep, ActiveInvStep DEF IndexInv
<1>4. QED
  BY <1>1, <1>2, <1>3, PTL DEF SceneSpec

(* "This list will hold every temporary or dynamic entity with callbacks   *)
(* or physics": it holds each live one exactly once, though callbacks add  *)
(* and kill entities while it is iterated.  An entity is put in the list   *)
(* when it is added, so that a script must not make one temporary later.   *)
THEOREM ActiveListIsComplete ==
  ASSUME TemporaryFromTheStart PROVE SceneSpec => []ActiveListComplete
<1>1. SpritesKept /\ IndexInv /\ RefInv /\ ActiveInv => ActiveListComplete
  BY ActiveListHolds
<1>2. QED
  BY <1>1, SceneActiveInvariant, PTL

-------------------------------------------------------------------------------
(* The pass over the active entities                                       *)

(* Outside of the steps below the pass stays where it is, and updates      *)
(* none.                                                                   *)
LEMMA PassStays ==
  ASSUME [SceneNext]_allVars, phase' = "alwaysActive",
         ~SceneLoadsEntity, ~ScriptAddsEntity, ~RemoveDead, ~RemoveFinished,
         ~UpdateActive, ~ContactCallbacksReturn
  PROVE  UNCHANGED <<phase, iter, dynamicOrTempEntities, constructed, updates>>
<1>1. UNCHANGED <<dynamicOrTempEntities, constructed>>
  BY ActiveStays
<1>2. CASE SceneLoaded \/ UNCHANGED allVars
  BY <1>1, <1>2 DEF SceneLoaded, allVars, scriptVars
<1>3. CASE ScriptCall
  BY <1>1, <1>3 DEF ScriptCall, ScriptMovesEntity, ScriptDeletesEntity,
     ScriptForcesRendering, ScriptHidesEntity, ScriptSetsSprite,
     ScriptTakesHandle, ScriptDropsHandle, ScaleBegins, scriptVars
<1>4. CASE \/ OnSceneLoadedReturns \/ BeginFrame \/ CallbackReturns
           \/ BeginSceneUpdate \/ OnSceneUpdateReturns \/ MapEntitiesToBeRendered
           \/ UpdateFrameEntity \/ FrameCallbackReturns \/ EndUpdate
           \/ RenderPieces \/ EndFrame
  BY <1>1, <1>4 DEF OnSceneLoadedReturns, BeginFrame, CallbackReturns,
     BeginSceneUpdate, OnSceneUpdateReturns, MapEntitiesToBeRendered,
     UpdateFrameEntity, FrameCallbackReturns, EndUpdate, RenderPieces, EndFrame
<1>5. CASE \/ FrameResolves \/ ResolveOne \/ ResolveEnds \/ ScaleOne \/ ScaleResolves
  BY <1>1, <1>5 DEF FrameResolves, ResolveOne, ResolveEnds, ScaleOne,
     ScaleResolves, scriptVars
<1>6. QED
  BY <1>2, <1>3, <1>4, <1>5 DEF SceneNext, Engine

(* Only two steps update entities, and the frame begins by forgetting.     *)
LEMMA UpdatesStay ==
  ASSUME [SceneNext]_allVars, ~BeginFrame, ~UpdateActive, ~UpdateFrameEntity
  PROVE  updates' = updates
<1>1. CASE SceneLoadsEntity \/ SceneLoaded \/ UNCHANGED allVars
  BY <1>1 DEF SceneLoadsEntity, SceneLoaded, Adopt, AdoptIn, allVars
<1>2. CASE ScriptCall
  BY <1>2 DEF ScriptCall, ScriptAddsEntity, ScriptMovesEntity,
     ScriptDeletesEntity, ScriptForcesRendering, ScriptHidesEntity,
     ScriptSetsSprite, ScriptTakesHandle, ScriptDropsHandle, ScaleBegins,
     Adopt, AdoptIn
<1>3. CASE \/ OnSceneLoadedReturns \/ ContactCallbacksReturn \/ RemoveDead
           \/ RemoveFinished \/ CallbackReturns \/ BeginSceneUpdate
           \/ OnSceneUpdateReturns \/ MapEntitiesToBeRendered
           \/ FrameCallbackReturns \/ EndUpdate
  BY <1>3 DEF OnSceneLoadedReturns, ContactCallbacksReturn, RemoveDead,
     RemoveFinished, CallbackReturns, BeginSceneUpdate, OnSceneUpdateReturns,
     MapEntitiesToBeRendered, FrameCallbackReturns, EndUpdate, RemoveAtIter
<1>4. CASE \/ RenderPieces \/ FrameResolves \/ ResolveOne \/ ResolveEnds
           \/ EndFrame \/ ScaleOne \/ ScaleResolves
  BY <1>4 DEF RenderPieces, FrameResolves, ResolveOne, ResolveEnds, EndFrame,
     ScaleOne, ScaleResolves
<1>5. QED
  BY <1>1, <1>2, <1>3, <1>4 DEF SceneNext, Engine

LEMMA UpdatesType ==
  ASSUME updates \in [Entity -> Nat], [SceneNext]_allVars
  PROVE  updates' \in [Entity -> Nat]
<1>1. ASSUME NEW e, updates' = Plus(updates, One({e}))
      PROVE  updates' \in [Entity -> Nat]
  <2>1. \A x \in Entity : updates[x] + One({e})[x] \in Nat
    BY OneType
  <2>2. QED
    BY <1>1, <2>1 DEF Plus
<1>2. CASE UpdateActive \/ UpdateFrameEntity
  BY <1>1, <1>2 DEF UpdateActive, UpdateFrameEntity
<1>3. CASE BeginFrame
  BY <1>3 DEF BeginFrame, None
<1>4. QED
  BY <1>2, <1>3, UpdatesStay

(* What lies before the iterator has been updated in this frame: entities  *)
(* are appended behind it, and an erasure moves the next one under it.     *)
PassInv ==
  /\ updates \in [Entity -> Nat]
  /\ phase = "alwaysActive" =>
       /\ iter \in 1 .. Len(dynamicOrTempEntities) + 1
       /\ \A i \in 1 .. iter - 1 : updates[dynamicOrTempEntities[i]] > 0

LEMMA PassInvStep ==
  ASSUME RefInv, PassInv, [SceneNext]_allVars
  PROVE  PassInv'
<1> DEFINE d == dynamicOrTempEntities
<1>1. updates' \in [Entity -> Nat]
  BY UpdatesType DEF PassInv
<1> SUFFICES ASSUME phase' = "alwaysActive"
             PROVE  /\ iter' \in 1 .. Len(d') + 1
                    /\ \A i \in 1 .. iter' - 1 : updates'[d'[i]] > 0
  BY <1>1 DEF PassInv
<1>2. d \in Seq(Entity)
  BY DEF RefInv, CountsOK
<1>3. CASE SceneLoadsEntity \/ ScriptAddsEntity
  <2>1. PICK e \in Entity :
          /\ d' = IF ShouldEntityBeAlwaysActive(e) THEN Append(d, e) ELSE d
          /\ UNCHANGED <<phase, iter, updates>>
    BY <1>3, Additions DEF scriptVars
  <2>2. CASE d' = d
    BY <2>1, <2>2 DEF PassInv
  <2>3. CASE d' = Append(d, e)
    <3>1. Len(d') = Len(d) + 1 /\ \A i \in 1 .. Len(d) : d'[i] = d[i]
      BY <1>2, <2>3
    <3>2. QED
      BY <1>2, <2>1, <3>1 DEF PassInv
  <2>4. QED
    BY <2>1, <2>2, <2>3
<1>4. CASE RemoveDead \/ RemoveFinished
  <2>1. /\ iter \in 1 .. Len(d)
        /\ d' = RemoveAt(d, iter)
        /\ UNCHANGED <<phase, iter, updates>>
    BY <1>4 DEF RemoveDead, RemoveFinished, Iterates, RemoveAtIter, scriptVars
  <2>2. /\ Len(d') = Len(d) - 1
        /\ \A k \in 1 .. Len(d) - 1 : d'[k] = IF k < iter THEN d[k] ELSE d[k + 1]
    BY <2>1, ActiveRemovedAt DEF RefInv
  <2>3. QED
    BY <1>2, <2>1, <2>2 DEF PassInv
<1>5. CASE UpdateActive
  <2>1. PICK e \in Entity : /\ Iterates(e)
                            /\ iter' = iter + 1
                            /\ updates' = Plus(updates, One({e}))
                            /\ d' = d /\ phase' = phase
    BY <1>5 DEF UpdateActive, listVars
  <2>2. \A x \in Entity : updates'[x] >= updates[x]
    BY <2>1, PlusMinus, OneType DEF PassInv
  <2>3. updates'[e] > 0
    BY <2>1, PlusMinus DEF PassInv, One
  <2>4. ASSUME NEW i \in 1 .. iter PROVE updates'[d[i]] > 0
    <3>1. CASE i = iter
      BY <2>1, <2>3, <3>1 DEF Iterates
    <3>2. CASE i # iter
      <4>1. i \in 1 .. Len(d) /\ i \in 1 .. iter - 1
        BY <1>2, <2>1, <3>2 DEF Iterates
      <4>2. d[i] \in Entity /\ updates[d[i]] > 0
        BY <1>2, <2>1, <4>1 DEF Iterates, PassInv
      <4>3. QED
        BY <1>1, <2>2, <4>2 DEF PassInv
    <3>3. QED
      BY <3>1, <3>2
  <2>5. /\ Len(d) \in Nat /\ iter \in 1 .. Len(d)
        /\ d' = d /\ iter' = iter + 1
    BY <1>2, <2>1 DEF Iterates
  <2> HIDE DEF d
  <2>6. iter' \in 1 .. Len(d') + 1 /\ 1 .. iter' - 1 = 1 .. iter
    BY <2>5
  <2>7. QED
    BY <2>4, <2>5, <2>6
<1>6. CASE ContactCallbacksReturn
  BY <1>2, <1>6 DEF ContactCallbacksReturn, listVars
<1>7. CASE UNCHANGED <<phase, iter, dynamicOrTempEntities, updates>>
  BY <1>7 DEF PassInv
<1>8. QED
  BY <1>3, <1>4, <1>5, <1>6, <1>7, PassStays

(* No active entity is left out of a frame: at the end of the pass all     *)
(* that live have been updated, though the list was iterated by position   *)
(* while callbacks added and killed entities.                              *)
THEOREM ActivesAreUpdated ==
  ASSUME TemporaryFromTheStart PROVE SceneSpec => ActiveAllUpdated
<1>1. SceneInit => PassInv
  BY DEF SceneInit, PassInv, None
<1>2. IndexInv /\ RefInv /\ ActiveInv /\ SpritesKept /\ PassInv /\ [SceneNext]_allVars
        => [phase = "alwaysActive" /\ phase' = "sceneUpdate" =>
              \A e \in constructed :
                alive[e] /\ ShouldEntityBeAlwaysActive(e) => updates[e] > 0]_allVars
  <2> SUFFICES ASSUME IndexInv, RefInv, ActiveInv, SpritesKept, PassInv, SceneNext,
                      phase = "alwaysActive", phase' = "sceneUpdate",
                      NEW e \in constructed, alive[e], ShouldEntityBeAlwaysActive(e)
               PROVE  updates[e] > 0
    OBVIOUS
  <2>1. iter > Len(dynamicOrTempEntities)
    <3>1. CASE SceneLoadsEntity \/ SceneLoaded
      BY <3>1 DEF SceneLoadsEntity, SceneLoaded, Adopt, AdoptIn, scriptVars
    <3>2. CASE ScriptCall
      BY <3>2 DEF ScriptCall, ScriptAddsEntity, ScriptMovesEntity,
         ScriptDeletesEntity, ScriptForcesRendering, ScriptHidesEntity,
         ScriptSetsSprite, ScriptTakesHandle, ScriptDropsHandle, ScaleBegins,
         Adopt, AdoptIn, scriptVars
    <3>3. CASE Engine
      BY <3>3 DEF Engine, OnSceneLoadedReturns, BeginFrame, ContactCallbacksReturn,
         RemoveDead, RemoveFinished, UpdateActive, CallbackReturns,
         BeginSceneUpdate, OnSceneUpdateReturns, MapEntitiesToBeRendered,
         UpdateFrameEntity, FrameCallbackReturns, EndUpdate, RenderPieces,
         FrameResolves, ResolveOne, ResolveEnds, EndFrame, ScaleOne,
         ScaleResolves, RemoveAtIter, scriptVars
    <3>4. QED
      BY <3>1, <3>2, <3>3 DEF SceneNext
  <2>2. e \in Active
    BY BelongsFromTheStart DEF ActiveInv
  <2>3. PICK i \in 1 .. Len(dynamicOrTempEntities) : dynamicOrTempEntities[i] = e
    BY <2>2 DEF Active
  <2>4. i \in 1 .. iter - 1
    BY <2>1, <2>3 DEF PassInv, RefInv, CountsOK
  <2>5. QED
    BY <2>3, <2>4 DEF PassInv
<1>3. RefInv /\ PassInv /\ [SceneNext]_allVars => PassInv'
  BY PassInvStep
<1>4. QED
  BY <1>1, <1>2, <1>3, SceneActiveInvariant, PTL DEF SceneSpec, ActiveAllUpdated

-------------------------------------------------------------------------------
(* No entity is updated twice                                              *)

BeforeFrameEntities == {"physics", "alwaysActive", "sceneUpdate", "map"}

(* The pass over the active entities has not updated what is at or behind  *)
(* its iterator, nor an entity that is not there yet; the entities of the  *)
(* other list are not updated before theirs, and are in it once at most.   *)
OnceInv ==
  /\ \A e \in Entity : updates[e] <= 1
  /\ phase = "physics" => updates = None
  /\ phase = "alwaysActive" =>
       /\ \A i \in 1 .. Len(dynamicOrTempEntities) :
            i >= iter => updates[dynamicOrTempEntities[i]] = 0
       /\ \A e \in Entity \ constructed : updates[e] = 0
  /\ phase \in BeforeFrameEntities =>
       \A e \in Entity : ~ShouldEntityBeAlwaysActive(e) => updates[e] = 0
  /\ phase = "frameEntities" =>
       \A e \in Entity :
         /\ lastFrameCallbacks[e] <= 1
         /\ lastFrameCallbacks[e] > 0 /\ e \notin thisEntity => updates[e] = 0

(* The steps that neither update nor fill a list.                          *)
LEMMA OnceStays ==
  ASSUME [SceneNext]_allVars, ~BeginFrame, ~ContactCallbacksReturn,
         ~MapEntitiesToBeRendered, ~UpdateFrameEntity, ~FrameCallbackReturns,
         ~UpdateActive
  PROVE  /\ phase' = "physics" => phase = "physics"
         /\ phase' \in BeforeFrameEntities => phase \in BeforeFrameEntities
         /\ phase' = "frameEntities" =>
              UNCHANGED <<phase, lastFrameCallbacks, thisEntity>>
<1>1. CASE SceneLoadsEntity \/ SceneLoaded \/ UNCHANGED allVars
  BY <1>1 DEF SceneLoadsEntity, SceneLoaded, Adopt, AdoptIn, allVars, scriptVars,
              listVars
<1>2. CASE ScriptCall
  BY <1>2 DEF ScriptCall, ScriptAddsEntity, ScriptMovesEntity,
     ScriptDeletesEntity, ScriptForcesRendering, ScriptHidesEntity,
     ScriptSetsSprite, ScriptTakesHandle, ScriptDropsHandle, ScaleBegins,
     Adopt, AdoptIn, scriptVars, listVars
<1>3. CASE \/ OnSceneLoadedReturns \/ RemoveDead \/ RemoveFinished
           \/ CallbackReturns \/ BeginSceneUpdate \/ OnSceneUpdateReturns
           \/ EndUpdate
  BY <1>3 DEF OnSceneLoadedReturns, RemoveDead, RemoveFinished, CallbackReturns,
     BeginSceneUpdate, OnSceneUpdateReturns, EndUpdate, Iterates, RemoveAtIter,
     scriptVars, BeforeFrameEntities
<1>4. CASE \/ RenderPieces \/ FrameResolves \/ ResolveOne \/ ResolveEnds
           \/ EndFrame \/ ScaleOne \/ ScaleResolves
  BY <1>4 DEF RenderPieces, FrameResolves, ResolveOne, ResolveEnds, EndFrame,
     ScaleOne, ScaleResolves, scriptVars, listVars, BeforeFrameEntities
<1>5. QED
  BY <1>1, <1>2, <1>3, <1>4 DEF SceneNext, Engine

(* The part about the pass over the active entities.                       *)
LEMMA PassOnceStep ==
  ASSUME RefInv, PassInv, OnceInv, [SceneNext]_allVars, phase' = "alwaysActive"
  PROVE  /\ \A i \in 1 .. Len(dynamicOrTempEntities') :
              i >= iter' => updates'[dynamicOrTempEntities'[i]] = 0
         /\ \A e \in Entity \ constructed' : updates'[e] = 0
<1> DEFINE d == dynamicOrTempEntities
<1>1. d \in Seq(Entity)
  BY DEF RefInv, CountsOK
<1>2. CASE SceneLoadsEntity \/ ScriptAddsEntity
  <2>1. PICK e \in Entity :
          /\ e \notin constructed
          /\ constructed' = constructed \union {e}
          /\ d' = IF ShouldEntityBeAlwaysActive(e) THEN Append(d, e) ELSE d
          /\ UNCHANGED <<phase, iter, updates>>
    BY <1>2, Additions DEF scriptVars
  <2>2. CASE d' = d
    BY <2>1, <2>2 DEF OnceInv
  <2>3. CASE d' = Append(d, e)
    <3>1. /\ Len(d') = Len(d) + 1 /\ d'[Len(d) + 1] = e
          /\ \A i \in 1 .. Len(d) : d'[i] = d[i]
      BY <1>1, <2>3
    <3>2. updates[e] = 0 /\ \A i \in 1 .. Len(d) : i >= iter => updates[d[i]] = 0
      BY <2>1 DEF OnceInv
    <3>3. \A i \in 1 .. Len(d') : i \in 1 .. Len(d) \/ i = Len(d) + 1
      BY <1>1, <3>1
    <3>4. QED
      BY <2>1, <3>1, <3>2, <3>3 DEF OnceInv
  <2>4. QED
    BY <2>1, <2>2, <2>3
<1>3. CASE RemoveDead \/ RemoveFinished
  <2>1. /\ iter \in 1 .. Len(d)
        /\ d' = RemoveAt(d, iter)
        /\ constructed' = constructed
        /\ UNCHANGED <<phase, iter, updates>>
    BY <1>3 DEF RemoveDead, RemoveFinished, Iterates, RemoveAtIter, scriptVars,
                DeleteEntity, vars, sceneVars
  <2>2. /\ Len(d') = Len(d) - 1
        /\ \A k \in 1 .. Len(d) - 1 : d'[k] = IF k < iter THEN d[k] ELSE d[k + 1]
    BY <2>1, ActiveRemovedAt DEF RefInv
  <2>3. ASSUME NEW i \in 1 .. Len(d'), i >= iter' PROVE updates'[d'[i]] = 0
    <3>1. i + 1 \in 1 .. Len(d) /\ i + 1 >= iter /\ d'[i] = d[i + 1]
      BY <1>1, <2>1, <2>2, <2>3
    <3>2. QED
      BY <2>1, <3>1 DEF OnceInv
  <2>4. QED
    BY <2>1, <2>3 DEF OnceInv
<1>4. CASE UpdateActive
  <2>1. PICK e \in Entity : /\ Iterates(e)
                            /\ iter' = iter + 1
                            /\ updates' = Plus(updates, One({e}))
                            /\ d' = d /\ constructed' = constructed
    BY <1>4, ActiveStays DEF UpdateActive, listVars, FollowBody, SetPosition, vars,
                             sceneVars
  <2>2. \A x \in Entity : x # e => updates'[x] = updates[x]
    BY <2>1, PlusMinus DEF One, PassInv
  <2>3. ASSUME NEW i \in 1 .. Len(d'), i >= iter' PROVE updates'[d'[i]] = 0
    <3>1. /\ i \in 1 .. Len(d) /\ iter \in 1 .. Len(d) /\ i >= iter /\ i # iter
          /\ d' = d /\ d[iter] = e
      BY <1>1, <2>1, <2>3 DEF Iterates
    <3>2. d[i] \in Entity /\ d[i] # e
      BY <1>1, <3>1 DEF RefInv, PlacesOK, ActiveOnce
    <3>3. QED
      BY <2>1, <2>2, <3>1, <3>2 DEF OnceInv, Iterates
  <2>4. e \in constructed
    BY <1>1, <2>1 DEF RefInv, PlacesOK, Active, Iterates
  <2>5. QED
    BY <2>1, <2>2, <2>3, <2>4 DEF OnceInv, Iterates
<1>5. CASE ContactCallbacksReturn
  BY <1>1, <1>5 DEF ContactCallbacksReturn, Returns, listVars, vars, sceneVars,
                    OnceInv, None
<1>6. CASE UNCHANGED <<phase, iter, dynamicOrTempEntities, constructed, updates>>
  BY <1>6 DEF OnceInv
<1>7. QED
  BY <1>2, <1>3, <1>4, <1>5, <1>6, PassStays

(* The parts about the entities of the other list.                         *)
LEMMA FrameOnceStep ==
  ASSUME "SetSprite" \notin Calls, IndexInv, RefInv, FrameInv, SplitInv, PassInv,
         OnceInv, [SceneNext]_allVars
  PROVE  /\ \A e \in Entity : updates'[e] <= 1
         /\ phase' = "physics" => updates' = None
         /\ phase' \in BeforeFrameEntities =>
              \A e \in Entity : ~ShouldEntityBeAlwaysActive(e) => updates'[e] = 0
         /\ phase' = "frameEntities" =>
              \A e \in Entity :
                /\ lastFrameCallbacks'[e] <= 1
                /\ lastFrameCallbacks'[e] > 0 /\ e \notin thisEntity'
                     => updates'[e] = 0
<1>1. CASE BeginFrame
  BY <1>1 DEF BeginFrame, None
<1>2. CASE ContactCallbacksReturn
  BY <1>2 DEF ContactCallbacksReturn, OnceInv, BeforeFrameEntities
<1>3. CASE UpdateActive
  <2>1. PICK e \in Entity : /\ Iterates(e)
                            /\ updates' = Plus(updates, One({e}))
                            /\ phase' = phase
    BY <1>3 DEF UpdateActive
  <2>2. /\ phase = "alwaysActive"
        /\ e \in Active
        /\ updates[e] = 0
    <3>1. /\ phase = "alwaysActive" /\ iter \in 1 .. Len(dynamicOrTempEntities)
          /\ e = dynamicOrTempEntities[iter]
      BY <2>1 DEF Iterates
    <3>2. updates[e] = 0
      BY <3>1 DEF OnceInv
    <3>3. QED
      BY <3>1, <3>2 DEF Active
  <2>3. \A x \in Entity : updates'[x] = IF x = e THEN 1 ELSE updates[x]
    BY <2>1, <2>2, PlusMinus DEF One, PassInv
  <2>4. ShouldEntityBeAlwaysActive(e)
    BY <2>2 DEF SplitInv
  <2>5. ASSUME NEW x \in Entity
        PROVE  /\ updates'[x] <= 1
               /\ ~ShouldEntityBeAlwaysActive(x) => updates'[x] = 0
    BY <2>2, <2>3, <2>4 DEF OnceInv, BeforeFrameEntities
  <2>6. QED
    BY <2>1, <2>2, <2>5
<1>4. CASE MapEntitiesToBeRendered
  <2>1. /\ phase = "map" /\ phase' = "frameEntities" /\ updates' = updates
        /\ lastFrameCallbacks = None
    BY <1>4 DEF MapEntitiesToBeRendered, FrameInv
  <2>2. PICK view \in Views :
          lastFrameCallbacks' = Plus(lastFrameCallbacks, [e \in Entity |->
            IF IsStaticCallbackEligible(e) THEN Listings(view)[e] ELSE 0])
    BY <1>4 DEF MapEntitiesToBeRendered
  <2>3. view \in SUBSET Bucket
    BY ViewsAssumption
  <2>4. ASSUME NEW e \in Entity
        PROVE  /\ lastFrameCallbacks'[e] \in {0, 1}
               /\ lastFrameCallbacks'[e] > 0 => ~ShouldEntityBeAlwaysActive(e)
    <3>1. Listings(view)[e] \in {0, 1}
      BY <2>3, ListingsType
    <3>2. lastFrameCallbacks'[e] = 0 + (IF IsStaticCallbackEligible(e)
                                        THEN Listings(view)[e] ELSE 0)
      BY <2>1, <2>2 DEF Plus, None
    <3> HIDE DEF Listings
    <3>3. QED
      BY <3>1, <3>2 DEF IsStaticCallbackEligible
  <2>5. QED
    BY <2>1, <2>4 DEF OnceInv, BeforeFrameEntities
<1>5. CASE UpdateFrameEntity
  <2>1. PICK e \in Entity :
          /\ lastFrameCallbacks[e] > 0
          /\ \/ /\ alive[e] /\ updates' = Plus(updates, One({e}))
             \/ ~alive[e] /\ updates' = updates
          /\ \/ /\ alive[e]
                /\ thisEntity' = {e} /\ lastFrameCallbacks' = lastFrameCallbacks
             \/ /\ lastFrameCallbacks' = Minus(lastFrameCallbacks, One({e}))
                /\ thisEntity' = thisEntity
    BY <1>5 DEF UpdateFrameEntity, LeavesFrame
  <2>2. /\ phase = "frameEntities" /\ phase' = phase /\ thisEntity = {}
    BY <1>5 DEF UpdateFrameEntity, RefInv, PlacesOK
  <2>3. updates[e] = 0 /\ lastFrameCallbacks[e] <= 1
    BY <2>1, <2>2 DEF OnceInv
  <2>4. ASSUME NEW x \in Entity
        PROVE  /\ updates'[x] <= 1
               /\ x # e => updates'[x] = updates[x]
               /\ lastFrameCallbacks'[x] <= 1
               /\ x # e => lastFrameCallbacks'[x] = lastFrameCallbacks[x]
               /\ x = e /\ x \notin thisEntity' => lastFrameCallbacks'[x] <= 0
    <3>1. One({e})[x] = IF x = e THEN 1 ELSE 0
      BY DEF One
    <3>2. /\ updates[x] \in Nat /\ updates[x] <= 1
          /\ lastFrameCallbacks[x] \in Int /\ lastFrameCallbacks[x] <= 1
      BY <2>2 DEF PassInv, OnceInv, RefInv, CountsOK
    <3>3. updates'[x] = updates[x] \/ updates'[x] = updates[x] + One({e})[x]
      BY <2>1, PlusMinus
    <3>4. \/ lastFrameCallbacks'[x] = lastFrameCallbacks[x] /\ thisEntity' = {e}
          \/ lastFrameCallbacks'[x] = lastFrameCallbacks[x] - One({e})[x]
      BY <2>1, PlusMinus
    <3>5. QED
      BY <2>3, <3>1, <3>2, <3>3, <3>4
  <2>5. ASSUME NEW x \in Entity, lastFrameCallbacks'[x] > 0, x \notin thisEntity'
        PROVE  updates'[x] = 0
    <3>1. x # e
      BY <2>4, <2>5, <2>1 DEF RefInv, CountsOK, Minus, One
    <3>2. QED
      BY <2>2, <2>4, <2>5, <3>1 DEF OnceInv
  <2>6. QED
    BY <2>2, <2>4, <2>5 DEF BeforeFrameEntities
<1>6. CASE FrameCallbackReturns
  <2>1. /\ phase = "frameEntities" /\ phase' = phase /\ thisEntity' = {}
        /\ updates' = updates
        /\ lastFrameCallbacks' = Minus(lastFrameCallbacks, One(thisEntity))
    BY <1>6 DEF FrameCallbackReturns, Returns, LeavesFrame
  <2>2. ASSUME NEW x \in Entity
        PROVE  /\ lastFrameCallbacks'[x] <= 1
               /\ lastFrameCallbacks'[x] > 0 => updates'[x] = 0
    <3>1. /\ One(thisEntity)[x] = IF x \in thisEntity THEN 1 ELSE 0
          /\ lastFrameCallbacks'[x] = lastFrameCallbacks[x] - One(thisEntity)[x]
      BY <2>1, PlusMinus DEF One
    <3>2. /\ lastFrameCallbacks[x] \in Int /\ lastFrameCallbacks[x] <= 1
          /\ lastFrameCallbacks[x] > 0 /\ x \notin thisEntity => updates[x] = 0
      BY <2>1 DEF OnceInv, RefInv, CountsOK
    <3>3. QED
      BY <2>1, <3>1, <3>2
  <2>3. QED
    BY <2>1, <2>2 DEF OnceInv, BeforeFrameEntities
<1>7. CASE ~(\/ BeginFrame \/ ContactCallbacksReturn \/ UpdateActive
             \/ MapEntitiesToBeRendered \/ UpdateFrameEntity \/ FrameCallbackReturns)
  <2>1. updates' = updates
    BY <1>7, UpdatesStay
  <2>2. /\ phase' = "physics" => phase = "physics"
        /\ phase' \in BeforeFrameEntities => phase \in BeforeFrameEntities
        /\ phase' = "frameEntities" =>
             UNCHANGED <<phase, lastFrameCallbacks, thisEntity>>
    BY <1>7, OnceStays
  <2>3. QED
    BY <2>1, <2>2 DEF OnceInv
<1>8. QED
  BY <1>1, <1>2, <1>3, <1>4, <1>5, <1>6, <1>7

LEMMA OnceInvStep ==
  ASSUME "SetSprite" \notin Calls, IndexInv, RefInv, FrameInv, SplitInv, PassInv,
         OnceInv, [SceneNext]_allVars
  PROVE  OnceInv'
<1>1. \A e : ShouldEntityBeAlwaysActive(e)' <=> ShouldEntityBeAlwaysActive(e)
  BY KindFixed, KindUnchanged
<1>2. QED
  BY <1>1, PassOnceStep, FrameOnceStep DEF OnceInv

(* However scripts move, add and kill entities while the engine iterates   *)
(* over its two lists, none is updated, or has its callback run by the     *)
(* engine, twice in a frame, provided that no script calls SetSprite.      *)
THEOREM NoneIsUpdatedTwice ==
  ASSUME "SetSprite" \notin Calls PROVE SceneSpec => []UpdatedOnce
<1>1. SceneInit => FrameInv /\ SplitInv /\ PassInv /\ OnceInv
  BY DEF SceneInit, FrameInv, SplitInv, PassInv, OnceInv, Active, None,
         BeforeFrameEntities
<1>2. OnceInv => UpdatedOnce
  BY DEF OnceInv, UpdatedOnce
<1>3. (/\ IndexInv /\ RefInv /\ FrameInv /\ SplitInv /\ PassInv /\ OnceInv
       /\ [SceneNext]_allVars)
        => FrameInv' /\ SplitInv' /\ PassInv' /\ OnceInv'
  BY FrameInvStep, SplitInvStep, PassInvStep, OnceInvStep
<1>4. QED
  BY <1>1, <1>2, <1>3, SceneRefInvariant, PTL DEF SceneSpec

-------------------------------------------------------------------------------
(* What is mapped to be drawn                                              *)

(* The bucket of the position of an entity that nothing is pending for is  *)
(* the one that lists it: either the camera sees that bucket, or the       *)
(* forcing counts.                                                         *)
LEMMA SettledIsMappedOnce ==
  ASSUME IndexInv, NEW view \in SUBSET Bucket, NEW e \in constructed, alive[e],
         PendingOf(e) = {}, e \notin hidden, persistentEntities[e] = 1
  PROVE  Listings(view)[e] + Forced(view)[e] = 1
<1> DEFINE b == GetBucket(position[e])
<1> DEFINE S == {c \in view : e \in entities[c]}
<1>1. e \in Entity /\ position[e] \in Position
  BY DEF IndexInv, TypeOK
<1>2. b \in Bucket /\ e \in entities[b]
  BY <1>1, BucketOfPosition DEF IndexInv, MovePath, PathEnds
<1>3. Listings(view)[e] = Cardinality(S)
  BY <1>1 DEF Listings
<1>4. S \subseteq {b} /\ (b \in S <=> b \in view)
  BY <1>1, <1>2 DEF IndexInv, ListedOnce
<1>5. Forced(view)[e] = IF b \in view THEN 0 ELSE 1
  BY <1>1 DEF Forced
<1> HIDE DEF b, S
<1>6. Cardinality(S) = IF b \in view THEN 1 ELSE 0
  BY <1>4, CardinalityOfOne
<1>7. QED
  BY <1>3, <1>5, <1>6

(* An entity whose index is up to date is drawn once when it is forced     *)
(* once and not hidden, whether or not the camera sees its bucket.         *)
THEOREM ForcedAreDrawnOnce == SceneSpec => SettledForcedDrawnOnce
<1>1. SceneInit => FrameInv
  BY DEF SceneInit, FrameInv
<1>2. IndexInv /\ RefInv /\ FrameInv /\ [SceneNext]_allVars
        => [Maps => \A e \in constructed :
              alive[e] /\ PendingOf(e) = {} /\ e \notin hidden
                /\ persistentEntities[e] = 1 => piecesToRender'[e] = 1]_allVars
  <2> SUFFICES ASSUME IndexInv, FrameInv, SceneNext, Maps, NEW e \in constructed,
                      alive[e], PendingOf(e) = {}, e \notin hidden,
                      persistentEntities[e] = 1
               PROVE  piecesToRender'[e] = 1
    OBVIOUS
  <2>1. MapEntitiesToBeRendered
    <3>1. CASE SceneLoadsEntity \/ SceneLoaded
      BY <3>1 DEF SceneLoadsEntity, SceneLoaded, Adopt, AdoptIn, scriptVars, Maps
    <3>2. CASE ScriptCall
      BY <3>2 DEF ScriptCall, ScriptAddsEntity, ScriptMovesEntity,
         ScriptDeletesEntity, ScriptForcesRendering, ScriptHidesEntity,
         ScriptSetsSprite, ScriptTakesHandle, ScriptDropsHandle, ScaleBegins,
         Adopt, AdoptIn, scriptVars, Maps
    <3>3. CASE Engine
      BY <3>3 DEF Engine, OnSceneLoadedReturns, BeginFrame, ContactCallbacksReturn,
         RemoveDead, RemoveFinished, UpdateActive, CallbackReturns,
         BeginSceneUpdate, OnSceneUpdateReturns, UpdateFrameEntity,
         FrameCallbackReturns, EndUpdate, RenderPieces, FrameResolves, ResolveOne,
         ResolveEnds, EndFrame, ScaleOne, ScaleResolves, RemoveAtIter,
         scriptVars, Maps
    <3>4. QED
      BY <3>1, <3>2, <3>3 DEF SceneNext
  <2>2. PICK view \in Views :
          piecesToRender' = Plus(piecesToRender, Plus(Listings(view), Forced(view)))
    BY <2>1 DEF MapEntitiesToBeRendered
  <2>3. view \in SUBSET Bucket
    BY ViewsAssumption
  <2>4. e \in Entity /\ piecesToRender[e] = 0
    BY DEF IndexInv, TypeOK, FrameInv, Maps, None
  <2>5. piecesToRender'[e] = 0 + (Listings(view)[e] + Forced(view)[e])
    BY <2>2, <2>4, PlusMinus
  <2>6. Listings(view)[e] + Forced(view)[e] = 1
    BY <2>3, SettledIsMappedOnce
  <2> HIDE DEF Listings, Forced
  <2>7. QED
    BY <2>5, <2>6
<1>3. QED
  BY <1>1, <1>2, FrameInvStep, SceneRefInvariant, PTL
     DEF SceneSpec, SettledForcedDrawnOnce

-------------------------------------------------------------------------------
(* The buckets there are                                                   *)

ListedInMade == \A b \in Bucket : entities[b] # {} => b \in bucketsMade

(* Only adding an entity and resolving a request put one into a bucket,    *)
(* and both make the bucket.                                               *)
LEMMA ListsShrink ==
  ASSUME TypeOK, [SceneNext]_allVars, ~SceneLoadsEntity, ~ScriptAddsEntity,
         ~ResolveOne
  PROVE  /\ bucketsMade' = bucketsMade
         /\ \A b \in Bucket : entities'[b] \subseteq entities[b]
<1>1. ASSUME NEW e, DeleteEntity(e)
      PROVE  \A b \in Bucket : entities'[b] \subseteq entities[b]
  BY <1>1 DEF DeleteEntity, RemoveFrom, TypeOK
<1>2. CASE SceneLoaded \/ UNCHANGED allVars
  BY <1>2 DEF SceneLoaded, FinishLoading, allVars, vars, entityVars
<1>3. CASE ScriptDeletesEntity
  BY <1>1, <1>3 DEF ScriptDeletesEntity
<1>4. CASE ScriptCall /\ ~ScriptDeletesEntity
  BY <1>4 DEF ScriptCall, ScriptMovesEntity, ScriptForcesRendering,
     ScriptHidesEntity, ScriptSetsSprite, ScriptTakesHandle, ScriptDropsHandle,
     ScaleBegins, SetPosition, vars, entityVars
<1>5. CASE RemoveFinished
  BY <1>1, <1>5 DEF RemoveFinished
<1>6. CASE \/ OnSceneLoadedReturns \/ BeginFrame \/ ContactCallbacksReturn
           \/ RemoveDead \/ UpdateActive \/ CallbackReturns
           \/ BeginSceneUpdate \/ OnSceneUpdateReturns
  BY <1>6 DEF OnSceneLoadedReturns, BeginFrame, ContactCallbacksReturn, RemoveDead,
     UpdateActive, FollowBody, SetPosition, CallbackReturns, BeginSceneUpdate,
     OnSceneUpdateReturns, Returns, vars, entityVars
<1>7. CASE \/ MapEntitiesToBeRendered \/ UpdateFrameEntity \/ FrameCallbackReturns
           \/ EndUpdate \/ RenderPieces \/ EndFrame
  BY <1>7 DEF MapEntitiesToBeRendered, UpdateFrameEntity, FrameCallbackReturns,
     EndUpdate, RenderPieces, EndFrame, Returns, vars, entityVars
<1>8. CASE FrameResolves \/ ResolveEnds \/ ScaleOne \/ ScaleResolves
  BY <1>8 DEF FrameResolves, ResolveEnds, ScaleOne, ScaleResolves, BeginResolve,
     EndResolve, SetPosition, vars, entityVars
<1>9. QED
  BY <1>2, <1>3, <1>4, <1>5, <1>6, <1>7, <1>8 DEF SceneNext, Engine

LEMMA ListedInMadeStep ==
  TypeOK /\ ListedInMade /\ [SceneNext]_allVars => ListedInMade'
<1> SUFFICES ASSUME TypeOK, ListedInMade, [SceneNext]_allVars PROVE ListedInMade'
  OBVIOUS
<1>1. ASSUME MakeBuckets PROVE ListedInMade'
  BY <1>1 DEF MakeBuckets, ListedInMade
<1>2. CASE SceneLoadsEntity \/ ScriptAddsEntity \/ ResolveOne
  <2>1. MakeBuckets
    BY <1>2 DEF SceneLoadsEntity, ScriptAddsEntity, ResolveOne, Adopt, AdoptIn
  <2>2. QED
    BY <1>1, <2>1
<1>3. CASE ~SceneLoadsEntity /\ ~ScriptAddsEntity /\ ~ResolveOne
  BY <1>3, ListsShrink DEF ListedInMade
<1>4. QED
  BY <1>2, <1>3

(* The assert of RemoveFinishedTemporaryEntity: the bucket of the position *)
(* of an entity that is removed exists, unless a move of it is pending.    *)
(* What nothing is pending for is listed by the bucket of its position.    *)
THEOREM FinishedHaveBuckets == SceneSpec => []BucketOfFinishedExists
<1>1. SceneInit => ListedInMade
  BY DEF SceneInit, Init, ListedInMade
<1>2. IndexInv /\ ListedInMade => BucketOfFinishedExists
  <2> SUFFICES ASSUME IndexInv, ListedInMade, NEW e \in constructed, alive[e],
                      PendingOf(e) = {}
               PROVE  GetBucket(position[e]) \in bucketsMade
    BY DEF BucketOfFinishedExists
  <2>1. position[e] \in Position
    BY DEF IndexInv, TypeOK
  <2>2. e \in entities[GetBucket(position[e])]
    BY DEF IndexInv, MovePath, PathEnds
  <2>3. QED
    BY <2>1, <2>2, BucketOfPosition DEF ListedInMade
<1>3. IndexInv /\ ListedInMade /\ [SceneNext]_allVars => ListedInMade'
  BY ListedInMadeStep DEF IndexInv
<1>4. QED
  BY <1>1, <1>2, <1>3, SceneIndexInvariant, PTL DEF SceneSpec

-------------------------------------------------------------------------------
(* Types                                                                   *)

ControlTypes ==
  /\ phase \in Phases
  /\ scripting \in BOOLEAN
  /\ scaling \in BOOLEAN
  /\ iter \in Nat \ {0}
SetTypes ==
  /\ bodies \in SUBSET Body
  /\ spriteless \in SUBSET Entity
  /\ particlesOver \in SUBSET Particles
  /\ hidden \in SUBSET Entity
  /\ bucketsMade \in SUBSET Bucket

(* No count of a list falls below zero: the entity whose callback runs is  *)
(* still in the list that the callback's return takes it from.             *)
CountTypes ==
  /\ lastFrameCallbacks \in [Entity -> Nat]
  /\ piecesToRender \in [Entity -> Nat]
  /\ persistentEntities \in [Entity -> Nat]
  /\ leaked \in [Entity -> Nat]
  /\ phase = "frameEntities" => \A e \in thisEntity : lastFrameCallbacks[e] > 0

LEMMA ControlTypesStep ==
  ControlTypes /\ [SceneNext]_allVars => ControlTypes'
<1> SUFFICES ASSUME ControlTypes, [SceneNext]_allVars PROVE ControlTypes'
  OBVIOUS
<1>1. CASE SceneLoadsEntity \/ SceneLoaded \/ UNCHANGED allVars
  BY <1>1 DEF SceneLoadsEntity, SceneLoaded, Adopt, AdoptIn, allVars, scriptVars,
              ControlTypes
<1>2. CASE ScriptCall
  BY <1>2 DEF ScriptCall, ScriptAddsEntity, ScriptMovesEntity,
     ScriptDeletesEntity, ScriptForcesRendering, ScriptHidesEntity,
     ScriptSetsSprite, ScriptTakesHandle, ScriptDropsHandle, ScaleBegins,
     Adopt, AdoptIn, scriptVars, ControlTypes
<1>3. CASE UpdateActive
  <2>1. iter' = iter + 1 /\ UNCHANGED <<phase, scaling>>
    BY <1>3 DEF UpdateActive
  <2>2. scripting' \in BOOLEAN
    <3>1. PICK e \in Entity : scripting' = (e \in Scripted)
      BY <1>3, Zenon DEF UpdateActive
    <3>2. CASE e \in Scripted
      BY <3>1, <3>2, SMT
    <3>3. CASE e \notin Scripted
      BY <3>1, <3>3, SMT
    <3>4. QED
      BY <3>2, <3>3
  <2>3. iter' \in Nat \ {0}
    BY <2>1 DEF ControlTypes
  <2>4. QED
    BY <2>1, <2>2, <2>3 DEF ControlTypes
<1>4. CASE \/ OnSceneLoadedReturns \/ BeginFrame \/ ContactCallbacksReturn
           \/ CallbackReturns \/ BeginSceneUpdate \/ OnSceneUpdateReturns
  <2>1. scripting' = TRUE \/ scripting' = FALSE
    BY <1>4, Zenon DEF OnSceneLoadedReturns, BeginFrame, ContactCallbacksReturn,
       CallbackReturns, BeginSceneUpdate, OnSceneUpdateReturns, Returns
  <2>2. scripting' \in BOOLEAN
    BY <2>1, Zenon
  <2>3. phase' \in Phases /\ iter' \in Nat \ {0} /\ scaling' = scaling
    BY <1>4 DEF OnSceneLoadedReturns, BeginFrame, ContactCallbacksReturn,
       CallbackReturns, BeginSceneUpdate, OnSceneUpdateReturns, Returns,
       ControlTypes, Phases
  <2>4. QED
    BY <2>2, <2>3 DEF ControlTypes
<1>5. CASE \/ MapEntitiesToBeRendered \/ UpdateFrameEntity \/ FrameCallbackReturns
           \/ EndUpdate \/ RenderPieces \/ EndFrame
  BY <1>5 DEF MapEntitiesToBeRendered, UpdateFrameEntity, FrameCallbackReturns,
     EndUpdate, RenderPieces, EndFrame, Returns, ControlTypes, Phases
<1>6. CASE \/ RemoveDead \/ RemoveFinished \/ FrameResolves \/ ResolveOne
           \/ ResolveEnds \/ ScaleOne \/ ScaleResolves
  BY <1>6 DEF RemoveDead, RemoveFinished, RemoveAtIter, FrameResolves, ResolveOne,
     ResolveEnds, ScaleOne, ScaleResolves, scriptVars, ControlTypes
<1>7. QED
  BY <1>1, <1>2, <1>3, <1>4, <1>5, <1>6 DEF SceneNext, Engine

LEMMA SetTypesStep ==
  SetTypes /\ [SceneNext]_allVars => SetTypes'
<1> SUFFICES ASSUME SetTypes, [SceneNext]_allVars PROVE SetTypes'
  OBVIOUS
<1>1. ASSUME NEW e \in Entity, NEW h, Adopt(e, h) PROVE SetTypes'
  BY <1>1 DEF Adopt, AdoptIn, MakeBuckets, SetTypes
<1>2. CASE SceneLoadsEntity \/ ScriptAddsEntity
  BY <1>1, <1>2 DEF SceneLoadsEntity, ScriptAddsEntity
<1>3. CASE SceneLoaded \/ UNCHANGED allVars
  BY <1>3 DEF SceneLoaded, allVars, entityVars, SetTypes
<1>4. CASE ScriptCall /\ ~ScriptAddsEntity
  BY <1>4 DEF ScriptCall, ScriptMovesEntity, ScriptDeletesEntity,
     ScriptForcesRendering, ScriptHidesEntity, ScriptSetsSprite,
     ScriptTakesHandle, ScriptDropsHandle, ScaleBegins, DestroyBodies,
     entityVars, SetTypes
<1>5. CASE UpdateActive \/ UpdateFrameEntity \/ RemoveDead \/ RemoveFinished
  BY <1>5 DEF UpdateActive, UpdateFrameEntity, UpdateParticles, RemoveDead,
     RemoveFinished, DestroyBodies, entityVars, SetTypes
<1>6. CASE ResolveOne
  BY <1>6 DEF ResolveOne, DestroyBodies, MakeBuckets, SetTypes
<1>7. CASE \/ OnSceneLoadedReturns \/ BeginFrame \/ ContactCallbacksReturn
           \/ CallbackReturns \/ BeginSceneUpdate \/ OnSceneUpdateReturns
           \/ MapEntitiesToBeRendered \/ FrameCallbackReturns \/ EndUpdate
  BY <1>7 DEF OnSceneLoadedReturns, BeginFrame, ContactCallbacksReturn,
     CallbackReturns, BeginSceneUpdate, OnSceneUpdateReturns,
     MapEntitiesToBeRendered, FrameCallbackReturns, EndUpdate, Returns,
     entityVars, SetTypes
<1>8. CASE \/ RenderPieces \/ FrameResolves \/ ResolveEnds \/ EndFrame \/ ScaleOne
           \/ ScaleResolves
  BY <1>8 DEF RenderPieces, FrameResolves, ResolveEnds, EndFrame, ScaleOne,
     ScaleResolves, entityVars, SetTypes
<1>9. QED
  BY <1>2, <1>3, <1>4, <1>5, <1>6, <1>7, <1>8 DEF SceneNext, Engine

(* The steps that count nothing.                                           *)
LEMMA CountsStay ==
  ASSUME [SceneNext]_allVars, ~ScriptDeletesEntity, ~ScriptForcesRendering,
         ~MapEntitiesToBeRendered, ~UpdateFrameEntity, ~FrameCallbackReturns,
         ~RenderPieces
  PROVE  UNCHANGED <<lastFrameCallbacks, piecesToRender, persistentEntities, leaked>>
<1>1. CASE SceneLoadsEntity \/ SceneLoaded \/ UNCHANGED allVars
  BY <1>1 DEF SceneLoadsEntity, SceneLoaded, Adopt, AdoptIn, allVars, entityVars,
              listVars
<1>2. CASE ScriptCall
  BY <1>2 DEF ScriptCall, ScriptAddsEntity, ScriptMovesEntity, ScriptHidesEntity,
     ScriptSetsSprite, ScriptTakesHandle, ScriptDropsHandle, ScaleBegins,
     Adopt, AdoptIn, listVars, entityVars
<1>3. CASE \/ OnSceneLoadedReturns \/ BeginFrame \/ ContactCallbacksReturn
           \/ UpdateActive \/ CallbackReturns
           \/ BeginSceneUpdate \/ OnSceneUpdateReturns \/ EndUpdate
  BY <1>3 DEF OnSceneLoadedReturns, BeginFrame, ContactCallbacksReturn,
     UpdateActive, CallbackReturns, BeginSceneUpdate, OnSceneUpdateReturns,
     EndUpdate, Returns, listVars, entityVars
<1>4. CASE \/ RemoveDead \/ RemoveFinished \/ FrameResolves \/ ResolveOne
           \/ ResolveEnds \/ EndFrame \/ ScaleOne \/ ScaleResolves
  BY <1>4 DEF RemoveDead, RemoveFinished, RemoveAtIter, FrameResolves, ResolveOne,
     ResolveEnds, EndFrame, ScaleOne, ScaleResolves, listVars, entityVars
<1>5. QED
  BY <1>1, <1>2, <1>3, <1>4 DEF SceneNext, Engine

LEMMA SumType ==
  ASSUME NEW f \in [Entity -> Nat], NEW g, \A x \in Entity : g[x] \in Nat
  PROVE  Plus(f, g) \in [Entity -> Nat]
<1>1. ASSUME NEW x \in Entity PROVE f[x] + g[x] \in Nat
  <2>1. f[x] \in Nat /\ g[x] \in Nat
    OBVIOUS
  <2>2. QED
    BY ONLY <2>1
<1>2. QED
  BY <1>1 DEF Plus

LEMMA DifferenceType ==
  ASSUME NEW f \in [Entity -> Nat], NEW S, \A x \in S : f[x] > 0
  PROVE  Minus(f, One(S)) \in [Entity -> Nat]
<1>1. \A x \in Entity : f[x] - One(S)[x] \in Nat
  BY DEF One
<1>2. QED
  BY <1>1 DEF Minus

LEMMA CountTypesStep ==
  ASSUME IndexInv, RefInv, CountTypes, [SceneNext]_allVars
  PROVE  CountTypes'
<1>1. CASE ScriptDeletesEntity
  <2>1. PICK e : leaked' = leaked \/ leaked' = Plus(leaked, One({e}))
    BY <1>1 DEF ScriptDeletesEntity
  <2>2. leaked' \in [Entity -> Nat]
    BY <2>1, SumType, OneType DEF CountTypes
  <2>3. QED
    BY <1>1, <2>2 DEF ScriptDeletesEntity, scriptVars, listVars, CountTypes
<1>2. CASE ScriptForcesRendering
  <2>1. PICK e : persistentEntities' = Plus(persistentEntities, One({e}))
    BY <1>2 DEF ScriptForcesRendering
  <2>2. persistentEntities' \in [Entity -> Nat]
    BY <2>1, SumType, OneType DEF CountTypes
  <2>3. QED
    BY <1>2, <2>2 DEF ScriptForcesRendering, scriptVars, entityVars, CountTypes
<1>3. CASE MapEntitiesToBeRendered
  <2> DEFINE callbacks(view) == [e \in Entity |->
        IF IsStaticCallbackEligible(e) THEN Listings(view)[e] ELSE 0]
  <2>1. PICK view \in Views :
          /\ lastFrameCallbacks' = Plus(lastFrameCallbacks, callbacks(view))
          /\ piecesToRender' = Plus(piecesToRender,
                                    Plus(Listings(view), Forced(view)))
    BY <1>3 DEF MapEntitiesToBeRendered
  <2>2. view \in SUBSET Bucket
    BY ViewsAssumption
  <2>3. \A e \in Entity : Listings(view)[e] \in {0, 1}
    BY <2>2, ListingsType
  <2>4. \A e \in Entity : callbacks(view)[e] \in Nat
    <3> HIDE DEF Listings
    <3>1. QED
      BY <2>3
  <2>5. \A e \in Entity : Forced(view)[e] \in Nat
    BY DEF Forced, CountTypes
  <2>6. \A e \in Entity : Plus(Listings(view), Forced(view))[e] \in Nat
    <3> HIDE DEF Listings, Forced
    <3>1. QED
      BY <2>3, <2>5, PlusMinus
  <2> HIDE DEF callbacks
  <2>7. /\ lastFrameCallbacks' \in [Entity -> Nat]
        /\ piecesToRender' \in [Entity -> Nat]
    BY <2>1, <2>4, <2>6, SumType DEF CountTypes
  <2>8. /\ persistentEntities' = None /\ leaked' = leaked
        /\ thisEntity' = {}
    BY <1>3 DEF MapEntitiesToBeRendered, entityVars, RefInv, PlacesOK
  <2>9. QED
    BY <2>7, <2>8 DEF CountTypes, None
<1>4. CASE UpdateFrameEntity
  <2>1. PICK e \in Entity :
          /\ lastFrameCallbacks[e] > 0
          /\ \/ thisEntity' = {e} /\ lastFrameCallbacks' = lastFrameCallbacks
             \/ /\ lastFrameCallbacks' = Minus(lastFrameCallbacks, One({e}))
                /\ thisEntity' = thisEntity
    BY <1>4 DEF UpdateFrameEntity, LeavesFrame
  <2>2. /\ thisEntity = {}
        /\ UNCHANGED <<piecesToRender, persistentEntities, leaked>>
    BY <1>4 DEF UpdateFrameEntity, RefInv, PlacesOK
  <2>3. lastFrameCallbacks' \in [Entity -> Nat]
    BY <2>1, DifferenceType DEF CountTypes
  <2>4. QED
    BY <2>1, <2>2, <2>3 DEF CountTypes
<1>5. CASE FrameCallbackReturns
  <2>1. /\ phase = "frameEntities" /\ thisEntity' = {}
        /\ lastFrameCallbacks' = Minus(lastFrameCallbacks, One(thisEntity))
        /\ UNCHANGED <<piecesToRender, persistentEntities, leaked>>
    BY <1>5 DEF FrameCallbackReturns, Returns, LeavesFrame, entityVars
  <2>2. lastFrameCallbacks' \in [Entity -> Nat]
    BY <2>1, DifferenceType DEF CountTypes
  <2>3. QED
    BY <2>1, <2>2 DEF CountTypes
<1>6. CASE RenderPieces
  BY <1>6 DEF RenderPieces, entityVars, CountTypes, None
<1>7. CASE ~(\/ ScriptDeletesEntity \/ ScriptForcesRendering
             \/ MapEntitiesToBeRendered \/ UpdateFrameEntity
             \/ FrameCallbackReturns \/ RenderPieces)
  <2>1. UNCHANGED <<lastFrameCallbacks, piecesToRender, persistentEntities, leaked>>
    BY <1>7, CountsStay
  <2>2. phase' = "frameEntities" => UNCHANGED <<phase, thisEntity>>
    <3>1. CASE BeginFrame \/ ContactCallbacksReturn
      BY <3>1 DEF BeginFrame, ContactCallbacksReturn
    <3>2. CASE UpdateActive
      BY <3>2 DEF UpdateActive, Iterates
    <3>3. QED
      BY <1>7, <3>1, <3>2, OnceStays
  <2>3. QED
    BY <2>1, <2>2 DEF CountTypes
<1>8. QED
  BY <1>1, <1>2, <1>3, <1>4, <1>5, <1>6, <1>7

(* Every variable of a scene keeps its type; no reference count and no     *)
(* count of a list is ever negative.                                       *)
THEOREM SceneTypes == SceneSpec => []SceneTypeOK
<1>1. SceneInit => ControlTypes /\ SetTypes /\ CountTypes /\ PassInv
  <2> SUFFICES ASSUME SceneInit PROVE ControlTypes /\ SetTypes /\ CountTypes /\ PassInv
    OBVIOUS
  <2>1. scripting \in BOOLEAN /\ scaling \in BOOLEAN
    BY Zenon DEF SceneInit
  <2>2. ControlTypes
    BY <2>1 DEF SceneInit, ControlTypes, Phases
  <2>3. SetTypes
    BY KindsAssumption DEF SceneInit, SetTypes
  <2>4. CountTypes /\ PassInv
    BY DEF SceneInit, CountTypes, PassInv, None
  <2>5. QED
    BY <2>2, <2>3, <2>4
<1>2. IndexInv /\ RefInv /\ ScalingOK /\ ControlTypes /\ SetTypes /\ CountTypes
        /\ PassInv => SceneTypeOK
  <2> SUFFICES ASSUME IndexInv, RefInv, ScalingOK, ControlTypes, SetTypes,
                      CountTypes, PassInv
               PROVE  SceneTypeOK
    OBVIOUS
  <2>1. thisEntity \in SUBSET Entity /\ handles \in SUBSET Entity
    BY DEF RefInv, PlacesOK, IndexInv, TypeOK
  <2>2. ref \in [Entity -> Nat]
    <3>1. ASSUME NEW e \in Entity PROVE ref[e] \in Nat
      <4>1. /\ One(ListedSet)[e] \in Nat /\ One(Active)[e] \in Nat
            /\ One(bodies)[e] \in Nat /\ One(handles)[e] \in Nat
            /\ One(thisEntity)[e] \in Nat
        BY OneType
      <4>2. RequestsOf(e) \in Nat
        BY RequestsType DEF IndexInv
      <4>3. /\ lastFrameCallbacks[e] \in Nat /\ piecesToRender[e] \in Nat
            /\ persistentEntities[e] \in Nat /\ leaked[e] \in Nat
        BY DEF CountTypes
      <4>4. QED
        BY <4>1, <4>2, <4>3, HeldTerms DEF Held
    <3>2. QED
      BY <3>1 DEF RefInv, CountsOK
  <2>3. QED
    BY <2>1, <2>2 DEF SceneTypeOK, ControlTypes, SetTypes, CountTypes, PassInv,
       IndexInv, RefInv, CountsOK, ScalingOK
<1>3. IndexInv /\ RefInv /\ ControlTypes /\ SetTypes /\ CountTypes /\ PassInv
        /\ [SceneNext]_allVars
        => ControlTypes' /\ SetTypes' /\ CountTypes' /\ PassInv'
  BY ControlTypesStep, SetTypesStep, CountTypesStep, PassInvStep
<1>4. QED
  BY <1>1, <1>2, <1>3, SceneActiveInvariant, PTL DEF SceneSpec

===============================================================================
