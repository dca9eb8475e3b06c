------------------------------- MODULE ETHScene -------------------------------
(***************************************************************************)
(* A scene over its frames: ETHScene, ETHActiveEntityHandler and the       *)
(* reference counts of the entities, on top of the bucket manager.         *)
(*                                                                         *)
(* A frame is Update then RenderFrame.  Update steps the physics (contact  *)
(* callbacks run scripts), updates the entities that are always active and *)
(* runs their callbacks, runs onSceneUpdate, maps what is visible, and     *)
(* updates the visible static entities and runs theirs; RenderFrame draws  *)
(* the pieces that were mapped and resolves the move requests.  Scripts    *)
(* add, move, kill, hide, force and keep handles to entities at any of the *)
(* points where they run, while the engine is iterating over its lists.    *)
(*                                                                         *)
(* Entities are reference counted by hand: a bucket, a pending request, a  *)
(* list, a piece to draw, a physics body and a script handle each own one  *)
(* reference, and the object deletes itself at zero.                       *)
(***************************************************************************)
EXTENDS ETHBucketManager, FiniteSets, SequencesExt

CONSTANTS
  Static,     \* the entities that are static (ETHEntity::IsStatic)
  Scripted,   \* those with a callback or a constructor callback function
  Body,       \* those with a simulated body
  Particles,  \* those whose particle systems all end (repeat > 0)
  Spriteless, \* those that are made without a sprite
  Views,      \* the sets of buckets the camera may see
  Calls,      \* the script functions that scripts call in this instance
  Factors,    \* the factors a script scales the scene by
  MaxForced   \* bound: renderings of an entity forced in a frame

ASSUME KindsAssumption ==
  /\ Static \subseteq Entity
  /\ Scripted \subseteq Entity
  /\ Body \subseteq Entity
  /\ Particles \subseteq Entity
  /\ Spriteless \subseteq Entity
ASSUME ViewsAssumption == Views # {} /\ \A view \in Views : view \subseteq Bucket
ASSUME FactorsAssumption == Factors \subseteq Int
ASSUME MaxForcedAssumption == MaxForced \in Nat

VARIABLES
  phase,          \* where in Update and RenderFrame the engine is
  scripting,      \* a script function is running
  thisEntity,     \* the entity it is the callback of, if any
  iter,           \* the iterator of UpdateAlwaysActiveEntities
  scaling,        \* ScaleEntities is running
  toScale,        \* the entities it has still to scale, and to what position
  dynamicOrTempEntities,  \* ETHActiveEntityHandler::m_dynamicOrTempEntities
  lastFrameCallbacks,     \* m_lastFrameCallbacks: how often it holds each entity
  piecesToRender,         \* ETHEntityRenderingManager::m_piecesToRender, likewise
  persistentEntities,     \* ETHScene::m_persistentEntities, likewise
  bodies,         \* the entities whose controller has a body (m_body)
  spriteless,     \* the entities whose spriteFile is empty
  particlesOver,  \* those whose particle systems have all finished
  hidden,         \* ETHEntity::m_hide
  bucketsMade,    \* the keys of ETHBucketManager::m_entities
  handles,        \* the entities that script variables refer to
  leaked,         \* references nobody is left to release
  ref,            \* ETHSpriteEntity::m_ref
  updates         \* history: the updates of each entity in this frame

listVars == <<dynamicOrTempEntities, lastFrameCallbacks, piecesToRender,
              persistentEntities>>
scriptVars == <<phase, scripting, thisEntity, iter, scaling, toScale>>
entityVars == <<bodies, spriteless, particlesOver, hidden, bucketsMade, handles,
                leaked>>
allVars == <<vars, scriptVars, listVars, entityVars, ref, updates>>

-------------------------------------------------------------------------------

Phases == {"idle", "physics", "alwaysActive", "sceneUpdate", "map",
           "frameEntities", "render", "resolve"}

None == [e \in Entity |-> 0]
One(S) == [e \in Entity |-> IF e \in S THEN 1 ELSE 0]
Plus(f, g) == [e \in Entity |-> f[e] + g[e]]
Minus(f, g) == [e \in Entity |-> f[e] - g[e]]

AddRef(S)  == ref' = Plus(ref, One(S))
Release(S) == ref' = Minus(ref, One(S))

IsTemporary(e) == e \in Particles /\ e \in spriteless
ShouldEntityBeAlwaysActive(e) ==
  (e \in Scripted \union Body /\ e \notin Static) \/ IsTemporary(e)

(* m_entities[bucket] makes the bucket it is asked for, and keeps it.      *)
MakeBuckets ==
  bucketsMade' = bucketsMade \union {b \in Bucket : entities'[b] # {}}

SceneInit ==
  /\ Init
  /\ phase = "idle"
  /\ scripting = FALSE
  /\ thisEntity = {}
  /\ iter = 1
  /\ scaling = FALSE
  /\ toScale = {}
  /\ dynamicOrTempEntities = <<>>
  /\ lastFrameCallbacks = None
  /\ piecesToRender = None
  /\ persistentEntities = None
  /\ bodies = {}
  /\ spriteless = Spriteless
  /\ particlesOver = {}
  /\ hidden = {}
  /\ bucketsMade = {}
  /\ handles = {}
  /\ leaked = None
  /\ ref = None
  /\ updates = None

-------------------------------------------------------------------------------
(* Adding entities                                                         *)

(* The references a new entity starts with.                                *)
AdoptIn(e, scriptHandles, active) ==
  /\ bodies' = bodies \union ({e} \intersect Body)
  /\ dynamicOrTempEntities' =
       IF active = {} THEN dynamicOrTempEntities
                      ELSE Append(dynamicOrTempEntities, e)
  /\ handles' = handles \union scriptHandles
  /\ ref' = Plus(ref, Plus(One({e}), Plus(One({e} \intersect Body),
                                          Plus(One(active), One(scriptHandles)))))
  /\ MakeBuckets
  /\ UNCHANGED <<scriptVars, lastFrameCallbacks, piecesToRender,
                 persistentEntities, spriteless, particlesOver, hidden, leaked,
                 updates>>

(* Faulty variants: temporary entities are not listed as active; a static  *)
(* entity with a callback is.                                              *)
Adopt_DynamicOnly(e, scriptHandles) ==
  AdoptIn(e, scriptHandles, ({e} \intersect (Scripted \union Body)) \ Static)
Adopt_StaticToo(e, scriptHandles) ==
  AdoptIn(e, scriptHandles, {e} \intersect (Scripted \union Body))

(* The rest of ETHScene::AddEntity: the scene owns the reference the       *)
(* object was made with, its body takes one, and so does the list of the   *)
(* active entities when it belongs there.                                  *)
Adopt(e, scriptHandles) ==
  AdoptIn(e, scriptHandles, IF ShouldEntityBeAlwaysActive(e) THEN {e} ELSE {})

SceneLoadsEntity ==
  \E e \in Entity, i \in FileId, p \in Position :
    LoadEntityFromFile(e, i, p) /\ Adopt(e, {})

(* LoadSceneScripts: the scene has been read, onSceneLoaded runs.          *)
SceneLoaded ==
  /\ FinishLoading
  /\ scripting' = TRUE
  /\ UNCHANGED <<phase, thisEntity, iter, scaling, toScale, listVars, entityVars,
                 ref, updates>>

-------------------------------------------------------------------------------
(* What a running script may call.  It reaches the entities it has handles *)
(* to, the one it is the callback of, and those a search finds.            *)

MayCall(function) ==
  /\ function \in Calls
  /\ scripting
  /\ resolving = 0
  /\ ~scaling

Reaches(e) == e \in handles \union thisEntity \/ IsListed(e)

(* With or without the handle that AddEntity can give back.                *)
ScriptAddsEntity ==
  /\ MayCall("AddEntity")
  /\ \E e \in Entity, p \in Position :
       AddEntityFromScript(e, p) /\ \E out \in {{}, {e}} : Adopt(e, out)

(* ETHEntity::SetPosition: the request, if there is one, owns a reference. *)
ScriptMovesEntity ==
  /\ MayCall("SetPosition")
  /\ \E e \in Entity, p \in Position :
       /\ Reaches(e)
       /\ SetPosition(e, p)
       /\ ref' = IF moveRequests' = moveRequests THEN ref ELSE Plus(ref, One({e}))
  /\ UNCHANGED <<scriptVars, listVars, entityVars, updates>>

(* Killing an entity destroys its body, which releases it; erasing it from *)
(* a bucket releases it.                                                   *)
Killed == {x \in Entity : ~alive'[x]}
Erased == [x \in Entity |->
  Cardinality({b \in Bucket : x \in entities[b] \ entities'[b]})]
DestroyBodies == bodies' = bodies \ Killed
ReleasedByDeletion == Plus(One(bodies \intersect Killed), Erased)

(* Faulty variant: the entity is released though the bucket was not left.  *)
ScriptDeletesEntity_ReleasesAlways ==
  /\ MayCall("DeleteEntity")
  /\ \E e \in Entity :
       /\ Reaches(e)
       /\ leaked[e] = 0
       /\ DeleteEntity(e)
       /\ DestroyBodies
       /\ IF WithId(id[e]) # {}
          THEN /\ ref' = Minus(ref, Plus(One(bodies \intersect Killed), One({e})))
               /\ UNCHANGED leaked
          ELSE ref' = Plus(ref, One({e})) /\ leaked' = Plus(leaked, One({e}))
  /\ UNCHANGED <<scriptVars, listVars, spriteless, particlesOver, hidden,
                 bucketsMade, handles, updates>>

(* The wrapper takes a reference first and gives it up only if the scene   *)
(* deleted something: deleting an entity that is already gone leaks one.   *)
ScriptDeletesEntity ==
  /\ MayCall("DeleteEntity")
  /\ \E e \in Entity :
       /\ Reaches(e)
       /\ leaked[e] = 0
       /\ DeleteEntity(e)
       /\ DestroyBodies
       /\ IF WithId(id[e]) # {}
          THEN ref' = Minus(ref, ReleasedByDeletion) /\ UNCHANGED leaked
          ELSE ref' = Plus(ref, One({e})) /\ leaked' = Plus(leaked, One({e}))
  /\ UNCHANGED <<scriptVars, listVars, spriteless, particlesOver, hidden,
                 bucketsMade, handles, updates>>

(* ETHScene::AddEntityToPersistentList.                                    *)
ScriptForcesRendering ==
  /\ MayCall("ForceEntityRendering")
  /\ \E e \in Entity :
       /\ Reaches(e)
       /\ persistentEntities[e] < MaxForced
       /\ persistentEntities' = Plus(persistentEntities, One({e}))
       /\ AddRef({e})
  /\ UNCHANGED <<vars, scriptVars, dynamicOrTempEntities, lastFrameCallbacks,
                 piecesToRender, entityVars, updates>>

ScriptHidesEntity ==
  /\ MayCall("Hide")
  /\ \E e \in Entity :
       Reaches(e) /\ hidden' \in {hidden \union {e}, hidden \ {e}}
  /\ UNCHANGED <<vars, scriptVars, listVars, bodies, spriteless, particlesOver,
                 bucketsMade, handles, leaked, ref, updates>>

(* ETHSpriteEntity::SetSprite: a file that cannot be loaded leaves the     *)
(* entity without a sprite.                                                *)
ScriptSetsSprite ==
  /\ MayCall("SetSprite")
  /\ \E e \in Entity :
       Reaches(e) /\ spriteless' \in {spriteless \union {e}, spriteless \ {e}}
  /\ UNCHANGED <<vars, scriptVars, listVars, bodies, particlesOver, hidden,
                 bucketsMade, handles, leaked, ref, updates>>

(* A script variable takes a handle to an entity or lets go of it.         *)
ScriptTakesHandle ==
  /\ MayCall("handles")
  /\ \E e \in Entity \ handles :
       /\ Reaches(e)
       /\ handles' = handles \union {e}
       /\ AddRef({e})
  /\ UNCHANGED <<vars, scriptVars, listVars, bodies, spriteless, particlesOver,
                 hidden, bucketsMade, leaked, updates>>

ScriptDropsHandle ==
  /\ MayCall("handles")
  /\ \E e \in handles :
       /\ handles' = handles \ {e}
       /\ Release({e})
  /\ UNCHANGED <<vars, scriptVars, listVars, bodies, spriteless, particlesOver,
                 hidden, bucketsMade, leaked, updates>>

(* SetScaleFactor, in the middle of whatever the script interrupted: every *)
(* entity is scaled and moved, then ScaleEntities resolves the requests.   *)
(* Scaling a body destroys it and makes another: the reference stays.      *)
ScaleBegins ==
  LET listed == {e \in Entity : IsListed(e)} IN
  /\ MayCall("SetScaleFactor")
  /\ Len(moveRequests) + Cardinality(listed) <= MaxRequests
  /\ \E factor \in Factors :
       /\ \A e \in listed : position[e] * factor \in Position
       /\ toScale' = {<<e, position[e] * factor>> : e \in listed}
  /\ scaling' = TRUE
  /\ UNCHANGED <<vars, phase, scripting, thisEntity, iter, listVars, entityVars,
                 ref, updates>>

ScaleOne ==
  /\ \E s \in toScale :
       /\ SetPosition(s[1], s[2])
       /\ ref' = IF moveRequests' = moveRequests THEN ref ELSE Plus(ref, One({s[1]}))
       /\ toScale' = toScale \ {s}
  /\ UNCHANGED <<phase, scripting, thisEntity, iter, scaling, listVars, entityVars,
                 updates>>

ScaleResolves ==
  /\ scaling
  /\ toScale = {}
  /\ \/ BeginResolve
     \/ moveRequests = <<>> /\ UNCHANGED vars
  /\ scaling' = FALSE
  /\ UNCHANGED <<phase, scripting, thisEntity, iter, toScale, listVars, entityVars,
                 ref, updates>>

ScriptCall ==
  \/ ScriptAddsEntity
  \/ ScriptMovesEntity
  \/ ScriptDeletesEntity
  \/ ScriptForcesRendering
  \/ ScriptHidesEntity
  \/ ScriptSetsSprite
  \/ ScriptTakesHandle
  \/ ScriptDropsHandle
  \/ ScaleBegins

-------------------------------------------------------------------------------
(* A frame: ETHScene::Update and ETHScene::RenderScene                     *)

(* A script function has returned to the engine.                           *)
Returns ==
  /\ scripting
  /\ resolving = 0
  /\ ~scaling
  /\ scripting' = FALSE
  /\ thisEntity' = {}
  /\ UNCHANGED <<vars, scaling, toScale, entityVars>>

OnSceneLoadedReturns ==
  /\ phase = "idle"
  /\ Returns
  /\ UNCHANGED <<phase, iter, listVars, ref, updates>>

(* The physics step; its contact callbacks run scripts.                    *)
BeginFrame ==
  /\ phase = "idle"
  /\ ~scripting
  /\ ~loading
  /\ phase' = "physics"
  /\ scripting' = TRUE
  /\ updates' = None
  /\ UNCHANGED <<vars, thisEntity, iter, scaling, toScale, listVars, entityVars,
                 ref>>

ContactCallbacksReturn ==
  /\ phase = "physics"
  /\ Returns
  /\ phase' = "alwaysActive"
  /\ iter' = 1
  /\ UNCHANGED <<listVars, ref, updates>>

(* UpdateAlwaysActiveEntities, one entity of the list per step.            *)
Iterates(e) ==
  /\ phase = "alwaysActive"
  /\ ~scripting
  /\ iter \in 1 .. Len(dynamicOrTempEntities)
  /\ e = dynamicOrTempEntities[iter]

RemoveAtIter ==
  /\ dynamicOrTempEntities' = RemoveAt(dynamicOrTempEntities, iter)
  /\ UNCHANGED <<scriptVars, lastFrameCallbacks, piecesToRender,
                 persistentEntities, updates>>

(* Faulty variant: the iterator moves on after an erasure.                 *)
RemoveDead_SkipsNext ==
  \E e \in Entity :
    /\ Iterates(e)
    /\ ~alive[e]
    /\ dynamicOrTempEntities' = RemoveAt(dynamicOrTempEntities, iter)
    /\ iter' = iter + 1
    /\ Release({e})
    /\ UNCHANGED <<vars, phase, scripting, thisEntity, scaling, toScale,
                   lastFrameCallbacks, piecesToRender, persistentEntities, updates,
                   entityVars>>

RemoveDead_KeepsReference ==  \* faulty variant: erased, not released
  \E e \in Entity :
    /\ Iterates(e)
    /\ ~alive[e]
    /\ RemoveAtIter
    /\ UNCHANGED <<vars, entityVars, ref>>

RemoveDead ==
  \E e \in Entity :
    /\ Iterates(e)
    /\ ~alive[e]
    /\ RemoveAtIter
    /\ Release({e})
    /\ UNCHANGED <<vars, entityVars>>

(* RemoveFinishedTemporaryEntity.                                          *)
IsFinished(e) == IsTemporary(e) /\ e \in particlesOver

RemoveFinished ==
  \E e \in Entity :
    /\ Iterates(e)
    /\ alive[e]
    /\ IsFinished(e)
    /\ RemoveAtIter
    /\ DeleteEntity(e)
    /\ DestroyBodies
    /\ ref' = Minus(ref, Plus(ReleasedByDeletion, One({e})))
    /\ UNCHANGED <<spriteless, particlesOver, hidden, bucketsMade, handles, leaked>>

(* UpdateParticleSystems: after any update the particles may be over.      *)
UpdateParticles(e) ==
  particlesOver' \in {particlesOver, particlesOver \union ({e} \intersect Particles)}

(* Update: an entity that is not static follows its body, which the        *)
(* physics may have moved anywhere.  Then its callback runs, holding it.   *)
FollowBody_MovesAtOnce(e) ==  \* faulty variant: it changes bucket at once
  \/ /\ e \in bodies \ Static
     /\ \E p \in Position :
          /\ position' = [position EXCEPT ![e] = p]
          /\ entities' = [entities EXCEPT ![GetBucket(position[e])] = @ \ {e},
                                          ![GetBucket(p)] = @ \union {e}]
     /\ UNCHANGED <<moveRequests, resolving, alive, id, idCounter, constructed, loading>>
  \/ UNCHANGED vars
FollowBody(e) ==
  \/ /\ e \in bodies \ Static
     /\ \E p \in Position : SetPosition(e, p)
  \/ UNCHANGED vars

UpdateActive ==
  \E e \in Entity :
    /\ Iterates(e)
    /\ alive[e]
    /\ ~IsFinished(e)
    /\ FollowBody(e)
    /\ UpdateParticles(e)
    /\ scripting' = (e \in Scripted)
    /\ thisEntity' = {e} \intersect Scripted
    /\ iter' = iter + 1
    /\ ref' = Plus(ref, Plus(One({e} \intersect Scripted),
                            IF moveRequests' = moveRequests THEN None ELSE One({e})))
    /\ updates' = Plus(updates, One({e}))
    /\ UNCHANGED <<phase, scaling, toScale, listVars, bodies, spriteless, hidden,
                   bucketsMade, handles, leaked>>

CallbackReturns ==
  /\ phase = "alwaysActive"
  /\ Returns
  /\ Release(thisEntity)
  /\ UNCHANGED <<phase, iter, listVars, updates>>

BeginSceneUpdate ==
  /\ phase = "alwaysActive"
  /\ ~scripting
  /\ iter > Len(dynamicOrTempEntities)
  /\ phase' = "sceneUpdate"
  /\ scripting' = TRUE
  /\ UNCHANGED <<vars, thisEntity, iter, scaling, toScale, listVars, entityVars,
                 ref, updates>>

OnSceneUpdateReturns ==
  /\ phase = "sceneUpdate"
  /\ Returns
  /\ phase' = "map"
  /\ UNCHANGED <<iter, listVars, ref, updates>>

(* MapEntitiesToBeRendered: what the visible buckets list and is not       *)
(* hidden is mapped once per listing, and joins the frame's callback list  *)
(* unless it is always active; a forced entity is mapped if the bucket of  *)
(* its position is not one of the visible ones.                            *)
Listings(view) == [e \in Entity |->
  IF e \in hidden THEN 0 ELSE Cardinality({b \in view : e \in entities[b]})]
Forced_Always(view) == persistentEntities  \* faulty variant: mapped or not
Forced(view) == [e \in Entity |->
  IF GetBucket(position[e]) \in view THEN 0 ELSE persistentEntities[e]]

IsStaticCallbackEligible_Everyone(e) == TRUE  \* faulty variant
IsStaticCallbackEligible(e) == ~ShouldEntityBeAlwaysActive(e)

MapEntitiesToBeRendered ==
  /\ phase = "map"
  /\ \E view \in Views :
       LET callbacks == [e \in Entity |->
             IF IsStaticCallbackEligible(e) THEN Listings(view)[e] ELSE 0]
           mapped == Plus(Listings(view), Forced(view))
       IN /\ lastFrameCallbacks' = Plus(lastFrameCallbacks, callbacks)
          /\ piecesToRender' = Plus(piecesToRender, mapped)
          /\ ref' = Minus(Plus(ref, Plus(callbacks, mapped)), persistentEntities)
  /\ persistentEntities' = None
  /\ phase' = "frameEntities"
  /\ UNCHANGED <<vars, scripting, thisEntity, iter, scaling, toScale,
                 dynamicOrTempEntities, entityVars, updates>>

(* UpdateCurrentFrameEntities: the entity leaves the list when its         *)
(* callback, if it has one and is still alive, has returned.               *)
LeavesFrame(S) ==
  lastFrameCallbacks' = Minus(lastFrameCallbacks, One(S))

UpdateFrameEntity ==
  /\ phase = "frameEntities"
  /\ ~scripting
  /\ \E e \in Entity :
       /\ lastFrameCallbacks[e] > 0
       /\ IF alive[e]
          THEN UpdateParticles(e) /\ updates' = Plus(updates, One({e}))
          ELSE UNCHANGED <<particlesOver, updates>>
       /\ IF alive[e] /\ e \in Scripted
          THEN /\ scripting' = TRUE
               /\ thisEntity' = {e}
               /\ AddRef({e})
               /\ UNCHANGED lastFrameCallbacks
          ELSE /\ LeavesFrame({e})
               /\ Release({e})
               /\ UNCHANGED <<scripting, thisEntity>>
  /\ UNCHANGED <<vars, phase, iter, scaling, toScale, dynamicOrTempEntities,
                 piecesToRender, persistentEntities, bodies, spriteless, hidden,
                 bucketsMade, handles, leaked>>

FrameCallbackReturns ==
  /\ phase = "frameEntities"
  /\ Returns
  /\ LeavesFrame(thisEntity)
  /\ ref' = Minus(ref, Plus(One(thisEntity), One(thisEntity)))
  /\ UNCHANGED <<phase, iter, dynamicOrTempEntities, piecesToRender,
                 persistentEntities, updates>>

EndUpdate ==
  /\ phase = "frameEntities"
  /\ ~scripting
  /\ lastFrameCallbacks = None
  /\ phase' = "render"
  /\ UNCHANGED <<vars, scripting, thisEntity, iter, scaling, toScale, listVars,
                 entityVars, ref, updates>>

(* RenderPieces draws and releases the pieces.                             *)
RenderPieces_KeepsPieces ==  \* faulty variant: the pieces are not cleared
  /\ phase = "render"
  /\ phase' = "resolve"
  /\ UNCHANGED <<vars, scripting, thisEntity, iter, scaling, toScale, listVars,
                 entityVars, ref, updates>>
RenderPieces ==
  /\ phase = "render"
  /\ phase' = "resolve"
  /\ piecesToRender' = None
  /\ ref' = Minus(ref, piecesToRender)
  /\ UNCHANGED <<vars, scripting, thisEntity, iter, scaling, toScale,
                 dynamicOrTempEntities, lastFrameCallbacks, persistentEntities,
                 entityVars, updates>>

(* ResolveMoveRequests, at the end of the frame or called by ScaleEntities *)
(* under a script.                                                         *)
FrameResolves ==
  /\ phase = "resolve"
  /\ BeginResolve
  /\ UNCHANGED <<scriptVars, listVars, entityVars, ref, updates>>

ResolveOne ==
  /\ ResolveNext
  /\ DestroyBodies
  /\ ref' = Minus(ref, IF alive[moveRequests[resolving].entity]
                       THEN None ELSE ReleasedByDeletion)
  /\ MakeBuckets
  /\ UNCHANGED <<scriptVars, listVars, spriteless, particlesOver, hidden, handles,
                 leaked, updates>>

RequestsOf(e) ==
  Cardinality({i \in 1 .. Len(moveRequests) : moveRequests[i].entity = e})

ResolveEnds_KeepsRequests ==  \* faulty variant: the list is not cleared
  /\ resolving > Len(moveRequests)
  /\ resolving' = 0
  /\ UNCHANGED <<entities, moveRequests, sceneVars, scriptVars, listVars,
                 entityVars, ref, updates>>

ResolveEnds ==
  /\ EndResolve
  /\ ref' = [e \in Entity |-> ref[e] - RequestsOf(e)]
  /\ UNCHANGED <<scriptVars, listVars, entityVars, updates>>

EndFrame ==
  /\ phase = "resolve"
  /\ resolving = 0
  /\ moveRequests = <<>>
  /\ phase' = "idle"
  /\ UNCHANGED <<vars, scripting, thisEntity, iter, scaling, toScale, listVars,
                 entityVars, ref, updates>>

(* The engine's own steps, once the scene has been read.                   *)
Engine ==
  \/ OnSceneLoadedReturns \/ BeginFrame \/ ContactCallbacksReturn
  \/ RemoveDead \/ RemoveFinished \/ UpdateActive \/ CallbackReturns
  \/ BeginSceneUpdate \/ OnSceneUpdateReturns
  \/ MapEntitiesToBeRendered
  \/ UpdateFrameEntity \/ FrameCallbackReturns \/ EndUpdate
  \/ RenderPieces
  \/ FrameResolves \/ ResolveOne \/ ResolveEnds \/ EndFrame
  \/ ScaleOne \/ ScaleResolves

SceneNext == SceneLoadsEntity \/ SceneLoaded \/ ScriptCall \/ Engine

SceneSpec == SceneInit /\ [][SceneNext]_allVars

(* The main loop keeps updating and drawing, and a script that runs        *)
(* returns (one that loops for ever stops the program).                    *)
SceneFairSpec == SceneSpec /\ WF_allVars(Engine)

-------------------------------------------------------------------------------

SceneTypeOK ==
  /\ TypeOK
  /\ phase \in Phases
  /\ scripting \in BOOLEAN
  /\ scaling \in BOOLEAN
  /\ thisEntity \in SUBSET Entity
  /\ iter \in Nat \ {0}
  /\ toScale \in SUBSET (Entity \X Position)
  /\ dynamicOrTempEntities \in Seq(Entity)
  /\ lastFrameCallbacks \in [Entity -> Nat]
  /\ piecesToRender \in [Entity -> Nat]
  /\ persistentEntities \in [Entity -> Nat]
  /\ bodies \in SUBSET Body
  /\ spriteless \in SUBSET Entity
  /\ particlesOver \in SUBSET Particles
  /\ hidden \in SUBSET Entity
  /\ bucketsMade \in SUBSET Bucket
  /\ handles \in SUBSET Entity
  /\ leaked \in [Entity -> Nat]
  /\ ref \in [Entity -> Nat]
  /\ updates \in [Entity -> Nat]

(* Every entity has exactly as many references as there are places that    *)
(* hold it: none is freed while the engine or a script can still reach it, *)
(* and one that nothing holds is gone.                                     *)
Listed(e)  == Cardinality({b \in Bucket : e \in entities[b]})
ActiveCount(e) ==
  Cardinality({i \in 1 .. Len(dynamicOrTempEntities) : dynamicOrTempEntities[i] = e})
Holders(e) ==
  Listed(e) + RequestsOf(e) + ActiveCount(e) + lastFrameCallbacks[e]
  + piecesToRender[e] + persistentEntities[e] + leaked[e]
  + Cardinality({e} \intersect bodies) + Cardinality({e} \intersect handles)
  + Cardinality({e} \intersect thisEntity)
RefExact == \A e \in Entity : ref[e] = Holders(e)

(* "This list will hold every temporary or dynamic entity with callbacks   *)
(* or physics": the list of active entities holds each live one, once.     *)
ActiveListComplete ==
  \A e \in constructed :
    alive[e] /\ ShouldEntityBeAlwaysActive(e) => ActiveCount(e) = 1

(* assert(entityA != entityB) in TestEntityLists: no entity is in both     *)
(* lists when the engine is about to iterate over one.                     *)
TestEntityLists ==
  \A e \in Entity : ActiveCount(e) = 0 \/ lastFrameCallbacks[e] = 0

(* However scripts move entities about, none is updated, or has its        *)
(* callback run by the engine, twice in a frame.                           *)
UpdatedOnce == \A e \in Entity : updates[e] <= 1

(* No active entity is left out of a frame, though callbacks add and kill  *)
(* entities while the list is iterated: all that are alive when the pass   *)
(* ends have been updated.                                                 *)
ActiveAllUpdated ==
  [][phase = "alwaysActive" /\ phase' = "sceneUpdate" =>
       \A e \in constructed :
         alive[e] /\ ShouldEntityBeAlwaysActive(e) => updates[e] > 0]_allVars

(* The asserts of Update and MapEntitiesToBeRendered: what was mapped for  *)
(* a frame has been drawn and updated before the next one is mapped.       *)
FrameStartsClean ==
  phase \in {"idle", "physics", "alwaysActive", "sceneUpdate", "map"} =>
    piecesToRender = None /\ lastFrameCallbacks = None

(* assert(bucketIter != buckets.GetLastBucket()) when a finished temporary *)
(* entity is removed: the bucket of its position exists, if no move of it  *)
(* is pending (a move by another callback in this frame may have taken it  *)
(* to where there is no bucket yet).                                       *)
BucketOfFinishedExists ==
  \A e \in constructed :
    Iterates(e) /\ alive[e] /\ IsFinished(e) /\ PendingOf(e) = {}
      => GetBucket(position[e]) \in bucketsMade

Maps == phase = "map" /\ phase' = "frameEntities"

(* An entity whose index is up to date is drawn once when it is forced     *)
(* once and not hidden, whether or not the camera sees its bucket.         *)
SettledForcedDrawnOnce ==
  [][Maps => \A e \in constructed :
       alive[e] /\ PendingOf(e) = {} /\ e \notin hidden /\ persistentEntities[e] = 1
         => piecesToRender'[e] = 1]_allVars

(* A deleted entity is freed in the end, unless a script keeps a handle to *)
(* it or leaked one.                                                       *)
EventuallyFreed ==
  \A e \in Entity :
    (e \in constructed /\ ~alive[e]) ~> (ref[e] = 0 \/ e \in handles \/ leaked[e] > 0)

(* Every frame that begins ends.                                           *)
EveryFrameEnds == phase = "physics" ~> phase = "idle"

===============================================================================
