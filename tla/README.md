# Ethanon engine: a verification project

Ethanon is a 2D game engine in C++ (`src/toolkit/Source/src/engine`).  A game is
a set of AngelScript callbacks; the engine loads a *scene* of *entities*, and
each frame updates them, runs the callbacks and draws what the camera sees.
Everything runs in one thread, but not in one order: scripts run in the middle
of the engine's own loops and change the lists those loops iterate over, many
effects are deferred to the end of the frame, and entities are reference counted
by hand.  This project models that core, checks it with TLC and proves its main
properties with TLAPS.

## Inventory

| component | state | operations | interacts with |
|---|---|---|---|
| Bucket manager (`Scene/ETHBucketManager.cpp`) | the entities each cell of a grid lists, the pending move requests | add, move by request, delete by id, search, resolve the requests | scene, entities (which request moves), scripts |
| Scene (`Scene/ETHScene.cpp`) | id counter, forced entities, the other parts of a scene | load, add, delete, `Update`, `RenderScene`, `ScaleEntities` | all below |
| Active entity handler (`Scene/ETHActiveEntityHandler.cpp`) | the entities updated in every frame, those updated in this one | two passes that update entities and run their callbacks, removal of finished particle effects | bucket manager, scripts |
| Rendering manager (`Renderer/`) | the pieces mapped for this frame | map, draw and release | scene |
| Entity (`Entity/`) | position, id, liveness, sprite, particles, callbacks, reference count, controller | moves, kill, `SetSprite`, callbacks, `AddRef`/`Release` | bucket manager, physics |
| Physics (`Physics/`) | Box2D world, bodies, joints, stacked end-of-contact callbacks | step, contact callbacks, create and destroy bodies | entities, scripts |
| Script interface (`Script/`) | the script module, the scene requested next | what scripts may call | scene, engine |
| Engine (`ETHEngine.cpp`) | current scene, its callback functions | frame loop, scene loading, suspend and resume | launcher, scene |
| Particles (`Particles/`) | per system: its particles with their ages and lives, killed, finished, the number that are active | play, kill, update, make anew | entity, active entity handler, scripts |
| Resources (`Resource/`) | the sprites loaded so far, by file name, temporary or not | load, find, release one, the temporary ones or all | entities, drawables, scene |
| Drawables (`Drawing/`) | the list of what scripts draw over the scene | insert, draw, remove the dead, clear | scripts, engine |
| Launcher (`gs2d/.../android/main.cpp`) | the application, the splash screen, the video device | start, loop, destroy, restart, restore | engine |
| Input, timers, files, custom data, shaders, gs2d, editor | device state, properties | | engine, scripts |

What makes each part correct:

* bucket manager: an entity is listed by one bucket, ids lead to the entity they
  were meant for, and what index and positions disagree about is exactly what the
  pending requests will repair;
* scene and rendering: each entity is updated and drawn as often as it should be in a
  frame, however scripts move, hide, force or delete entities meanwhile;
* active entity handler: every entity that must be updated in each frame is listed,
  none is left out when the list changes under the iterator, the two lists are disjoint;
* entity: its counter is the number of its holders, so it is freed once, after the last;
* physics: bodies, contacts and joints agree with controllers, begin and end callbacks
  match, callbacks see entities that have a body, nothing outlives the scene;
* particles: a finished system has shown all it should, a killed one fades out and gives
  nobody who has lived another life (the first lives of particles still waiting do begin,
  against the header), an entity that only has systems of this kind leaves the scene in
  the end;
* resources, drawables and launcher: after the device was lost all that is drawn is on the
  new one, entities have the lightmaps of their own scene, what is drawn once is drawn in
  the order of the calls and under what stays;
* engine: a requested scene is loaded with its own functions, and what a replaced scene
  leaves behind does not disturb the next.

What is hard here is not concurrency between threads but the interleaving of
scripts with the engine:

* *stale state*: a move changes the position at once and the listing bucket
  only at the end of the frame, so for most of a frame the index is wrong; an
  entity's kind (temporary or not) is read at several times and can change
  between them;
* *iteration under change*: callbacks add, delete and kill entities while the
  engine iterates over the lists that hold them;
* *manual ownership*: buckets, requests, lists, pieces, bodies and script handles
  each own a reference, and a dead entity may still be held by several;
* *ordering*: the requests of an entity must be applied in order, the lists of a
  frame emptied before the next;
* *protocol sequences*: ids from files and from the counter; a scene replaced
  while handles to its entities survive; particle systems killed and played again in
  the frame they end in;
* *restart*: the activity is paused and resumed at any point between two loops; the
  device and all textures are gone, while scripts, scene and cached names live on.

PROJECT.json lists each of these under "hazards" with its line and the
properties that would catch it.

## Modules

* `ETHBucketManager`: the index.  One action per operation (`AddEntity`,
  `SetPosition`, `DeleteEntity`, ...); the loop of `ResolveMoveRequests` is taken
  one request per step.  Ids are explicit because the code searches, moves and
  deletes by id.  The grid is one-dimensional.
* `ETHSceneIndex`: the abstract specification.  It has no ids, requests or loop:
  calls take effect on the entity at once, what the buckets show may lag, and an
  atomic refresh makes it exact.  `ETHBucketManager!ImplementsIndex` states the
  refinement: while the loop runs, its clients (there are none: nothing else runs
  then) see the buckets as they will be at its end.
* `ETHScene`: extends `ETHBucketManager` with the frame.  `phase` is the program
  counter of `ETHEngine::Update` and `RenderFrame`, `iter` the iterator of the
  pass over the active entities, `scripting` and `thisEntity` say that a script
  runs and as whose callback.  While `scripting` holds, the actions named
  `Script...` interleave freely: a callback is any finite sequence of calls.
  `ref` is the counter the code keeps; `Holders` counts the places that hold an
  entity, so `RefExact` compares the code's bookkeeping with the truth.
* `ETHEngine`: extends `ETHBucketManager` with what happens from one scene to the
  next.  `nextScene` is the request a script has made, `functions` the scene whose
  `onSceneUpdate` and `onResume` are bound, `stale` the entities of replaced scenes,
  to which scripts may still hold handles.  The frame is as coarse as these allow:
  one phase in which callbacks run, one in which requests are resolved.  `SceneReplaced`
  destroys the old scene before the new one is read; the code reads first and then drops
  the old one.  No script runs between the two and reading touches nothing of the old
  scene, so nothing that runs later, and no property, can tell the order.
* `ETHPhysics`: the physics simulator of a scene, on its own: its phases are a
  different cut of the frame (between two steps, in the locked world, while the
  stacked end callbacks run, while the scene is destroyed).  Of the buckets it keeps
  only whether they list an entity (`listed`).  `body` is what the controllers say,
  `world` what the Box2D world has; `held` and `joints` likewise for joints.  A
  callback in progress is `kind`, `contact` and `side` (which of the two entities is
  being told; 3 when both have been), with `scripting` while its script runs.
  `stacked` holds the contacts that ended, each with a reference to both entities.
  Box2D is modelled from its source as far as the engine sees it: which contacts it
  updates, when it calls its listeners, what goes with a body.  What it computes
  (which bodies touch) is chosen freely.  `asked` and `open` are history.
* `ETHParticleManager`: the particle systems of one entity, on their own.  A particle is
  its age, its life time, its number of lives and whether it has been launched; an update
  is one action that treats all particles of all systems, as the loops of the code do.
  Scripts play and kill systems between updates, and a restart makes them anew.  `inScene`
  is the entity's place in the list of active entities, which removes it when it is
  temporary and its particles are over.  `lives` is history.
* `ETHEffect`: the abstract specification of a particle system as a script sees it.  It
  knows neither time nor the order particles are launched in: a system plays, fades out or
  is over, and some lives are seen.  `ETHParticleManager!ImplementsEffect` is the refinement.
  It states what the code keeps: after `Kill` the particles that wait are still launched,
  which `ETHParticleManager.h` denies; `KilledLaunchesNone` is what the header says, and
  the run `particles_killed` refutes it.
* `ETHResourceManager` and `ETHDrawableManager`: two data structures without a schedule of
  their own, the cache of sprites and the list of drawables, as operators.
  `RemoveTheDead`, a loop that erases from the list, is written as the function that gives
  the n-th drawable alive, which a proof can count, rather than as a selection.
* `ETHApplication`: composes both with the engine and the launcher.  `phase` is the
  launcher's and the engine's program counter, from the splash screen to the pause between
  two loops; `device` numbers the video devices, so that a sprite (a file and a device)
  shows whether it was recovered.  Of a scene it keeps its file and its entities' sprites
  and lightmaps.
* `ETHBucketManager_proofs`, `ETHScene_proofs` (what a scene keeps of the index),
  `ETHSceneRefs_proofs` (its references), `ETHSceneFrame_proofs` (its lists and passes),
  `ETHEngine_proofs`, `ETHPhysics_proofs`, `ETHParticleManager_proofs`,
  `ETHApplication_proofs`: the theorems.
* `MCETHBucketManager`, `MCETHScene`, `MCETHEngine`, `MCETHPhysics`,
  `MCETHParticleManager`, `MCETHApplication`: the instances TLC explores.

The modules overlap where the parts meet: `ETHScene` and `ETHEngine` both extend the
bucket manager, one with the inside of a frame and one with the change of scenes;
`ETHApplication` takes the frame as coarsely as `ETHEngine` and adds the device.  Where
`ETHScene` lets particles end at any time, `ETHParticleManager` says when they do.

Definitions keep the names of the code; PROJECT.json "map" gives the lines each
one stands for.  Definitions with an underscore (`MoveEntity_KeepsOld`) are
faulty variants, used only to see that the properties notice them.

### Abstractions

The order inside a bucket only breaks ties of the drawing order, so a bucket is a
set.  One piece stands for all pieces (sprite, halo, particles) an entity is
decomposed into.  Where physics moves a body, and when particles end, is chosen
freely.  A script reaches an entity through a handle, as the owner of the
callback, or through a search over the buckets; searches change nothing and are
only that guard.  Loading gives entities distinct ids, as saved scenes have.

`ETHParticleManager` counts time in whole units.  Ages and numbers of lives stop at
`MaxElapsed` and `MaxRepeat`, beyond which the code no longer tells them apart: every
life time of the instance is below the first, every number of repetitions at most the
second, and an endless system never reads its count.  The code moves particles by at most 250 ms in
a frame but lets them age by all of it; motion is left out.  Particles keep a size and
an opacity above zero: one that has shrunk to nothing, which the code neither draws nor
counts as active, is drawn and counted in the model.

In `ETHApplication` one sprite stands for all sprites of an entity, and one for all of
the particles drawn by a script.  Fading texts and particles last for two frames.
Lightmaps are always enabled.

## Runs

Each of the passing runs ends with the whole state space explored.

| run | question | instance |
|---|---|---|
| `bucket_manager` | do index and entities differ only by what pending requests repair, and does the index catch up with who lives and who is dead? | 2 entities, 4 positions in 3 buckets (one negative), file ids {0, 2}, 3 requests |
| `scene` | is nobody left out of a frame, is a deleted entity freed, does each frame end, is the bucket there that a finished effect is removed from, with callbacks that add, move, delete and change the sprites of entities? | a body with a callback, a particle effect without a sprite, from a file or added by a script; 2 buckets, 1 visible, 1 request |
| `scene_render` | are references exact and is each entity drawn and updated as often as it should be, does the scene implement the index, with hiding, forced rendering, kept handles and scaling in the middle of a callback? | a moving and a static entity with callbacks, one has a body; 2 positions in 2 buckets, 1 visible, factor 2, 2 requests |
| `engine` | is the index of the current scene sound whatever scenes came before, are replaced scenes dead, do the right functions run, is every request served? | 3 entities, 2 scenes, 2 buckets, scripts that move entities of replaced scenes |
| `physics` | are bodies, joints, contacts and references sound while callbacks delete, scale and join entities; is every end of a contact reported and is nothing left of a scene? | a hero with all callbacks, a crate it may be joined to, a sensor; at most 2 contacts end in a step |
| `particles` | has a finished system shown all it should, does a killed one fade out, does a temporary effect leave the scene, does each system implement `ETHEffect`? | 2 systems of 2 particles: steady, all at once, endless, without its file, or empty; played or made anew twice |
| `application` | is all that is drawn on the current device, does every entity have a lightmap of its own scene, is the top layer in order, is there a scene to recover? | 2 scenes of 2 entities, 3 lightmaps on file, 2 devices, 3 drawables |

Two entities are enough for the interactions the code has: a callback of one
changes the other or itself, before or after it in a list.  Two or three requests
give chains (out and back, out and on) and chains of two entities interleaved; one is
enough for `scene`, which asks about the list of active entities.
Two buckets, one visible, separate listed from positioned and drawn from not.
The types of the
bucket manager are a part of `SceneTypeOK`, which `scene` checks.
`MaxForced` = 1 and `leaked` at most 1 bound only how often one script repeats a
call.  `physics` has a third entity so that one contact can end while another is
being reported, and `MaxStacked` = 2 so that the stack holds ends of both; more
contacts in a step only lengthen it.  Two bodies have at most one contact there (one
fixture each).  Two particles are launched in turn, so that one waits while the other
has lived; two systems of any two kinds show an entity that waits for one of them.  Two
devices lose one, and three drawables are one that stays between two that do not.  The
bounds are `MaxRequests`, `MaxForced`, `MaxStacked`, `MaxParticles`, `MaxElapsed`,
`MaxRepeat`, `MaxPlays`, `MaxDevices`, `MaxDrawables`, and the guard on `leaked`.

Five runs end in a violation, each a disagreement between the code and something
it says of itself (PROJECT.json "findings"): `scene_lists` and
`physics_locked` violate assertions, `engine_chained` and `engine_stale` the comments that say a
request is processed and that resolving discards what is dead, and `particles_killed` the
comment in `ETHParticleManager.h` that a killed system launches no new particles.  The
constant `Calls` says which unusual calls the scripts of an instance make; each of the
first four needs one, and the same property holds without it.  `particles_killed` needs
none: it is the instance of `particles`.

### Fairness

`bucket_manager` assumes WF on `ResolveMoveRequests`: every frame is drawn,
and `RenderScene` ends by resolving.  `scene` assumes WF on the disjunction
`Engine` of the engine's own steps: the launcher's loop keeps calling `Update` and
`RenderFrame`, and a script that runs returns (one that does not hangs the
program).  `engine` assumes the same of the steps of `ETHEngine`, and `particles` of
`Frame`: an entity in the list of active entities is updated in every frame.  Nothing is
assumed of the calls scripts make; a restart is never assumed to happen.  `scene_render`
and `application` check safety only.  `physics` assumes WF on the engine's steps, since
callbacks return and the main loop goes on, and SF on `StepEnds`: the world updates
finitely many contacts in a step, which keep interrupting it only in the model.

## Proofs

TLAPS proves every safety invariant, every safety action property and every refinement
that a passing run checks, for every set of entities, every grid and every bound.  Some
theorems have a condition on what scripts call or on the data of a system, named below
with what happens without it; the instance of the run satisfies it.

* `IndexInv`, the inductive invariant of the bucket manager.  `MovePath` is its
  heart: the pending requests of a live entity form a chain from the bucket that
  lists it to the bucket of its position.  It needs `IdsDistinct` (for entities
  listed or not, since moves go by id), `EntitiesExist` and `ListedOnce`.  From it
  follow `UniqueIds`, `LostHasRequest`, `LiveAreListed`, `ExactAtRest`, the action
  properties `ResolveKillsNoOne` and `DeleteKillsIt`, and the refinement
  `ImplementsIndex`: the step that ends the loop maps to `Refresh` because an
  empty chain means that the listing bucket is the bucket of the position.
* The same invariant and the refinement for `SceneSpec`
  (`SceneIndexInvariant`, `SceneImplementsIndex`): every step of a frame or a
  script is a step of the bucket manager or leaves it alone.
* `ReferencesAreExact`: `RefExact` for the whole scene.  Its invariant adds to
  `IndexInv` the types of the counters (`CountsOK`), what the phase says of the
  lists and of the callback that runs (`PlacesOK`), and the equation itself
  (`RefHeld`); the lemmas compute how each operation changes the cardinality of
  the sets of holders.
* `FramesStartClean` and `ListsAreDisjoint`: the assertions at the start of the
  mapping and in `TestEntityLists`, the second under the assumption that no
  script calls `SetSprite`, which `scene_lists` shows to be necessary.
* `ActiveListIsComplete`, `ActivesAreUpdated`, `NoneIsUpdatedTwice`, `ForcedAreDrawnOnce`,
  `FinishedHaveBuckets` and `SceneTypes`.  Whether an entity belongs to the list of active entities is decided
  once, when it is added (`ActiveInv`); so the list is complete if nothing that matters to
  that decision changes later, which is what `TemporaryFromTheStart` says: no script calls
  `SetSprite`, or no particle effect is added with a sprite that it could lose (as in
  `scene`, whose scripts do call `SetSprite`).  The pass over the list is proved by
  what lies on either side of its iterator: what is before it has been updated
  (`PassInv`), what is at or behind it has not (`OnceInv`), however callbacks append and
  erase.  That nobody is updated by both passes needs disjoint lists, hence no `SetSprite`.  `FinishedHaveBuckets`, the assertion of
  `RemoveFinishedTemporaryEntity`, is about entities without a pending move: one that a
  callback has moved in this frame may be positioned where no bucket has been made, and
  fails it.

* `EveryIndexIsSound` and `ReplacedScenesAreDead`: `CurrentIndexInv` and
  `StaleIsDead`, whatever scripts do with handles to entities of replaced scenes.  The
  invariant is `IndexInv` of the current scene, whose entities `constructed` are disjoint
  from the `stale` ones: all that lived was listed (`LiveAreListed`), so killing what is
  listed leaves nothing alive.  Once a script has moved a stale entity (`tainted`) a
  request of the current scene's bucket manager is about nobody in it and `IndexInv` is
  lost, as `engine_stale` shows; a weaker invariant remains, that each live entity is in
  exactly one bucket, and it is what the two theorems need.
* `RequestsAreKept` and `RightFunctionsRun`: if `onSceneLoaded` itself requests no
  scene, which `engine_chained` shows to be necessary.
* `ParticlesAreCounted`, `FinishedHaveLivedAll` and `SystemsKeepPromises`: the types of
  `ETHParticleManager`, `FinishedLivedAll` and the refinement `ImplementsEffect`.  The
  invariant adds, for each particle, that its number of lives is what the history
  counted unless it was killed, that it never exceeds what the system repeats, and that a
  finished system has only particles that are done (`ParticleOK`).  The refinement also
  needs that a particle of a system that was not killed is never past its life between
  two frames (`IsYoung`), or killing it would take the particle away.  For that no life
  may be over as it begins: the assumption `LivesLast`, that half of `randomizeLifeTime`
  is at most `lifeTime`.  The code does not check it, and a system that violates it
  hides such particles when it is killed.
* `PhysicsIsInvariant` and, from it, `ReferencesAreExact`, `PhysicsTypes` and
  `CallbacksAreMatched`, whatever scripts do, deletions in the locked world included.  The
  invariant relates four things.  `Control`: which callbacks a phase may be in, and that
  an end callback is about the head of the stack.  `Bodies`: a controller with a body is
  listed and its body in the world, contacts are between bodies of the world, two bodies
  have at most one.  `References`: the counter of an entity is the bucket, the body, the
  handle and its places in the stack, counted over a sequence that callbacks extend while
  it is served.  `Match`: begins told so far are the contacts that touch and the ends
  still to be told, with the two sides of the callback in progress told one after the other.
* `WorldIsKept`, `JointsAreInSync`, `CallbacksHaveBodies`, `NothingIsLeft`, if no script
  deletes an entity in the step (`DeleteInStep`): then also `Locked` is invariant, that
  world and controllers agree on bodies and joints.  With such deletions `physics_locked`
  shows a body destroyed in the locked world.
* `ContactsAreDisabledAsAsked`, if `DisableContact` is called in pre-solve callbacks
  only (no `DisableElsewhere`), as the engine's log demands.
* `LightmapsAreOwn`, `ResourcesAreRecovered`, `RestartsFindScene`, `TopLayerIsInOrder`:
  all that `application` checks, for any scenes, lightmaps, numbers of devices and lengths
  of the list of drawables.  The invariant says what the cache holds under each name: a
  lightmap only of the current scene, and everything of the current device
  (`ApplicationInv`); and that while scripts run and until the frame is drawn the list is
  what was drawn once, in the order of the calls and with sprites of this device, and then
  what stays (`TopInv`).  That `RemoveTheDead` leaves only what is alive goes by induction
  on the list; since the induction theorem of the library cannot be instantiated, it uses
  that a set of naturals has a least element (`LeastOf`).

Assumptions on the constants are those named in the modules: positions are
integers, the bucket size is positive, file ids are naturals, `Entity` is finite
where a cardinality is taken.

Only model-checked: the liveness properties `EventuallyIndexed`, `EventuallyFreed`,
`EveryFrameEnds`, `RequestServed`, `EndsAreServed`, `TemporaryGoesAway` and
`KilledFadesOut`, since proofs under fairness need `ENABLED`, which is out of the prover's
reach; and the runs that end in a violation, where the trace is the proof.

Proving found two places where the model could not be reasoned about: the callback
counts in `ETHPhysics!CallbackRuns` were a `CASE` whose guards overlapped for an entity without
both callbacks, which leaves the choice to the tool (TLC takes the first), and now is an
`IF`; and `RemoveTheDead` was a `SelectSeq`, of which the prover knows nothing.  Both
have the same behaviours as before.

## Not modelled

Drawing order, lights, shaders and animation change nothing that a property speaks of;
of lightmaps only which one an entity has is modelled.  Files, audio, video, input, custom
data and the editor are input and output with no protocol that a model could check.
AngelScript, Box2D and the other vendored libraries are seen only through the engine's use
of them, Box2D's contacts and bodies excepted.  They are most of the source of the
repository, so the share of it that is mapped is small.

Within the modelled parts:

* `ETHPhysics` creates no body in the locked world: what follows then is undefined.
  `DisableContact` called outside a pre-solve callback (logged, not refused) disables
  whatever contact is solved next; `DisabledAsAsked` is checked for scripts that obey the
  log.  `AddToPosXY` of an entity whose body is gone and bodies without shapes use a null
  pointer or leak a reference; those calls are outside the model.
* Searches over buckets appear only as the guards `IsListed` and `Reaches`, whatever area
  they search: the grid is one-dimensional, and the list of visible buckets with its limit
  of 512 is chosen freely instead.
* An entity of a scene file that fails to load never enters the scene; that its object
  leaks is not modelled.
* `ETHParticleManager` has no actions for slots without a manager, which the code
  dereferences.  An entity none of whose systems could be loaded is temporary and never
  over: `TemporaryGoesAway` leaves it out.
* `ETHApplication` has no `EnableLightmaps` and no cache of entity files, and files that
  are loaded exist.  A timed particle effect on the top layer keeps the sprite of a lost
  device, in the model as in the code; `ResourcesRecovered` asks only for what was drawn
  in the frame.  `Destroy` before the application exists is outside the model.

## Plan

1. Done: `ETHBucketManager`, `ETHSceneIndex`, `ETHScene` and their proofs.
2. Done: `ETHPhysics`.
3. Done: `ETHEngine` and its proofs, without assumptions on stale handles.
4. Done: `ETHParticleManager` with `ETHEffect`, `ETHApplication` with the cache and the
   drawables, and their proofs.
5. Done: proofs for `ETHPhysics`, for the passes over the entities of a scene, and for the
   top layer.
6. The safety part of the liveness properties as theorems: what a frame, a stack of ended
   contacts or a killed particle system has left to do gets less with every step of the
   engine.
7. A two-dimensional grid with the list of visible buckets and its limit; `EnableLightmaps`.
