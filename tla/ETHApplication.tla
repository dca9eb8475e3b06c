----------------------------- MODULE ETHApplication -----------------------------
(***************************************************************************)
(* The engine and the device it draws on: the launcher of Android          *)
(* (Platform/android/main.cpp) starts it, runs its loop, destroys its      *)
(* resources when the activity is paused and starts it again, on a new     *)
(* device, when it is resumed.  Scripts, scene, entities and the drawables *)
(* of the top layer survive that; the sprites they use do not.             *)
(*                                                                         *)
(* Sprites come from one cache by file name.  The lightmaps of all scenes  *)
(* have the same names ("add" and the id of the entity), so those of one   *)
(* scene must be gone before those of the next are loaded.                 *)
(***************************************************************************)
EXTENDS ETHResourceManager, ETHDrawableManager

CONSTANTS
  Scene,         \* the scenes, each with a directory of lightmaps
  NoScene,       \* no scene, or no request
  Entity,        \* the ids of entities
  Lightmaps,     \* the lightmaps on file: pairs of a scene and an entity
  MaxDevices,    \* bound: how many devices there are, one after another
  MaxDrawables   \* bound: how many drawables scripts keep on the top layer

ASSUME ApplicationAssumption ==
  /\ NoScene \notin Scene
  /\ Lightmaps \subseteq Scene \X Entity
  /\ {"hero", "spark", "no file"} \intersect Entity = {}
  /\ MaxDevices \in Nat
  /\ MaxDrawables \in Nat

VARIABLES
  phase,       \* where the launcher and the engine are
  device,      \* the video device, by number
  started,     \* the application exists
  aborted,     \* m_abort
  richLighting, \* rich lighting is enabled in the file of the application
  scene,       \* m_pScene, by the file it was loaded from
  sceneFile,   \* m_sceneFileName
  nextScene,   \* m_nextScene
  persistent,  \* m_persistentResources
  preLoaded,   \* m_usePreLoadedLightmapsFromFile
  cache,       \* m_resource of the graphic resource manager
  entities,    \* the entities in the scene: their sprite, their lightmap, and
               \* the file of the lightmap if it was loaded from one
  drawables,   \* m_drawableList
  calls        \* history: how many calls of this frame draw once

settings == <<started, richLighting, persistent, preLoaded>>
engineVars == <<settings, aborted, scene, sceneFile, nextScene>>
vars == <<phase, device, engineVars, cache, entities, drawables, calls>>

Phases == {"splash", "ready", "main", "update", "scripts", "render", "paused", "started"}

EntityFile == [directory |-> "entities", name |-> "hero"]
ParticleFile == [directory |-> "particles", name |-> "spark"]
LightmapFile(s, e) == [directory |-> s, name |-> e]
Generated == [directory |-> "generated", name |-> "lightmap"]

NoEntities == [e \in {} |-> {}]

ApplicationInit ==
  /\ phase = "splash"
  /\ device = 1
  /\ started = FALSE
  /\ aborted = FALSE
  /\ richLighting \in BOOLEAN
  /\ scene = NoScene
  /\ sceneFile = NoScene
  /\ nextScene = NoScene
  /\ persistent = FALSE
  /\ preLoaded = FALSE
  /\ cache = EmptyCache
  /\ entities = NoEntities
  /\ drawables = <<>>
  /\ calls = 0

-------------------------------------------------------------------------------
(* What the running script may do.                                         *)

WarnIfRunsInMainFunction == phase = "main"

ScriptRuns == phase \in {"main", "scripts"}

(* DrawRectangle, DrawLine, DrawText and, with a sprite, DrawSprite.       *)
DrawOnce ==
  /\ ScriptRuns
  /\ Len(drawables) < MaxDrawables
  /\ \/ drawables' = Insert(drawables, Immediate(calls + 1, NoSprite)) /\ UNCHANGED cache
     \/ /\ cache' = AddFiles(cache, {EntityFile}, device, FALSE)
        /\ drawables' = Insert(drawables, Immediate(calls + 1, FindSprite(cache', EntityFile)))
  /\ calls' = calls + 1
  /\ UNCHANGED <<phase, device, engineVars, entities>>

DrawFadingText ==
  /\ ScriptRuns
  /\ Len(drawables) < MaxDrawables
  /\ drawables' = Insert(drawables, Timed(2, NoSprite))
  /\ UNCHANGED <<phase, device, engineVars, cache, entities, calls>>

(* An effect that repeats for ever is refused: IsAlive is false, so that it*)
(* is drawn in this frame only.                                            *)
PlayParticleEffect ==
  /\ ScriptRuns
  /\ Len(drawables) < MaxDrawables
  /\ cache' = AddFiles(cache, {ParticleFile}, device, FALSE)
  /\ LET sprite == FindSprite(cache', ParticleFile)
     IN  \/ drawables' = Insert(drawables, Timed(2, sprite)) /\ UNCHANGED calls
         \/ drawables' = Insert(drawables, Immediate(calls + 1, sprite)) /\ calls' = calls + 1
  /\ UNCHANGED <<phase, device, engineVars, entities>>

ReleaseSprite ==
  /\ ScriptRuns
  /\ ~WarnIfRunsInMainFunction
  /\ \E file \in {EntityFile, ParticleFile} : cache' = ReleaseResource(cache, file)
  /\ UNCHANGED <<phase, device, engineVars, entities, drawables, calls>>

ReleaseResources ==
  /\ ScriptRuns
  /\ cache' = EmptyCache
  /\ UNCHANGED <<phase, device, engineVars, entities, drawables, calls>>

LoadSceneInScript ==
  /\ ScriptRuns
  /\ nextScene' \in Scene
  /\ UNCHANGED <<phase, device, settings, aborted, scene, sceneFile, cache,
                 entities, drawables, calls>>

EnablePreLoadedLightmapsFromFile ==
  /\ ScriptRuns
  /\ preLoaded' = ~preLoaded
  /\ UNCHANGED <<phase, device, started, richLighting, persistent, aborted, scene,
                 sceneFile, nextScene, cache, entities, drawables, calls>>

SetPersistentResources ==
  /\ ScriptRuns
  /\ persistent' = ~persistent
  /\ UNCHANGED <<phase, device, started, richLighting, preLoaded, aborted, scene,
                 sceneFile, nextScene, cache, entities, drawables, calls>>

AddEntity ==
  /\ ScriptRuns
  /\ ~WarnIfRunsInMainFunction
  /\ scene # NoScene
  /\ cache' = AddFiles(cache, {EntityFile}, device, FALSE)
  /\ \E e \in Entity \ DOMAIN entities :
       entities' = [i \in DOMAIN entities \union {e} |->
         IF i \in DOMAIN entities THEN entities[i]
         ELSE [sprite |-> FindSprite(cache', EntityFile),
               lightmap |-> NoSprite, lightmapFile |-> NoFile]]
  /\ UNCHANGED <<phase, device, engineVars, drawables, calls>>

DeleteEntity ==
  /\ ScriptRuns
  /\ ~WarnIfRunsInMainFunction
  /\ \E e \in DOMAIN entities :
       entities' = [i \in DOMAIN entities \ {e} |-> entities[i]]
  /\ UNCHANGED <<phase, device, engineVars, cache, drawables, calls>>

Script ==
  \/ DrawOnce \/ DrawFadingText \/ PlayParticleEffect
  \/ ReleaseSprite \/ ReleaseResources
  \/ LoadSceneInScript \/ EnablePreLoadedLightmapsFromFile \/ SetPersistentResources
  \/ AddEntity \/ DeleteEntity

-------------------------------------------------------------------------------
(* Scenes                                                                  *)

(* LoadLightmapFromFile, for the entities that have a file.                *)
LightmapFiles(s, ids) == {LightmapFile(s, e) : e \in {i \in ids : <<s, i>> \in Lightmaps}}

WithLightmap(entity, sprite, file) ==
  [sprite |-> entity.sprite, lightmap |-> sprite, lightmapFile |-> file]

(* GenerateLightmaps: an entity that no static light reaches loses its     *)
(* lightmap, from wherever it was.                                         *)
Lit(es, lit) ==
  [e \in DOMAIN es |->
     [es[e] EXCEPT !.lightmap = IF lit THEN Sprite(Generated, device) ELSE NoSprite]]

(* Faulty variant: temporary sprites are only released with the others.    *)
Kept_Temporaries(s) == IF ~persistent /\ s # sceneFile THEN EmptyCache ELSE cache

(* LoadScene up to LoadLightmaps: what is cached is released, all of it    *)
(* unless it is persistent or the scene is the same; the entities of the   *)
(* file are loaded, and the top layer is cleared.                          *)
Kept(s) ==
  ReleaseTemporaryResources(
    IF ~persistent /\ s # sceneFile THEN EmptyCache ELSE cache)

NewEntities(ids, resources) ==
  [e \in ids |-> [sprite |-> FindSprite(resources, EntityFile),
                  lightmap |-> NoSprite, lightmapFile |-> NoFile]]

(* LoadLightmaps: from their files, or generated if there is rich lighting.*)
LoadLightmaps(s, resources, es) ==
  \/ /\ preLoaded
     /\ cache' = AddFiles(resources, LightmapFiles(s, DOMAIN es), device, TRUE)
     /\ entities' = [e \in DOMAIN es |->
          IF <<s, e>> \in Lightmaps
            THEN WithLightmap(es[e], FindSprite(cache', LightmapFile(s, e)), LightmapFile(s, e))
            ELSE es[e]]
  \/ /\ ~preLoaded
     /\ cache' = resources
     /\ IF richLighting THEN \E lit \in BOOLEAN : entities' = Lit(es, lit)
                        ELSE entities' = es

LoadScene ==
  /\ phase = "update"
  /\ nextScene # NoScene
  /\ \E ids \in SUBSET Entity :
       LET resources == IF ids = {} THEN Kept(nextScene)
                        ELSE AddFiles(Kept(nextScene), {EntityFile}, device, FALSE)
       IN  LoadLightmaps(nextScene, resources, NewEntities(ids, resources))
  /\ scene' = nextScene
  /\ sceneFile' = nextScene
  /\ nextScene' = NoScene
  /\ drawables' = <<>>
  /\ calls' = 0
  /\ phase' = "scripts"
  /\ UNCHANGED <<device, settings, aborted>>

(* Without a request the scene goes on; without a scene the engine has     *)
(* aborted, which this launcher does not look at.                          *)
NoSceneRequested ==
  /\ phase = "update"
  /\ nextScene = NoScene
  /\ drawables' = RemoveTheDead(drawables)
  /\ calls' = 0
  /\ aborted' = (aborted \/ scene = NoScene)
  /\ phase' = IF scene = NoScene THEN "render" ELSE "scripts"
  /\ UNCHANGED <<device, settings, scene, sceneFile, nextScene, cache, entities>>

ScriptsReturn ==
  /\ phase = "scripts"
  /\ phase' = "render"
  /\ UNCHANGED <<device, engineVars, cache, entities, drawables, calls>>

RenderFrame ==
  /\ phase = "render"
  /\ drawables' = DrawTopLayer(drawables)
  /\ phase' = "ready"
  /\ UNCHANGED <<device, engineVars, cache, entities, calls>>

-------------------------------------------------------------------------------
(* The launcher                                                            *)

(* The first loop after a start shows the splash screen.                   *)
DrawSplashScreen ==
  /\ phase = "splash"
  /\ phase' = "ready"
  /\ UNCHANGED <<device, engineVars, cache, entities, drawables, calls>>

(* The next one starts the application, which runs main(), and goes on to  *)
(* update it.                                                              *)
StartApplication ==
  /\ phase = "ready"
  /\ ~started
  /\ started' = TRUE
  /\ cache' = EmptyCache
  /\ phase' = "main"
  /\ UNCHANGED <<device, richLighting, persistent, preLoaded, aborted, scene, sceneFile,
                 nextScene, entities, drawables, calls>>

(* Faulty variant: the application is updated from the next loop on.       *)
MainReturns_EndsLoop ==
  /\ phase = "main"
  /\ phase' = "ready"
  /\ UNCHANGED <<device, engineVars, cache, entities, drawables, calls>>

MainReturns ==
  /\ phase = "main"
  /\ phase' = "update"
  /\ UNCHANGED <<device, engineVars, cache, entities, drawables, calls>>

MainLoop ==
  /\ phase = "ready"
  /\ started
  /\ phase' = "update"
  /\ UNCHANGED <<device, engineVars, cache, entities, drawables, calls>>

(* The activity is paused between two loops: Destroy.  The device is lost. *)
Destroy ==
  /\ phase \in {"splash", "ready"}
  /\ started
  /\ device < MaxDevices
  /\ phase' = "paused"
  /\ cache' = EmptyCache
  /\ UNCHANGED <<device, engineVars, entities, drawables, calls>>

(* Faulty variant: lightmaps are not recovered.                            *)
RecoverResources_NoLightmaps(resources, new) ==
  /\ cache' = AddFiles(resources, IF entities = NoEntities THEN {} ELSE {EntityFile}, new, FALSE)
  /\ entities' = [e \in DOMAIN entities |->
       [entities[e] EXCEPT !.sprite = FindSprite(cache', EntityFile)]]

(* RecoverResources of the scene: each entity gets its sprites again, and  *)
(* its lightmap "if it has had a pre-rendered lightmap".                   *)
RecoverResources(resources, new) ==
  LET files == {entities[e].lightmapFile : e \in DOMAIN entities} \ {NoFile}
  IN  /\ cache' = AddFiles(AddFiles(resources, IF entities = NoEntities THEN {} ELSE {EntityFile},
                                    new, FALSE), files, new, TRUE)
      /\ entities' = [e \in DOMAIN entities |->
           [sprite |-> FindSprite(cache', EntityFile),
            lightmap |-> IF entities[e].lightmapFile = NoFile THEN entities[e].lightmap
                         ELSE FindSprite(cache', entities[e].lightmapFile),
            lightmapFile |-> entities[e].lightmapFile]]

(* The activity resumes with a new surface, and Start makes new managers.  *)
Restart ==
  /\ phase = "paused"
  /\ scene # NoScene
  /\ device' = device + 1
  /\ RecoverResources(EmptyCache, device + 1)
  /\ phase' = "started"
  /\ UNCHANGED <<engineVars, drawables, calls>>

(* Restore follows: the surface has changed.  It generates the lightmaps   *)
(* if there is rich lighting, whether or not they came from files.         *)
Restore ==
  /\ phase = "started"
  /\ phase' = "splash"
  /\ IF richLighting THEN \E lit \in BOOLEAN : entities' = Lit(entities, lit)
                     ELSE UNCHANGED entities
  /\ UNCHANGED <<device, engineVars, cache, drawables, calls>>

(* The engine has aborted for lack of a scene, and was paused: starting it *)
(* again uses the scene that is not there, and the program ends.           *)
RestartCrashes ==
  /\ phase = "paused"
  /\ scene = NoScene
  /\ UNCHANGED vars

Launcher ==
  \/ DrawSplashScreen \/ StartApplication \/ MainReturns \/ MainLoop
  \/ LoadScene \/ NoSceneRequested \/ ScriptsReturn \/ RenderFrame
  \/ Restart \/ RestartCrashes \/ Restore

Next == Launcher \/ Script \/ Destroy

ApplicationSpec == ApplicationInit /\ [][Next]_vars

-------------------------------------------------------------------------------

(* The lightmap of an entity is the one of its own scene, though the cache *)
(* knows the lightmaps of every scene by the same names.                   *)
LightmapOfOwnScene ==
  \A e \in DOMAIN entities :
    entities[e].lightmap # NoSprite =>
      entities[e].lightmap.file \in {LightmapFile(scene, e), Generated}

(* When a frame is drawn everything is on the device it is drawn on,       *)
(* however often that was lost: the sprites of entities, their lightmaps,  *)
(* and what was drawn by a script in this frame.  "If it has had a         *)
(* pre-rendered lightmap", an entity has it again.                         *)
EntitiesRecovered ==
  \A e \in DOMAIN entities :
    /\ entities[e].sprite = Sprite(EntityFile, device)
    /\ entities[e].lightmap # NoSprite => entities[e].lightmap.device = device
    /\ entities[e].lightmapFile # NoFile /\ ~richLighting =>
         entities[e].lightmap = Sprite(entities[e].lightmapFile, device)
DrawablesRecovered ==
  \A i \in DOMAIN drawables :
    ~IsAlive(drawables[i]) /\ drawables[i].sprite # NoSprite =>
      drawables[i].sprite.device = device
ResourcesRecovered == phase = "render" => EntitiesRecovered /\ DrawablesRecovered

(* What scripts drew for this frame is drawn in it, once, in the order of  *)
(* the calls and under what stays for longer ("insert new element before   *)
(* other persistent elements").                                            *)
TopLayerInOrder ==
  phase = "render" =>
    /\ calls <= Len(drawables)
    /\ \A i \in DOMAIN drawables :
         IF i <= calls THEN drawables[i].call = i ELSE IsAlive(drawables[i])

(* Wherever the activity is paused, the engine has a scene to recover when *)
(* it is started again; unless it has aborted for lack of one.             *)
RestartFindsScene == phase = "paused" /\ ~aborted => scene # NoScene

===============================================================================
