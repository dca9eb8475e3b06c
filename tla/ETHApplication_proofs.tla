-------------------------- MODULE ETHApplication_proofs --------------------------
(***************************************************************************)
(* When a frame is drawn, the entities of the scene, their own lightmaps   *)
(* and what scripts drew are on the device that draws them, and what was   *)
(* drawn on the top layer is there once and in order: for any scenes,      *)
(* entities, number of devices and length of the list.                     *)
(*                                                                         *)
(* The argument rests on what the cache is at any time, a function of the  *)
(* names it holds, of the current scene and of the current device; and on  *)
(* what the list of the top layer is while scripts run, the drawables of   *)
(* this frame in the order of their calls and then those that stay.        *)
(***************************************************************************)
EXTENDS ETHApplication, FiniteSetTheorems, SequenceTheorems,
        WellFoundedInduction, NaturalsInduction, TLAPS

Names == Entity \union {"hero", "spark"}

FileNamed(name, s) ==
  IF name = "hero" THEN EntityFile
  ELSE IF name = "spark" THEN ParticleFile
  ELSE LightmapFile(s, name)

CacheOf(names, s, d) ==
  [name \in names |-> [sprite |-> Sprite(FileNamed(name, s), d),
                       temporary |-> name \in Entity]]

(* A lightmap is cached with the scene it belongs to.                      *)
CacheInv == \E names \in SUBSET Names : cache = CacheOf(names, scene, device)

LEMMA CacheOfNothing == \A s, d : CacheOf({}, s, d) = EmptyCache
BY DEF CacheOf, EmptyCache

LEMMA NamesDiffer == "hero" \notin Entity /\ "spark" \notin Entity /\ "no file" \notin Entity
BY ApplicationAssumption

(* Only what is not in the cache is added, and the file is the one of that *)
(* name.                                                                   *)
Adds(names, s, d, files, temporary, added) ==
  AddFiles(CacheOf(names, s, d), files, d, temporary) = CacheOf(names \union added, s, d)

LEMMA AddFilesValue ==
  ASSUME NEW names, NEW s, NEW d, NEW files, NEW temporary,
         NEW added, added = {file.name : file \in files},
         \A file \in files : file = FileNamed(file.name, s),
         temporary \in BOOLEAN,
         \A file \in files : temporary <=> file.name \in Entity
  PROVE  Adds(names, s, d, files, temporary, added)
<1> DEFINE new == AddFiles(CacheOf(names, s, d), files, d, temporary)
<1>1. DOMAIN CacheOf(names, s, d) = names
  BY DEF CacheOf
<1>2. new = [name \in names \union added |->
               IF name \in names THEN CacheOf(names, s, d)[name]
               ELSE [sprite |-> Sprite(CHOOSE file \in files : file.name = name, d),
                     temporary |-> temporary]]
  BY <1>1 DEF AddFiles
<1>3. ASSUME NEW name \in names \union added
      PROVE  new[name] = CacheOf(names \union added, s, d)[name]
  <2>1. CASE name \in names
    BY <1>2, <2>1 DEF CacheOf
  <2>2. CASE name \notin names
    <3>1. new[name] = [sprite |-> Sprite(CHOOSE file \in files : file.name = name, d),
                       temporary |-> temporary]
      BY <1>2, <2>2
    <3>2. PICK file \in files : file.name = name
      BY <2>2
    <3>3. (CHOOSE f \in files : f.name = name) = FileNamed(name, s)
      BY <3>2
    <3>4. temporary = (name \in Entity)
      BY <3>2
    <3>5. QED
      BY <3>1, <3>3, <3>4 DEF CacheOf
  <2>3. QED
    BY <2>1, <2>2
<1>4. QED
  BY <1>2, <1>3 DEF CacheOf, Adds

LEMMA AddedToCache ==
  ASSUME NEW names \in SUBSET Names, NEW s, NEW d,
         NEW file \in {EntityFile, ParticleFile}
  PROVE  /\ Adds(names, s, d, {file}, FALSE, {file.name})
         /\ file.name \in Names
         /\ FindSprite(CacheOf(names \union {file.name}, s, d), file) = Sprite(file, d)
<1>1. {f.name : f \in {file}} = {file.name}
  OBVIOUS
<1>3. /\ file.name \in {"hero", "spark"}
      /\ FileNamed(file.name, s) = file
  BY DEF EntityFile, ParticleFile, FileNamed
<1>4. file.name \notin Entity
  BY <1>3, NamesDiffer
<1>5. Adds(names, s, d, {file}, FALSE, {file.name})
  <2>1. {file.name} = {f.name : f \in {file}}
    BY <1>1
  <2>2. \A f \in {file} : f = FileNamed(f.name, s)
    BY <1>3
  <2>3. \A f \in {file} : FALSE <=> f.name \in Entity
    BY <1>4
  <2>4. QED
    BY <2>1, <2>2, <2>3, AddFilesValue
<1>6. QED
  BY <1>3, <1>5 DEF CacheOf, FindSprite, Names

LEMMA LightmapNamed ==
  \A s : \A e \in Entity : FileNamed(e, s) = LightmapFile(s, e) /\ LightmapFile(s, e).name = e
BY NamesDiffer DEF FileNamed, LightmapFile

LEMMA LightmapsAddedToCache ==
  ASSUME NEW names \in SUBSET Names, NEW s, NEW d, NEW ids \in SUBSET Entity,
         NEW files, files = {LightmapFile(s, e) : e \in ids}
  PROVE  Adds(names, s, d, files, TRUE, ids)
<1>1. ids = {file.name : file \in files}
  BY LightmapNamed
<1>2. \A file \in files : file = FileNamed(file.name, s)
  BY LightmapNamed
<1>3. \A file \in files : TRUE <=> file.name \in Entity
  BY LightmapNamed
<1>4. QED
  BY <1>1, <1>2, <1>3, AddFilesValue

LEMMA LightmapFound ==
  ASSUME NEW names, NEW s, NEW d, NEW e \in names \intersect Entity
  PROVE  FindSprite(CacheOf(names, s, d), LightmapFile(s, e)) = Sprite(LightmapFile(s, e), d)
BY LightmapNamed DEF CacheOf, FindSprite

LEMMA RemovedFromCache ==
  ASSUME NEW names \in SUBSET Names, NEW s, NEW d, NEW gone
  PROVE  Without(CacheOf(names, s, d), gone) = CacheOf(names \ gone, s, d)
BY DEF Without, CacheOf

(* What is not temporary is cached alike in every scene.                   *)
LEMMA TemporariesReleased ==
  ASSUME NEW names \in SUBSET Names, NEW s, NEW d, NEW t
  PROVE  ReleaseTemporaryResources(CacheOf(names, s, d)) = CacheOf(names \ Entity, t, d)
<1>1. {name \in names : CacheOf(names, s, d)[name].temporary} = names \intersect Entity
  BY DEF CacheOf
<1>2. ReleaseTemporaryResources(CacheOf(names, s, d))
        = Without(CacheOf(names, s, d), names \intersect Entity)
  BY <1>1 DEF ReleaseTemporaryResources, CacheOf
<1>3. @ = CacheOf(names \ Entity, s, d)
  BY DEF Without, CacheOf
<1>4. @ = CacheOf(names \ Entity, t, d)
  BY DEF CacheOf, FileNamed, Names
<1>5. QED
  BY <1>2, <1>3, <1>4

-------------------------------------------------------------------------------
(* The inductive invariant.  An entity has its sprite on the current       *)
(* device, and a lightmap of its own scene: the one from its file or,      *)
(* under rich lighting, a generated one, which is of the device before     *)
(* between Start and Restore only.                                         *)
EntityOK(e, s, d) ==
  LET entity == entities[e]
  IN  /\ entity = [sprite |-> Sprite(EntityFile, d), lightmap |-> entity.lightmap,
                    lightmapFile |-> entity.lightmapFile]
      /\ entity.lightmapFile \in {NoFile, LightmapFile(s, e)}
      /\ entity.lightmap # NoSprite =>
           /\ entity.lightmap.file \in {LightmapFile(s, e), Generated}
           /\ phase # "started" => entity.lightmap.device = d
      /\ ~richLighting =>
           entity.lightmap = IF entity.lightmapFile = NoFile THEN NoSprite
                             ELSE Sprite(entity.lightmapFile, d)

EntitiesInv ==
  /\ DOMAIN entities \subseteq Entity
  /\ \A e \in DOMAIN entities : EntityOK(e, scene, device)

(* An engine that has run a frame has a scene, or has aborted.             *)
RestartInv ==
  /\ phase \in Phases
  /\ aborted \in BOOLEAN
  /\ nextScene \in Scene \union {NoScene}
  /\ ~started => phase \in {"splash", "ready"}
  /\ started /\ ~aborted /\ phase \notin {"main", "update"} => scene # NoScene

ApplicationInv == CacheInv /\ EntitiesInv /\ RestartInv /\ device \in Nat \ {0}

LEMMA SpritesExist ==
  ASSUME NEW s, NEW e \in Entity, NEW d \in Nat \ {0}
  PROVE  /\ LightmapFile(s, e) # NoFile
         /\ \A file : /\ Sprite(file, d) # NoSprite
                     /\ Sprite(file, d).file = file
                     /\ Sprite(file, d).device = d
<1>1. LightmapFile(s, e) # NoFile
  BY NamesDiffer DEF LightmapFile, NoFile
<1>2. ASSUME NEW file
      PROVE  /\ Sprite(file, d) # NoSprite
             /\ Sprite(file, d).file = file
             /\ Sprite(file, d).device = d
  BY DEF Sprite, NoSprite
<1>3. QED
  BY <1>1, <1>2

LEMMA InitApplication == ApplicationInit => ApplicationInv
<1> SUFFICES ASSUME ApplicationInit PROVE ApplicationInv
  OBVIOUS
<1>1. CacheInv
  BY CacheOfNothing DEF ApplicationInit, CacheInv
<1>2. EntitiesInv
  BY DEF ApplicationInit, EntitiesInv, NoEntities
<1>3. RestartInv
  BY DEF ApplicationInit, RestartInv, Phases
<1>4. QED
  BY <1>1, <1>2, <1>3 DEF ApplicationInit, ApplicationInv

(* Every step of a launcher that finds a scene keeps one.                  *)
LEMMA RestartStep == RestartInv /\ [Next]_vars => RestartInv'
<1> SUFFICES ASSUME RestartInv, [Next]_vars PROVE RestartInv'
  OBVIOUS
<1> USE DEF RestartInv, Phases, engineVars, settings
<1>0. ASSUME UNCHANGED <<phase, engineVars>> PROVE RestartInv'
  BY <1>0
<1>1. CASE Script
  <2>1. CASE DrawOnce \/ DrawFadingText \/ PlayParticleEffect
    BY <1>0, <2>1 DEF DrawOnce, DrawFadingText, PlayParticleEffect
  <2>2. CASE ReleaseSprite \/ ReleaseResources \/ AddEntity \/ DeleteEntity
    BY <1>0, <2>2 DEF ReleaseSprite, ReleaseResources, AddEntity, DeleteEntity
  <2>3. CASE LoadSceneInScript
    BY <2>3 DEF LoadSceneInScript
  <2>4. CASE EnablePreLoadedLightmapsFromFile \/ SetPersistentResources
    BY <2>4 DEF EnablePreLoadedLightmapsFromFile, SetPersistentResources
  <2>5. QED
    BY <1>1, <2>1, <2>2, <2>3, <2>4 DEF Script
<1>2. CASE LoadScene
  BY <1>2 DEF LoadScene
<1>3. CASE NoSceneRequested
  BY <1>3 DEF NoSceneRequested
<1>4. CASE DrawSplashScreen \/ StartApplication \/ MainReturns \/ MainLoop
  BY <1>4 DEF DrawSplashScreen, StartApplication, MainReturns, MainLoop
<1>5. CASE ScriptsReturn \/ RenderFrame \/ Destroy
  BY <1>5 DEF ScriptsReturn, RenderFrame, Destroy
<1>6. CASE Restart \/ RestartCrashes \/ Restore \/ UNCHANGED vars
  BY <1>6 DEF Restart, RestartCrashes, Restore, vars
<1>7. QED
  BY <1>1, <1>2, <1>3, <1>4, <1>5, <1>6 DEF Next, Launcher

-------------------------------------------------------------------------------
(* What one step does to the cache and to the entities.                    *)

SameCache == UNCHANGED <<cache, scene, device>>
SameEntities == UNCHANGED <<entities, scene, device, richLighting>>

LEMMA SameCacheKeepsInv == CacheInv /\ SameCache => CacheInv'
BY DEF CacheInv, SameCache, CacheOf, FileNamed

LEMMA SameEntitiesKeepInv ==
  EntitiesInv /\ SameEntities /\ (phase = "started" => phase' = "started") => EntitiesInv'
BY DEF EntitiesInv, SameEntities, EntityOK

(* A script may fill the cache and release what it likes of it.            *)
LEMMA ScriptKeepsCache == CacheInv /\ Script => CacheInv'
<1> SUFFICES ASSUME CacheInv, Script PROVE CacheInv'
  OBVIOUS
<1> USE DEF engineVars, settings
<1>1. PICK names \in SUBSET Names : cache = CacheOf(names, scene, device)
  BY DEF CacheInv
<1>2. ASSUME scene' = scene, device' = device,
             NEW all \in SUBSET Names, cache' = CacheOf(all, scene, device)
      PROVE  CacheInv'
  BY <1>2 DEF CacheInv, CacheOf, FileNamed
<1>3. ASSUME NEW file \in {EntityFile, ParticleFile}, scene' = scene, device' = device,
             cache' = AddFiles(cache, {file}, device, FALSE)
      PROVE  CacheInv'
  <2>1. Adds(names, scene, device, {file}, FALSE, {file.name}) /\ file.name \in Names
    BY AddedToCache
  <2>2. cache' = CacheOf(names \union {file.name}, scene, device)
    BY <1>1, <1>3, <2>1 DEF Adds
  <2>3. names \union {file.name} \in SUBSET Names
    BY <2>1
  <2>4. QED
    BY <1>2, <1>3, <2>2, <2>3
<1>4. CASE DrawOnce
  BY <1>3, <1>4, SameCacheKeepsInv DEF DrawOnce, SameCache
<1>5. CASE PlayParticleEffect
  BY <1>3, <1>5 DEF PlayParticleEffect
<1>6. CASE AddEntity
  BY <1>3, <1>6 DEF AddEntity
<1>7. CASE ReleaseSprite
  <2>1. PICK file : cache' = Without(cache, {file.name})
    BY <1>7 DEF ReleaseSprite, ReleaseResource
  <2>2. cache' = CacheOf(names \ {file.name}, scene, device)
    BY <1>1, <2>1, RemovedFromCache
  <2>3. QED
    BY <1>2, <1>7, <2>2 DEF ReleaseSprite
<1>8. CASE ReleaseResources
  BY <1>2, <1>8, CacheOfNothing DEF ReleaseResources
<1>9. CASE \/ DrawFadingText \/ LoadSceneInScript \/ DeleteEntity
           \/ EnablePreLoadedLightmapsFromFile \/ SetPersistentResources
  BY <1>9, SameCacheKeepsInv DEF DrawFadingText, LoadSceneInScript, DeleteEntity,
     EnablePreLoadedLightmapsFromFile, SetPersistentResources, SameCache
<1>10. QED
  BY <1>4, <1>5, <1>6, <1>7, <1>8, <1>9 DEF Script

(* A script adds entities without a lightmap, and deletes others.          *)
LEMMA ScriptKeepsEntities ==
  CacheInv /\ EntitiesInv /\ RestartInv /\ Script => EntitiesInv'
<1> SUFFICES ASSUME CacheInv, EntitiesInv, Script PROVE EntitiesInv'
  OBVIOUS
<1> USE DEF engineVars, settings
<1>1. CASE AddEntity
  <2>1. PICK names \in SUBSET Names : cache = CacheOf(names, scene, device)
    BY DEF CacheInv
  <2>2. FindSprite(cache', EntityFile) = Sprite(EntityFile, device)
    <3>1. cache' = AddFiles(cache, {EntityFile}, device, FALSE)
      BY <1>1 DEF AddEntity
    <3>2. /\ Adds(names, scene, device, {EntityFile}, FALSE, {EntityFile.name})
          /\ FindSprite(CacheOf(names \union {EntityFile.name}, scene, device), EntityFile)
               = Sprite(EntityFile, device)
      BY AddedToCache
    <3>3. cache' = CacheOf(names \union {EntityFile.name}, scene, device)
      BY <2>1, <3>1, <3>2 DEF Adds
    <3>4. QED
      BY <3>2, <3>3
  <2>3. PICK e \in Entity \ DOMAIN entities :
          entities' = [i \in DOMAIN entities \union {e} |->
            IF i \in DOMAIN entities THEN entities[i]
            ELSE [sprite |-> Sprite(EntityFile, device),
                  lightmap |-> NoSprite, lightmapFile |-> NoFile]]
    BY <1>1, <2>2 DEF AddEntity
  <2>4. scene' = scene /\ device' = device /\ phase' = phase /\ richLighting' = richLighting
    BY <1>1 DEF AddEntity
  <2>5. ASSUME NEW i \in DOMAIN entities
        PROVE  EntityOK(i, scene, device)'
    <3>1. entities'[i] = entities[i]
      BY <2>3
    <3>2. EntityOK(i, scene, device)
      BY DEF EntitiesInv
    <3>3. QED
      BY <2>4, <3>1, <3>2 DEF EntityOK
  <2>6. EntityOK(e, scene, device)'
    BY <2>3, <2>4 DEF EntityOK
  <2>7. QED
    BY <2>3, <2>5, <2>6 DEF EntitiesInv
<1>2. CASE DeleteEntity
  <2>1. PICK e : entities' = [i \in DOMAIN entities \ {e} |-> entities[i]]
    BY <1>2 DEF DeleteEntity
  <2>2. scene' = scene /\ device' = device /\ phase' = phase /\ richLighting' = richLighting
    BY <1>2 DEF DeleteEntity
  <2>3. QED
    BY <2>1, <2>2 DEF EntitiesInv, EntityOK
<1>3. CASE DrawOnce \/ DrawFadingText \/ PlayParticleEffect
  BY <1>3, SameEntitiesKeepInv DEF DrawOnce, DrawFadingText, PlayParticleEffect, SameEntities
<1>4. CASE ReleaseSprite \/ ReleaseResources \/ LoadSceneInScript
  BY <1>4, SameEntitiesKeepInv DEF ReleaseSprite, ReleaseResources, LoadSceneInScript,
     SameEntities
<1>5. CASE EnablePreLoadedLightmapsFromFile \/ SetPersistentResources
  BY <1>5, SameEntitiesKeepInv DEF EnablePreLoadedLightmapsFromFile,
     SetPersistentResources, SameEntities
<1>6. QED
  BY <1>1, <1>2, <1>3, <1>4, <1>5 DEF Script

(* What is kept for the next scene names no lightmap, so it is right for   *)
(* that scene as it was for the last.                                      *)
LEMMA KeptIsRight ==
  ASSUME CacheInv, NEW s
  PROVE  \E names \in SUBSET Names : Kept(s) = CacheOf(names, s, device)
<1>1. PICK names \in SUBSET Names : cache = CacheOf(names, scene, device)
  BY DEF CacheInv
<1>2. CASE ~persistent /\ s # sceneFile
  <2>1. Kept(s) = ReleaseTemporaryResources(CacheOf({}, s, device))
    BY <1>2, CacheOfNothing DEF Kept
  <2>2. @ = CacheOf({} \ Entity, s, device)
    BY TemporariesReleased
  <2>3. {} \ Entity \in SUBSET Names
    OBVIOUS
  <2>4. QED
    BY <2>1, <2>2, <2>3
<1>3. CASE ~(~persistent /\ s # sceneFile)
  <2>1. Kept(s) = ReleaseTemporaryResources(CacheOf(names, scene, device))
    BY <1>1, <1>3 DEF Kept
  <2>2. @ = CacheOf(names \ Entity, s, device)
    BY TemporariesReleased
  <2>3. names \ Entity \in SUBSET Names
    OBVIOUS
  <2>4. QED
    BY <2>1, <2>2, <2>3
<1>4. QED
  BY <1>2, <1>3

(* The sprite of the entities is loaded if there are any.                  *)
Loads(files, names, s, d, all) ==
  /\ files # {} => "hero" \in all
  /\ AddFiles(CacheOf(names, s, d), files, d, FALSE) = CacheOf(all, s, d)
  /\ files # {} => FindSprite(CacheOf(all, s, d), EntityFile) = Sprite(EntityFile, d)

LEMMA EntityFileLoaded ==
  ASSUME NEW names \in SUBSET Names, NEW s, NEW d, NEW files,
         files = {} \/ files = {EntityFile}
  PROVE  \E all \in SUBSET Names : Loads(files, names, s, d, all)
<1>1. CASE files = {}
  <2>1. /\ {} = {file.name : file \in files}
        /\ \A file \in files : file = FileNamed(file.name, s)
        /\ \A file \in files : FALSE <=> file.name \in Entity
    BY <1>1
  <2>2. Adds(names, s, d, files, FALSE, {})
    BY <2>1, AddFilesValue
  <2>3. names \union {} = names
    OBVIOUS
  <2>4. Loads(files, names, s, d, names)
    BY <1>1, <2>2, <2>3 DEF Adds, Loads
  <2>5. QED
    BY <2>4
<1>2. CASE files = {EntityFile}
  <2>1. /\ Adds(names, s, d, files, FALSE, {EntityFile.name})
        /\ EntityFile.name \in Names
        /\ FindSprite(CacheOf(names \union {EntityFile.name}, s, d), EntityFile)
             = Sprite(EntityFile, d)
    BY <1>2, AddedToCache
  <2>2. names \union {EntityFile.name} \in SUBSET Names
    BY <2>1
  <2>3. "hero" \in names \union {EntityFile.name}
    BY DEF EntityFile
  <2>4. Loads(files, names, s, d, names \union {EntityFile.name})
    BY <2>1, <2>3 DEF Adds, Loads
  <2>5. QED
    BY <2>2, <2>4
<1>3. QED
  BY <1>1, <1>2

(* A new scene: its entities have its own lightmaps or none.               *)
LEMMA LoadSceneStep ==
  ASSUME CacheInv, device \in Nat \ {0}, LoadScene
  PROVE  CacheInv' /\ EntitiesInv'
<1> DEFINE s == nextScene
<1>1. /\ scene' = s /\ device' = device
      /\ richLighting' = richLighting /\ phase' = "scripts"
  BY DEF LoadScene, settings
<1>2. PICK kept \in SUBSET Names : Kept(s) = CacheOf(kept, s, device)
  BY KeptIsRight
<1>3. PICK ids \in SUBSET Entity :
        LET resources == IF ids = {} THEN Kept(s) ELSE AddFiles(Kept(s), {EntityFile}, device, FALSE)
        IN  LoadLightmaps(s, resources, NewEntities(ids, resources))
  BY DEF LoadScene
<1> DEFINE resources == IF ids = {} THEN Kept(s) ELSE AddFiles(Kept(s), {EntityFile}, device, FALSE)
<1> DEFINE es == NewEntities(ids, resources)
<1>4. PICK all \in SUBSET Names :
        /\ resources = CacheOf(all, s, device)
        /\ ids # {} => FindSprite(CacheOf(all, s, device), EntityFile) = Sprite(EntityFile, device)
  <2>1. CASE ids = {}
    BY <1>2, <2>1
  <2>2. CASE ids # {}
    <3>1. resources = AddFiles(CacheOf(kept, s, device), {EntityFile}, device, FALSE)
      BY <1>2, <2>2
    <3>2. {EntityFile} # {}
      OBVIOUS
    <3>3. PICK all \in SUBSET Names : Loads({EntityFile}, kept, s, device, all)
      BY EntityFileLoaded
    <3>4. QED
      BY <3>1, <3>2, <3>3 DEF Loads
  <2>3. QED
    BY <2>1, <2>2
<1>5. /\ DOMAIN es = ids
      /\ \A e \in ids : es[e] = [sprite |-> Sprite(EntityFile, device),
                               lightmap |-> NoSprite, lightmapFile |-> NoFile]
  BY <1>4 DEF NewEntities
<1>6. LoadLightmaps(s, resources, es)
  BY <1>3
<1> HIDE DEF resources, es, s
<1>7. CASE preLoaded
  <2> DEFINE lit == {i \in ids : <<s, i>> \in Lightmaps}
  <2>1. /\ cache' = AddFiles(CacheOf(all, s, device), LightmapFiles(s, ids), device, TRUE)
        /\ entities' = [e \in ids |->
             IF <<s, e>> \in Lightmaps
               THEN WithLightmap(es[e], FindSprite(cache', LightmapFile(s, e)), LightmapFile(s, e))
               ELSE es[e]]
    BY <1>4, <1>5, <1>6, <1>7 DEF LoadLightmaps
  <2>2. LightmapFiles(s, ids) = {LightmapFile(s, e) : e \in lit} /\ lit \in SUBSET Entity
    BY DEF LightmapFiles
  <2> HIDE DEF lit
  <2>3. Adds(all, s, device, LightmapFiles(s, ids), TRUE, lit)
    BY <2>2, LightmapsAddedToCache
  <2>4. cache' = CacheOf(all \union lit, s, device)
    BY <2>1, <2>3 DEF Adds
  <2>5. CacheInv'
    <3>1. all \union lit \in SUBSET Names
      BY <2>2 DEF Names
    <3>2. cache' = CacheOf(all \union lit, scene', device')
      BY <1>1, <2>4
    <3>3. QED
      BY <3>1, <3>2 DEF CacheInv, CacheOf, FileNamed
  <2>6. ASSUME NEW e \in ids
        PROVE  EntityOK(e, scene, device)'
    <3>1. CASE e \in lit
      <4>1. entities'[e] = [sprite |-> Sprite(EntityFile, device),
                            lightmap |-> Sprite(LightmapFile(s, e), device),
                            lightmapFile |-> LightmapFile(s, e)]
        <5>1. entities'[e] = WithLightmap(es[e], FindSprite(cache', LightmapFile(s, e)),
                                          LightmapFile(s, e))
          BY <2>1, <3>1 DEF lit
        <5>2. FindSprite(cache', LightmapFile(s, e)) = Sprite(LightmapFile(s, e), device)
          BY <2>4, <3>1, LightmapFound
        <5>3. es[e] = [sprite |-> Sprite(EntityFile, device),
                       lightmap |-> NoSprite, lightmapFile |-> NoFile]
          BY <1>5
        <5>4. QED
          BY <5>1, <5>2, <5>3 DEF WithLightmap
      <4>2. QED
        BY <1>1, <4>1, SpritesExist DEF EntityOK
    <3>2. CASE e \notin lit
      <4>1. entities'[e] = es[e]
        BY <2>1, <3>2 DEF lit
      <4>2. QED
        BY <1>1, <1>5, <4>1 DEF EntityOK
    <3>3. QED
      BY <3>1, <3>2
  <2>7. QED
    BY <2>1, <2>5, <2>6 DEF EntitiesInv
<1>8. CASE ~preLoaded
  <2>1. cache' = CacheOf(all, s, device)
    BY <1>4, <1>6, <1>8 DEF LoadLightmaps
  <2>2. CacheInv'
    BY <1>1, <2>1 DEF CacheInv, CacheOf, FileNamed
  <2>3. CASE richLighting
    <3>1. PICK lit \in BOOLEAN : entities' = Lit(es, lit)
      BY <1>6, <1>8, <2>3 DEF LoadLightmaps
    <3>2. /\ DOMAIN entities' = ids
          /\ \A e \in ids : \E lightmap \in {Sprite(Generated, device), NoSprite} :
               entities'[e] = [sprite |-> Sprite(EntityFile, device),
                               lightmap |-> lightmap, lightmapFile |-> NoFile]
      BY <1>5, <3>1 DEF Lit
    <3>3. \A e \in ids : EntityOK(e, scene, device)'
      BY <1>1, <2>3, <3>2, SpritesExist DEF EntityOK
    <3>4. QED
      BY <2>2, <3>2, <3>3 DEF EntitiesInv
  <2>4. CASE ~richLighting
    <3>1. entities' = es
      BY <1>6, <1>8, <2>4 DEF LoadLightmaps
    <3>2. \A e \in ids : EntityOK(e, scene, device)'
      BY <1>1, <1>5, <3>1 DEF EntityOK
    <3>3. QED
      BY <1>5, <2>2, <3>1, <3>2 DEF EntitiesInv
  <2>5. QED
    BY <2>3, <2>4
<1>9. QED
  BY <1>7, <1>8

(* A restart: the cache is filled again, with what the entities have had.  *)
LEMMA RestartRecovers ==
  ASSUME EntitiesInv, device \in Nat \ {0}, Restart
  PROVE  CacheInv' /\ EntitiesInv'
<1> DEFINE d == device + 1
<1> DEFINE files == {entities[e].lightmapFile : e \in DOMAIN entities} \ {NoFile}
<1> DEFINE files0 == IF entities = NoEntities THEN {} ELSE {EntityFile}
<1> DEFINE ids == {e \in DOMAIN entities : entities[e].lightmapFile # NoFile}
<1>1. /\ scene' = scene /\ device' = d /\ richLighting' = richLighting
      /\ phase' = "started" /\ d \in Nat \ {0}
  BY DEF Restart, engineVars, settings
<1>2. /\ cache' = AddFiles(AddFiles(EmptyCache, files0, d, FALSE), files, d, TRUE)
      /\ entities' = [e \in DOMAIN entities |->
           [sprite |-> FindSprite(cache', EntityFile),
            lightmap |-> IF entities[e].lightmapFile = NoFile THEN entities[e].lightmap
                         ELSE FindSprite(cache', entities[e].lightmapFile),
            lightmapFile |-> entities[e].lightmapFile]]
  BY DEF Restart, RecoverResources
<1>3. PICK all \in SUBSET Names : Loads(files0, {}, scene, d, all)
  <2>1. files0 = {} \/ files0 = {EntityFile}
    OBVIOUS
  <2>2. {} \in SUBSET Names
    OBVIOUS
  <2> HIDE DEF files0, d
  <2>3. QED
    BY <2>1, <2>2, EntityFileLoaded
<1>4. DOMAIN entities # {} => files0 # {}
  BY DEF NoEntities
<1>5. \A e \in DOMAIN entities : e \in Entity /\ EntityOK(e, scene, device)
  BY DEF EntitiesInv
<1>6. \A e \in DOMAIN entities : entities[e].lightmapFile \in {NoFile, LightmapFile(scene, e)}
  BY <1>5 DEF EntityOK
<1>7. files = {LightmapFile(scene, e) : e \in ids} /\ ids \in SUBSET Entity
  BY <1>1, <1>5, <1>6, SpritesExist
<1> HIDE DEF files, files0, d
<1>8. Adds(all, scene, d, files, TRUE, ids)
  <2> HIDE DEF ids
  <2>1. QED
    BY <1>7, LightmapsAddedToCache
<1>9. cache' = CacheOf(all \union ids, scene, d)
  BY <1>2, <1>3, <1>8, CacheOfNothing DEF Loads, Adds
<1>10. CacheInv'
  <2>1. all \union ids \in SUBSET Names
    BY <1>7 DEF Names
  <2>2. cache' = CacheOf(all \union ids, scene', device')
    BY <1>1, <1>9
  <2> HIDE DEF ids
  <2>3. QED
    BY <2>1, <2>2 DEF CacheInv, CacheOf, FileNamed
<1>11. ASSUME NEW e \in DOMAIN entities
       PROVE  EntityOK(e, scene, device)'
  <2>1. FindSprite(CacheOf(all, scene, d), EntityFile) = Sprite(EntityFile, d)
    BY <1>3, <1>4 DEF Loads
  <2>2. FindSprite(cache', EntityFile) = Sprite(EntityFile, d)
    <3>1. "hero" \in all
      BY <1>3, <1>4, <1>11 DEF Loads
    <3>2. QED
      BY <1>9, <3>1, NamesDiffer DEF CacheOf, FindSprite, EntityFile, FileNamed
  <2>3. CASE e \in ids
    <3>1. entities[e].lightmapFile = LightmapFile(scene, e)
      BY <1>6, <2>3
    <3>2. FindSprite(cache', LightmapFile(scene, e)) = Sprite(LightmapFile(scene, e), d)
      BY <1>5, <1>9, <2>3, LightmapFound
    <3>3. entities'[e] = [sprite |-> Sprite(EntityFile, d),
                          lightmap |-> Sprite(LightmapFile(scene, e), d),
                          lightmapFile |-> LightmapFile(scene, e)]
      BY <1>2, <2>2, <2>3, <3>1, <3>2
    <3>4. QED
      BY <1>1, <1>5, <3>3, SpritesExist DEF EntityOK
  <2>4. CASE e \notin ids
    <3>1. entities'[e] = [sprite |-> Sprite(EntityFile, d),
                          lightmap |-> entities[e].lightmap, lightmapFile |-> NoFile]
      BY <1>2, <2>2, <2>4
    <3>2. QED
      BY <1>1, <1>5, <2>4, <3>1 DEF EntityOK
  <2>5. QED
    BY <2>3, <2>4
<1>12. DOMAIN entities' = DOMAIN entities
  BY <1>2
<1>13. QED
  BY <1>5, <1>10, <1>11, <1>12 DEF EntitiesInv

(* Restore: every lightmap is generated on the device of now, or was       *)
(* recovered on it.                                                        *)
LEMMA RestoreStep ==
  ASSUME EntitiesInv, device \in Nat \ {0}, Restore
  PROVE  EntitiesInv'
<1>1. /\ scene' = scene /\ device' = device /\ richLighting' = richLighting
      /\ phase = "started" /\ phase' = "splash"
  BY DEF Restore, engineVars, settings
<1>2. \A e \in DOMAIN entities : e \in Entity /\ EntityOK(e, scene, device)
  BY DEF EntitiesInv
<1>3. CASE richLighting
  <2>1. PICK lit \in BOOLEAN : entities' = Lit(entities, lit)
    BY <1>3 DEF Restore
  <2>2. /\ DOMAIN entities' = DOMAIN entities
        /\ \A e \in DOMAIN entities : \E lightmap \in {Sprite(Generated, device), NoSprite} :
             entities'[e] = [entities[e] EXCEPT !.lightmap = lightmap]
    BY <2>1 DEF Lit
  <2>3. ASSUME NEW e \in DOMAIN entities
        PROVE  EntityOK(e, scene, device)'
    <3>1. PICK lightmap \in {Sprite(Generated, device), NoSprite} :
            entities'[e] = [entities[e] EXCEPT !.lightmap = lightmap]
      BY <2>2
    <3>2. entities[e] = [sprite |-> Sprite(EntityFile, device), lightmap |-> entities[e].lightmap,
                         lightmapFile |-> entities[e].lightmapFile]
      BY <1>2 DEF EntityOK
    <3>3. entities'[e] = [sprite |-> Sprite(EntityFile, device), lightmap |-> lightmap,
                          lightmapFile |-> entities[e].lightmapFile]
      BY <3>1, <3>2
    <3>4. entities[e].lightmapFile \in {NoFile, LightmapFile(scene, e)}
      BY <1>2 DEF EntityOK
    <3>5. Sprite(Generated, device).file = Generated /\ Sprite(Generated, device).device = device
      BY <1>2, SpritesExist
    <3>6. QED
      BY <1>1, <1>3, <3>3, <3>4, <3>5 DEF EntityOK
  <2>4. QED
    BY <1>2, <2>2, <2>3 DEF EntitiesInv
<1>4. CASE ~richLighting
  <2>1. entities' = entities
    BY <1>4 DEF Restore
  <2>2. ASSUME NEW e \in DOMAIN entities
        PROVE  EntityOK(e, scene, device)'
    <3>1. entities[e].lightmap # NoSprite => entities[e].lightmap.device = device
      BY <1>2, <1>4, SpritesExist DEF EntityOK
    <3>2. QED
      BY <1>1, <1>2, <2>1, <3>1 DEF EntityOK
  <2>3. QED
    BY <1>2, <2>1, <2>2 DEF EntitiesInv
<1>5. QED
  BY <1>3, <1>4

LEMMA ApplicationStep == ApplicationInv /\ [Next]_vars => ApplicationInv'
<1> SUFFICES ASSUME ApplicationInv, [Next]_vars PROVE ApplicationInv'
  OBVIOUS
<1>1. CacheInv /\ EntitiesInv /\ RestartInv /\ device \in Nat \ {0}
  BY DEF ApplicationInv
<1>2. RestartInv'
  BY <1>1, RestartStep
<1>3. device' \in Nat \ {0}
  <2> USE DEF engineVars, settings
  <2>1. CASE Restart
    BY <1>1, <2>1 DEF Restart
  <2>2. CASE UNCHANGED device
    BY <1>1, <2>2
  <2>3. CASE Script
    BY <2>2, <2>3 DEF Script, DrawOnce, DrawFadingText, PlayParticleEffect, ReleaseSprite,
       ReleaseResources, LoadSceneInScript, EnablePreLoadedLightmapsFromFile,
       SetPersistentResources, AddEntity, DeleteEntity
  <2>4. CASE Destroy \/ UNCHANGED vars
    BY <2>2, <2>4 DEF Destroy, vars
  <2>5. CASE Launcher
    BY <2>1, <2>2, <2>5 DEF Launcher, DrawSplashScreen, StartApplication, MainReturns,
       MainLoop, LoadScene, NoSceneRequested, ScriptsReturn, RenderFrame, RestartCrashes,
       Restore, vars
  <2>6. QED
    BY <2>3, <2>4, <2>5 DEF Next
<1>4. CASE Script
  BY <1>1, <1>4, ScriptKeepsCache, ScriptKeepsEntities, <1>2, <1>3 DEF ApplicationInv
<1>5. CASE LoadScene
  BY <1>1, <1>2, <1>3, <1>5, LoadSceneStep DEF ApplicationInv
<1>6. CASE Restart
  BY <1>1, <1>2, <1>3, <1>6, RestartRecovers DEF ApplicationInv
<1>7. CASE Restore
  <2>1. CacheInv'
    BY <1>1, <1>7, SameCacheKeepsInv DEF Restore, SameCache, engineVars
  <2>2. QED
    BY <1>1, <1>2, <1>3, <1>7, <2>1, RestoreStep DEF ApplicationInv
<1>8. CASE StartApplication \/ Destroy
  <2>1. CacheInv'
    BY <1>8, CacheOfNothing DEF StartApplication, Destroy, CacheInv
  <2>2. EntitiesInv'
    BY <1>1, <1>8, SameEntitiesKeepInv DEF StartApplication, Destroy, SameEntities,
       engineVars, settings
  <2>3. QED
    BY <1>2, <1>3, <2>1, <2>2 DEF ApplicationInv
<1>9. CASE \/ DrawSplashScreen \/ MainReturns \/ MainLoop \/ NoSceneRequested
           \/ ScriptsReturn \/ RenderFrame \/ RestartCrashes \/ UNCHANGED vars
  <2>1. SameCache /\ SameEntities /\ (phase = "started" => phase' = "started")
    BY <1>9 DEF DrawSplashScreen, MainReturns, MainLoop, NoSceneRequested, ScriptsReturn,
       RenderFrame, RestartCrashes, SameCache, SameEntities, engineVars, settings, vars
  <2>2. QED
    BY <1>1, <1>2, <1>3, <2>1, SameCacheKeepsInv, SameEntitiesKeepInv DEF ApplicationInv
<1>10. QED
  BY <1>4, <1>5, <1>6, <1>7, <1>8, <1>9 DEF Next, Launcher

LEMMA ApplicationAlways == ApplicationSpec => []ApplicationInv
BY InitApplication, ApplicationStep, PTL DEF ApplicationSpec

(* The lightmap of an entity is the one of its own scene, whatever names   *)
(* the scenes share, and whatever scripts release or keep.                 *)
THEOREM LightmapsAreOwn == ApplicationSpec => []LightmapOfOwnScene
<1>1. ApplicationInv => LightmapOfOwnScene
  BY DEF ApplicationInv, EntitiesInv, EntityOK, LightmapOfOwnScene
<1>2. QED
  BY <1>1, ApplicationAlways, PTL

(* An engine that has not aborted has a scene to recover on every restart. *)
THEOREM RestartsFindScene == ApplicationSpec => []RestartFindsScene
<1>1. ApplicationInv => RestartFindsScene
  BY DEF ApplicationInv, RestartInv, RestartFindsScene
<1>2. QED
  BY <1>1, ApplicationAlways, PTL

-------------------------------------------------------------------------------
(* The list of the top layer                                               *)

(* A set of naturals has a least element: induction, where a property of   *)
(* numbers is the set of those that have it.                               *)
LEMMA LeastOf ==
  ASSUME NEW T \in SUBSET Nat, T # {}
  PROVE  \E x \in T : \A y \in T : x <= y
<1>1. PICK x \in T : \A y \in T : <<y, x>> \notin OpToRel(<, Nat)
  BY NatLessThanWellFounded, WFMin
<1>2. \A y \in T : ~(y < x)
  BY <1>1 DEF OpToRel
<1>3. QED
  BY <1>2

LEMMA AliveGrows ==
  ASSUME NEW list, NEW i \in Nat
  PROVE  /\ IsFiniteSet(AliveUpTo(list, i))
         /\ Cardinality(AliveUpTo(list, i)) \in Nat
         /\ Cardinality(AliveUpTo(list, 0)) = 0
         /\ Cardinality(AliveUpTo(list, i + 1)) =
              Cardinality(AliveUpTo(list, i)) + (IF IsAlive(list[i + 1]) THEN 1 ELSE 0)
<1>1. IsFiniteSet(AliveUpTo(list, i))
  <2>1. AliveUpTo(list, i) \in SUBSET (1 .. i)
    BY DEF AliveUpTo
  <2>2. IsFiniteSet(1 .. i)
    BY FS_Interval
  <2>3. QED
    BY ONLY <2>1, <2>2, FS_Subset
<1>2. Cardinality(AliveUpTo(list, i)) \in Nat
  BY <1>1, FS_CardinalityType
<1>3. AliveUpTo(list, 0) = {}
  BY DEF AliveUpTo
<1>4. CASE IsAlive(list[i + 1])
  <2>1. AliveUpTo(list, i + 1) = AliveUpTo(list, i) \union {i + 1}
    BY <1>4 DEF AliveUpTo
  <2>2. i + 1 \notin AliveUpTo(list, i)
    BY DEF AliveUpTo
  <2>3. Cardinality(AliveUpTo(list, i + 1)) = Cardinality(AliveUpTo(list, i)) + 1
    BY <1>1, <2>1, <2>2, FS_AddElement
  <2>4. Cardinality(AliveUpTo(list, 0)) = 0
    BY <1>3, FS_EmptySet
  <2>5. QED
    BY <1>1, <1>2, <1>4, <2>3, <2>4
<1>5. CASE ~IsAlive(list[i + 1])
  <2>1. AliveUpTo(list, i + 1) = AliveUpTo(list, i)
    BY <1>5 DEF AliveUpTo
  <2>2. QED
    BY <1>1, <1>2, <1>3, <1>5, <2>1, FS_EmptySet
<1>6. QED
  BY <1>4, <1>5

(* As many as are alive up to the end, so many are found on the way.       *)
LEMMA AliveFound ==
  ASSUME NEW list, Len(list) \in Nat,
         NEW n \in 1 .. Cardinality(AliveUpTo(list, Len(list)))
  PROVE  \E i \in 1 .. Len(list) :
           IsAlive(list[i]) /\ Cardinality(AliveUpTo(list, i)) = n
<1> DEFINE count(i) == Cardinality(AliveUpTo(list, i))
<1> DEFINE T == {i \in 0 .. Len(list) : count(i) >= n}
<1>1. \A i \in Nat : count(i) \in Nat
  BY AliveGrows
<1>2. count(0) = 0
  BY AliveGrows
<1>3. Len(list) \in T /\ T \in SUBSET Nat
  BY <1>1
<1>4. PICK i \in T : \A j \in T : i <= j
  BY <1>3, LeastOf
<1>5. i \in 0 .. Len(list) /\ count(i) >= n
  BY <1>4
<1> HIDE DEF count
<1>6. i # 0
  BY <1>2, <1>5
<1>7. i - 1 \in Nat /\ i - 1 \in 0 .. Len(list) /\ i \in 1 .. Len(list)
  BY <1>5, <1>6
<1>8. count(i - 1) < n
  <2>1. i - 1 \notin T
    BY <1>3, <1>4, <1>7
  <2>2. ~(count(i - 1) >= n)
    BY <1>7, <2>1
  <2>3. QED
    BY <1>1, <1>7, <2>2
<1>9. count(i) = count(i - 1) + (IF IsAlive(list[i]) THEN 1 ELSE 0)
  <2>1. count((i - 1) + 1)
          = count(i - 1) + (IF IsAlive(list[(i - 1) + 1]) THEN 1 ELSE 0)
    BY <1>7, AliveGrows DEF count
  <2>2. (i - 1) + 1 = i
    BY <1>7
  <2>3. QED
    BY <2>1, <2>2
<1>10. IsAlive(list[i])
  BY <1>1, <1>5, <1>7, <1>8, <1>9
<1>11. count(i) = n
  BY <1>1, <1>5, <1>7, <1>8, <1>9, <1>10
<1>12. QED
  BY <1>7, <1>10, <1>11 DEF count

(* RemoveTheDead returns a list of what is alive.                          *)
LEMMA AliveOnly ==
  ASSUME NEW S, NEW list \in Seq(S)
  PROVE  /\ RemoveTheDead(list) \in Seq(S)
         /\ \A n \in 1 .. Len(RemoveTheDead(list)) : IsAlive(RemoveTheDead(list)[n])
<1> DEFINE total == Cardinality(AliveUpTo(list, Len(list)))
<1> DEFINE found(n) == CHOOSE i \in DOMAIN list :
             IsAlive(list[i]) /\ Cardinality(AliveUpTo(list, i)) = n
<1>1. total \in Nat
  BY AliveGrows
<1>2. RemoveTheDead(list) = [n \in 1 .. total |-> list[found(n)]]
  BY DEF RemoveTheDead
<1>3. ASSUME NEW n \in 1 .. total
      PROVE  list[found(n)] \in S /\ IsAlive(list[found(n)])
  <2>1. \E i \in DOMAIN list : IsAlive(list[i]) /\ Cardinality(AliveUpTo(list, i)) = n
    BY <1>3, AliveFound
  <2>2. found(n) \in DOMAIN list /\ IsAlive(list[found(n)])
    BY <2>1
  <2>3. QED
    BY <2>2
<1> HIDE DEF total, found
<1>4. QED
  BY <1>1, <1>2, <1>3

(* Insert, in a list whose first n drawables are drawn once and the others *)
(* stay: the new one goes between them.                                    *)
LEMMA Inserted ==
  ASSUME NEW S, NEW list \in Seq(S), NEW x \in S, NEW n \in 0 .. Len(list),
         \A i \in 1 .. Len(list) : IsAlive(list[i]) <=> i > n
  PROVE  /\ Insert(list, x) \in Seq(S)
         /\ Len(Insert(list, x)) = Len(list) + 1
         /\ \A i \in 1 .. Len(list) + 1 :
              Insert(list, x)[i] = IF i <= n THEN list[i]
                                   ELSE IF i = n + 1 THEN x ELSE list[i - 1]
<1>1. CASE n < Len(list)
  <2>1. list # <<>> /\ IsAlive(list[Len(list)])
    BY <1>1
  <2>2. FirstAlive(list) = n + 1
    <3>1. /\ n + 1 \in DOMAIN list /\ IsAlive(list[n + 1])
          /\ \A j \in 1 .. (n + 1) - 1 : ~IsAlive(list[j])
      BY <1>1
    <3>2. ASSUME NEW i \in DOMAIN list, IsAlive(list[i]),
                 \A j \in 1 .. i - 1 : ~IsAlive(list[j])
          PROVE  i = n + 1
      BY <1>1, <3>2
    <3>3. QED
      BY <3>1, <3>2 DEF FirstAlive
  <2> DEFINE before == SubSeq(list, 1, n)
  <2> DEFINE after == SubSeq(list, n + 1, Len(list))
  <2>3. /\ before \in Seq(S) /\ Len(before) = n
        /\ \A i \in 1 .. n : before[i] = list[i]
    OBVIOUS
  <2>4. /\ after \in Seq(S) /\ Len(after) = Len(list) - n
        /\ \A i \in 1 .. Len(list) - n : after[i] = list[n + i]
    BY <1>1
  <2>5. Insert(list, x) = before \o <<x>> \o after
    <3>1. Insert(list, x) = SubSeq(list, 1, FirstAlive(list) - 1) \o <<x>>
                              \o SubSeq(list, FirstAlive(list), Len(list))
      BY ONLY <2>1 DEF Insert
    <3>2. FirstAlive(list) - 1 = n
      BY <2>2
    <3>3. SubSeq(list, 1, FirstAlive(list) - 1) = before
      BY ONLY <3>2 DEF before
    <3>4. SubSeq(list, FirstAlive(list), Len(list)) = after
      BY ONLY <2>2 DEF after
    <3>5. QED
      BY ONLY <3>1, <3>3, <3>4
  <2> HIDE DEF before, after
  <2> DEFINE front == before \o <<x>>
  <2>6. /\ front \in Seq(S) /\ Len(front) = n + 1 /\ front[n + 1] = x
        /\ \A i \in 1 .. n : front[i] = list[i]
    BY <2>3
  <2>7. Insert(list, x) = front \o after
    BY <2>5
  <2> HIDE DEF front
  <2>8. /\ front \o after \in Seq(S)
        /\ Len(front \o after) = Len(list) + 1
        /\ \A i \in 1 .. Len(list) + 1 :
             (front \o after)[i] = IF i <= n + 1 THEN front[i] ELSE after[i - (n + 1)]
    <3>1. /\ front \in Seq(S) /\ after \in Seq(S)
          /\ Len(front) = n + 1 /\ Len(after) = Len(list) - n /\ Len(list) \in Nat
      BY <2>4, <2>6
    <3>2. Len(front) + Len(after) = Len(list) + 1
      BY <3>1
    <3>3. /\ front \o after \in Seq(S)
          /\ Len(front \o after) = Len(front) + Len(after)
          /\ \A i \in 1 .. Len(front) + Len(after) :
               (front \o after)[i] = IF i <= Len(front) THEN front[i]
                                     ELSE after[i - Len(front)]
      BY ONLY <3>1, ConcatProperties
    <3>4. QED
      BY ONLY <3>1, <3>2, <3>3
  <2> DEFINE all == front \o after
  <2>9. Insert(list, x) = all /\ Len(list) \in Nat /\ n \in Nat
    BY <2>7
  <2> HIDE DEF all
  <2>10. ASSUME NEW i \in 1 .. Len(list) + 1
         PROVE  all[i] = IF i <= n THEN list[i] ELSE IF i = n + 1 THEN x ELSE list[i - 1]
    <3>1. all[i] = IF i <= n + 1 THEN front[i] ELSE after[i - (n + 1)]
      BY <2>8 DEF all
    <3>2. i \in Nat
      BY <2>9
    <3>3. CASE i <= n
      <4>1. i \in 1 .. n /\ i <= n + 1
        BY <2>9, <3>3
      <4>2. QED
        BY <2>6, <3>1, <3>3, <4>1
    <3>4. CASE i = n + 1
      <4>1. ~(i <= n) /\ i <= n + 1
        BY <2>9, <3>4
      <4>2. QED
        BY <2>6, <3>1, <3>4, <4>1
    <3>5. CASE i > n + 1
      <4>1. /\ ~(i <= n) /\ i # n + 1 /\ ~(i <= n + 1)
            /\ i - (n + 1) \in 1 .. Len(list) - n /\ n + (i - (n + 1)) = i - 1
        BY <2>9, <3>2, <3>5
      <4>2. after[i - (n + 1)] = list[i - 1]
        BY <2>4, <4>1
      <4>3. QED
        BY <3>1, <4>1, <4>2
    <3>6. i <= n \/ i = n + 1 \/ i > n + 1
      BY <2>9, <3>2
    <3>7. QED
      BY ONLY <3>3, <3>4, <3>5, <3>6
  <2>11. QED
    BY <2>8, <2>9, <2>10 DEF all
<1>2. CASE n = Len(list)
  <2>1. ~(list # <<>> /\ IsAlive(list[Len(list)]))
    BY <1>2
  <2>2. Insert(list, x) = Append(list, x)
    BY <2>1 DEF Insert
  <2>3. QED
    BY <1>2, <2>2
<1>3. QED
  BY <1>1, <1>2

-------------------------------------------------------------------------------
(* The top layer between two frames and while scripts draw: what was drawn *)
(* for the frame comes first, in the order of the calls and with sprites   *)
(* of the current device, and everything after it stays.                   *)
Sprites == {NoSprite} \union {Sprite(file, d) : file \in {EntityFile, ParticleFile}, d \in Nat}
Drawable == [call : Nat, sprite : Sprites, left : Nat]

DrawnOnce(i) ==
  /\ drawables[i].call = i
  /\ ~IsAlive(drawables[i])
  /\ drawables[i].sprite # NoSprite => drawables[i].sprite.device = device

Drawing == phase \in {"main", "scripts", "render"}
TopInv ==
  /\ drawables \in Seq(Drawable)
  /\ calls \in Nat
  /\ ~started => drawables = <<>> /\ calls = 0
  /\ Drawing =>
       /\ calls \in 0 .. Len(drawables)
       /\ \A i \in 1 .. calls : DrawnOnce(i)
       /\ \A i \in calls + 1 .. Len(drawables) : IsAlive(drawables[i])

(* A script draws: for this frame, or something that stays.                *)
LEMMA TopInserted ==
  ASSUME TopInv, Drawing, NEW x \in Drawable, drawables' = Insert(drawables, x),
         UNCHANGED <<phase, device, started>>, started,
         \/ /\ calls' = calls + 1 /\ x.call = calls + 1 /\ ~IsAlive(x)
            /\ x.sprite # NoSprite => x.sprite.device = device
         \/ calls' = calls /\ IsAlive(x)
  PROVE  TopInv'
<1> DEFINE d == drawables
<1>1. d \in Seq(Drawable) /\ Len(d) \in Nat /\ calls \in 0 .. Len(d)
  BY DEF TopInv
<1>2. \A i \in 1 .. Len(d) : IsAlive(d[i]) <=> i > calls
  <2>1. ASSUME NEW i \in 1 .. Len(d) PROVE IsAlive(d[i]) <=> i > calls
    <3>1. CASE i <= calls
      <4>1. i \in 1 .. calls
        BY <1>1, <3>1
      <4>2. QED
        BY <1>1, <3>1, <4>1 DEF TopInv, DrawnOnce
    <3>2. CASE i > calls
      <4>1. i \in calls + 1 .. Len(d)
        BY <1>1, <3>2
      <4>2. QED
        BY <1>1, <3>2, <4>1 DEF TopInv
    <3>3. QED
      BY <1>1, <3>1, <3>2
  <2>2. QED
    BY <2>1
<1>3. /\ d' \in Seq(Drawable)
      /\ Len(d') = Len(d) + 1
      /\ \A i \in 1 .. Len(d) + 1 :
           d'[i] = IF i <= calls THEN d[i] ELSE IF i = calls + 1 THEN x ELSE d[i - 1]
  BY <1>1, <1>2, Inserted
<1>4. /\ calls' \in 0 .. Len(d') /\ calls' \in Nat
      /\ calls' = calls \/ calls' = calls + 1
  BY <1>1, <1>3
<1>5. ASSUME NEW i \in 1 .. calls' PROVE DrawnOnce(i)'
  <2>1. CASE i <= calls
    <3>1. i \in 1 .. calls /\ d'[i] = d[i]
      BY <1>1, <1>3, <1>4, <2>1
    <3>2. QED
      BY <3>1 DEF TopInv, DrawnOnce
  <2>2. CASE i = calls + 1
    <3>1. d'[i] = x /\ calls' = calls + 1
      BY <1>1, <1>3, <1>4, <2>2
    <3>2. QED
      BY <1>1, <2>2, <3>1 DEF DrawnOnce
  <2>3. QED
    BY <1>1, <1>4, <2>1, <2>2
<1>6. ASSUME NEW i \in calls' + 1 .. Len(d') PROVE IsAlive(d'[i])
  <2>1. CASE i = calls + 1
    <3>1. calls' = calls
      <4>1. calls \in Nat /\ Len(d') \in Nat /\ i >= calls' + 1
        <5>1. calls \in Nat /\ calls' \in Nat
          BY <1>4 DEF TopInv
        <5>2. Len(d') \in Nat
          BY <1>3
        <5>3. QED
          <6>1. \A a, b \in Nat : \A k \in a + 1 .. b : k >= a + 1
            OBVIOUS
          <6>2. i >= calls' + 1
            BY <1>6, <5>1, <5>2, <6>1
          <6>3. QED
            BY <5>1, <5>2, <6>2
      <4>2. calls' # calls + 1
        BY <2>1, <4>1
      <4>3. QED
        BY <1>4, <4>2
    <3>2. IsAlive(x)
      BY <1>1, <3>1
    <3>3. d'[i] = x
      BY <1>1, <1>3, <2>1
    <3>4. QED
      BY <3>2, <3>3
  <2>2. CASE i > calls + 1
    <3>1. i - 1 \in calls + 1 .. Len(d) /\ d'[i] = d[i - 1]
      BY <1>1, <1>3, <1>4, <2>2
    <3>2. QED
      BY <3>1 DEF TopInv
  <2>3. QED
    BY <1>1, <1>4, <2>1, <2>2
<1>7. QED
  BY <1>3, <1>4, <1>5, <1>6 DEF TopInv, Drawing

LEMMA SpriteFound ==
  ASSUME CacheInv, NEW file \in {EntityFile, ParticleFile},
         cache' = AddFiles(cache, {file}, device, FALSE)
  PROVE  FindSprite(cache', file) = Sprite(file, device)
<1>1. PICK names \in SUBSET Names : cache = CacheOf(names, scene, device)
  BY DEF CacheInv
<1>2. /\ Adds(names, scene, device, {file}, FALSE, {file.name})
      /\ FindSprite(CacheOf(names \union {file.name}, scene, device), file)
           = Sprite(file, device)
  BY <1>1, AddedToCache
<1>3. QED
  BY <1>1, <1>2 DEF Adds

(* What a script draws, with a sprite that it loads or with none.          *)
LEMMA DrawableMade ==
  ASSUME device \in Nat, calls \in Nat,
         NEW sprite \in {NoSprite} \union {Sprite(f, device) : f \in {EntityFile, ParticleFile}}
  PROVE  /\ Immediate(calls + 1, sprite) \in Drawable
         /\ Immediate(calls + 1, sprite).call = calls + 1
         /\ Immediate(calls + 1, sprite).sprite = sprite
         /\ ~IsAlive(Immediate(calls + 1, sprite))
         /\ sprite # NoSprite => sprite.device = device
         /\ Timed(2, sprite) \in Drawable
         /\ IsAlive(Timed(2, sprite))
<1>1. sprite \in Sprites
  BY DEF Sprites
<1>2. sprite # NoSprite => sprite.device = device
  BY DEF Sprite
<1>3. QED
  BY <1>1, <1>2 DEF Immediate, Timed, Drawable, IsAlive

LEMMA TopScriptStep ==
  ASSUME TopInv, CacheInv, RestartInv, device \in Nat, Script
  PROVE  TopInv'
<1> USE DEF engineVars, settings
<1>1. Drawing /\ started
  BY DEF Script, ScriptRuns, Drawing, RestartInv, DrawOnce, DrawFadingText,
     PlayParticleEffect, ReleaseSprite, ReleaseResources, LoadSceneInScript,
     EnablePreLoadedLightmapsFromFile, SetPersistentResources, AddEntity, DeleteEntity
<1>2. calls \in Nat
  BY DEF TopInv
<1> DEFINE loaded == {NoSprite} \union {Sprite(f, device) : f \in {EntityFile, ParticleFile}}
<1>3. ASSUME NEW sprite \in loaded, UNCHANGED <<phase, device, started>>,
             \/ drawables' = Insert(drawables, Immediate(calls + 1, sprite))
                /\ calls' = calls + 1
             \/ drawables' = Insert(drawables, Timed(2, sprite)) /\ calls' = calls
      PROVE  TopInv'
  <2>1. CASE drawables' = Insert(drawables, Immediate(calls + 1, sprite))
             /\ calls' = calls + 1
    <3> DEFINE x == Immediate(calls + 1, sprite)
    <3>1. /\ x \in Drawable /\ x.call = calls + 1 /\ ~IsAlive(x)
          /\ x.sprite # NoSprite => x.sprite.device = device
      BY <1>2, DrawableMade
    <3>2. drawables' = Insert(drawables, x)
      BY <2>1
    <3> HIDE DEF x
    <3>3. QED
      BY <1>1, <1>3, <2>1, <3>1, <3>2, TopInserted
  <2>2. CASE drawables' = Insert(drawables, Timed(2, sprite)) /\ calls' = calls
    <3> DEFINE x == Timed(2, sprite)
    <3>1. x \in Drawable /\ IsAlive(x)
      BY <1>2, DrawableMade
    <3>2. drawables' = Insert(drawables, x)
      BY <2>2
    <3> HIDE DEF x
    <3>3. QED
      BY <1>1, <1>3, <2>2, <3>1, <3>2, TopInserted
  <2>3. QED
    BY <1>3, <2>1, <2>2
<1>4. CASE DrawOnce
  <2>1. CASE drawables' = Insert(drawables, Immediate(calls + 1, NoSprite))
    <3>1. NoSprite \in loaded
      OBVIOUS
    <3>2. QED
      BY <1>3, <1>4, <2>1, <3>1 DEF DrawOnce
  <2>2. CASE /\ cache' = AddFiles(cache, {EntityFile}, device, FALSE)
             /\ drawables' = Insert(drawables,
                                    Immediate(calls + 1, FindSprite(cache', EntityFile)))
    <3>1. FindSprite(cache', EntityFile) = Sprite(EntityFile, device)
      BY <2>2, SpriteFound
    <3>2. Sprite(EntityFile, device) \in loaded
      OBVIOUS
    <3>3. QED
      BY <1>3, <1>4, <2>2, <3>1, <3>2 DEF DrawOnce
  <2>3. QED
    BY <1>4, <2>1, <2>2 DEF DrawOnce
<1>5. CASE DrawFadingText
  <2>1. NoSprite \in loaded
    OBVIOUS
  <2>2. QED
    BY <1>3, <1>5, <2>1 DEF DrawFadingText
<1>6. CASE PlayParticleEffect
  <2>1. FindSprite(cache', ParticleFile) = Sprite(ParticleFile, device)
    BY <1>6, SpriteFound DEF PlayParticleEffect
  <2>2. Sprite(ParticleFile, device) \in loaded
    OBVIOUS
  <2>3. QED
    BY <1>3, <1>6, <2>1, <2>2 DEF PlayParticleEffect
<1>7. ASSUME UNCHANGED <<drawables, calls, phase, device, started>>
      PROVE  TopInv'
  BY <1>7 DEF TopInv, Drawing, DrawnOnce
<1>8. CASE \/ ReleaseSprite \/ ReleaseResources \/ LoadSceneInScript
           \/ EnablePreLoadedLightmapsFromFile \/ SetPersistentResources
           \/ AddEntity \/ DeleteEntity
  BY <1>7, <1>8 DEF ReleaseSprite, ReleaseResources, LoadSceneInScript,
     EnablePreLoadedLightmapsFromFile, SetPersistentResources, AddEntity, DeleteEntity
<1>9. QED
  BY <1>4, <1>5, <1>6, <1>8 DEF Script

(* A frame: what is not alive leaves before the scripts of the next one    *)
(* run, and until then the order of the list means nothing.                *)
LEMMA TopLauncherStep ==
  ASSUME TopInv, RestartInv, Launcher \/ Destroy \/ UNCHANGED vars
  PROVE  TopInv'
<1> USE DEF engineVars, settings
<1>1. /\ drawables \in Seq(Drawable) /\ calls \in Nat
      /\ ~started => drawables = <<>> /\ calls = 0
  BY DEF TopInv
<1>2. ASSUME UNCHANGED <<drawables, calls>>, started' = started, phase' \notin {"main", "scripts", "render"}
      PROVE  TopInv'
  BY <1>1, <1>2 DEF TopInv, Drawing
<1>3. CASE LoadScene
  <2>1. drawables' = <<>> /\ calls' = 0
    BY <1>3 DEF LoadScene
  <2>2. drawables' \in Seq(Drawable) /\ Len(drawables') = 0
    BY <2>1
  <2>3. QED
    BY <2>1, <2>2 DEF TopInv, Drawing, DrawnOnce
<1>4. CASE NoSceneRequested
  <2>1. drawables' = RemoveTheDead(drawables) /\ calls' = 0 /\ started' = started
    BY <1>4 DEF NoSceneRequested
  <2>2. /\ drawables' \in Seq(Drawable)
        /\ \A i \in 1 .. Len(drawables') : IsAlive(drawables'[i])
    BY <1>1, <2>1, AliveOnly
  <2>3. started
    BY <1>4 DEF NoSceneRequested, RestartInv
  <2>4. Len(drawables') \in Nat
    BY <2>2
  <2>5. QED
    BY <2>1, <2>2, <2>3, <2>4 DEF TopInv, Drawing, DrawnOnce
<1>5. CASE ScriptsReturn
  <2>1. UNCHANGED <<drawables, calls, device, started>> /\ Drawing
    BY <1>5 DEF ScriptsReturn, Drawing
  <2>2. QED
    BY <2>1 DEF TopInv, Drawing, DrawnOnce
<1>6. CASE RenderFrame
  <2>1. /\ drawables' = DrawTopLayer(drawables) /\ calls' = calls
        /\ started' = started /\ phase' = "ready"
    BY <1>6 DEF RenderFrame
  <2>2. started
    BY <1>6 DEF RenderFrame, RestartInv
  <2>3. DrawTopLayer(drawables) \in Seq(Drawable)
    <3>1. ASSUME NEW x \in Drawable
          PROVE  [x EXCEPT !.left = IF @ > 0 THEN @ - 1 ELSE 0] \in Drawable
      BY DEF Drawable
    <3>2. QED
      BY <1>1, <3>1 DEF DrawTopLayer
  <2>4. QED
    BY <1>1, <2>1, <2>2, <2>3 DEF TopInv, Drawing
<1>7. CASE StartApplication
  <2>1. drawables' = <<>> /\ calls' = 0
    BY <1>1, <1>7 DEF StartApplication
  <2>2. drawables' \in Seq(Drawable) /\ Len(drawables') = 0
    BY <2>1
  <2>3. QED
    BY <2>1, <2>2 DEF TopInv, Drawing, DrawnOnce
<1>8. CASE DrawSplashScreen \/ MainReturns \/ MainLoop \/ Destroy \/ Restart \/ Restore
  BY <1>2, <1>8 DEF DrawSplashScreen, MainReturns, MainLoop, Destroy, Restart, Restore
<1>9. CASE RestartCrashes \/ UNCHANGED vars
  <2>1. UNCHANGED <<drawables, calls, phase, device, started>>
    BY <1>9 DEF RestartCrashes, vars
  <2>2. QED
    BY <2>1 DEF TopInv, Drawing, DrawnOnce
<1>10. QED
  BY <1>3, <1>4, <1>5, <1>6, <1>7, <1>8, <1>9 DEF Launcher

LEMMA InitTop == ApplicationInit => TopInv
<1> SUFFICES ASSUME ApplicationInit PROVE TopInv
  OBVIOUS
<1>1. drawables = <<>> /\ calls = 0 /\ phase = "splash"
  BY DEF ApplicationInit
<1>2. drawables \in Seq(Drawable)
  BY <1>1
<1>3. QED
  BY <1>1, <1>2 DEF TopInv, Drawing

LEMMA TopAlways == ApplicationSpec => []TopInv
<1>1. TopInv /\ ApplicationInv /\ [Next]_vars => TopInv'
  BY TopScriptStep, TopLauncherStep DEF ApplicationInv, Next
<1>2. QED
  BY <1>1, InitTop, ApplicationAlways, PTL DEF ApplicationSpec

(* What scripts drew for a frame is drawn in it, in the order of the calls *)
(* and under what stays, however many there are of both.                   *)
THEOREM TopLayerIsInOrder == ApplicationSpec => []TopLayerInOrder
<1>1. TopInv => TopLayerInOrder
  <2> SUFFICES ASSUME TopInv, phase = "render" PROVE TopLayerInOrder
    BY DEF TopLayerInOrder
  <2>1. /\ drawables \in Seq(Drawable) /\ calls \in 0 .. Len(drawables)
        /\ \A i \in 1 .. calls : DrawnOnce(i)
        /\ \A i \in calls + 1 .. Len(drawables) : IsAlive(drawables[i])
    BY DEF TopInv, Drawing
  <2>2. calls \in Nat /\ Len(drawables) \in Nat /\ calls <= Len(drawables)
    BY <2>1
  <2>3. ASSUME NEW i \in 1 .. Len(drawables)
        PROVE  IF i <= calls THEN drawables[i].call = i ELSE IsAlive(drawables[i])
    <3>1. CASE i <= calls
      <4>1. i \in 1 .. calls
        BY <2>2, <3>1
      <4>2. QED
        BY <2>1, <3>1, <4>1 DEF DrawnOnce
    <3>2. CASE ~(i <= calls)
      <4>1. i \in calls + 1 .. Len(drawables)
        BY <2>2, <3>2
      <4>2. QED
        BY <2>1, <3>2, <4>1
    <3>3. QED
      BY <3>1, <3>2
  <2>4. QED
    BY <2>1, <2>2, <2>3 DEF TopLayerInOrder
<1>2. QED
  BY <1>1, TopAlways, PTL

(* When a frame is drawn everything is on the device it is drawn on: the   *)
(* entities, their lightmaps and what scripts drew in this frame.          *)
THEOREM ResourcesAreRecovered == ApplicationSpec => []ResourcesRecovered
<1>1. ApplicationInv => (phase = "render" => EntitiesRecovered)
  BY DEF ApplicationInv, EntitiesInv, EntityOK, EntitiesRecovered
<1>2. TopInv => (phase = "render" => DrawablesRecovered)
  <2> SUFFICES ASSUME TopInv, phase = "render",
                      NEW i \in DOMAIN drawables,
                      ~IsAlive(drawables[i]), drawables[i].sprite # NoSprite
               PROVE  drawables[i].sprite.device = device
    BY DEF DrawablesRecovered
  <2>1. /\ drawables \in Seq(Drawable) /\ calls \in 0 .. Len(drawables)
        /\ \A k \in 1 .. calls : DrawnOnce(k)
        /\ \A k \in calls + 1 .. Len(drawables) : IsAlive(drawables[k])
    BY DEF TopInv, Drawing
  <2>2. calls \in Nat /\ Len(drawables) \in Nat /\ i \in 1 .. Len(drawables)
    BY <2>1
  <2>3. i \in 1 .. calls
    <3>1. ~(i \in calls + 1 .. Len(drawables))
      BY <2>1
    <3>2. QED
      BY <2>2, <3>1
  <2>4. QED
    BY <2>1, <2>3 DEF DrawnOnce
<1>3. ApplicationInv /\ TopInv => ResourcesRecovered
  BY <1>1, <1>2 DEF ResourcesRecovered
<1>4. QED
  BY <1>3, ApplicationAlways, TopAlways, PTL

===============================================================================
