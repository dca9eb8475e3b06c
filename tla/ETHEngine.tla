------------------------------ MODULE ETHEngine -------------------------------
(***************************************************************************)
(* The engine from main() on (ETHEngine.cpp): each Update loads the scene  *)
(* a script has requested, if any, and runs its functions; RenderFrame     *)
(* ends by resolving the move requests of the scene.                       *)
(*                                                                         *)
(* A scene is replaced as a whole: its entities are killed and its ids are *)
(* given out again, but scripts keep handles to the old entities, and what *)
(* they do through them is done to the bucket manager of the new scene.    *)
(* The functions of a scene are looked up in the request once more after   *)
(* onSceneLoaded has run, and only then is the request reset.              *)
(***************************************************************************)
EXTENDS ETHBucketManager

CONSTANTS
  Scene,    \* the scenes a script may request, each with its three functions
  NoScene,  \* no request, or no scene
  Calls     \* what the scripts of this instance do beyond the usual calls

ASSUME NoSceneAssumption == NoScene \notin Scene
ASSUME CallsAssumption == Calls \subseteq {"LoadSceneInOnSceneLoaded", "StaleHandles"}

VARIABLES
  phase,      \* where in Start, Update and RenderFrame the engine is
  running,    \* the script function that runs
  scene,      \* m_pScene
  nextScene,  \* ETHScriptWrapper::m_nextScene
  functions,  \* the scene whose onSceneUpdate and onResume are bound
  resumed,    \* m_hasBeenResumed
  stale,      \* the entities of the scenes that were replaced
  tainted,    \* history: a script has moved one of them since m_pScene was set
  pending     \* history: the request of m_nextScene has not been loaded yet

staleVars == <<stale, tainted>>
requestVars == <<scene, nextScene, functions, pending>>
engineVars == <<phase, running, requestVars, resumed, staleVars>>
allVars == <<vars, engineVars>>

Phases == {"start", "load", "reading", "resume", "scene", "render", "resolve",
           "aborted"}
Functions == {"nothing", "main", "onSceneLoaded", "onResume", "callback"}

EngineInit ==
  /\ Init
  /\ phase = "start"
  /\ running = "main"
  /\ scene = NoScene
  /\ nextScene = NoScene
  /\ functions = NoScene
  /\ resumed = FALSE
  /\ stale = {}
  /\ tainted = FALSE
  /\ pending = FALSE

-------------------------------------------------------------------------------
(* What the running script may do.                                         *)

(* LoadSceneInScript: the last request stands.  Any function may make one. *)
LoadSceneInScript ==
  /\ running # "nothing"
  /\ running = "onSceneLoaded" => "LoadSceneInOnSceneLoaded" \in Calls
  /\ resolving = 0
  /\ nextScene' \in Scene
  /\ pending' = TRUE
  /\ UNCHANGED <<vars, phase, running, scene, functions, resumed, staleVars>>

(* The functions that touch the scene are refused in main.                 *)
WarnIfRunsInMainFunction == running = "main"

ScriptCall ==
  /\ running # "nothing"
  /\ ~WarnIfRunsInMainFunction
  /\ \E e \in Entity :
       \/ \E p \in Position :
            \/ e \notin stale /\ AddEntityFromScript(e, p)
            \/ SetPosition(e, p)
       \/ DeleteEntity(e)
  /\ UNCHANGED engineVars

(* SetPosition through a handle to an entity of an earlier scene: the      *)
(* request goes to the bucket manager of the current one.                  *)
ScriptMovesStale ==
  /\ "StaleHandles" \in Calls
  /\ running \in {"onSceneLoaded", "onResume", "callback"}
  /\ Len(moveRequests) < MaxRequests
  /\ \E e \in stale, p \in Position :
       /\ position' = [position EXCEPT ![e] = p]
       /\ RequestBucketMove(e, position[e], p)
  /\ tainted' = TRUE
  /\ UNCHANGED <<entities, resolving, alive, id, idCounter, constructed, loading,
                 phase, running, requestVars, resumed, stale>>

Returns(function) ==
  /\ running = function
  /\ running' = "nothing"

-------------------------------------------------------------------------------
(* The engine                                                              *)

MainReturns ==
  /\ phase = "start"
  /\ Returns("main")
  /\ phase' = "load"
  /\ UNCHANGED <<vars, requestVars, resumed, staleVars>>

(* ETHEngine::Restore, between two frames.                                 *)
Restore ==
  /\ phase = "load"
  /\ resumed' = TRUE
  /\ UNCHANGED <<vars, phase, running, requestVars, staleVars>>

(* The new scene starts empty, with its counter at zero.                   *)
NewScene ==
  /\ phase = "load"
  /\ nextScene # NoScene
  /\ scene' = nextScene
  /\ pending' = FALSE
  /\ phase' = "reading"
  /\ entities' = [b \in Bucket |-> {}]
  /\ moveRequests' = <<>>
  /\ idCounter' = 0
  /\ loading' = TRUE
  /\ constructed' = {}
  /\ stale' = stale \union constructed
  /\ tainted' = FALSE
  /\ UNCHANGED <<resolving, position, id, running, nextScene, functions, resumed>>

(* Faulty variants: the destructor only releases; a scene is loaded only   *)
(* when there is none.                                                     *)
SceneReplaced_KillsNoOne == NewScene /\ UNCHANGED alive
SceneReplaced_OnlyOnce ==
  /\ scene = NoScene
  /\ NewScene
  /\ alive' = [e \in Entity |-> alive[e] /\ ~IsListed(e)]

(* LoadNextSceneIfRequested, first part: assigning m_pScene destroys the   *)
(* old scene, and ~ETHBucketManager kills what its buckets list.  The code *)
(* assigns it when the new scene has been read; but reading runs no script *)
(* and touches nothing of the old scene, so by the time onSceneLoaded runs *)
(* the order of the two cannot be told.                                    *)
SceneReplaced ==
  /\ NewScene
  /\ alive' = [e \in Entity |-> alive[e] /\ ~IsListed(e)]

(* The file numbers its entities without regard to those of other scenes.  *)
SceneReadsEntity ==
  /\ phase = "reading"
  /\ \E e \in Entity \ stale, i \in FileId, p \in Position :
       LoadEntityFromFile(e, i, p)
  /\ UNCHANGED engineVars

(* LoadSceneScripts: onSceneLoaded runs.                                   *)
SceneLoaded ==
  /\ phase = "reading"
  /\ FinishLoading
  /\ running' = "onSceneLoaded"
  /\ UNCHANGED <<phase, requestVars, resumed, staleVars>>

(* Faulty variant: the request is reset before its functions are bound.    *)
OnSceneLoadedReturns_ResetFirst ==
  /\ phase = "reading"
  /\ Returns("onSceneLoaded")
  /\ functions' = NoScene
  /\ nextScene' = NoScene
  /\ phase' = "resume"
  /\ UNCHANGED <<vars, scene, pending, resumed, staleVars>>

(* The rest of LoadSceneScripts binds the functions that m_nextScene names *)
(* by now; LoadNextSceneIfRequested resets m_nextScene.                    *)
OnSceneLoadedReturns ==
  /\ phase = "reading"
  /\ Returns("onSceneLoaded")
  /\ functions' = nextScene
  /\ nextScene' = NoScene
  /\ phase' = "resume"
  /\ UNCHANGED <<vars, scene, pending, resumed, staleVars>>

NoSceneRequested ==
  /\ phase = "load"
  /\ nextScene = NoScene
  /\ scene # NoScene
  /\ phase' = "resume"
  /\ UNCHANGED <<vars, running, requestVars, resumed, staleVars>>

(* "no scene has been loaded": the launcher leaves its loop.               *)
Abort ==
  /\ phase = "load"
  /\ nextScene = NoScene
  /\ scene = NoScene
  /\ phase' = "aborted"
  /\ UNCHANGED <<vars, running, requestVars, resumed, staleVars>>

OnResumeRuns ==
  /\ phase = "resume"
  /\ running = "nothing"
  /\ resumed
  /\ functions # NoScene
  /\ running' = "onResume"
  /\ UNCHANGED <<vars, phase, requestVars, resumed, staleVars>>

(* ETHScene::Update: the callbacks of the entities and onSceneUpdate.      *)
UpdateScene ==
  /\ phase = "resume"
  /\ \/ running = "onResume"
     \/ running = "nothing" /\ (~resumed \/ functions = NoScene)
  /\ resumed' = FALSE
  /\ running' = "callback"
  /\ phase' = "scene"
  /\ UNCHANGED <<vars, requestVars, staleVars>>

CallbacksReturn ==
  /\ phase = "scene"
  /\ Returns("callback")
  /\ phase' = "render"
  /\ UNCHANGED <<vars, requestVars, resumed, staleVars>>

(* ETHScene::RenderScene ends by resolving the move requests.              *)
RenderResolves ==
  /\ phase = "render"
  /\ \/ BeginResolve /\ phase' = "resolve"
     \/ moveRequests = <<>> /\ phase' = "load" /\ UNCHANGED vars
  /\ UNCHANGED <<running, requestVars, resumed, staleVars>>

ResolveStep ==
  /\ phase = "resolve"
  /\ ResolveNext
  /\ UNCHANGED engineVars

FrameEnds ==
  /\ phase = "resolve"
  /\ EndResolve
  /\ phase' = "load"
  /\ UNCHANGED <<running, requestVars, resumed, staleVars>>

Terminated == phase = "aborted" /\ UNCHANGED allVars

-------------------------------------------------------------------------------

Engine ==
  \/ MainReturns
  \/ SceneReplaced
  \/ SceneLoaded
  \/ OnSceneLoadedReturns
  \/ NoSceneRequested
  \/ Abort
  \/ OnResumeRuns
  \/ UpdateScene
  \/ CallbacksReturn
  \/ RenderResolves
  \/ ResolveStep
  \/ FrameEnds

EngineNext ==
  \/ Engine
  \/ LoadSceneInScript
  \/ ScriptCall
  \/ ScriptMovesStale
  \/ Restore
  \/ SceneReadsEntity
  \/ Terminated

(* The launcher alternates Update and RenderFrame; a script returns.       *)
EngineSafety == EngineInit /\ [][EngineNext]_allVars
EngineSpec == EngineSafety /\ WF_allVars(Engine)

-------------------------------------------------------------------------------

EngineTypeOK ==
  /\ TypeOK
  /\ phase \in Phases
  /\ running \in Functions
  /\ scene \in Scene \union {NoScene}
  /\ nextScene \in Scene \union {NoScene}
  /\ functions \in Scene \union {NoScene}
  /\ resumed \in BOOLEAN
  /\ stale \in SUBSET Entity
  /\ tainted \in BOOLEAN
  /\ pending \in BOOLEAN

(* Everything the bucket manager guarantees holds of the entities of the   *)
(* current scene, whatever the scenes before it left behind: ids repeat    *)
(* between scenes, and no request or entity is carried over.  A script that*)
(* moves an entity of an earlier scene may spoil where the index lists     *)
(* those of this one, but each that lives is still in one bucket.          *)
CurrentIndexInv ==
  /\ ~tainted => IndexInv
  /\ ListedOnce /\ LiveAreListed
  /\ stale \intersect constructed = {}

(* A script that kept a handle to an entity of an earlier scene finds it   *)
(* dead, and no search of the new scene returns it.                        *)
StaleIsDead == \A e \in stale : ~alive[e] /\ \A b \in Bucket : e \notin entities[b]

(* A request that has not been loaded is still there to be loaded          *)
(* ("process scene load request").                                         *)
RequestNotLost == pending => nextScene # NoScene

(* Once a scene is loaded, the functions that run are those it was         *)
(* requested with.                                                         *)
FunctionsOfScene == phase # "reading" => functions = scene

(* A request is served, by this scene or one that was requested after it.  *)
RequestServed == pending ~> ~pending

===============================================================================
