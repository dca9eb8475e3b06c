------------------------------ MODULE ETHPhysics -------------------------------
(***************************************************************************)
(* The physics simulator of a scene: bodies, contacts and joints of the    *)
(* Box2D world, and the callbacks scripts receive of them                  *)
(* (ETHPhysicsSimulator.cpp, ETHContactListener.cpp,                       *)
(* ETHPhysicsEntityController.cpp, ETHDestructionListener.cpp).            *)
(*                                                                         *)
(* In a step the world is locked and updates its contacts one by one:      *)
(* begin and pre-solve callbacks run at once, in the locked world, and     *)
(* end callbacks are stacked with references to both entities, to be run   *)
(* after the step.  A body is destroyed by whatever kills its entity, and  *)
(* that too may end contacts, between two steps or while the stack runs.   *)
(*                                                                         *)
(* An entity here has a body from the start; two bodies have at most one   *)
(* contact.  What Box2D computes is chosen freely.                         *)
(***************************************************************************)
EXTENDS Integers, Sequences, FiniteSets, SequencesExt

CONSTANTS
  Entity,         \* the entities with a body
  BeginCallback,  \* those whose scripts have ETHBeginContactCallback_
  PreSolveCallback,
  EndCallback,
  Sensor,         \* those whose fixtures are sensors
  JointDefinition,\* pairs of the owner of a joint and the other entity
  NoContact,
  MaxStacked,     \* bound: contacts that end in one step
  Calls           \* what the scripts of this instance do beyond the usual calls

Pair == {c \in Entity \X Entity : c[1] # c[2]}

ASSUME CallbacksAssumption ==
  /\ BeginCallback \subseteq Entity
  /\ PreSolveCallback \subseteq Entity
  /\ EndCallback \subseteq Entity
  /\ Sensor \subseteq Entity
ASSUME JointsAssumption == JointDefinition \subseteq Pair
ASSUME NoContactAssumption == NoContact \notin Pair
ASSUME MaxStackedAssumption == MaxStacked \in Nat
ASSUME PhysicsCallsAssumption == Calls \subseteq {"DeleteInStep", "DisableElsewhere"}

VARIABLES
  phase,     \* "idle" between two steps, "step" in the locked world, "stack"
             \* while end callbacks run, "destroying" and "gone" at the end
  listed,    \* the entities the buckets of the scene hold
  handles,   \* those scripts hold
  ref,       \* the reference counters
  body,      \* the entities whose controller has its m_body
  world,     \* those whose body is in the world, as its user data
  touching,  \* the contacts that touch
  disabled,  \* those disabled until they are updated again
  disableNextContact,
  stacked,   \* m_stackedEndContactCallbacks: contacts that ended
  kind,      \* the kind of callback that is being reported,
  contact,   \* the contact it is reported for,
  side,      \* and the side it is reported to; 3 when both have been told
  scripting, \* that callback runs
  joints,    \* the joints of the world
  held,      \* those the controller of the owner points to
  asked,     \* history: contacts whose callback asked to disable them
  open       \* history, for entities with both callbacks: begin callbacks
             \* run less end callbacks run, by entity and other

report == <<kind, contact, side>>
bodyVars == <<body, world, touching, stacked>>
history == <<asked, open>>
vars == <<phase, listed, handles, ref, bodyVars, disabled, disableNextContact,
          report, scripting, joints, held, history>>

Kinds == {"none", "begin", "preSolve", "end"}

Listens(k) ==
  CASE k = "begin" -> BeginCallback
    [] k = "preSolve" -> PreSolveCallback
    [] k = "end" -> EndCallback
    [] OTHER -> {}

Both == BeginCallback \intersect EndCallback
Ends(c) == {c[1], c[2]}
One(S) == [e \in Entity |-> IF e \in S THEN 1 ELSE 0]
Plus(f, g) == [e \in Entity |-> f[e] + g[e]]
Minus(f, g) == [e \in Entity |-> f[e] - g[e]]

PhysicsInit ==
  /\ phase = "idle"
  /\ listed = {} /\ handles = {}
  /\ ref = [e \in Entity |-> 0]
  /\ body = {} /\ world = {} /\ touching = {} /\ disabled = {}
  /\ disableNextContact = FALSE
  /\ stacked = <<>>
  /\ kind = "none" /\ contact = NoContact /\ side = 1
  /\ scripting = FALSE
  /\ joints = {} /\ held = {}
  /\ asked = {}
  /\ open = [p \in Pair |-> 0]

-------------------------------------------------------------------------------
(* Destroying a body                                                       *)

ContactsOf(e) == {c \in touching : e \in Ends(c)}

(* GetContactData: an end is reported if either side has a callback.       *)
HasListener_Both(c) == Ends(c) \subseteq EndCallback  \* faulty variant
HasListener(c) == Ends(c) \intersect EndCallback # {}

(* EndContact for each contact of S: both entities are held by the stack.  *)
HeldByEnds_First(S) ==  \* faulty variant: the second is not counted
  [e \in Entity |-> Cardinality({c \in S : c[1] = e})]
HeldByEnds(S) == [e \in Entity |-> Cardinality({c \in S : e \in Ends(c)})]
EndContacts(S) ==
  /\ touching' = touching \ S
  /\ disabled' = disabled \ S
  /\ asked' = asked \ S
  /\ \E ends \in SetToSeqs({c \in S : HasListener(c)}) : stacked' = stacked \o ends

(* SayGoodbye has the owner forget the joints that go with the body.       *)
JointsOf(e) == {j \in joints : e \in Ends(j)}
SayGoodbye_OwnJointsOnly(e) ==  \* faulty variant
  held' = {j \in held : j[1] # e}
SayGoodbye(e) == held' = held \ JointsOf(e)

(* b2World::DestroyBody: the contacts and the joints of a body go with it. *)
DestroyAttached(e) ==
  /\ EndContacts(ContactsOf(e))
  /\ joints' = joints \ JointsOf(e)
  /\ SayGoodbye(e)

(* ETHPhysicsEntityController::Destroy.  The body's reference goes first,  *)
(* then the body goes from the world.                                      *)
(* A locked world asserts, and in a release build returns at once.         *)
Destroy(e) ==
  /\ body' = body \ {e}
  /\ IF phase # "step"
       THEN world' = world \ {e} /\ DestroyAttached(e)
       ELSE /\ held' = {j \in held : j[1] # e}
            /\ UNCHANGED <<world, touching, disabled, asked, stacked, joints>>

ReferencesOfDestroy(e) ==
  IF phase # "step"
    THEN Minus(HeldByEnds({c \in ContactsOf(e) : HasListener(c)}), One({e}))
    ELSE Minus(One({}), One({e}))

-------------------------------------------------------------------------------
(* What scripts may call, between two steps or from a callback.            *)

CanCall == phase = "idle" \/ scripting

(* Faulty variant: the body holds the entity without a reference.          *)
AddEntity_NoReference(e) ==
  /\ CanCall /\ phase # "step"
  /\ e \notin world /\ e \notin listed /\ ref[e] = 0
  /\ listed' = listed \union {e}
  /\ body' = body \union {e}
  /\ world' = world \union {e}
  /\ ref' = [ref EXCEPT ![e] = 1]
  /\ open' = [p \in Pair |-> IF p[1] = e THEN 0 ELSE open[p]]
  /\ UNCHANGED <<phase, handles, touching, stacked, disabled, disableNextContact,
                 report, scripting, joints, held, asked>>

(* AddEntity, AssignControllerToEntity and CreateBody; a locked world      *)
(* would make no body.                                                     *)
AddEntity(e) ==
  /\ CanCall /\ phase # "step"
  /\ e \notin world /\ e \notin listed /\ ref[e] = 0
  /\ listed' = listed \union {e}
  /\ body' = body \union {e}
  /\ world' = world \union {e}
  /\ ref' = [ref EXCEPT ![e] = 2]
  /\ open' = [p \in Pair |-> IF p[1] = e THEN 0 ELSE open[p]]
  /\ UNCHANGED <<phase, handles, touching, stacked, disabled, disableNextContact,
                 report, scripting, joints, held, asked>>

(* A script stores a handle to an entity it found, and drops it again.     *)
TakeHandle(e) ==
  /\ CanCall
  /\ e \in listed \/ (scripting /\ e \in Ends(contact))
  /\ e \notin handles
  /\ handles' = handles \union {e}
  /\ ref' = Plus(ref, One({e}))
  /\ UNCHANGED <<phase, listed, bodyVars, disabled, disableNextContact, report,
                 scripting, joints, held, history>>

DropHandle(e) ==
  /\ CanCall
  /\ e \in handles
  /\ handles' = handles \ {e}
  /\ ref' = Minus(ref, One({e}))
  /\ UNCHANGED <<phase, listed, bodyVars, disabled, disableNextContact, report,
                 scripting, joints, held, history>>

(* DeleteEntity kills the entity; one that has moved in this frame stays   *)
(* in its bucket until the requests are resolved.                          *)
DeleteEntity(e) ==
  /\ CanCall
  /\ phase = "step" => "DeleteInStep" \in Calls
  /\ e \in body
  /\ Destroy(e)
  /\ \/ /\ listed' = listed \ {e}
        /\ ref' = Plus(ref, Minus(ReferencesOfDestroy(e), One({e})))
     \/ /\ listed' = listed
        /\ ref' = Plus(ref, ReferencesOfDestroy(e))
  /\ UNCHANGED <<phase, handles, disableNextContact, report, scripting, open>>

(* ResolveMoveRequests, or another call of DeleteEntity, discards the dead. *)
Discard(e) ==
  /\ CanCall
  /\ e \in listed \ body
  /\ listed' = listed \ {e}
  /\ ref' = Minus(ref, One({e}))
  /\ UNCHANGED <<phase, handles, bodyVars, disabled, disableNextContact, report,
                 scripting, joints, held, history>>

(* ETHPhysicsEntityController::Scale: the body is destroyed and made anew, *)
(* without its joints.                                                     *)
Scale(e) ==
  /\ CanCall /\ phase # "step"
  /\ e \in body
  /\ Len(stacked) < MaxStacked
  /\ DestroyAttached(e)
  /\ ref' = Plus(ref, Plus(ReferencesOfDestroy(e), One({e})))
  /\ UNCHANGED <<phase, listed, handles, body, world, disableNextContact, report,
                 scripting, open>>

(* b2World::CreateJoint.  A joint keeps its two bodies from colliding: a   *)
(* contact they have is not updated any more, it ends in the next step.    *)
CreateJoints(made) == joints' = joints \union made
Joined(c) == \E j \in joints : Ends(j) = Ends(c)

(* ResolveJoints: the joints a file defines for e, with what is around it. *)
ResolveJoints(e) ==
  /\ CanCall /\ phase # "step"
  /\ e \in body
  /\ LET made == {j \in JointDefinition : j[1] = e /\ j[2] \in body} IN
       /\ made \ joints # {}
       /\ CreateJoints(made)
       /\ held' = held \union made
  /\ UNCHANGED <<phase, listed, handles, ref, bodyVars, disabled,
                 disableNextContact, report, scripting, history>>

(* DisableContact says that it must be called in a pre-solve callback, and *)
(* has its effect wherever it is called.                                   *)
DisableContact ==
  /\ CanCall
  /\ kind = "preSolve" \/ "DisableElsewhere" \in Calls
  /\ disableNextContact' = TRUE
  /\ asked' = IF kind = "preSolve" THEN asked \union {contact} ELSE asked
  /\ UNCHANGED <<phase, listed, handles, ref, bodyVars, disabled, report,
                 scripting, joints, held, open>>

Script ==
  \/ \E e \in Entity :
       \/ AddEntity(e)
       \/ TakeHandle(e)
       \/ DropHandle(e)
       \/ DeleteEntity(e)
       \/ Scale(e)
       \/ ResolveJoints(e)
  \/ DisableContact

-------------------------------------------------------------------------------
(* The step: b2World::Step updates the contacts, some more than once.      *)

Reports(k, c) == kind' = k /\ contact' = c /\ side' = 1

StepBegins ==
  /\ phase = "idle"
  /\ phase' = "step"
  /\ UNCHANGED <<listed, handles, ref, bodyVars, disabled, disableNextContact,
                 report, scripting, joints, held, history>>

CanUpdate(c) ==
  /\ phase = "step"
  /\ kind = "none"
  /\ Ends(c) \subseteq world

(* AddPair: two bodies have one contact, and none while they are joined.   *)
CanTouch(c) ==
  /\ touching \intersect {c, <<c[2], c[1]>>} = {}
  /\ ~Joined(c)

(* b2Contact::Update re-enables the contact and reports that it begins.    *)
BeginContact(c) ==
  /\ CanUpdate(c)
  /\ CanTouch(c)
  /\ touching' = touching \union {c}
  /\ Reports("begin", c)
  /\ UNCHANGED <<phase, listed, handles, ref, body, world, stacked, disabled,
                 disableNextContact, scripting, joints, held, history>>

(* ... or that it persists, which only its pre-solve callbacks hear of.    *)
PersistContact(c) ==
  /\ CanUpdate(c)
  /\ c \in touching
  /\ ~Joined(c)
  /\ Ends(c) \intersect Sensor = {}
  /\ Reports("preSolve", c)
  /\ disabled' = disabled \ {c}
  /\ asked' = asked \ {c}
  /\ UNCHANGED <<phase, listed, handles, ref, bodyVars, disableNextContact,
                 scripting, joints, held, open>>

EndContact(c) ==
  /\ CanUpdate(c)
  /\ c \in touching
  /\ Len(stacked) < MaxStacked
  /\ EndContacts({c})
  /\ ref' = Plus(ref, HeldByEnds({d \in {c} : HasListener(d)}))
  /\ UNCHANGED <<phase, listed, handles, body, world, disableNextContact, report,
                 scripting, joints, held, open>>

-------------------------------------------------------------------------------
(* RunContactCallback for one side after the other.                        *)

Told == <<contact[side], contact[3 - side]>>

(* The end callback is run only if the entity still has a body; the others *)
(* take the body for granted.                                              *)
IsRun_Unchecked == contact[side] \in Listens(kind)  \* faulty variant
IsRun ==
  /\ contact[side] \in Listens(kind)
  /\ kind = "end" => contact[side] \in body

CallbackRuns ==
  /\ kind # "none" /\ side \in {1, 2} /\ ~scripting
  /\ IsRun
  /\ scripting' = TRUE
  /\ open' = IF contact[side] \notin Both
               THEN open
               ELSE CASE kind = "begin" -> [open EXCEPT ![Told] = @ + 1]
                      [] kind = "end" -> [open EXCEPT ![Told] = @ - 1]
                      [] OTHER -> open
  /\ UNCHANGED <<phase, listed, handles, ref, bodyVars, disabled,
                 disableNextContact, report, joints, held, asked>>

CallbackReturns ==
  /\ kind # "none" /\ scripting
  /\ scripting' = FALSE
  /\ side' = side + 1
  /\ UNCHANGED <<phase, listed, handles, ref, bodyVars, disabled,
                 disableNextContact, kind, contact, joints, held, history>>

CallbackSkipped ==
  /\ kind # "none" /\ side \in {1, 2} /\ ~scripting
  /\ ~IsRun
  /\ side' = side + 1
  /\ UNCHANGED <<phase, listed, handles, ref, bodyVars, disabled,
                 disableNextContact, kind, contact, scripting, joints, held, history>>

(* After the begin callbacks, sensors excepted, the pre-solve callbacks.   *)
BeginReported ==
  /\ kind = "begin" /\ side = 3
  /\ IF Ends(contact) \intersect Sensor = {}
       THEN Reports("preSolve", contact)
       ELSE Reports("none", NoContact)
  /\ UNCHANGED <<phase, listed, handles, ref, bodyVars, disabled,
                 disableNextContact, scripting, joints, held, history>>

(* "disable the contact if the Disable[Next]Contact has been called in the *)
(* contact callback script code"                                           *)
PreSolveReported_KeepsFlag ==  \* faulty variant: it disables all that follow
  /\ kind = "preSolve" /\ side = 3
  /\ disabled' = IF disableNextContact THEN disabled \union {contact} ELSE disabled
  /\ Reports("none", NoContact)
  /\ UNCHANGED <<phase, listed, handles, ref, bodyVars, disableNextContact,
                 scripting, joints, held, history>>
PreSolveReported ==
  /\ kind = "preSolve" /\ side = 3
  /\ disabled' = IF disableNextContact THEN disabled \union {contact} ELSE disabled
  /\ disableNextContact' = FALSE
  /\ Reports("none", NoContact)
  /\ UNCHANGED <<phase, listed, handles, ref, bodyVars, scripting, joints, held,
                 history>>

StepEnds ==
  /\ phase = "step"
  /\ kind = "none"
  /\ phase' = "stack"
  /\ UNCHANGED <<listed, handles, ref, bodyVars, disabled, disableNextContact,
                 report, scripting, joints, held, history>>

-------------------------------------------------------------------------------
(* RunAndClearStackedEndContactCallbacks.  What ends meanwhile is pushed   *)
(* to the list that is being iterated, and runs too.                       *)

NextEnd ==
  /\ phase = "stack"
  /\ kind = "none"
  /\ stacked # <<>>
  /\ Reports("end", Head(stacked))
  /\ UNCHANGED <<phase, listed, handles, ref, bodyVars, disabled,
                 disableNextContact, scripting, joints, held, history>>

(* Both entities are released.  (The code clears the list at the end; no   *)
(* one reads it before.)                                                   *)
EndReported ==
  /\ kind = "end" /\ side = 3
  /\ stacked' = Tail(stacked)
  /\ ref' = Minus(ref, One(Ends(contact)))
  /\ Reports("none", NoContact)
  /\ UNCHANGED <<phase, listed, handles, body, world, touching, disabled,
                 disableNextContact, scripting, joints, held, history>>

StackIsClear_Early ==  \* faulty variant: what is left waits for another step
  /\ phase = "stack"
  /\ kind = "none"
  /\ phase' = "idle"
  /\ UNCHANGED <<listed, handles, ref, bodyVars, disabled, disableNextContact,
                 report, scripting, joints, held, history>>
StackIsClear ==
  /\ phase = "stack"
  /\ kind = "none"
  /\ stacked = <<>>
  /\ phase' = "idle"
  /\ UNCHANGED <<listed, handles, ref, bodyVars, disabled, disableNextContact,
                 report, scripting, joints, held, history>>

-------------------------------------------------------------------------------
(* The scene is destroyed: first the simulator, which takes its listeners  *)
(* from the world and clears the stack, then the buckets, whose entities   *)
(* are killed.  Controllers keep the world until they are gone.            *)

StackedOf(e) == {p \in (1 .. Len(stacked)) \X {1, 2} : stacked[p[1]][p[2]] = e}

DestroySimulator_KeepsStacked ==  \* faulty variant
  /\ phase = "idle"
  /\ phase' = "destroying"
  /\ stacked' = <<>>
  /\ UNCHANGED <<listed, handles, ref, body, world, touching, disabled,
                 disableNextContact, report, scripting, joints, held, history>>
DestroySimulator ==
  /\ phase = "idle"
  /\ phase' = "destroying"
  /\ stacked' = <<>>
  /\ ref' = [e \in Entity |-> ref[e] - Cardinality(StackedOf(e))]
  /\ UNCHANGED <<listed, handles, body, world, touching, disabled,
                 disableNextContact, report, scripting, joints, held, history>>

(* No listener hears of the contacts and joints that go with the body.     *)
KillListed ==
  /\ phase = "destroying"
  /\ \E e \in listed :
       /\ listed' = listed \ {e}
       /\ body' = body \ {e}
       /\ world' = world \ {e}
       /\ touching' = touching \ ContactsOf(e)
       /\ joints' = joints \ JointsOf(e)
       /\ held' = {j \in held : j[1] # e}
       /\ ref' = Minus(Minus(ref, One({e})), One({e} \intersect body))
  /\ UNCHANGED <<phase, handles, stacked, disabled, disableNextContact, report,
                 scripting, history>>

SceneIsGone ==
  /\ phase = "destroying"
  /\ listed = {}
  /\ phase' = "gone"
  /\ UNCHANGED <<listed, handles, ref, bodyVars, disabled, disableNextContact,
                 report, scripting, joints, held, history>>

Terminated == phase = "gone" /\ UNCHANGED vars

-------------------------------------------------------------------------------

(* Steps of the engine that come when it is their turn.                    *)
Engine ==
  \/ StepBegins
  \/ CallbackRuns
  \/ CallbackReturns
  \/ CallbackSkipped
  \/ BeginReported
  \/ PreSolveReported
  \/ StepEnds
  \/ NextEnd
  \/ EndReported
  \/ StackIsClear
  \/ KillListed
  \/ SceneIsGone

PhysicsNext ==
  \/ Script
  \/ Engine
  \/ \E e \in Entity : Discard(e)
  \/ \E c \in Pair : BeginContact(c) \/ PersistContact(c) \/ EndContact(c)
  \/ DestroySimulator
  \/ Terminated

PhysicsSafety == PhysicsInit /\ [][PhysicsNext]_vars

(* The main loop keeps stepping the world, every callback returns, and a   *)
(* step updates finitely many contacts.                                    *)
PhysicsSpec == PhysicsSafety /\ WF_vars(Engine) /\ SF_vars(StepEnds)

-------------------------------------------------------------------------------

PhysicsTypeOK ==
  /\ phase \in {"idle", "step", "stack", "destroying", "gone"}
  /\ listed \in SUBSET Entity
  /\ handles \in SUBSET Entity
  /\ ref \in [Entity -> Nat]
  /\ body \in SUBSET Entity
  /\ world \in SUBSET Entity
  /\ touching \in SUBSET Pair
  /\ disabled \in SUBSET Pair
  /\ disableNextContact \in BOOLEAN
  /\ stacked \in Seq(Pair)
  /\ kind \in Kinds
  /\ contact \in Pair \union {NoContact}
  /\ kind # "none" => contact \in Pair
  /\ side \in 1 .. 3
  /\ scripting \in BOOLEAN
  /\ joints \in SUBSET Pair
  /\ held \in SUBSET Pair
  /\ asked \in SUBSET Pair
  /\ open \in [Pair -> Nat]

(* Every reference to an entity is held by its bucket, its body, a script  *)
(* or a contact that waits in the stack.                                   *)
RefExact ==
  \A e \in Entity :
    ref[e] = One(listed)[e] + One(body)[e] + One(handles)[e]
               + Cardinality(StackedOf(e))

(* The world has the bodies of the controllers and touches no others; and  *)
(* an entity with a body is held by more than its body, which Destroy      *)
(* relies on: it releases the entity before the world uses it once more.   *)
WorldIsSound ==
  /\ world = body
  /\ \A c \in touching : Ends(c) \subseteq world
  /\ \A e \in body : ref[e] > 1

(* No callback runs for an entity without a body (RunContactCallback takes *)
(* the entity from the body).                                              *)
CallbackHasBody ==
  [][kind # "none" /\ ~scripting /\ scripting' => contact[side] \in body]_vars

(* A contact is disabled if and only if a callback of its own asked for it *)
(* since it was last updated; the flag reaches no other contact.           *)
DisabledAsAsked == kind = "none" => disabled = asked

(* The begin callbacks of an entity are matched by its end callbacks, one  *)
(* for one: for each that has no match the bodies touch, or an end is      *)
(* stacked.                                                                *)
Touches(p) == {p, <<p[2], p[1]>>} \intersect touching # {}
EndsStacked(p) == {i \in 1 .. Len(stacked) : Ends(stacked[i]) = Ends(p)}
IsReported(k, p) == kind = k /\ Ends(contact) = Ends(p)
IsTold(e) == \A k \in side .. 2 : contact[k] = e => k = side /\ scripting
Number(b) == IF b THEN 1 ELSE 0
CallbacksMatch ==
  phase \in {"idle", "step", "stack"} =>
    \A p \in Pair :
      p[1] \in Both \intersect body =>
        open[p] + Number(IsReported("begin", p) /\ ~IsTold(p[1]))
          = Number(Touches(p)) + Cardinality(EndsStacked(p))
              - Number(IsReported("end", p) /\ IsTold(p[1]))

(* A controller points to the joints its entity owns in the world and to   *)
(* no joint that is gone, whichever of the two bodies went first.          *)
JointsInSync ==
  phase \in {"idle", "step", "stack"} =>
    held = joints /\ \A j \in joints : Ends(j) \subseteq world

(* A scene that is gone leaves only what scripts hold.                     *)
NothingOutlivesScene ==
  phase = "gone" => body = {} /\ world = {} /\ held = {} /\ ref = One(handles)

(* Every contact that ended is reported and released.                      *)
EndsAreServed == stacked # <<>> ~> stacked = <<>>

(* b2Assert(IsLocked() == false) in b2World::DestroyBody: no body is       *)
(* destroyed during a step.                                                *)
DestroyedUnlocked ==
  [][\A e \in body : e \notin body' => phase # "step"]_vars

===============================================================================
