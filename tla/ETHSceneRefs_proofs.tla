-------------------------- MODULE ETHSceneRefs_proofs --------------------------
(***************************************************************************)
(* The reference counts of ETHScene are exact, for every set of entities,  *)
(* buckets and positions and every choice of what scripts call.            *)
(***************************************************************************)
EXTENDS ETHScene_proofs, FiniteSetTheorems

(* The holders of an entity, as 0 or 1 where a place holds it at most once *)
(* (a bucket, because an entity is listed once; the list of the active     *)
(* ones, because it repeats none).                                         *)
ListedSet == {e \in Entity : IsListed(e)}
Active == {dynamicOrTempEntities[i] : i \in 1 .. Len(dynamicOrTempEntities)}
ActiveOnce ==
  \A i, j \in 1 .. Len(dynamicOrTempEntities) :
    dynamicOrTempEntities[i] = dynamicOrTempEntities[j] => i = j

Held(e) ==
  One(ListedSet)[e] + RequestsOf(e) + One(Active)[e] + lastFrameCallbacks[e]
  + piecesToRender[e] + persistentEntities[e] + leaked[e]
  + One(bodies)[e] + One(handles)[e] + One(thisEntity)[e]
RefHeld == \A e \in Entity : ref[e] = Held(e)

CountsOK ==
  /\ dynamicOrTempEntities \in Seq(Entity)
  /\ lastFrameCallbacks \in [Entity -> Int]
  /\ piecesToRender \in [Entity -> Int]
  /\ persistentEntities \in [Entity -> Int]
  /\ leaked \in [Entity -> Int]
  /\ ref \in [Entity -> Int]

-------------------------------------------------------------------------------
(* Counting                                                                *)

LEMMA CardinalityOfOne ==
  ASSUME NEW S, NEW x, S \subseteq {x}
  PROVE  Cardinality(S) = IF x \in S THEN 1 ELSE 0
<1>1. CASE x \in S
  <2>1. S = {x}
    BY <1>1
  <2>2. QED
    BY <2>1, FS_Singleton
<1>2. CASE x \notin S
  <2>1. S = {}
    BY <1>2
  <2>2. QED
    BY <1>2, <2>1, FS_EmptySet
<1>3. QED
  BY <1>1, <1>2

LEMMA OneType ==
  ASSUME NEW S, NEW x \in Entity
  PROVE  One(S)[x] \in {0, 1} /\ None[x] = 0 /\ One({})[x] = 0
BY DEF One, None

LEMMA OneUnion ==
  ASSUME NEW S, NEW T, NEW x \in Entity, S \intersect T = {}
  PROVE  One(S \union T)[x] = One(S)[x] + One(T)[x]
BY DEF One

LEMMA OneWithout ==
  ASSUME NEW S, NEW T, NEW x \in Entity
  PROVE  One(S \ T)[x] = One(S)[x] - One(S \intersect T)[x]
BY DEF One

LEMMA PlusMinus ==
  ASSUME NEW f, NEW g, NEW x \in Entity
  PROVE  Plus(f, g)[x] = f[x] + g[x] /\ Minus(f, g)[x] = f[x] - g[x]
BY DEF Plus, Minus

(* A count that grows by the members of a set is a count.                  *)
LEMMA CountGrows ==
  ASSUME NEW f \in [Entity -> Int], NEW S
  PROVE  Plus(f, One(S)) \in [Entity -> Int]
<1> DEFINE sum(x) == f[x] + One(S)[x]
<1>1. ASSUME NEW x \in Entity PROVE sum(x) \in Int
  <2>1. f[x] \in Int
    OBVIOUS
  <2>2. One(S)[x] \in Int
    BY DEF One
  <2>3. QED
    BY ONLY <2>1, <2>2
<1>2. Plus(f, One(S)) = [x \in Entity |-> sum(x)]
  BY DEF Plus
<1> HIDE DEF sum
<1>3. QED
  BY ONLY <1>1, <1>2

LEMMA RequestsType ==
  ASSUME TypeOK, NEW e PROVE RequestsOf(e) \in Nat
<1>1. Len(moveRequests) \in Nat
  BY DEF TypeOK
<1>2. IsFiniteSet(1 .. Len(moveRequests))
  BY <1>1, FS_Interval
<1>3. IsFiniteSet({i \in 1 .. Len(moveRequests) : moveRequests[i].entity = e})
  <2>1. {i \in 1 .. Len(moveRequests) : moveRequests[i].entity = e}
          \in SUBSET (1 .. Len(moveRequests))
    OBVIOUS
  <2>2. QED
    BY ONLY <1>2, <2>1, FS_Subset
<1>4. QED
  BY <1>3, FS_CardinalityType DEF RequestsOf

LEMMA RequestsAppended ==
  ASSUME TypeOK, NEW r \in MoveRequest, moveRequests' = Append(moveRequests, r),
         NEW e
  PROVE  RequestsOf(e)' = RequestsOf(e) + (IF e = r.entity THEN 1 ELSE 0)
<1> DEFINE n == Len(moveRequests)
<1> DEFINE S == {i \in 1 .. n : moveRequests[i].entity = e}
<1> DEFINE T == {i \in 1 .. Len(moveRequests') : moveRequests'[i].entity = e}
<1>1. /\ n \in Nat
      /\ Len(moveRequests') = n + 1
      /\ \A i \in 1 .. n : moveRequests'[i] = moveRequests[i]
      /\ moveRequests'[n + 1] = r
  BY DEF TypeOK
<1>2. IsFiniteSet(S)
  <2>1. IsFiniteSet(1 .. n) /\ S \in SUBSET (1 .. n)
    BY <1>1, FS_Interval
  <2>2. QED
    BY <2>1, FS_Subset
<1>3. CASE e = r.entity
  <2>1. T = S \union {n + 1} /\ n + 1 \notin S
    BY <1>1, <1>3
  <2>2. Cardinality(T) = Cardinality(S) + 1
    BY <1>2, <2>1, FS_AddElement
  <2>3. QED
    BY <1>3, <2>2 DEF RequestsOf
<1>4. CASE e # r.entity
  <2>1. T = S
    BY <1>1, <1>4
  <2>2. RequestsOf(e) \in Nat
    BY RequestsType
  <2>3. RequestsOf(e)' = RequestsOf(e)
    BY <2>1 DEF RequestsOf
  <2>4. QED
    BY <1>4, <2>2, <2>3
<1>5. QED
  BY <1>3, <1>4

LEMMA RequestsCleared ==
  ASSUME moveRequests' = <<>>, NEW e PROVE RequestsOf(e)' = 0
<1>1. {i \in 1 .. Len(moveRequests') : moveRequests'[i].entity = e} = {}
  OBVIOUS
<1>2. QED
  BY <1>1, FS_EmptySet DEF RequestsOf

(* A call of SetPosition makes a request for its entity or none.           *)
LEMMA SetPositionRequests ==
  ASSUME TypeOK, NEW e \in Entity, NEW p \in Position, SetPosition(e, p),
         NEW f \in Entity
  PROVE  RequestsOf(f)' = RequestsOf(f) +
           (IF moveRequests' = moveRequests THEN 0 ELSE One({e})[f])
<1> DEFINE r == [entity |-> e, oldBucket |-> GetBucket(position[e]),
                 newBucket |-> GetBucket(p)]
<1>1. RequestsOf(f) \in Nat
  BY RequestsType
<1>2. CASE moveRequests' = moveRequests
  BY <1>1, <1>2 DEF RequestsOf
<1>3. CASE moveRequests' # moveRequests
  <2>1. r \in MoveRequest
    BY BucketOfPosition DEF TypeOK, MoveRequest
  <2>2. moveRequests' = Append(moveRequests, r)
    BY <1>3 DEF SetPosition, RequestBucketMove
  <2>3. RequestsOf(f)' = RequestsOf(f) + (IF f = e THEN 1 ELSE 0)
    BY <2>1, <2>2, RequestsAppended
  <2>4. QED
    BY <1>3, <2>3 DEF One
<1>4. QED
  BY <1>2, <1>3

LEMMA ActiveCounted ==
  ASSUME ActiveOnce, NEW e \in Entity
  PROVE  ActiveCount(e) = One(Active)[e]
<1>1. CASE e \in Active
  <2>1. PICK i \in 1 .. Len(dynamicOrTempEntities) : dynamicOrTempEntities[i] = e
    BY <1>1 DEF Active
  <2>2. {j \in 1 .. Len(dynamicOrTempEntities) : dynamicOrTempEntities[j] = e}
          \subseteq {i}
    BY <2>1 DEF ActiveOnce
  <2>3. Cardinality({j \in 1 .. Len(dynamicOrTempEntities) :
                       dynamicOrTempEntities[j] = e}) = 1
    <3> DEFINE S == {j \in 1 .. Len(dynamicOrTempEntities) :
                       dynamicOrTempEntities[j] = e}
    <3>1. S \subseteq {i} /\ i \in S
      BY <2>1, <2>2
    <3> HIDE DEF S
    <3>2. Cardinality(S) = 1
      BY <3>1, CardinalityOfOne
    <3>3. QED
      BY <3>2 DEF S
  <2>4. QED
    BY <1>1, <2>3 DEF ActiveCount, One
<1>2. CASE e \notin Active
  <2>1. {j \in 1 .. Len(dynamicOrTempEntities) : dynamicOrTempEntities[j] = e} = {}
    BY <1>2 DEF Active
  <2>2. QED
    BY <1>2, <2>1, FS_EmptySet DEF ActiveCount, One
<1>3. QED
  BY <1>1, <1>2

LEMMA HoldersHeld ==
  ASSUME IndexInv, CountsOK, ActiveOnce, NEW e \in Entity
  PROVE  Holders(e) = Held(e)
<1>1. Listed(e) = One(ListedSet)[e]
  <2>1. CASE IsListed(e)
    <3>1. PICK b \in Bucket : e \in entities[b]
      BY <2>1 DEF IsListed
    <3>2. {c \in Bucket : e \in entities[c]} \subseteq {b}
      BY <3>1 DEF IndexInv, ListedOnce
    <3>3. Cardinality({c \in Bucket : e \in entities[c]}) = 1
      <4> DEFINE S == {c \in Bucket : e \in entities[c]}
      <4>1. S \subseteq {b} /\ b \in S
        BY <3>1, <3>2
      <4> HIDE DEF S
      <4>2. Cardinality(S) = 1
        BY <4>1, CardinalityOfOne
      <4>3. QED
        BY <4>2 DEF S
    <3>4. QED
      BY <2>1, <3>3 DEF Listed, One, ListedSet
  <2>2. CASE ~IsListed(e)
    <3>1. {c \in Bucket : e \in entities[c]} = {}
      BY <2>2 DEF IsListed
    <3>2. QED
      BY <2>2, <3>1, FS_EmptySet DEF Listed, One, ListedSet
  <2>3. QED
    BY <2>1, <2>2
<1>2. ActiveCount(e) = One(Active)[e]
  BY ActiveCounted
<1>3. \A S : Cardinality({e} \intersect S) = One(S)[e]
  <2> SUFFICES ASSUME NEW S PROVE Cardinality({e} \intersect S) = One(S)[e]
    OBVIOUS
  <2>1. {e} \intersect S \subseteq {e}
    OBVIOUS
  <2>2. Cardinality({e} \intersect S) = IF e \in {e} \intersect S THEN 1 ELSE 0
    BY <2>1, CardinalityOfOne
  <2>3. QED
    BY <2>2 DEF One
<1>4. QED
  BY <1>1, <1>2, <1>3 DEF Holders, Held

-------------------------------------------------------------------------------
(* The inductive invariant: what the places that hold entities hold are    *)
(* entities that exist, a body is that of a live one, and only the two     *)
(* loops over entities run the callback of one.                            *)
PlacesOK ==
  /\ ActiveOnce
  /\ Active \subseteq constructed
  /\ bodies \subseteq {e \in constructed : alive[e]}
  /\ handles \subseteq constructed
  /\ thisEntity \subseteq constructed
  /\ \A e \in Entity : lastFrameCallbacks[e] > 0 => e \in constructed
  /\ thisEntity # {} => scripting /\ phase \in {"alwaysActive", "frameEntities"}

RefInv == CountsOK /\ PlacesOK /\ RefHeld

LEMMA RequestsUnchanged ==
  ASSUME moveRequests' = moveRequests
  PROVE  \A e \in Entity : RequestsOf(e)' = RequestsOf(e)
BY DEF RequestsOf

LEMMA ListedUnchanged ==
  ASSUME entities' = entities PROVE ListedSet' = ListedSet
BY DEF ListedSet, IsListed

LEMMA ActiveUnchanged ==
  ASSUME dynamicOrTempEntities' = dynamicOrTempEntities
  PROVE  Active' = Active /\ (ActiveOnce <=> ActiveOnce')
BY DEF Active, ActiveOnce

(* What Erased counts, when the buckets only lose entities.                *)
LEMMA ErasedListed ==
  ASSUME IndexInv, \A b \in Bucket : entities'[b] \subseteq entities[b],
         NEW x \in Entity
  PROVE  /\ Erased[x] \in {0, 1}
         /\ One(ListedSet)'[x] = One(ListedSet)[x] - Erased[x]
<1> DEFINE S == {b \in Bucket : x \in entities[b] \ entities'[b]}
<1>1. Erased[x] = Cardinality(S)
  BY DEF Erased
<1>2. CASE S = {}
  <2>1. Erased[x] = 0
    BY <1>1, <1>2, FS_EmptySet
  <2>2. IsListed(x)' <=> IsListed(x)
    BY <1>2 DEF IsListed
  <2>3. QED
    BY <2>1, <2>2 DEF One, ListedSet
<1>3. ASSUME NEW b \in S PROVE IsListed(x) /\ ~IsListed(x)' /\ Erased[x] = 1
  <2>1. S \subseteq {b} /\ b \in S
    BY <1>3 DEF IndexInv, ListedOnce
  <2> HIDE DEF S
  <2>2. Erased[x] = 1
    BY <1>1, <2>1, CardinalityOfOne
  <2>3. QED
    BY <1>3, <2>2 DEF IndexInv, ListedOnce, IsListed, S
<1>4. QED
  BY <1>2, <1>3 DEF One, ListedSet

(* The terms of the sum, and the sum.                                      *)
LEMMA HeldTerms ==
  ASSUME IndexInv, RefInv, NEW x \in Entity
  PROVE  /\ ref[x] = Held(x) /\ ref[x] \in Int
         /\ One(ListedSet)[x] \in Int /\ One(Active)[x] \in Int
         /\ One(bodies)[x] \in Int /\ One(handles)[x] \in Int
         /\ One(thisEntity)[x] \in Int /\ RequestsOf(x) \in Int
         /\ lastFrameCallbacks[x] \in Int /\ piecesToRender[x] \in Int
         /\ persistentEntities[x] \in Int /\ leaked[x] \in Int
<1>1. RequestsOf(x) \in Int
  BY RequestsType DEF IndexInv
<1>2. QED
  BY <1>1, OneType DEF RefInv, CountsOK, RefHeld

LEMMA AdoptRefInv ==
  ASSUME IndexInv, RefInv, NEW e \in Entity, NEW i, NEW p \in Position,
         AddEntity(e, i, p), NEW h \in SUBSET {e}, Adopt(e, h)
  PROVE  RefInv'
<1> DEFINE active == IF ShouldEntityBeAlwaysActive(e) THEN {e} ELSE {}
<1>1. AdoptIn(e, h, active)
  BY DEF Adopt
<1>2. /\ e \notin constructed /\ constructed' = constructed \union {e}
      /\ \A f \in constructed : alive'[f] = alive[f]
      /\ alive'[e]
      /\ TypeOK
      /\ moveRequests' = moveRequests
  BY DEF AddEntity, IndexInv, TypeOK
<1>3. ListedSet' = ListedSet \union {e} /\ e \notin ListedSet
  <2>1. entities' = [entities EXCEPT ![GetBucket(p)] = @ \union {e}]
    BY DEF AddEntity
  <2>2. QED
    BY <1>2, <2>1, BucketOfPosition
    DEF ListedSet, IsListed, IndexInv, EntitiesExist, TypeOK
<1>4. e \notin Active /\ e \notin bodies /\ e \notin handles
  BY <1>2 DEF RefInv, PlacesOK
<1>5. /\ dynamicOrTempEntities' \in Seq(Entity)
      /\ ActiveOnce'
      /\ Active' = Active \union active
  <2>1. CASE active = {}
    <3>1. dynamicOrTempEntities' = dynamicOrTempEntities
      BY <1>1, <2>1 DEF AdoptIn
    <3>2. QED
      BY <2>1, <3>1, ActiveUnchanged DEF RefInv, PlacesOK, CountsOK
  <2>2. CASE active = {e}
    <3>1. dynamicOrTempEntities' = Append(dynamicOrTempEntities, e)
      BY <1>1, <2>2 DEF AdoptIn
    <3> DEFINE n == Len(dynamicOrTempEntities)
    <3>2. /\ n \in Nat
          /\ Len(dynamicOrTempEntities') = n + 1
          /\ \A k \in 1 .. n : dynamicOrTempEntities'[k] = dynamicOrTempEntities[k]
          /\ dynamicOrTempEntities'[n + 1] = e
          /\ dynamicOrTempEntities' \in Seq(Entity)
      BY <3>1 DEF RefInv, CountsOK
    <3>3. Active' = Active \union {e}
      BY <3>2 DEF Active
    <3>4. ActiveOnce'
      BY <1>4, <3>2 DEF RefInv, PlacesOK, ActiveOnce, Active
    <3>5. QED
      BY <2>2, <3>2, <3>3, <3>4
  <2>3. QED
    BY <2>1, <2>2
<1>6. /\ bodies' = bodies \union ({e} \intersect Body)
      /\ handles' = handles \union h
      /\ ref' = Plus(ref, Plus(One({e}), Plus(One({e} \intersect Body),
                                              Plus(One(active), One(h)))))
      /\ UNCHANGED <<phase, scripting, thisEntity, lastFrameCallbacks,
                     piecesToRender, persistentEntities, leaked>>
  BY <1>1 DEF AdoptIn, scriptVars
<1>7. CountsOK'
  <2>1. ref' \in [Entity -> Int]
    <3>1. ref \in [Entity -> Int]
      BY DEF RefInv, CountsOK
    <3> DEFINE sum(x) == ref[x] + (One({e})[x] + (One({e} \intersect Body)[x]
                                            + (One(active)[x] + One(h)[x])))
    <3>2. ASSUME NEW x \in Entity PROVE sum(x) \in Int
      <4>1. ref[x] \in Int
        BY <3>1
      <4>2. /\ One({e})[x] \in Int /\ One({e} \intersect Body)[x] \in Int
            /\ One(active)[x] \in Int /\ One(h)[x] \in Int
        BY DEF One
      <4>3. QED
        BY ONLY <4>1, <4>2
    <3>3. ref' = [x \in Entity |-> sum(x)]
      BY <1>6 DEF Plus
    <3> HIDE DEF sum
    <3>4. QED
      BY ONLY <3>2, <3>3
  <2>2. QED
    BY <1>5, <1>6, <2>1 DEF RefInv, CountsOK
<1>8. PlacesOK'
  BY <1>2, <1>5, <1>6 DEF RefInv, PlacesOK
<1>9. RefHeld'
  <2> SUFFICES ASSUME NEW x \in Entity PROVE ref'[x] = Held(x)'
    BY DEF RefHeld
  <2>1. RequestsOf(x)' = RequestsOf(x)
    BY <1>2, RequestsUnchanged
  <2>2. /\ One(ListedSet)'[x] = One(ListedSet)[x] + One({e})[x]
        /\ One(Active)'[x] = One(Active)[x] + One(active)[x]
        /\ One(bodies)'[x] = One(bodies)[x] + One({e} \intersect Body)[x]
        /\ One(handles)'[x] = One(handles)[x] + One(h)[x]
    <3> HIDE DEF active
    <3>1. One(ListedSet')[x] = One(ListedSet)[x] + One({e})[x]
      BY <1>3, OneUnion
    <3>2. One(Active')[x] = One(Active)[x] + One(active)[x]
      <4>1. Active \intersect active = {}
        BY <1>4 DEF active
      <4>2. QED
        BY <1>5, <4>1, OneUnion
    <3>3. One(bodies')[x] = One(bodies)[x] + One({e} \intersect Body)[x]
      BY <1>4, <1>6, OneUnion
    <3>4. One(handles')[x] = One(handles)[x] + One(h)[x]
      BY <1>4, <1>6, OneUnion
    <3>5. QED
      BY <3>1, <3>2, <3>3, <3>4 DEF One
  <2>3. ref'[x] = ref[x] + (One({e})[x] + (One({e} \intersect Body)[x]
                                           + (One(active)[x] + One(h)[x])))
    <3> DEFINE f == Plus(One(active), One(h))
    <3> DEFINE g == Plus(One({e} \intersect Body), f)
    <3>1. f[x] = One(active)[x] + One(h)[x]
      BY PlusMinus
    <3>2. ref' = Plus(ref, Plus(One({e}), g))
      BY <1>6
    <3> HIDE DEF f
    <3>3. g[x] = One({e} \intersect Body)[x] + f[x]
      BY PlusMinus
    <3> HIDE DEF g
    <3>4. ref'[x] = ref[x] + Plus(One({e}), g)[x] /\ Plus(One({e}), g)[x] = One({e})[x] + g[x]
      BY <3>2, PlusMinus
    <3>5. QED
      BY ONLY <3>1, <3>3, <3>4
  <2>4. One({e})[x] \in Int /\ One({e} \intersect Body)[x] \in Int
        /\ One(active)[x] \in Int /\ One(h)[x] \in Int
    BY OneType
  <2>5. /\ One(thisEntity)'[x] = One(thisEntity)[x]
        /\ lastFrameCallbacks'[x] = lastFrameCallbacks[x]
        /\ piecesToRender'[x] = piecesToRender[x]
        /\ persistentEntities'[x] = persistentEntities[x]
        /\ leaked'[x] = leaked[x]
    BY <1>6
  <2>6. QED
    BY <2>1, <2>2, <2>3, <2>4, <2>5, HeldTerms DEF Held
<1>10. QED
  BY <1>7, <1>8, <1>9 DEF RefInv

(* A step that disturbs no holder.                                         *)
LEMMA QuietRefInv ==
  ASSUME IndexInv, RefInv,
         UNCHANGED <<entities, moveRequests, constructed, alive, listVars, bodies,
                     handles, leaked, ref>>,
         thisEntity' = thisEntity,
         thisEntity # {} => UNCHANGED <<phase, scripting>>
  PROVE  RefInv'
<1>1. UNCHANGED <<entities, moveRequests, constructed, alive, bodies, handles,
                  leaked, ref, dynamicOrTempEntities, lastFrameCallbacks,
                  piecesToRender, persistentEntities>>
  BY DEF listVars
<1>2. ListedSet' = ListedSet /\ Active' = Active /\ (ActiveOnce <=> ActiveOnce')
  BY <1>1, ListedUnchanged, ActiveUnchanged
<1>3. \A x \in Entity : RequestsOf(x)' = RequestsOf(x)
  BY <1>1, RequestsUnchanged
<1>4. RefHeld'
  BY <1>1, <1>2, <1>3 DEF RefInv, RefHeld, Held
<1>5. QED
  BY <1>1, <1>2, <1>4 DEF RefInv, CountsOK, PlacesOK

(* A step that moves an entity.                                            *)
LEMMA MovedRefInv ==
  ASSUME IndexInv, RefInv, NEW e \in Entity, NEW p \in Position, SetPosition(e, p),
         UNCHANGED <<listVars, bodies, handles, leaked, thisEntity, phase, scripting>>,
         ref' = IF moveRequests' = moveRequests THEN ref ELSE Plus(ref, One({e}))
  PROVE  RefInv'
<1>1. UNCHANGED <<entities, constructed, alive, dynamicOrTempEntities,
                  lastFrameCallbacks, piecesToRender, persistentEntities>>
  BY DEF SetPosition, listVars
<1>2. ListedSet' = ListedSet /\ Active' = Active /\ (ActiveOnce <=> ActiveOnce')
  BY <1>1, ListedUnchanged, ActiveUnchanged
<1>3. CountsOK'
  <2>1. ref' \in [Entity -> Int]
    <3>1. ref \in [Entity -> Int]
      BY DEF RefInv, CountsOK
    <3>2. QED
      BY <3>1, CountGrows
  <2>2. QED
    BY <1>1, <2>1 DEF RefInv, CountsOK, listVars
<1>4. ASSUME NEW x \in Entity PROVE ref'[x] = Held(x)'
  <2>1. RequestsOf(x)' = RequestsOf(x) +
          (IF moveRequests' = moveRequests THEN 0 ELSE One({e})[x])
    BY SetPositionRequests DEF IndexInv
  <2>2. ref'[x] = ref[x] +
          (IF moveRequests' = moveRequests THEN 0 ELSE One({e})[x])
    BY PlusMinus DEF RefInv, CountsOK
  <2>3. One({e})[x] \in Int
    BY OneType
  <2>4. QED
    BY <1>1, <1>2, <2>1, <2>2, <2>3, HeldTerms DEF Held
<1>5. QED
  BY <1>1, <1>2, <1>3, <1>4 DEF RefInv, PlacesOK, RefHeld

LEMMA ScriptForcesRenderingRefInv ==
  ASSUME IndexInv, RefInv, ScriptForcesRendering PROVE RefInv'
<1>1. PICK e \in Entity : /\ persistentEntities' = Plus(persistentEntities, One({e}))
                          /\ ref' = Plus(ref, One({e}))
  BY DEF ScriptForcesRendering, AddRef
<1>2. UNCHANGED <<entities, moveRequests, constructed, alive, bodies, handles, leaked,
                  thisEntity, phase, scripting, dynamicOrTempEntities,
                  lastFrameCallbacks, piecesToRender>>
  BY DEF ScriptForcesRendering, vars, sceneVars, scriptVars, entityVars
<1>3. ListedSet' = ListedSet /\ Active' = Active /\ (ActiveOnce <=> ActiveOnce')
  BY <1>2, ListedUnchanged, ActiveUnchanged
<1>4. CountsOK'
  BY <1>1, <1>2 DEF RefInv, CountsOK, Plus, One
<1>5. ASSUME NEW x \in Entity PROVE ref'[x] = Held(x)'
  BY <1>1, <1>2, <1>3, RequestsUnchanged, HeldTerms, PlusMinus, OneType DEF Held
<1>6. QED
  BY <1>2, <1>3, <1>4, <1>5 DEF RefInv, PlacesOK, RefHeld

(* A script variable takes or drops a handle.                              *)
LEMMA HandlesRefInv ==
  ASSUME IndexInv, RefInv, ScriptTakesHandle \/ ScriptDropsHandle PROVE RefInv'
<1>1. UNCHANGED <<entities, moveRequests, constructed, alive, bodies, leaked,
                  thisEntity, phase, scripting, dynamicOrTempEntities,
                  lastFrameCallbacks, piecesToRender, persistentEntities>>
  BY DEF ScriptTakesHandle, ScriptDropsHandle, vars, sceneVars, scriptVars, listVars
<1>2. ListedSet' = ListedSet /\ Active' = Active /\ (ActiveOnce <=> ActiveOnce')
  BY <1>1, ListedUnchanged, ActiveUnchanged
<1>3. PICK e \in Entity :
        \/ /\ e \notin handles /\ Reaches(e)
           /\ handles' = handles \union {e} /\ ref' = Plus(ref, One({e}))
        \/ /\ e \in handles
           /\ handles' = handles \ {e} /\ ref' = Minus(ref, One({e}))
  BY DEF ScriptTakesHandle, ScriptDropsHandle, AddRef, Release, RefInv, PlacesOK,
         IndexInv, TypeOK
<1>4. CountsOK'
  <2>1. CASE ref' = Plus(ref, One({e}))
    BY <1>1, <2>1 DEF RefInv, CountsOK, Plus, One
  <2>2. CASE ref' = Minus(ref, One({e}))
    BY <1>1, <2>2 DEF RefInv, CountsOK, Minus, One
  <2>3. QED
    BY <1>3, <2>1, <2>2 DEF RefInv, CountsOK
<1>5. ASSUME NEW x \in Entity PROVE ref'[x] = Held(x)'
  <2>1. ref'[x] - ref[x] = One(handles')[x] - One(handles)[x]
    <3>1. CASE handles' = handles \union {e} /\ e \notin handles
      <4>1. One(handles')[x] = One(handles)[x] + One({e})[x]
        BY <3>1, OneUnion
      <4>2. ref'[x] = ref[x] + One({e})[x]
        BY <1>3, <3>1, PlusMinus
      <4>3. QED
        BY <4>1, <4>2, HeldTerms, OneType
    <3>2. CASE handles' = handles \ {e} /\ e \in handles
      <4>1. One(handles')[x] = One(handles)[x] - One({e})[x]
        BY <3>2 DEF One
      <4>2. ref'[x] = ref[x] - One({e})[x]
        BY <1>3, <3>2, PlusMinus
      <4>3. QED
        BY <4>1, <4>2, HeldTerms, OneType
    <3>3. QED
      BY <1>3, <3>1, <3>2
  <2>2. RequestsOf(x)' = RequestsOf(x)
    BY <1>1, RequestsUnchanged
  <2>3. One(handles')[x] \in Int /\ One(handles)'[x] = One(handles')[x]
    BY OneType DEF One
  <2>4. ref'[x] \in Int
    BY <1>4 DEF CountsOK
  <2>5. Held(x)' = Held(x) + (One(handles')[x] - One(handles)[x])
    BY <1>1, <1>2, <2>2, <2>3, HeldTerms DEF Held
  <2>6. QED
    BY <2>1, <2>3, <2>4, <2>5, HeldTerms
<1>6. handles' \subseteq constructed
  BY <1>3 DEF Reaches, RefInv, PlacesOK, IndexInv, EntitiesExist, IsListed
<1>7. QED
  BY <1>1, <1>2, <1>4, <1>5, <1>6 DEF RefInv, PlacesOK, RefHeld

LEMMA ActiveRemovedAt ==
  ASSUME CountsOK, NEW i \in 1 .. Len(dynamicOrTempEntities),
         dynamicOrTempEntities' = RemoveAt(dynamicOrTempEntities, i)
  PROVE  /\ Len(dynamicOrTempEntities) \in Nat
         /\ dynamicOrTempEntities' \in Seq(Entity)
         /\ Len(dynamicOrTempEntities') = Len(dynamicOrTempEntities) - 1
         /\ \A k \in 1 .. Len(dynamicOrTempEntities) - 1 :
              dynamicOrTempEntities'[k] =
                IF k < i THEN dynamicOrTempEntities[k] ELSE dynamicOrTempEntities[k + 1]
<1> DEFINE d == dynamicOrTempEntities
<1> DEFINE n == Len(d)
<1> DEFINE before == SubSeq(d, 1, i - 1)
<1> DEFINE after == SubSeq(d, i + 1, n)
<1>1. n \in Nat /\ d \in Seq(Entity) /\ i \in 1 .. n
  BY DEF CountsOK
<1>2. /\ before \in Seq(Entity) /\ Len(before) = i - 1
      /\ \A k \in 1 .. i - 1 : before[k] = d[k]
  BY <1>1
<1>3. /\ after \in Seq(Entity) /\ Len(after) = n - i
      /\ \A k \in 1 .. n - i : after[k] = d[i + k]
  BY <1>1
<1>4. dynamicOrTempEntities' = before \o after
  BY DEF RemoveAt
<1> HIDE DEF before, after
<1>5. /\ before \o after \in Seq(Entity) /\ Len(before \o after) = n - 1
      /\ \A k \in 1 .. n - 1 :
           (before \o after)[k] = IF k < i THEN before[k] ELSE after[k - (i - 1)]
  BY <1>1, <1>2, <1>3
<1>6. QED
  BY <1>1, <1>2, <1>3, <1>4, <1>5

LEMMA RemovedActive ==
  ASSUME CountsOK, ActiveOnce, NEW i \in 1 .. Len(dynamicOrTempEntities),
         dynamicOrTempEntities' = RemoveAt(dynamicOrTempEntities, i)
  PROVE  /\ dynamicOrTempEntities' \in Seq(Entity)
         /\ ActiveOnce'
         /\ Active' = Active \ {dynamicOrTempEntities[i]}
         /\ dynamicOrTempEntities[i] \in Active
<1> DEFINE d == dynamicOrTempEntities
<1> DEFINE n == Len(d)
<1>1. /\ n \in Nat /\ d \in Seq(Entity)
      /\ dynamicOrTempEntities' \in Seq(Entity)
      /\ Len(dynamicOrTempEntities') = n - 1
      /\ \A k \in 1 .. n - 1 :
           dynamicOrTempEntities'[k] = IF k < i THEN d[k] ELSE d[k + 1]
  BY ActiveRemovedAt DEF CountsOK
<1>2. ActiveOnce'
  <2> DEFINE at(k) == IF k < i THEN k ELSE k + 1
  <2>1. ASSUME NEW k \in 1 .. n - 1
        PROVE  at(k) \in 1 .. n /\ dynamicOrTempEntities'[k] = d[at(k)]
    BY <1>1
  <2>2. ASSUME NEW j \in 1 .. n - 1, NEW k \in 1 .. n - 1, at(j) = at(k)
        PROVE  j = k
    BY <1>1, <2>2
  <2> HIDE DEF at
  <2>3. ASSUME NEW j \in 1 .. n - 1, NEW k \in 1 .. n - 1,
               dynamicOrTempEntities'[j] = dynamicOrTempEntities'[k]
        PROVE  j = k
    <3>1. d[at(j)] = d[at(k)]
      BY <2>1, <2>3
    <3>2. at(j) = at(k)
      BY <2>1, <3>1 DEF ActiveOnce
    <3>3. QED
      BY <2>2, <3>2
  <2>4. QED
    BY <1>1, <2>3 DEF ActiveOnce
<1>3. ASSUME NEW x \in Active' PROVE x \in Active \ {d[i]}
  BY <1>1, <1>3 DEF ActiveOnce, Active
<1>4. ASSUME NEW x \in Active \ {d[i]} PROVE x \in Active'
  <2>1. PICK k \in 1 .. n : d[k] = x /\ k # i
    BY <1>4 DEF Active
  <2>2. CASE k < i
    BY <1>1, <2>1, <2>2 DEF Active
  <2>3. CASE k > i
    <3>1. k - 1 \in 1 .. n - 1 /\ dynamicOrTempEntities'[k - 1] = x
      BY <1>1, <2>1, <2>3
    <3>2. QED
      BY <1>1, <3>1 DEF Active
  <2>4. QED
    BY <2>1, <2>2, <2>3
<1>5. QED
  BY <1>1, <1>2, <1>3, <1>4 DEF Active

(* What a deletion leaves, whoever asked for it.                           *)
LEMMA DeletionHolders ==
  ASSUME IndexInv, RefInv, NEW e \in Entity, DeleteEntity(e), DestroyBodies,
         NEW x \in Entity
  PROVE  /\ UNCHANGED <<moveRequests, constructed>>
         /\ One(ListedSet)'[x] + One(bodies)'[x] + ReleasedByDeletion[x]
              = One(ListedSet)[x] + One(bodies)[x]
         /\ One(ListedSet)'[x] \in Int /\ One(bodies)'[x] \in Int
         /\ ReleasedByDeletion[x] \in Int
         /\ bodies' \subseteq {f \in constructed' : alive'[f]}
<1>1. \A b \in Bucket : entities'[b] \subseteq entities[b]
  BY DEF DeleteEntity, RemoveFrom, IndexInv, TypeOK
<1>2. UNCHANGED <<moveRequests, constructed>>
  BY DEF DeleteEntity
<1>3. /\ One(bodies)'[x] = One(bodies)[x] - One(bodies \intersect Killed)[x]
      /\ One(bodies)'[x] \in Int
      /\ One(bodies \intersect Killed)[x] \in Int
  <2>1. bodies' = bodies \ Killed
    BY DEF DestroyBodies
  <2>2. One(bodies)'[x] = One(bodies)[x] - One(bodies \intersect Killed)[x]
    BY <2>1 DEF One
  <2>3. QED
    BY <2>1, <2>2 DEF One
<1>4. ReleasedByDeletion[x] = One(bodies \intersect Killed)[x] + Erased[x]
  BY PlusMinus DEF ReleasedByDeletion
<1>5. /\ Erased[x] \in {0, 1}
      /\ One(ListedSet)'[x] = One(ListedSet)[x] - Erased[x]
  BY <1>1, ErasedListed
<1>6. bodies' \subseteq {f \in constructed' : alive'[f]}
  BY <1>2 DEF DestroyBodies, Killed, RefInv, PlacesOK, IndexInv, TypeOK
<1>7. QED
  BY <1>2, <1>3, <1>4, <1>5, <1>6, HeldTerms

LEMMA ScriptDeletesEntityRefInv ==
  ASSUME IndexInv, RefInv, ScriptDeletesEntity PROVE RefInv'
<1>1. PICK e \in Entity :
        /\ DeleteEntity(e)
        /\ DestroyBodies
        /\ IF WithId(id[e]) # {}
           THEN ref' = Minus(ref, ReleasedByDeletion) /\ UNCHANGED leaked
           ELSE ref' = Plus(ref, One({e})) /\ leaked' = Plus(leaked, One({e}))
  BY DEF ScriptDeletesEntity
<1>2. UNCHANGED <<handles, thisEntity, phase, scripting, dynamicOrTempEntities,
                  lastFrameCallbacks, piecesToRender, persistentEntities>>
  BY DEF ScriptDeletesEntity, scriptVars, listVars
<1>3. Active' = Active /\ (ActiveOnce <=> ActiveOnce')
  BY <1>2, ActiveUnchanged
<1>4. ASSUME WithId(id[e]) = {}, NEW x \in Entity
      PROVE  ReleasedByDeletion[x] = 0
  <2>1. UNCHANGED <<alive, entities>>
    BY <1>1, <1>4 DEF DeleteEntity
  <2>2. bodies \intersect Killed = {}
    BY <2>1 DEF Killed, RefInv, PlacesOK
  <2>3. {b \in Bucket : x \in entities[b] \ entities'[b]} = {}
    BY <2>1
  <2>4. Erased[x] = 0
    BY <2>3, FS_EmptySet DEF Erased
  <2>5. ReleasedByDeletion[x] = One({})[x] + 0
    BY <2>2, <2>4, PlusMinus DEF ReleasedByDeletion
  <2>6. QED
    BY <2>5, OneType
<1>5. ASSUME NEW x \in Entity
      PROVE  /\ ref'[x] = Held(x)'
             /\ leaked'[x] \in Int /\ ref'[x] \in Int
  <2>1. /\ UNCHANGED <<moveRequests, constructed>>
        /\ One(ListedSet)'[x] + One(bodies)'[x] + ReleasedByDeletion[x]
             = One(ListedSet)[x] + One(bodies)[x]
        /\ One(ListedSet)'[x] \in Int /\ One(bodies)'[x] \in Int
        /\ ReleasedByDeletion[x] \in Int
    BY <1>1, DeletionHolders
  <2>2. RequestsOf(x)' = RequestsOf(x)
    BY <2>1, RequestsUnchanged
  <2>3. /\ ref'[x] = ref[x] - ReleasedByDeletion[x] + leaked'[x] - leaked[x]
        /\ leaked'[x] \in Int
    BY <1>1, <1>4, <2>1, HeldTerms, PlusMinus, OneType
  <2>4. Held(x)' = Held(x) - ReleasedByDeletion[x] + leaked'[x] - leaked[x]
    BY <1>2, <1>3, <2>1, <2>2, <2>3, HeldTerms DEF Held
  <2>5. QED
    BY <2>1, <2>3, <2>4, HeldTerms
<1>6. CountsOK'
  BY <1>1, <1>2, <1>5 DEF RefInv, CountsOK, Plus, Minus
<1>7. PlacesOK'
  BY <1>1, <1>2, <1>3, DeletionHolders DEF RefInv, PlacesOK
<1>8. QED
  BY <1>5, <1>6, <1>7 DEF RefInv, RefHeld

(* The loop over the active entities erases the one it is at.              *)
LEMMA RemoveDeadRefInv ==
  ASSUME IndexInv, RefInv, RemoveDead PROVE RefInv'
<1>1. PICK e \in Entity : /\ iter \in 1 .. Len(dynamicOrTempEntities)
                          /\ e = dynamicOrTempEntities[iter]
                          /\ dynamicOrTempEntities' = RemoveAt(dynamicOrTempEntities, iter)
                          /\ ref' = Minus(ref, One({e}))
  BY DEF RemoveDead, Iterates, RemoveAtIter, Release
<1>2. UNCHANGED <<entities, moveRequests, constructed, alive, bodies, leaked, handles,
                  thisEntity, phase, scripting, lastFrameCallbacks,
                  piecesToRender, persistentEntities>>
  BY DEF RemoveDead, RemoveAtIter, vars, sceneVars, scriptVars, entityVars
<1>3. /\ dynamicOrTempEntities' \in Seq(Entity) /\ ActiveOnce'
      /\ Active' = Active \ {e} /\ e \in Active
  BY <1>1, RemovedActive DEF RefInv, PlacesOK
<1>4. ListedSet' = ListedSet
  BY <1>2, ListedUnchanged
<1>5. ASSUME NEW x \in Entity PROVE ref'[x] = Held(x)' /\ ref'[x] \in Int
  <2>1. One(Active)'[x] = One(Active)[x] - One({e})[x] /\ One({e})[x] \in Int
    BY <1>3 DEF One
  <2>2. ref'[x] = ref[x] - One({e})[x]
    BY <1>1, PlusMinus
  <2>3. Held(x)' = Held(x) - One({e})[x]
    BY <1>2, <1>4, <2>1, RequestsUnchanged, HeldTerms DEF Held
  <2>4. QED
    BY <2>1, <2>2, <2>3, HeldTerms
<1>6. CountsOK'
  BY <1>1, <1>2, <1>3, <1>5 DEF RefInv, CountsOK, Minus
<1>7. QED
  BY <1>2, <1>3, <1>5, <1>6 DEF RefInv, PlacesOK, RefHeld

LEMMA RemoveFinishedRefInv ==
  ASSUME IndexInv, RefInv, RemoveFinished PROVE RefInv'
<1>1. PICK e \in Entity : /\ iter \in 1 .. Len(dynamicOrTempEntities)
                          /\ e = dynamicOrTempEntities[iter]
                          /\ dynamicOrTempEntities' = RemoveAt(dynamicOrTempEntities, iter)
                          /\ DeleteEntity(e)
                          /\ DestroyBodies
                          /\ ref' = Minus(ref, Plus(ReleasedByDeletion, One({e})))
  BY DEF RemoveFinished, Iterates, RemoveAtIter
<1>2. UNCHANGED <<leaked, handles, thisEntity, phase, scripting, lastFrameCallbacks,
                  piecesToRender, persistentEntities>>
  BY DEF RemoveFinished, RemoveAtIter, scriptVars
<1>3. /\ dynamicOrTempEntities' \in Seq(Entity) /\ ActiveOnce'
      /\ Active' = Active \ {e} /\ e \in Active
  BY <1>1, RemovedActive DEF RefInv, PlacesOK
<1>4. ASSUME NEW x \in Entity PROVE ref'[x] = Held(x)' /\ ref'[x] \in Int
  <2>1. One(Active)'[x] = One(Active)[x] - One({e})[x] /\ One({e})[x] \in Int
    BY <1>3 DEF One
  <2>2. ref'[x] = ref[x] - (ReleasedByDeletion[x] + One({e})[x])
    BY <1>1, PlusMinus
  <2>3. /\ UNCHANGED <<moveRequests, constructed>>
        /\ One(ListedSet)'[x] + One(bodies)'[x] + ReleasedByDeletion[x]
             = One(ListedSet)[x] + One(bodies)[x]
        /\ One(ListedSet)'[x] \in Int /\ One(bodies)'[x] \in Int
        /\ ReleasedByDeletion[x] \in Int
    BY <1>1, DeletionHolders
  <2>4. RequestsOf(x)' = RequestsOf(x)
    BY <2>3, RequestsUnchanged
  <2>5. Held(x)' = Held(x) - (ReleasedByDeletion[x] + One({e})[x])
    <3> DEFINE rest == RequestsOf(x) + lastFrameCallbacks[x] + piecesToRender[x]
                       + persistentEntities[x] + leaked[x] + One(handles)[x]
                       + One(thisEntity)[x]
    <3>1. rest' = rest /\ rest \in Int
      BY <1>2, <2>4, HeldTerms
    <3>2. Held(x) = rest + One(ListedSet)[x] + One(Active)[x] + One(bodies)[x]
      BY HeldTerms DEF Held
    <3>3. Held(x)' = rest' + One(ListedSet)'[x] + One(Active)'[x] + One(bodies)'[x]
      BY <1>2, <2>1, <2>3, <2>4, HeldTerms DEF Held
    <3> HIDE DEF rest
    <3>4. QED
      BY <2>1, <2>3, <3>1, <3>2, <3>3, HeldTerms
  <2>6. QED
    BY <2>1, <2>2, <2>3, <2>5, HeldTerms
<1>5. CountsOK'
  BY <1>1, <1>2, <1>3, <1>4 DEF RefInv, CountsOK, Minus
<1>6. PlacesOK'
  <2>1. /\ bodies' \subseteq {f \in constructed' : alive'[f]}
        /\ constructed' = constructed
    BY <1>1, DeletionHolders
  <2>2. QED
    BY <1>2, <1>3, <2>1 DEF RefInv, PlacesOK
<1>7. QED
  BY <1>4, <1>5, <1>6 DEF RefInv, RefHeld

(* It updates another, which may move, and runs its callback.              *)
LEMMA UpdateActiveRefInv ==
  ASSUME IndexInv, RefInv, UpdateActive PROVE RefInv'
<1> DEFINE moved(e) == IF moveRequests' = moveRequests THEN None ELSE One({e})
<1>1. PICK e \in Entity :
        /\ phase = "alwaysActive" /\ ~scripting
        /\ iter \in 1 .. Len(dynamicOrTempEntities)
        /\ e = dynamicOrTempEntities[iter]
        /\ FollowBody(e)
        /\ scripting' = (e \in Scripted)
        /\ thisEntity' = {e} \intersect Scripted
        /\ ref' = Plus(ref, Plus(One({e} \intersect Scripted), moved(e)))
  BY DEF UpdateActive, Iterates
<1>2. UNCHANGED <<leaked, handles, bodies, phase, dynamicOrTempEntities,
                  lastFrameCallbacks, piecesToRender, persistentEntities>>
  BY DEF UpdateActive, listVars
<1>3. UNCHANGED <<entities, constructed, alive>>
  BY <1>1 DEF FollowBody, SetPosition, vars, sceneVars
<1>4. ListedSet' = ListedSet /\ Active' = Active /\ (ActiveOnce <=> ActiveOnce')
  BY <1>2, <1>3, ListedUnchanged, ActiveUnchanged
<1>5. thisEntity = {} /\ e \in constructed
  BY <1>1 DEF RefInv, PlacesOK, Active
<1>6. ASSUME NEW x \in Entity PROVE ref'[x] = Held(x)' /\ ref'[x] \in Int
  <2>1. RequestsOf(x)' = RequestsOf(x) + moved(e)[x] /\ moved(e)[x] \in Int
    <3>1. moved(e)[x] = IF moveRequests' = moveRequests THEN 0 ELSE One({e})[x]
      BY OneType
    <3>2. moved(e)[x] \in Int
      BY <3>1, OneType
    <3> HIDE DEF moved
    <3>3. CASE UNCHANGED vars
      <4>1. moveRequests' = moveRequests
        BY <3>3 DEF vars
      <4>2. QED
        BY <3>1, <3>2, <4>1, RequestsUnchanged, HeldTerms
    <3>4. ASSUME NEW p \in Position, SetPosition(e, p)
          PROVE  RequestsOf(x)' = RequestsOf(x) + moved(e)[x]
      BY <3>1, <3>4, SetPositionRequests DEF IndexInv
    <3>5. QED
      BY <1>1, <3>1, <3>2, <3>3, <3>4 DEF FollowBody
  <2> HIDE DEF moved
  <2>2. One(thisEntity)[x] = 0
    BY <1>5, OneType
  <2>3. /\ One(thisEntity)'[x] = One({e} \intersect Scripted)[x]
        /\ One({e} \intersect Scripted)[x] \in Int
    BY <1>1 DEF One
  <2>4. ref'[x] = ref[x] + (One({e} \intersect Scripted)[x] + moved(e)[x])
    BY <1>1, PlusMinus DEF moved
  <2>5. Held(x)' = Held(x) + (One({e} \intersect Scripted)[x] + moved(e)[x])
    BY <1>2, <1>4, <2>1, <2>2, <2>3, HeldTerms DEF Held
  <2>6. QED
    BY <2>1, <2>3, <2>4, <2>5, HeldTerms
<1> HIDE DEF moved
<1>7. CountsOK'
  BY <1>1, <1>2, <1>6 DEF RefInv, CountsOK, Plus
<1>8. PlacesOK'
  BY <1>1, <1>2, <1>3, <1>4, <1>5 DEF RefInv, PlacesOK
<1>9. QED
  BY <1>6, <1>7, <1>8 DEF RefInv, RefHeld

LEMMA CallbackReturnsRefInv ==
  ASSUME IndexInv, RefInv, CallbackReturns PROVE RefInv'
<1>1. UNCHANGED <<entities, moveRequests, constructed, alive, bodies, leaked, handles,
                  dynamicOrTempEntities, lastFrameCallbacks, piecesToRender,
                  persistentEntities>>
  BY DEF CallbackReturns, Returns, vars, sceneVars, listVars, entityVars
<1>2. ref' = Minus(ref, One(thisEntity)) /\ thisEntity' = {}
  BY DEF CallbackReturns, Returns, Release
<1>3. ListedSet' = ListedSet /\ Active' = Active /\ (ActiveOnce <=> ActiveOnce')
  BY <1>1, ListedUnchanged, ActiveUnchanged
<1>4. ASSUME NEW x \in Entity PROVE ref'[x] = Held(x)' /\ ref'[x] \in Int
  <2>1. One(thisEntity)'[x] = 0
    BY <1>2 DEF One
  <2>2. ref'[x] = ref[x] - One(thisEntity)[x]
    BY <1>2, PlusMinus
  <2>3. Held(x)' = Held(x) - One(thisEntity)[x]
    BY <1>1, <1>3, <2>1, RequestsUnchanged, HeldTerms DEF Held
  <2>4. QED
    BY <2>2, <2>3, HeldTerms
<1>5. CountsOK'
  BY <1>1, <1>2, <1>4 DEF RefInv, CountsOK, Minus
<1>6. QED
  BY <1>1, <1>2, <1>3, <1>4, <1>5 DEF RefInv, PlacesOK, RefHeld

LEMMA ListingsType ==
  ASSUME IndexInv, NEW view \in SUBSET Bucket, NEW x \in Entity
  PROVE  Listings(view)[x] \in {0, 1}
<1> DEFINE S == {b \in view : x \in entities[b]}
<1>1. Listings(view)[x] = IF x \in hidden THEN 0 ELSE Cardinality(S)
  BY DEF Listings
<1>2. CASE S = {}
  BY <1>1, <1>2, FS_EmptySet
<1>3. ASSUME NEW b \in S PROVE Cardinality(S) = 1
  <2>1. S \subseteq {b} /\ b \in S
    BY <1>3 DEF IndexInv, ListedOnce
  <2> HIDE DEF S
  <2>2. QED
    BY <2>1, CardinalityOfOne
<1>4. QED
  BY <1>1, <1>2, <1>3

LEMMA MapRefInv ==
  ASSUME IndexInv, RefInv, MapEntitiesToBeRendered PROVE RefInv'
<1> DEFINE callbacks(view) == [e \in Entity |->
             IF IsStaticCallbackEligible(e) THEN Listings(view)[e] ELSE 0]
<1> DEFINE mapped(view) == Plus(Listings(view), Forced(view))
<1>1. PICK view \in Views :
        /\ lastFrameCallbacks' = Plus(lastFrameCallbacks, callbacks(view))
        /\ piecesToRender' = Plus(piecesToRender, mapped(view))
        /\ ref' = Minus(Plus(ref, Plus(callbacks(view), mapped(view))),
                        persistentEntities)
  BY DEF MapEntitiesToBeRendered
<1>2. /\ UNCHANGED <<entities, moveRequests, constructed, alive, bodies, leaked,
                     handles, dynamicOrTempEntities, thisEntity, scripting>>
      /\ persistentEntities' = None
      /\ phase = "map"
  BY DEF MapEntitiesToBeRendered, vars, sceneVars, entityVars
<1>3. ListedSet' = ListedSet /\ Active' = Active /\ (ActiveOnce <=> ActiveOnce')
  BY <1>2, ListedUnchanged, ActiveUnchanged
<1>4. ASSUME NEW x \in Entity
      PROVE  /\ callbacks(view)[x] \in Nat /\ mapped(view)[x] \in Int
             /\ callbacks(view)[x] > 0 => x \in constructed
  <2>1. Listings(view)[x] \in {0, 1}
    BY ListingsType, ViewsAssumption
  <2>2. Forced(view)[x] \in Int
    BY DEF Forced, RefInv, CountsOK
  <2>3. mapped(view)[x] = Listings(view)[x] + Forced(view)[x]
    BY PlusMinus
  <2>4. callbacks(view)[x] \in {0, Listings(view)[x]}
    OBVIOUS
  <2>5. Listings(view)[x] > 0 => x \in constructed
    <3>1. CASE x \notin constructed
      <4>1. {b \in view : x \in entities[b]} = {}
        BY <3>1, ViewsAssumption DEF IndexInv, EntitiesExist
      <4>2. QED
        BY <4>1, FS_EmptySet DEF Listings
    <3>2. QED
      BY <3>1
  <2> HIDE DEF callbacks, mapped
  <2>6. QED
    BY <2>1, <2>2, <2>3, <2>4, <2>5
<1> HIDE DEF callbacks, mapped
<1>5. ASSUME NEW x \in Entity
      PROVE  /\ ref'[x] = Held(x)' /\ ref'[x] \in Int
             /\ lastFrameCallbacks'[x] \in Int /\ piecesToRender'[x] \in Int
             /\ lastFrameCallbacks'[x] > 0 => x \in constructed
  <2>1. ref'[x] = ref[x] + (callbacks(view)[x] + mapped(view)[x])
                  - persistentEntities[x]
    BY <1>1, <1>4, HeldTerms, PlusMinus
  <2>2. /\ lastFrameCallbacks'[x] = lastFrameCallbacks[x] + callbacks(view)[x]
        /\ piecesToRender'[x] = piecesToRender[x] + mapped(view)[x]
        /\ persistentEntities'[x] = 0
    BY <1>1, <1>2, PlusMinus, OneType
  <2>3. Held(x)' = Held(x) + (callbacks(view)[x] + mapped(view)[x])
                   - persistentEntities[x]
    BY <1>2, <1>3, <1>4, <2>2, RequestsUnchanged, HeldTerms DEF Held
  <2>4. QED
    BY <1>4, <2>1, <2>2, <2>3, HeldTerms DEF RefInv, PlacesOK
<1>6. CountsOK'
  BY <1>1, <1>2, <1>5 DEF RefInv, CountsOK, Plus, Minus, None
<1>7. PlacesOK'
  BY <1>2, <1>3, <1>5 DEF RefInv, PlacesOK
<1>8. QED
  BY <1>5, <1>6, <1>7 DEF RefInv, RefHeld

LEMMA UpdateFrameEntityRefInv ==
  ASSUME IndexInv, RefInv, UpdateFrameEntity PROVE RefInv'
<1>1. PICK e \in Entity :
        /\ phase = "frameEntities" /\ ~scripting
        /\ lastFrameCallbacks[e] > 0
        /\ \/ /\ scripting' = TRUE
              /\ thisEntity' = {e}
              /\ ref' = Plus(ref, One({e}))
              /\ UNCHANGED lastFrameCallbacks
           \/ /\ lastFrameCallbacks' = Minus(lastFrameCallbacks, One({e}))
              /\ ref' = Minus(ref, One({e}))
              /\ UNCHANGED <<scripting, thisEntity>>
  BY DEF UpdateFrameEntity, LeavesFrame, AddRef, Release
<1>2. UNCHANGED <<entities, moveRequests, constructed, alive, bodies, leaked, handles,
                  dynamicOrTempEntities, piecesToRender, persistentEntities, phase>>
  BY DEF UpdateFrameEntity, vars, sceneVars
<1>3. ListedSet' = ListedSet /\ Active' = Active /\ (ActiveOnce <=> ActiveOnce')
  BY <1>2, ListedUnchanged, ActiveUnchanged
<1>4. thisEntity = {}
  BY <1>1 DEF RefInv, PlacesOK
<1>5. ASSUME NEW x \in Entity
      PROVE  /\ ref'[x] = Held(x)' /\ ref'[x] \in Int
             /\ lastFrameCallbacks'[x] \in Int
             /\ lastFrameCallbacks'[x] > 0 => lastFrameCallbacks[x] > 0
  <2>1. One(thisEntity)[x] = 0 /\ One({e})[x] \in {0, 1}
    BY <1>4, OneType
  <2>2. CASE thisEntity' = {e} /\ ref' = Plus(ref, One({e})) /\ UNCHANGED lastFrameCallbacks
    <3>1. ref'[x] = ref[x] + One({e})[x]
      BY <2>2, PlusMinus
    <3>2. One(thisEntity)'[x] = One({e})[x]
      BY <2>2 DEF One
    <3>3. Held(x)' = Held(x) + One({e})[x]
      BY <1>2, <1>3, <2>1, <2>2, <3>2, RequestsUnchanged, HeldTerms DEF Held
    <3>4. QED
      BY <2>1, <2>2, <3>1, <3>3, HeldTerms
  <2>3. CASE /\ lastFrameCallbacks' = Minus(lastFrameCallbacks, One({e}))
             /\ ref' = Minus(ref, One({e})) /\ UNCHANGED thisEntity
    <3>1. /\ ref'[x] = ref[x] - One({e})[x]
          /\ lastFrameCallbacks'[x] = lastFrameCallbacks[x] - One({e})[x]
      BY <2>3, PlusMinus
    <3>2. Held(x)' = Held(x) - One({e})[x]
      BY <1>2, <1>3, <2>1, <2>3, <3>1, RequestsUnchanged, HeldTerms DEF Held
    <3>3. QED
      BY <2>1, <3>1, <3>2, HeldTerms
  <2>4. QED
    BY <1>1, <2>2, <2>3
<1>6. PlacesOK'
  BY <1>1, <1>2, <1>3, <1>4, <1>5 DEF RefInv, PlacesOK
<1>7. CountsOK'
  BY <1>1, <1>2, <1>5 DEF RefInv, CountsOK, Plus, Minus
<1>8. QED
  BY <1>5, <1>6, <1>7 DEF RefInv, RefHeld

LEMMA FrameCallbackReturnsRefInv ==
  ASSUME IndexInv, RefInv, FrameCallbackReturns PROVE RefInv'
<1>1. UNCHANGED <<entities, moveRequests, constructed, alive, bodies, leaked, handles,
                  dynamicOrTempEntities, piecesToRender, persistentEntities>>
  BY DEF FrameCallbackReturns, Returns, vars, sceneVars, entityVars
<1>2. /\ lastFrameCallbacks' = Minus(lastFrameCallbacks, One(thisEntity))
      /\ ref' = Minus(ref, Plus(One(thisEntity), One(thisEntity)))
      /\ thisEntity' = {}
  BY DEF FrameCallbackReturns, Returns, LeavesFrame
<1>3. ListedSet' = ListedSet /\ Active' = Active /\ (ActiveOnce <=> ActiveOnce')
  BY <1>1, ListedUnchanged, ActiveUnchanged
<1>4. ASSUME NEW x \in Entity
      PROVE  /\ ref'[x] = Held(x)' /\ ref'[x] \in Int
             /\ lastFrameCallbacks'[x] \in Int
             /\ lastFrameCallbacks'[x] > 0 => lastFrameCallbacks[x] > 0
  <2>1. One(thisEntity)'[x] = 0
    BY <1>2 DEF One
  <2>2. ref'[x] = ref[x] - (One(thisEntity)[x] + One(thisEntity)[x])
    BY <1>2, PlusMinus
  <2>3. lastFrameCallbacks'[x] = lastFrameCallbacks[x] - One(thisEntity)[x]
    BY <1>2, PlusMinus
  <2>4. Held(x)' = Held(x) - (One(thisEntity)[x] + One(thisEntity)[x])
    BY <1>1, <1>3, <2>1, <2>3, RequestsUnchanged, HeldTerms DEF Held
  <2>5. One(thisEntity)[x] \in {0, 1}
    BY OneType
  <2>6. QED
    BY <2>2, <2>3, <2>4, <2>5, HeldTerms
<1>5. CountsOK'
  BY <1>1, <1>2, <1>4 DEF RefInv, CountsOK, Plus, Minus
<1>6. PlacesOK'
  BY <1>1, <1>2, <1>3, <1>4 DEF RefInv, PlacesOK
<1>7. QED
  BY <1>4, <1>5, <1>6 DEF RefInv, RefHeld

LEMMA RenderPiecesRefInv ==
  ASSUME IndexInv, RefInv, RenderPieces PROVE RefInv'
<1>1. /\ UNCHANGED <<entities, moveRequests, constructed, alive, bodies, leaked,
                     handles, dynamicOrTempEntities, lastFrameCallbacks,
                     persistentEntities, thisEntity, scripting>>
      /\ phase = "render"
  BY DEF RenderPieces, vars, sceneVars, entityVars
<1>2. piecesToRender' = None /\ ref' = Minus(ref, piecesToRender)
  BY DEF RenderPieces
<1>3. ListedSet' = ListedSet /\ Active' = Active /\ (ActiveOnce <=> ActiveOnce')
  BY <1>1, ListedUnchanged, ActiveUnchanged
<1>4. ASSUME NEW x \in Entity PROVE ref'[x] = Held(x)' /\ ref'[x] \in Int
  <2>1. ref'[x] = ref[x] - piecesToRender[x] /\ piecesToRender'[x] = 0
    BY <1>2, PlusMinus, OneType
  <2>2. Held(x)' = Held(x) - piecesToRender[x]
    BY <1>1, <1>3, <2>1, RequestsUnchanged, HeldTerms DEF Held
  <2>3. QED
    BY <2>1, <2>2, HeldTerms
<1>5. CountsOK'
  BY <1>1, <1>2, <1>4 DEF RefInv, CountsOK, Minus, None
<1>6. PlacesOK'
  BY <1>1, <1>3 DEF RefInv, PlacesOK
<1>7. QED
  BY <1>4, <1>5, <1>6 DEF RefInv, RefHeld

(* Resolving a request kills nobody (ResolveNextEffect): a move lists its  *)
(* entity once again, a discarded entity loses the reference of its bucket.*)
LEMMA ResolveOneRefInv ==
  ASSUME IndexInv, RefInv, ResolveOne PROVE RefInv'
<1>0. PICK e : e = moveRequests[resolving].entity
  OBVIOUS
<1>1. /\ ResolveNext /\ DestroyBodies
      /\ ref' = Minus(ref, IF alive[e] THEN None ELSE ReleasedByDeletion)
  BY <1>0 DEF ResolveOne
<1>2. UNCHANGED <<moveRequests, constructed, leaked, handles, dynamicOrTempEntities,
                  lastFrameCallbacks, piecesToRender, persistentEntities, thisEntity,
                  scripting, phase>>
  BY <1>1 DEF ResolveOne, ResolveNext, scriptVars, listVars
<1>3. /\ alive' = alive
      /\ e \in constructed
      /\ \A b \in Bucket, f \in Entity :
           f # e => (f \in entities'[b] <=> f \in entities[b])
      /\ ~alive[e] => \A b \in Bucket : e \notin entities'[b]
      /\ alive[e] => \A b \in Bucket :
             e \in entities'[b] <=> b = moveRequests[resolving].newBucket
  BY <1>0, <1>1, ResolveNextEffect
<1>4. bodies' = bodies /\ bodies \intersect Killed = {}
  BY <1>1, <1>3 DEF DestroyBodies, Killed, RefInv, PlacesOK
<1>5. TypeOK /\ TypeOK'
  BY <1>1, TypeStep DEF IndexInv, Next, ResolveMoveRequests
<1>6. Active' = Active /\ (ActiveOnce <=> ActiveOnce')
  BY <1>2, ActiveUnchanged
<1>7. ASSUME NEW x \in Entity PROVE ref'[x] = Held(x)' /\ ref'[x] \in Int
  <2>1. RequestsOf(x)' = RequestsOf(x)
    BY <1>2, RequestsUnchanged
  <2>2. CASE alive[e]
    <3>1. moveRequests[resolving].newBucket \in Bucket
      BY <1>1, <1>5, RequestInRange DEF ResolveNext, MoveRequest
    <3>2. IsListed(x)' <=> IsListed(x)
      <4>1. IsListed(e)
        BY <1>3, <2>2 DEF IndexInv, LiveAreListed
      <4>2. IsListed(e)'
        BY <1>3, <2>2, <3>1 DEF IsListed
      <4>3. x # e => (IsListed(x)' <=> IsListed(x))
        BY <1>3 DEF IsListed
      <4>4. QED
        BY <4>1, <4>2, <4>3
    <3>3. One(ListedSet)'[x] = One(ListedSet)[x]
      BY <3>2 DEF One, ListedSet
    <3>4. ref'[x] = ref[x] - 0
      BY <1>1, <2>2, PlusMinus, OneType
    <3>5. Held(x)' = Held(x)
      BY <1>2, <1>4, <1>6, <2>1, <3>3 DEF Held
    <3>6. QED
      BY <3>4, <3>5, HeldTerms
  <2>3. CASE ~alive[e]
    <3>1. \A b \in Bucket : entities'[b] \subseteq entities[b]
      BY <1>3, <1>5, <2>3 DEF TypeOK
    <3>2. /\ Erased[x] \in {0, 1}
          /\ One(ListedSet)'[x] = One(ListedSet)[x] - Erased[x]
      BY <3>1, ErasedListed
    <3>3. ReleasedByDeletion[x] = Erased[x]
      <4>1. One(bodies \intersect Killed)[x] = 0
        BY <1>4, OneType
      <4>2. QED
        BY <3>2, <4>1, PlusMinus DEF ReleasedByDeletion
    <3>4. ref'[x] = ref[x] - Erased[x]
      BY <1>1, <2>3, <3>3, PlusMinus
    <3>5. Held(x)' = Held(x) - Erased[x]
      BY <1>2, <1>4, <1>6, <2>1, <3>2, HeldTerms DEF Held
    <3>6. QED
      BY <3>2, <3>4, <3>5, HeldTerms
  <2>4. QED
    BY <2>2, <2>3
<1>8. CountsOK'
  BY <1>1, <1>2, <1>7 DEF RefInv, CountsOK, Minus
<1>9. PlacesOK'
  BY <1>2, <1>3, <1>4, <1>6 DEF RefInv, PlacesOK
<1>10. QED
  BY <1>7, <1>8, <1>9 DEF RefInv, RefHeld

LEMMA ResolveEndsRefInv ==
  ASSUME IndexInv, RefInv, ResolveEnds PROVE RefInv'
<1>1. /\ moveRequests' = <<>>
      /\ ref' = [e \in Entity |-> ref[e] - RequestsOf(e)]
      /\ UNCHANGED <<entities, constructed, alive, bodies, leaked, handles,
                     dynamicOrTempEntities, lastFrameCallbacks, piecesToRender,
                     persistentEntities, thisEntity, scripting, phase>>
  BY DEF ResolveEnds, EndResolve, sceneVars, scriptVars, listVars, entityVars
<1>2. ListedSet' = ListedSet /\ Active' = Active /\ (ActiveOnce <=> ActiveOnce')
  BY <1>1, ListedUnchanged, ActiveUnchanged
<1>3. ASSUME NEW x \in Entity PROVE ref'[x] = Held(x)' /\ ref'[x] \in Int
  <2>1. RequestsOf(x)' = 0
    BY <1>1, RequestsCleared
  <2>2. ref'[x] = ref[x] - RequestsOf(x)
    BY <1>1
  <2>3. Held(x)' = Held(x) - RequestsOf(x)
    <3>1. /\ One(ListedSet)'[x] = One(ListedSet)[x]
          /\ One(Active)'[x] = One(Active)[x]
          /\ One(bodies)'[x] = One(bodies)[x]
          /\ One(handles)'[x] = One(handles)[x]
          /\ One(thisEntity)'[x] = One(thisEntity)[x]
      BY <1>1, <1>2 DEF One
    <3> DEFINE rest == One(ListedSet)[x] + One(Active)[x] + lastFrameCallbacks[x]
                       + piecesToRender[x] + persistentEntities[x] + leaked[x]
                       + One(bodies)[x] + One(handles)[x] + One(thisEntity)[x]
    <3>2. rest \in Int
      BY HeldTerms
    <3>3. Held(x) = rest + RequestsOf(x)
      BY HeldTerms DEF Held
    <3>4. Held(x)' = One(ListedSet)'[x] + 0 + One(Active)'[x]
                     + lastFrameCallbacks'[x] + piecesToRender'[x]
                     + persistentEntities'[x] + leaked'[x] + One(bodies)'[x]
                     + One(handles)'[x] + One(thisEntity)'[x]
      BY <2>1 DEF Held
    <3>5. Held(x)' = rest
      BY <1>1, <3>1, <3>4, HeldTerms
    <3> HIDE DEF rest
    <3>6. QED
      BY <3>2, <3>3, <3>5, HeldTerms
  <2>4. QED
    BY <2>2, <2>3, HeldTerms
<1>4. CountsOK'
  BY <1>1, <1>3 DEF RefInv, CountsOK
<1>5. QED
  BY <1>1, <1>2, <1>3, <1>4 DEF RefInv, PlacesOK, RefHeld

(* The rest of what scripts call, and of the engine's steps, disturbs no   *)
(* holder.                                                                 *)
LEMMA QuietScriptRefInv ==
  ASSUME IndexInv, RefInv,
         SceneLoaded \/ ScriptHidesEntity \/ ScriptSetsSprite \/ ScaleBegins
  PROVE  RefInv'
<1>1. CASE SceneLoaded
  <2>1. /\ UNCHANGED <<entities, moveRequests, constructed, alive, listVars, bodies,
                       handles, leaked, ref, thisEntity, phase>>
        /\ scripting'
    BY <1>1 DEF SceneLoaded, FinishLoading, entityVars
  <2>2. thisEntity # {} => scripting' = scripting
    BY <2>1, <1>1 DEF RefInv, PlacesOK, SceneLoaded
  <2>3. QED
    BY <2>1, <2>2, QuietRefInv
<1>2. CASE ScriptHidesEntity \/ ScriptSetsSprite \/ ScaleBegins
  <2>1. UNCHANGED <<entities, moveRequests, constructed, alive, listVars, bodies,
                    handles, leaked, ref, thisEntity, phase, scripting>>
    BY <1>2 DEF ScriptHidesEntity, ScriptSetsSprite, ScaleBegins, vars, sceneVars,
                scriptVars, entityVars
  <2>2. QED
    BY <2>1, QuietRefInv
<1>3. QED
  BY <1>1, <1>2

LEMMA QuietEngineRefInv ==
  ASSUME IndexInv, RefInv,
         \/ OnSceneLoadedReturns \/ BeginFrame \/ ContactCallbacksReturn
         \/ BeginSceneUpdate \/ OnSceneUpdateReturns \/ EndUpdate
         \/ FrameResolves \/ EndFrame \/ ScaleResolves
  PROVE  RefInv'
<1>1. CASE ScaleResolves
  <2>1. UNCHANGED <<entities, moveRequests, constructed, alive, listVars, bodies,
                    handles, leaked, ref, thisEntity, phase, scripting>>
    BY <1>1 DEF ScaleResolves, BeginResolve, vars, sceneVars, entityVars
  <2>2. QED
    BY <2>1, QuietRefInv
<1>2. CASE OnSceneLoadedReturns \/ ContactCallbacksReturn \/ OnSceneUpdateReturns
  <2>1. /\ UNCHANGED <<entities, moveRequests, constructed, alive, listVars, bodies,
                       handles, leaked, ref>>
        /\ thisEntity' = {}
        /\ phase \in {"idle", "physics", "sceneUpdate"}
    BY <1>2 DEF OnSceneLoadedReturns, ContactCallbacksReturn, OnSceneUpdateReturns,
                Returns, vars, sceneVars, entityVars
  <2>2. thisEntity = {}
    BY <2>1 DEF RefInv, PlacesOK
  <2>3. QED
    BY <2>1, <2>2, QuietRefInv
<1>3. CASE BeginFrame \/ BeginSceneUpdate \/ EndUpdate
  <2>1. /\ UNCHANGED <<entities, moveRequests, constructed, alive, listVars, bodies,
                       handles, leaked, ref, thisEntity>>
        /\ ~scripting
    BY <1>3 DEF BeginFrame, BeginSceneUpdate, EndUpdate, vars, sceneVars, entityVars
  <2>2. thisEntity = {}
    BY <2>1 DEF RefInv, PlacesOK
  <2>3. QED
    BY <2>1, <2>2, QuietRefInv
<1>4. CASE FrameResolves \/ EndFrame
  <2>1. /\ UNCHANGED <<entities, moveRequests, constructed, alive, listVars, bodies,
                       handles, leaked, ref, thisEntity>>
        /\ phase = "resolve"
    BY <1>4 DEF FrameResolves, EndFrame, BeginResolve, vars, sceneVars, scriptVars,
                entityVars
  <2>2. thisEntity = {}
    BY <2>1 DEF RefInv, PlacesOK
  <2>3. QED
    BY <2>1, <2>2, QuietRefInv
<1>5. QED
  BY <1>1, <1>2, <1>3, <1>4

LEMMA RefInvStep ==
  ASSUME IndexInv, ScalingOK, RefInv, [SceneNext]_allVars PROVE RefInv'
<1>1. CASE SceneLoadsEntity
  BY <1>1, AdoptRefInv DEF SceneLoadsEntity, LoadEntityFromFile
<1>2. CASE ScriptCall
  <2>1. CASE ScriptAddsEntity
    BY <2>1, AdoptRefInv DEF ScriptAddsEntity, AddEntityFromScript
  <2>2. CASE ScriptMovesEntity
    <3>1. PICK e \in Entity, p \in Position :
            /\ SetPosition(e, p)
            /\ ref' = IF moveRequests' = moveRequests THEN ref ELSE Plus(ref, One({e}))
      BY <2>2 DEF ScriptMovesEntity
    <3>2. UNCHANGED <<listVars, bodies, handles, leaked, thisEntity, phase, scripting>>
      BY <2>2 DEF ScriptMovesEntity, scriptVars, entityVars
    <3>3. QED
      BY <3>1, <3>2, MovedRefInv
  <2>3. QED
    BY <1>2, <2>1, <2>2, ScriptDeletesEntityRefInv, ScriptForcesRenderingRefInv,
       HandlesRefInv, QuietScriptRefInv DEF ScriptCall
<1>3. CASE ScaleOne
  <2>1. PICK s \in toScale :
          /\ SetPosition(s[1], s[2])
          /\ ref' = IF moveRequests' = moveRequests THEN ref ELSE Plus(ref, One({s[1]}))
    BY <1>3 DEF ScaleOne
  <2>2. s[1] \in Entity /\ s[2] \in Position
    BY DEF ScalingOK
  <2>3. UNCHANGED <<listVars, bodies, handles, leaked, thisEntity, phase, scripting>>
    BY <1>3 DEF ScaleOne, entityVars
  <2>4. QED
    BY <2>1, <2>2, <2>3, MovedRefInv
<1>4. CASE UNCHANGED allVars
  <2>1. UNCHANGED <<entities, moveRequests, constructed, alive, listVars, bodies,
                    handles, leaked, ref, thisEntity, phase, scripting>>
    BY <1>4 DEF allVars, vars, sceneVars, scriptVars, entityVars
  <2>2. QED
    BY <2>1, QuietRefInv
<1>5. CASE Engine /\ ~ScaleOne
  BY <1>5, RemoveDeadRefInv, RemoveFinishedRefInv, UpdateActiveRefInv,
     CallbackReturnsRefInv, MapRefInv, UpdateFrameEntityRefInv,
     FrameCallbackReturnsRefInv, RenderPiecesRefInv, ResolveOneRefInv,
     ResolveEndsRefInv, QuietEngineRefInv DEF Engine
<1>6. QED
  BY <1>1, <1>2, <1>3, <1>4, <1>5, QuietScriptRefInv DEF SceneNext

LEMMA InitRefInv == SceneInit => RefInv
<1> SUFFICES ASSUME SceneInit PROVE RefInv
  OBVIOUS
<1>1. Active = {} /\ ActiveOnce /\ ListedSet = {}
  BY DEF SceneInit, Init, Active, ActiveOnce, ListedSet, IsListed
<1>2. CountsOK /\ PlacesOK
  BY <1>1 DEF SceneInit, Init, CountsOK, PlacesOK, None
<1>3. ASSUME NEW x \in Entity PROVE RequestsOf(x) = 0
  <2>1. {i \in 1 .. Len(moveRequests) : moveRequests[i].entity = x} = {}
    BY DEF SceneInit, Init
  <2>2. QED
    BY <2>1, FS_EmptySet DEF RequestsOf
<1>4. RefHeld
  <2> SUFFICES ASSUME NEW x \in Entity PROVE ref[x] = Held(x)
    BY DEF RefHeld
  <2>1. /\ One(ListedSet)[x] = 0 /\ One(Active)[x] = 0 /\ One(bodies)[x] = 0
        /\ One(handles)[x] = 0 /\ One(thisEntity)[x] = 0
    BY <1>1, OneType DEF SceneInit
  <2>2. /\ lastFrameCallbacks[x] = 0 /\ piecesToRender[x] = 0
        /\ persistentEntities[x] = 0 /\ leaked[x] = 0 /\ ref[x] = 0
    BY DEF SceneInit, None
  <2>3. QED
    BY <1>3, <2>1, <2>2 DEF Held
<1>5. QED
  BY <1>2, <1>4 DEF RefInv

LEMMA SceneRefInvariant == SceneSpec => [](IndexInv /\ RefInv)
<1>1. SceneInit => IndexInv /\ ScalingOK /\ RefInv
  BY InitIndexInv, InitRefInv DEF SceneInit, ScalingOK
<1>2. IndexInv /\ ScalingOK /\ RefInv /\ [SceneNext]_allVars
        => IndexInv' /\ ScalingOK' /\ RefInv'
  BY ScalingStep, SceneStep, IndexInvStep, RefInvStep DEF IndexInv
<1>3. QED
  BY <1>1, <1>2, PTL DEF SceneSpec

(* Every entity has as many references as there are places that hold it,   *)
(* whatever scripts add, move, delete, force, scale and keep while the     *)
(* engine iterates over its lists: the object is there for each of them    *)
(* and is gone when the last lets go.                                      *)
THEOREM ReferencesAreExact == SceneSpec => []RefExact
<1>1. IndexInv /\ RefInv => RefExact
  BY HoldersHeld DEF RefInv, PlacesOK, RefHeld, RefExact
<1>2. QED
  BY <1>1, SceneRefInvariant, PTL

===============================================================================
