--------------------------- MODULE ETHPhysics_proofs ---------------------------
(***************************************************************************)
(* The physics simulator, for every set of entities, callbacks, sensors    *)
(* and joints, every bound on the stack and every choice of what scripts   *)
(* call: references are exact, callbacks match.  As long as no script      *)
(* deletes an entity in the step, the world has the bodies and the joints  *)
(* of the controllers and no callback misses its body; as long as none     *)
(* disables the next contact elsewhere, only contacts that were asked for  *)
(* are disabled.                                                           *)
(***************************************************************************)
EXTENDS ETHPhysics, SequenceTheorems, FunctionTheorems, FiniteSetTheorems, TLAPS

(* How many elements of a sequence are in a set.                           *)
Positions(s, C) == {i \in 1 .. Len(s) : s[i] \in C}
Count(s, C) == Cardinality(Positions(s, C))

LEMMA PositionsFinite ==
  ASSUME NEW X, NEW s \in Seq(X), NEW C
  PROVE  IsFiniteSet(Positions(s, C)) /\ Count(s, C) \in Nat
<1>1. IsFiniteSet(1 .. Len(s))
  BY FS_Interval
<1>2. Positions(s, C) \in SUBSET (1 .. Len(s))
  BY DEF Positions
<1>3. IsFiniteSet(Positions(s, C))
  BY ONLY <1>1, <1>2, FS_Subset
<1>4. QED
  BY <1>3, FS_CardinalityType DEF Count

LEMMA CountEmpty ==
  ASSUME NEW C PROVE Count(<<>>, C) = 0
<1>1. Positions(<<>>, C) = {}
  BY DEF Positions
<1>2. QED
  BY <1>1, FS_EmptySet DEF Count

LEMMA CountNone ==
  ASSUME NEW X, NEW s \in Seq(X), NEW C, Count(s, C) = 0
  PROVE  \A i \in 1 .. Len(s) : s[i] \notin C
<1>1. Positions(s, C) = {}
  BY PositionsFinite, FS_EmptySet DEF Count
<1>2. QED
  BY <1>1 DEF Positions

LEMMA CountSome ==
  ASSUME NEW X, NEW s \in Seq(X), NEW C, NEW i \in 1 .. Len(s), s[i] \in C
  PROVE  Count(s, C) > 0
BY PositionsFinite, CountNone

(* The elements of a set in some order are as many as the set has.         *)
LEMMA CountOfOrdered ==
  ASSUME NEW S, IsFiniteSet(S), NEW t \in SetToSeqs(S), NEW C
  PROVE  /\ t \in Seq(S)
         /\ Len(t) = Cardinality(S)
         /\ Count(t, C) = Cardinality(S \intersect C)
<1> DEFINE m == Cardinality(S)
<1>1. /\ m \in Nat
      /\ t \in [1 .. m -> S]
      /\ \A i, j \in 1 .. m : i # j => t[i] # t[j]
  BY FS_CardinalityType DEF SetToSeqs
<1>2. t \in Seq(S) /\ Len(t) = m
  BY <1>1, SeqDef, LenProperties
<1>3. \A x \in S : \E i \in 1 .. m : t[i] = x
  <2>1. t \in Injection(1 .. m, S)
    BY <1>1 DEF Injection, IsInjective
  <2>2. IsFiniteSet(1 .. m) /\ Cardinality(1 .. m) = m
    BY <1>1, FS_Interval
  <2>3. t \in Surjection(1 .. m, S)
    BY <2>1, <2>2, FS_Injection
  <2>4. QED
    BY <2>3 DEF Surjection
<1> DEFINE P == Positions(t, C)
<1> DEFINE T == S \intersect C
<1> DEFINE f == [i \in P |-> t[i]]
<1>4. f \in Injection(P, T)
  BY <1>1, <1>2 DEF Positions, Injection, IsInjective
<1>5. f \in Surjection(P, T)
  BY <1>1, <1>2, <1>3, <1>4 DEF Positions, Surjection, Injection
<1>6. IsFiniteSet(P)
  BY <1>2, PositionsFinite
<1>7. Cardinality(T) = Cardinality(P)
  <2> HIDE DEF P, T, f
  <2>1. ExistsBijection(P, T)
    BY <1>4, <1>5 DEF ExistsBijection, Bijection
  <2>2. QED
    BY <1>6, <2>1, FS_Bijection
<1>8. QED
  BY <1>2, <1>7 DEF Count

LEMMA CountConcat ==
  ASSUME NEW X, NEW s \in Seq(X), NEW t \in Seq(X), NEW C
  PROVE  /\ s \o t \in Seq(X)
         /\ Count(s \o t, C) = Count(s, C) + Count(t, C)
<1> DEFINE n == Len(s)
<1> DEFINE m == Len(t)
<1> DEFINE u == s \o t
<1>1. /\ u \in Seq(X) /\ n \in Nat /\ m \in Nat /\ Len(u) = n + m
      /\ \A i \in 1 .. n : u[i] = s[i]
      /\ \A i \in 1 .. m : u[n + i] = t[i]
  BY ConcatProperties
<1> DEFINE P == Positions(s, C)
<1> DEFINE Q == Positions(t, C)
<1> DEFINE R == {i \in n + 1 .. n + m : u[i] \in C}
<1> HIDE DEF u
<1>2. Positions(u, C) = P \cup R /\ P \cap R = {}
  BY <1>1 DEF Positions
<1> DEFINE f == [i \in Q |-> n + i]
<1>3. f \in Injection(Q, R)
  BY <1>1 DEF Positions, Injection, IsInjective
<1>4. f \in Surjection(Q, R)
  <2>1. \A j \in R : j - n \in Q /\ n + (j - n) = j
    BY <1>1 DEF Positions
  <2>2. QED
    BY <1>3, <2>1 DEF Surjection, Injection
<1>5. IsFiniteSet(P) /\ IsFiniteSet(Q)
  BY PositionsFinite
<1>6. IsFiniteSet(R) /\ Cardinality(R) = Cardinality(Q)
  <2> HIDE DEF R, Q, f
  <2>1. ExistsBijection(Q, R)
    BY <1>3, <1>4 DEF ExistsBijection, Bijection
  <2>2. QED
    BY <1>5, <2>1, FS_Bijection
<1>7. Cardinality(P \cup R) = Cardinality(P) + Cardinality(Q)
  <2> HIDE DEF P, R, Q
  <2>1. Cardinality(P \cup R) = Cardinality(P) + Cardinality(R) - Cardinality(P \cap R)
    BY <1>5, <1>6, FS_Union
  <2>2. Cardinality(P) \in Nat /\ Cardinality(R) \in Nat
    BY <1>5, <1>6, FS_CardinalityType
  <2>3. Cardinality(P \cap R) = 0
    BY <1>2, FS_EmptySet
  <2>4. QED
    BY <1>6, <2>1, <2>2, <2>3
<1>8. QED
  BY <1>1, <1>2, <1>7 DEF Count, u

LEMMA CountTail ==
  ASSUME NEW X, NEW s \in Seq(X), s # <<>>, NEW C
  PROVE  /\ Tail(s) \in Seq(X)
         /\ Count(s, C) = Count(Tail(s), C) + (IF Head(s) \in C THEN 1 ELSE 0)
<1> DEFINE t == Tail(s)
<1> DEFINE h == <<Head(s)>>
<1>1. t \in Seq(X) /\ Head(s) \in X /\ s = h \o t /\ h \in Seq(X)
  BY HeadTailProperties
<1>2. Count(s, C) = Count(h, C) + Count(t, C)
  <2> HIDE DEF t, h
  <2>1. QED
    BY <1>1, CountConcat
<1>3. Count(h, C) = IF Head(s) \in C THEN 1 ELSE 0
  <2>1. CASE Head(s) \in C
    <3>1. Positions(h, C) = {1}
      BY <2>1 DEF Positions
    <3>2. QED
      BY <2>1, <3>1, FS_Singleton DEF Count
  <2>2. CASE Head(s) \notin C
    <3>1. Positions(h, C) = {}
      BY <2>2 DEF Positions
    <3>2. QED
      BY <2>2, <3>1, FS_EmptySet DEF Count
  <2>3. QED
    BY <2>1, <2>2
<1>4. Count(t, C) \in Nat
  BY <1>1, PositionsFinite
<1>5. QED
  BY <1>1, <1>2, <1>3, <1>4

-------------------------------------------------------------------------------
(* The stack as counts: the contacts an entity is in, and those of a pair. *)

Reversed(p) == <<p[2], p[1]>>
Same(p) == {p, Reversed(p)}
With(e) == {c \in Pair : e \in Ends(c)}

LEMMA PairFacts ==
  ASSUME NEW p \in Pair
  PROVE  /\ p[1] \in Entity /\ p[2] \in Entity /\ p[1] # p[2]
         /\ Reversed(p) \in Pair /\ Reversed(Reversed(p)) = p
         /\ p[1] \in Ends(p) /\ p[2] \in Ends(p)
         /\ Ends(Reversed(p)) = Ends(p)
         /\ \A c \in Pair : Ends(c) = Ends(p) <=> c \in Same(p)
BY DEF Pair, Reversed, Ends, Same

LEMMA StackedIsCount ==
  ASSUME NEW s \in Seq(Pair), NEW e \in Entity
  PROVE  Cardinality({p \in (1 .. Len(s)) \X {1, 2} : s[p[1]][p[2]] = e})
           = Count(s, With(e))
<1> DEFINE A == {p \in (1 .. Len(s)) \X {1, 2} : s[p[1]][p[2]] = e}
<1> DEFINE P == Positions(s, With(e))
<1> DEFINE f == [p \in A |-> p[1]]
<1>1. \A i \in 1 .. Len(s) : s[i] \in Pair
  OBVIOUS
<1>2. \A i \in 1 .. Len(s) :
        /\ s[i][1] # s[i][2]
        /\ i \in P <=> s[i][1] = e \/ s[i][2] = e
  BY <1>1 DEF Positions, With, Ends, Pair
<1>3. \A p \in A : f[p] \in P
  BY <1>2
<1>4. \A p, q \in A : f[p] = f[q] => p = q
  <2> SUFFICES ASSUME NEW p \in A, NEW q \in A, f[p] = f[q] PROVE p = q
    OBVIOUS
  <2>1. p[1] = q[1] /\ p[2] \in {1, 2} /\ q[2] \in {1, 2}
    OBVIOUS
  <2>2. p[2] = q[2]
    BY <1>2, <2>1
  <2>3. p = <<p[1], p[2]>> /\ q = <<q[1], q[2]>>
    OBVIOUS
  <2>4. QED
    BY <2>1, <2>2, <2>3
<1>5. \A i \in P : \E p \in A : f[p] = i
  <2> SUFFICES ASSUME NEW i \in P PROVE \E p \in A : f[p] = i
    OBVIOUS
  <2>1. i \in 1 .. Len(s)
    BY DEF Positions
  <2>2. CASE s[i][1] = e
    <3>1. <<i, 1>> \in A /\ f[<<i, 1>>] = i
      BY <2>1, <2>2
    <3>2. QED
      BY <3>1
  <2>3. CASE s[i][2] = e
    <3>1. <<i, 2>> \in A /\ f[<<i, 2>>] = i
      BY <2>1, <2>3
    <3>2. QED
      BY <3>1
  <2>4. QED
    BY <1>2, <2>1, <2>2, <2>3
<1>6. f \in [A -> P]
  BY <1>3
<1>7. ExistsBijection(P, A)
  <2>1. f \in Bijection(A, P)
    <3> HIDE DEF A, P, f
    <3>1. f \in Injection(A, P)
      BY <1>4, <1>6 DEF Injection, IsInjective
    <3>2. f \in Surjection(A, P)
      BY <1>5, <1>6 DEF Surjection
    <3>3. QED
      BY <3>1, <3>2 DEF Bijection
  <2>2. ExistsBijection(A, P)
    BY <2>1 DEF ExistsBijection
  <2>3. QED
    BY <2>2, Fun_ExistsBijSymmetric
<1>8. IsFiniteSet(P)
  BY PositionsFinite
<1>9. QED
  <2> HIDE DEF A, P, f
  <2>1. Cardinality(A) = Cardinality(P)
    BY <1>7, <1>8, FS_Bijection
  <2>2. QED
    BY <2>1 DEF A, P, Count

LEMMA StackedOfIsCount ==
  ASSUME stacked \in Seq(Pair), NEW e \in Entity
  PROVE  Cardinality(StackedOf(e)) = Count(stacked, With(e))
BY StackedIsCount DEF StackedOf

LEMMA EndsStackedIsCount ==
  ASSUME stacked \in Seq(Pair), NEW p \in Pair
  PROVE  Cardinality(EndsStacked(p)) = Count(stacked, Same(p))
<1>1. \A i \in 1 .. Len(stacked) : stacked[i] \in Pair
  OBVIOUS
<1>2. EndsStacked(p) = Positions(stacked, Same(p))
  BY <1>1, PairFacts DEF EndsStacked, Positions
<1>3. QED
  BY <1>2 DEF Count

-------------------------------------------------------------------------------
(* The inductive invariant.                                                *)

Types ==
  /\ phase \in {"idle", "step", "stack", "destroying", "gone"}
  /\ listed \in SUBSET Entity
  /\ handles \in SUBSET Entity
  /\ ref \in [Entity -> Int]
  /\ body \in SUBSET Entity
  /\ world \in SUBSET Entity
  /\ touching \in SUBSET Pair /\ IsFiniteSet(touching)
  /\ disabled \in SUBSET Pair
  /\ disableNextContact \in BOOLEAN
  /\ stacked \in Seq(Pair)
  /\ kind \in Kinds
  /\ contact \in Pair \union {NoContact}
  /\ kind # "none" => contact \in Pair
  /\ side \in 1 .. 3
  /\ scripting \in BOOLEAN
  /\ joints \in SUBSET Pair
  /\ held \in SUBSET Pair
  /\ asked \in SUBSET Pair
  /\ open \in [Pair -> Nat]

Live == phase \in {"idle", "step", "stack"}

(* Which callback is reported when: begin and pre-solve for a contact that *)
(* touches, in the locked world; end for the head of the stack.            *)
Control ==
  /\ kind = "begin" \/ kind = "preSolve" => phase = "step" /\ contact \in touching
  /\ kind = "end" => phase = "stack" /\ stacked # <<>> /\ contact = Head(stacked)
  /\ scripting => kind # "none" /\ side \in {1, 2}
  /\ ~Live => stacked = <<>>

(* A body is that of an entity in a bucket and is in the world, and so are *)
(* those of contacts; two bodies have one contact.                         *)
Bodies ==
  /\ body \subseteq listed
  /\ body \subseteq world
  /\ \A c \in touching : Ends(c) \subseteq world /\ Reversed(c) \notin touching

RefOK(e) ==
  ref[e] = One(listed)[e] + One(body)[e] + One(handles)[e] + Count(stacked, With(e))
References == \A e \in Entity : RefOK(e)

BeginUntold(p) == IF IsReported("begin", p) /\ ~IsTold(p[1]) THEN 1 ELSE 0
EndTold(p) == IF IsReported("end", p) /\ IsTold(p[1]) THEN 1 ELSE 0
Unended(p) == IF Touches(p) THEN 1 ELSE 0
MatchOK(p) ==
  p[1] \in Both \intersect body =>
    open[p] + BeginUntold(p) = Unended(p) + Count(stacked, Same(p)) - EndTold(p)
Match == Live => \A p \in Pair : MatchOK(p)

PhysicsInv == Types /\ Control /\ Bodies /\ References /\ Match

-------------------------------------------------------------------------------
(* References of an entity as numbers                                      *)

LEMMA OneIs ==
  ASSUME NEW S, NEW x \in Entity
  PROVE  One(S)[x] = IF x \in S THEN 1 ELSE 0
BY DEF One

LEMMA PlusMinusAre ==
  ASSUME NEW f, NEW g, NEW x \in Entity
  PROVE  Plus(f, g)[x] = f[x] + g[x] /\ Minus(f, g)[x] = f[x] - g[x]
BY DEF Plus, Minus

LEMMA OneTyped == ASSUME NEW S PROVE One(S) \in [Entity -> Int]
BY DEF One

LEMMA SumTyped ==
  ASSUME NEW f \in [Entity -> Int], NEW g \in [Entity -> Int]
  PROVE  Plus(f, g) \in [Entity -> Int] /\ Minus(f, g) \in [Entity -> Int]
BY DEF Plus, Minus

LEMMA HeldByEndsIs ==
  ASSUME NEW S, S \subseteq Pair, IsFiniteSet(S)
  PROVE  /\ HeldByEnds(S) \in [Entity -> Int]
         /\ \A x \in Entity : /\ HeldByEnds(S)[x] = Cardinality(S \intersect With(x))
                              /\ HeldByEnds(S)[x] \in Int
<1>1. ASSUME NEW x \in Entity
      PROVE  /\ Cardinality({c \in S : x \in Ends(c)}) \in Int
             /\ {c \in S : x \in Ends(c)} = S \intersect With(x)
  <2> DEFINE T == {c \in S : x \in Ends(c)}
  <2>1. T \in SUBSET S /\ T = S \intersect With(x)
    BY DEF With
  <2>2. Cardinality(T) \in Nat
    <3> HIDE DEF T
    <3>1. IsFiniteSet(T)
      BY <2>1, FS_Subset
    <3>2. QED
      BY <3>1, FS_CardinalityType
  <2>3. QED
    BY <2>1, <2>2
<1>2. QED
  BY <1>1 DEF HeldByEnds

LEMMA ReferencesTerms ==
  ASSUME Types, NEW x \in Entity
  PROVE  ref[x] \in Int /\ Count(stacked, With(x)) \in Nat
BY PositionsFinite DEF Types

(* EndContacts pushes the contacts that someone listens to, and the head   *)
(* of the stack stays.                                                     *)
LEMMA EndContactsStacks ==
  ASSUME Types, NEW S \in SUBSET touching, EndContacts(S)
  PROVE  /\ stacked' \in Seq(Pair)
         /\ touching' \in SUBSET Pair /\ IsFiniteSet(touching')
         /\ IsFiniteSet({c \in S : HasListener(c)})
         /\ \A C : Count(stacked', C) = Count(stacked, C)
                     + Cardinality({c \in S : HasListener(c)} \intersect C)
         /\ stacked # <<>> => stacked' # <<>> /\ Head(stacked') = Head(stacked)
<1> DEFINE T == {c \in S : HasListener(c)}
<1>1. /\ stacked \in Seq(Pair)
      /\ touching \in SUBSET Pair /\ IsFiniteSet(touching)
      /\ touching' \in SUBSET touching
      /\ T \in SUBSET touching
  BY DEF Types, EndContacts
<1>2. IsFiniteSet(touching') /\ IsFiniteSet(T)
  BY ONLY <1>1, FS_Subset
<1>3. PICK ends \in SetToSeqs(T) : stacked' = stacked \o ends
  BY DEF EndContacts
<1> HIDE DEF T
<1>4. ends \in Seq(T) /\ \A C : Count(ends, C) = Cardinality(T \intersect C)
  <2>1. IsFiniteSet(T) /\ ends \in SetToSeqs(T)
    BY <1>2, <1>3
  <2>2. QED
    BY ONLY <2>1, CountOfOrdered
<1>5. ends \in Seq(Pair)
  <2>1. ends \in Seq(T) /\ T \subseteq Pair
    BY <1>1, <1>4
  <2>2. QED
    BY ONLY <2>1, SeqMonotonic
<1>6. stacked' \in Seq(Pair)
      /\ \A C : Count(stacked', C) = Count(stacked, C) + Count(ends, C)
  BY <1>1, <1>3, <1>5, CountConcat
<1>7. stacked # <<>> => stacked' # <<>> /\ Head(stacked') = Head(stacked)
  <2> SUFFICES ASSUME stacked # <<>>
               PROVE  stacked' # <<>> /\ Head(stacked') = Head(stacked)
    OBVIOUS
  <2>1. Len(stacked) \in Nat /\ Len(stacked) >= 1 /\ Len(ends) \in Nat
    BY <1>1, <1>5, EmptySeq
  <2>2. /\ Len(stacked') = Len(stacked) + Len(ends)
        /\ stacked'[1] = stacked[1]
    BY <1>1, <1>3, <1>5, <2>1, ConcatProperties
  <2>3. Len(stacked') >= 1
    BY <2>1, <2>2
  <2>4. stacked' # <<>>
    BY <2>3
  <2>5. QED
    BY <1>1, <1>6, <2>2, <2>4
<1>8. QED
  BY <1>1, <1>2, <1>4, <1>6, <1>7 DEF T

-------------------------------------------------------------------------------
(* Each part of the invariant is kept by every step.                       *)

LEMMA TypedBySimple ==
  ASSUME Types, NEW e \in Entity,
         \/ AddEntity(e) \/ TakeHandle(e) \/ DropHandle(e) \/ Discard(e)
         \/ ResolveJoints(e) \/ DisableContact
  PROVE  Types'
<1>1. One({e}) \in [Entity -> Int]
  BY OneTyped
<1>2. Plus(ref, One({e})) \in [Entity -> Int] /\ Minus(ref, One({e})) \in [Entity -> Int]
  BY <1>1, SumTyped DEF Types
<1>3. CASE AddEntity(e)
  BY <1>3 DEF AddEntity, Types, report, bodyVars
<1>4. CASE TakeHandle(e) \/ DropHandle(e) \/ Discard(e)
  BY <1>2, <1>4 DEF TakeHandle, DropHandle, Discard, Types, report, bodyVars, history
<1>5. CASE ResolveJoints(e)
  BY <1>5, JointsAssumption DEF ResolveJoints, CreateJoints, Types, report, bodyVars, history
<1>6. CASE DisableContact
  BY <1>6 DEF DisableContact, Types, report, bodyVars
<1>7. QED
  BY <1>3, <1>4, <1>5, <1>6

LEMMA ReferencesOfDestroyTyped ==
  ASSUME Types, NEW e \in Entity,
         phase # "step" => IsFiniteSet({c \in ContactsOf(e) : HasListener(c)})
  PROVE  ReferencesOfDestroy(e) \in [Entity -> Int]
<1>1. One({e}) \in [Entity -> Int] /\ One({}) \in [Entity -> Int]
  BY OneTyped
<1>2. CASE phase # "step"
  <2> DEFINE T == {c \in ContactsOf(e) : HasListener(c)}
  <2>1. T \subseteq Pair
    BY DEF ContactsOf, Types
  <2>2. HeldByEnds(T) \in [Entity -> Int]
    BY <1>2, <2>1, HeldByEndsIs
  <2>3. QED
    BY <1>1, <1>2, <2>2, SumTyped DEF ReferencesOfDestroy
<1>3. CASE phase = "step"
  BY <1>1, <1>3, SumTyped DEF ReferencesOfDestroy
<1>4. QED
  BY <1>2, <1>3

LEMMA TypedByDelete ==
  ASSUME Types, NEW e \in Entity, DeleteEntity(e)
  PROVE  Types'
<1>1. One({e}) \in [Entity -> Int]
  BY OneTyped
<1>2. CASE phase # "step"
  <2>1. EndContacts(ContactsOf(e)) /\ ContactsOf(e) \in SUBSET touching
    BY <1>2 DEF DeleteEntity, Destroy, DestroyAttached, ContactsOf
  <2>2. /\ stacked' \in Seq(Pair)
        /\ touching' \in SUBSET Pair /\ IsFiniteSet(touching')
        /\ IsFiniteSet({c \in ContactsOf(e) : HasListener(c)})
    BY <2>1, EndContactsStacks
  <2>3. ReferencesOfDestroy(e) \in [Entity -> Int]
    BY <2>2, ReferencesOfDestroyTyped
  <2>4. ref' \in [Entity -> Int]
    <3> DEFINE r == ReferencesOfDestroy(e)
    <3>1. ref' = Plus(ref, Minus(r, One({e}))) \/ ref' = Plus(ref, r)
      BY DEF DeleteEntity
    <3>2. ref \in [Entity -> Int] /\ r \in [Entity -> Int]
      BY <2>3 DEF Types
    <3> HIDE DEF r
    <3>3. Minus(r, One({e})) \in [Entity -> Int]
      BY <1>1, <3>2, SumTyped
    <3>4. QED
      BY <3>1, <3>2, <3>3, SumTyped
  <2>5. QED
    BY <1>2, <2>2, <2>4
    DEF DeleteEntity, Destroy, DestroyAttached, EndContacts, SayGoodbye, Types, report
<1>3. CASE phase = "step"
  <2>1. ReferencesOfDestroy(e) \in [Entity -> Int]
    BY <1>3, ReferencesOfDestroyTyped
  <2>2. ref' \in [Entity -> Int]
    <3> DEFINE r == ReferencesOfDestroy(e)
    <3>1. ref' = Plus(ref, Minus(r, One({e}))) \/ ref' = Plus(ref, r)
      BY DEF DeleteEntity
    <3>2. ref \in [Entity -> Int] /\ r \in [Entity -> Int]
      BY <2>1 DEF Types
    <3> HIDE DEF r
    <3>3. Minus(r, One({e})) \in [Entity -> Int]
      BY <1>1, <3>2, SumTyped
    <3>4. QED
      BY <3>1, <3>2, <3>3, SumTyped
  <2>3. QED
    BY <1>3, <2>2 DEF DeleteEntity, Destroy, Types, report
<1>4. QED
  BY <1>2, <1>3

LEMMA TypedByScale ==
  ASSUME Types, NEW e \in Entity, Scale(e)
  PROVE  Types'
<1>1. One({e}) \in [Entity -> Int]
  BY OneTyped
<1>2. EndContacts(ContactsOf(e)) /\ ContactsOf(e) \in SUBSET touching
  BY DEF Scale, DestroyAttached, ContactsOf
<1>3. /\ stacked' \in Seq(Pair)
      /\ touching' \in SUBSET Pair /\ IsFiniteSet(touching')
      /\ IsFiniteSet({c \in ContactsOf(e) : HasListener(c)})
  BY <1>2, EndContactsStacks
<1>4. ReferencesOfDestroy(e) \in [Entity -> Int]
  BY <1>3, ReferencesOfDestroyTyped
<1>5. ref' \in [Entity -> Int]
  BY <1>1, <1>4, SumTyped DEF Scale, Types
<1>6. QED
  BY <1>3, <1>5
  DEF Scale, DestroyAttached, EndContacts, SayGoodbye, Types, report

LEMMA TypedByEndContact ==
  ASSUME Types, NEW c \in Pair, EndContact(c)
  PROVE  Types'
<1>1. EndContacts({c}) /\ {c} \in SUBSET touching
  BY DEF EndContact
<1>2. /\ stacked' \in Seq(Pair)
      /\ touching' \in SUBSET Pair /\ IsFiniteSet(touching')
      /\ IsFiniteSet({d \in {c} : HasListener(d)})
  BY <1>1, EndContactsStacks
<1>3. HeldByEnds({d \in {c} : HasListener(d)}) \in [Entity -> Int]
  BY <1>2, HeldByEndsIs
<1>4. ref' \in [Entity -> Int]
  BY <1>3, SumTyped DEF EndContact, Types
<1>5. QED
  BY <1>2, <1>4 DEF EndContact, EndContacts, Types, report

(* An end callback has a begin callback that it matches.                   *)
LEMMA TypedByCallbackRuns ==
  ASSUME PhysicsInv, CallbackRuns
  PROVE  Types'
<1>1. contact \in Pair /\ side \in {1, 2} /\ ~scripting /\ Types
  BY DEF PhysicsInv, Types, CallbackRuns
<1>2. Told \in Pair /\ Told[1] = contact[side] /\ Ends(Told) = Ends(contact)
  BY <1>1 DEF Told, Pair, Ends
<1>3. ASSUME kind = "end", contact[side] \in Both PROVE open[Told] > 0
  <2>1. /\ Live /\ contact[side] \in Both \intersect body
        /\ stacked # <<>> /\ contact = Head(stacked)
    BY <1>3 DEF CallbackRuns, IsRun, PhysicsInv, Control, Live
  <2>2. MatchOK(Told)
    BY <1>2, <2>1 DEF PhysicsInv, Match
  <2>3. BeginUntold(Told) = 0 /\ EndTold(Told) = 0
    <3>1. ~IsTold(Told[1])
      BY <1>1, <1>2 DEF IsTold
    <3>2. QED
      BY <1>3, <3>1 DEF BeginUntold, EndTold, IsReported
  <2>4. Count(stacked, Same(Told)) > 0
    <3>1. 1 \in 1 .. Len(stacked) /\ stacked[1] = contact
      BY <1>1, <2>1 DEF Types
    <3>2. stacked[1] \in Same(Told)
      BY <1>1, <1>2, <3>1, PairFacts
    <3>3. QED
      BY <1>1, <3>1, <3>2, CountSome DEF Types
  <2>5. Count(stacked, Same(Told)) \in Nat /\ open[Told] \in Nat
    BY <1>1, <1>2, PositionsFinite DEF Types
  <2>6. Unended(Told) \in {0, 1}
    BY DEF Unended
  <2>7. QED
    BY <1>2, <2>1, <2>2, <2>3, <2>4, <2>5, <2>6 DEF MatchOK
<1>4. open' \in [Pair -> Nat]
  <2>1. open \in [Pair -> Nat] /\ open[Told] \in Nat
    BY <1>1, <1>2 DEF Types
  <2>2. CASE contact[side] \notin Both
    <3>1. open' = open
      BY <2>2 DEF CallbackRuns
    <3>2. QED
      BY <2>1, <3>1
  <2>3. CASE contact[side] \in Both /\ kind = "end"
    <3>1. open' = [open EXCEPT ![Told] = @ - 1]
      BY <2>3 DEF CallbackRuns
    <3>2. open[Told] - 1 \in Nat
      BY <1>3, <2>1, <2>3
    <3>3. QED
      BY <2>1, <3>1, <3>2
  <2>4. CASE contact[side] \in Both /\ kind = "begin"
    <3>1. open' = [open EXCEPT ![Told] = @ + 1]
      BY <2>4 DEF CallbackRuns
    <3>2. open[Told] + 1 \in Nat
      BY <2>1
    <3>3. QED
      BY <2>1, <3>1, <3>2
  <2>5. CASE contact[side] \in Both /\ kind # "begin" /\ kind # "end"
    BY <2>1, <2>5 DEF CallbackRuns
  <2>6. QED
    BY <2>2, <2>3, <2>4, <2>5
<1>5. QED
  BY <1>1, <1>4 DEF CallbackRuns, Types, report, bodyVars

LEMMA TypedByEndReported ==
  ASSUME Types, Control, EndReported
  PROVE  Types'
<1>1. stacked \in Seq(Pair) /\ stacked # <<>>
  BY DEF EndReported, Types, Control
<1>2. stacked' \in Seq(Pair)
  BY <1>1, HeadTailProperties DEF EndReported
<1>3. ref' \in [Entity -> Int]
  BY OneTyped, SumTyped DEF EndReported, Types
<1>4. QED
  BY <1>2, <1>3 DEF EndReported, Reports, Types, Kinds, history

LEMMA TypedByKillListed ==
  ASSUME Types, KillListed
  PROVE  Types'
<1>1. PICK e \in listed :
        /\ listed' = listed \ {e}
        /\ body' = body \ {e}
        /\ world' = world \ {e}
        /\ touching' = touching \ ContactsOf(e)
        /\ joints' = joints \ JointsOf(e)
        /\ held' = {j \in held : j[1] # e}
        /\ ref' = Minus(Minus(ref, One({e})), One({e} \intersect body))
  BY DEF KillListed
<1>2. ref' \in [Entity -> Int]
  <2>1. One({e}) \in [Entity -> Int] /\ One({e} \intersect body) \in [Entity -> Int]
    BY OneTyped
  <2>2. Minus(ref, One({e})) \in [Entity -> Int]
    BY <2>1, SumTyped DEF Types
  <2>3. QED
    BY <1>1, <2>1, <2>2, SumTyped
<1>3. touching' \in SUBSET touching /\ IsFiniteSet(touching)
  BY <1>1 DEF Types
<1>4. IsFiniteSet(touching')
  BY ONLY <1>3, FS_Subset
<1>5. QED
  BY <1>1, <1>2, <1>3, <1>4 DEF KillListed, Types, report, history

LEMMA TypedByDestroySimulator ==
  ASSUME Types, DestroySimulator
  PROVE  Types'
<1>1. \A e \in Entity : Cardinality(StackedOf(e)) \in Int /\ ref[e] \in Int
  BY StackedOfIsCount, PositionsFinite DEF Types
<1>2. ref' \in [Entity -> Int]
  BY <1>1 DEF DestroySimulator
<1>3. stacked' \in Seq(Pair)
  BY DEF DestroySimulator
<1>4. QED
  BY <1>2, <1>3 DEF DestroySimulator, Types, report, history

LEMMA TypedByBeginContact ==
  ASSUME Types, NEW c \in Pair, BeginContact(c)
  PROVE  Types'
<1>1. touching' = touching \cup {c}
  BY DEF BeginContact
<1>2. IsFiniteSet(touching')
  BY <1>1, FS_AddElement DEF Types
<1>3. QED
  BY <1>1, <1>2 DEF BeginContact, Reports, Types, Kinds, history

LEMMA TypesStep == PhysicsInv /\ [PhysicsNext]_vars => Types'
<1> SUFFICES ASSUME PhysicsInv, [PhysicsNext]_vars PROVE Types'
  OBVIOUS
<1> USE DEF PhysicsInv
<1>1. ASSUME NEW e \in Entity,
             \/ AddEntity(e) \/ TakeHandle(e) \/ DropHandle(e) \/ Discard(e)
             \/ ResolveJoints(e)
      PROVE  Types'
  BY <1>1, TypedBySimple
<1>2. CASE DisableContact
  BY <1>2 DEF DisableContact, Types, report, bodyVars
<1>3. ASSUME NEW e \in Entity, DeleteEntity(e) \/ Scale(e) PROVE Types'
  BY <1>3, TypedByDelete, TypedByScale
<1>4. ASSUME NEW c \in Pair, EndContact(c) \/ BeginContact(c) PROVE Types'
  BY <1>4, TypedByEndContact, TypedByBeginContact
<1>5. ASSUME NEW c \in Pair, PersistContact(c) PROVE Types'
  BY <1>5 DEF PersistContact, Reports, Types, Kinds, bodyVars
<1>6. CASE CallbackReturns \/ CallbackSkipped
  <2>1. side \in {1, 2} /\ side' = side + 1 /\ kind' = kind /\ contact' = contact
    BY <1>6 DEF CallbackReturns, CallbackSkipped, Control
  <2>2. side' \in 1 .. 3
    BY <2>1
  <2>3. scripting' \in BOOLEAN
    BY <1>6 DEF CallbackReturns, CallbackSkipped, Types
  <2>4. QED
    BY <1>6, <2>1, <2>2, <2>3
    DEF CallbackReturns, CallbackSkipped, Types, bodyVars, history
<1>7. CASE BeginReported \/ PreSolveReported
  <2>1. kind' \in Kinds /\ contact' \in Pair \cup {NoContact} /\ side' = 1
        /\ (kind' # "none" => contact' \in Pair)
    BY <1>7 DEF BeginReported, PreSolveReported, Reports, Types, Kinds
  <2>2. disabled' \in SUBSET Pair /\ disableNextContact' \in BOOLEAN
    BY <1>7 DEF BeginReported, PreSolveReported, Types
  <2>3. QED
    BY <1>7, <2>1, <2>2
    DEF BeginReported, PreSolveReported, Types, bodyVars, history
<1>8. CASE NextEnd
  <2>1. Head(stacked) \in Pair
    BY <1>8 DEF NextEnd, Types
  <2>2. QED
    BY <1>8, <2>1 DEF NextEnd, Reports, Types, Kinds, bodyVars, history
<1>9. CASE \/ CallbackRuns \/ EndReported \/ KillListed \/ DestroySimulator
  BY <1>9, TypedByCallbackRuns, TypedByEndReported, TypedByKillListed,
     TypedByDestroySimulator
<1>10. CASE \/ StepBegins \/ StepEnds \/ StackIsClear \/ SceneIsGone
            \/ Terminated \/ UNCHANGED vars
  BY <1>10 DEF StepBegins, StepEnds, StackIsClear, SceneIsGone, Terminated,
     Types, vars, report, bodyVars, history
<1>11. QED
  BY <1>1, <1>2, <1>3, <1>4, <1>5, <1>6, <1>7, <1>8, <1>9, <1>10
  DEF PhysicsNext, Script, Engine

-------------------------------------------------------------------------------

(* Calls of scripts and of the engine that end contacts: the head of the   *)
(* stack stays while its callbacks run.                                    *)
LEMMA ControlByEnding ==
  ASSUME Types, Control, NEW S \in SUBSET touching, EndContacts(S),
         kind' = kind, contact' = contact, side' = side, scripting' = scripting,
         phase' = phase, Live, phase # "step" \/ kind = "none"
  PROVE  Control'
<1>1. stacked # <<>> => stacked' # <<>> /\ Head(stacked') = Head(stacked)
  BY EndContactsStacks
<1>2. QED
  BY <1>1 DEF Control, Live

(* Scripts are called by a live simulator only.                            *)
LEMMA CallsAreLive ==
  ASSUME Types, Control, CanCall PROVE Live
BY DEF Types, Control, CanCall, Live, Kinds

LEMMA ControlStep == PhysicsInv /\ [PhysicsNext]_vars => Control'
<1> SUFFICES ASSUME Types, Control, [PhysicsNext]_vars PROVE Control'
  BY DEF PhysicsInv
<1>1. ASSUME NEW e \in Entity,
             \/ AddEntity(e) \/ TakeHandle(e) \/ DropHandle(e) \/ Discard(e)
             \/ ResolveJoints(e)
      PROVE  Control'
  BY <1>1 DEF AddEntity, TakeHandle, DropHandle, Discard, ResolveJoints,
     Control, Live, report, bodyVars
<1>2. CASE DisableContact
  BY <1>2 DEF DisableContact, Control, Live, report, bodyVars
<1>3. ASSUME NEW e \in Entity, DeleteEntity(e) PROVE Control'
  <2>1. CASE phase # "step"
    <3>1. EndContacts(ContactsOf(e)) /\ ContactsOf(e) \in SUBSET touching
      BY <1>3, <2>1 DEF DeleteEntity, Destroy, DestroyAttached, ContactsOf
    <3>2. Live
      BY <1>3, CallsAreLive DEF DeleteEntity
    <3>3. QED
      BY <1>3, <2>1, <3>1, <3>2, ControlByEnding DEF DeleteEntity, report
  <2>2. CASE phase = "step"
    BY <1>3, <2>2 DEF DeleteEntity, Destroy, Control, Live, report
  <2>3. QED
    BY <2>1, <2>2
<1>4. ASSUME NEW e \in Entity, Scale(e) PROVE Control'
  <2>1. EndContacts(ContactsOf(e)) /\ ContactsOf(e) \in SUBSET touching
    BY <1>4 DEF Scale, DestroyAttached, ContactsOf
  <2>2. Live
    BY <1>4, CallsAreLive DEF Scale
  <2>3. QED
    BY <1>4, <2>1, <2>2, ControlByEnding DEF Scale, report
<1>5. ASSUME NEW c \in Pair, EndContact(c) PROVE Control'
  <2>1. EndContacts({c}) /\ {c} \in SUBSET touching /\ Live /\ kind = "none"
    BY <1>5 DEF EndContact, CanUpdate, Live
  <2>2. QED
    BY <1>5, <2>1, ControlByEnding DEF EndContact, report
<1>6. ASSUME NEW c \in Pair, BeginContact(c) \/ PersistContact(c) PROVE Control'
  BY <1>6 DEF BeginContact, PersistContact, CanUpdate, Reports, Control, Live,
     bodyVars, history
<1>7. CASE CallbackRuns \/ CallbackReturns \/ CallbackSkipped
  BY <1>7 DEF CallbackRuns, CallbackReturns, CallbackSkipped, Control, Live,
     report, bodyVars, history
<1>8. CASE BeginReported \/ PreSolveReported \/ NextEnd \/ EndReported
  BY <1>8 DEF BeginReported, PreSolveReported, NextEnd, EndReported, Reports,
     Control, Live, bodyVars, history
<1>9. CASE \/ StepBegins \/ StepEnds \/ StackIsClear \/ SceneIsGone
           \/ KillListed \/ DestroySimulator \/ Terminated \/ UNCHANGED vars
  BY <1>9 DEF StepBegins, StepEnds, StackIsClear, SceneIsGone, KillListed,
     DestroySimulator, Terminated, Control, Live, vars, report, bodyVars, history
<1>10. QED
  BY <1>1, <1>2, <1>3, <1>4, <1>5, <1>6, <1>7, <1>8, <1>9
  DEF PhysicsNext, Script, Engine

-------------------------------------------------------------------------------

LEMMA BodiesUnchanged ==
  ASSUME Bodies, body' = body, world' = world, touching' \subseteq touching,
         listed' = listed
  PROVE  Bodies'
BY DEF Bodies

(* A body that goes from the world takes its contacts with it.             *)
LEMMA BodiesDestroyed ==
  ASSUME Bodies, NEW e, body' = body \ {e}, world' = world \ {e},
         touching' = touching \ ContactsOf(e),
         listed' = listed \/ listed' = listed \ {e}
  PROVE  Bodies'
BY DEF Bodies, ContactsOf

LEMMA BodiesTouched ==
  ASSUME Types, Bodies, NEW c \in Pair, BeginContact(c)
  PROVE  Bodies'
<1>1. /\ touching' = touching \cup {c}
      /\ body' = body /\ world' = world /\ listed' = listed
      /\ Ends(c) \subseteq world
      /\ Reversed(c) \notin touching
  BY DEF BeginContact, CanUpdate, CanTouch, Reversed
<1>2. Reversed(c) # c /\ \A d \in touching : Reversed(d) = c => d = Reversed(c)
  <2>1. \A d \in touching : d \in Pair
    BY DEF Types
  <2>2. QED
    BY <2>1, PairFacts DEF Reversed
<1>3. \A d \in touching' : Ends(d) \subseteq world /\ Reversed(d) \notin touching'
  BY <1>1, <1>2 DEF Bodies
<1>4. QED
  BY <1>1, <1>3 DEF Bodies

LEMMA BodiesStep == PhysicsInv /\ [PhysicsNext]_vars => Bodies'
<1> SUFFICES ASSUME Types, Bodies, [PhysicsNext]_vars PROVE Bodies'
  BY DEF PhysicsInv
<1>1. ASSUME NEW e \in Entity, AddEntity(e) \/ Discard(e) PROVE Bodies'
  BY <1>1 DEF AddEntity, Discard, Bodies, bodyVars
<1>2. ASSUME NEW e \in Entity, DeleteEntity(e) PROVE Bodies'
  <2>1. CASE phase # "step"
    <3>1. /\ body' = body \ {e} /\ world' = world \ {e}
          /\ touching' = touching \ ContactsOf(e)
          /\ listed' = listed \/ listed' = listed \ {e}
      BY <1>2, <2>1 DEF DeleteEntity, Destroy, DestroyAttached, EndContacts
    <3>2. QED
      BY <3>1, BodiesDestroyed
  <2>2. CASE phase = "step"
    BY <1>2, <2>2 DEF DeleteEntity, Destroy, Bodies
  <2>3. QED
    BY <2>1, <2>2
<1>3. CASE KillListed
  <2>1. PICK e \in listed :
          /\ body' = body \ {e} /\ world' = world \ {e}
          /\ touching' = touching \ ContactsOf(e)
          /\ listed' = listed \ {e}
    BY <1>3 DEF KillListed
  <2>2. QED
    BY <2>1, BodiesDestroyed
<1>4. ASSUME NEW c \in Pair, BeginContact(c) PROVE Bodies'
  BY <1>4, BodiesTouched
<1>5. ASSUME NEW e \in Entity,
             TakeHandle(e) \/ DropHandle(e) \/ ResolveJoints(e) \/ Scale(e)
      PROVE  Bodies'
  BY <1>5, BodiesUnchanged DEF TakeHandle, DropHandle, ResolveJoints, Scale,
     DestroyAttached, EndContacts, bodyVars
<1>6. ASSUME NEW c \in Pair, PersistContact(c) \/ EndContact(c) PROVE Bodies'
  BY <1>6, BodiesUnchanged DEF PersistContact, EndContact, EndContacts, bodyVars
<1>7. CASE \/ DisableContact \/ CallbackRuns \/ CallbackReturns \/ CallbackSkipped
           \/ BeginReported \/ PreSolveReported \/ NextEnd \/ EndReported
  BY <1>7, BodiesUnchanged DEF DisableContact, CallbackRuns, CallbackReturns,
     CallbackSkipped, BeginReported, PreSolveReported, NextEnd, EndReported, bodyVars
<1>8. CASE \/ StepBegins \/ StepEnds \/ StackIsClear \/ SceneIsGone
           \/ DestroySimulator \/ Terminated \/ UNCHANGED vars
  BY <1>8, BodiesUnchanged DEF StepBegins, StepEnds, StackIsClear, SceneIsGone,
     DestroySimulator, Terminated, vars, bodyVars
<1>9. QED
  BY <1>1, <1>2, <1>3, <1>4, <1>5, <1>6, <1>7, <1>8
  DEF PhysicsNext, Script, Engine

-------------------------------------------------------------------------------

LEMMA ReferencesUnchanged ==
  ASSUME References, ref' = ref, listed' = listed, body' = body,
         handles' = handles, stacked' = stacked
  PROVE  References'
BY DEF References, RefOK

(* What ends a set of contacts takes a reference to both entities of each  *)
(* that is stacked.                                                        *)
LEMMA EndingReferences ==
  ASSUME Types, NEW S \in SUBSET touching, EndContacts(S), NEW x \in Entity
  PROVE  /\ Count(stacked', With(x)) = Count(stacked, With(x))
                + HeldByEnds({c \in S : HasListener(c)})[x]
         /\ HeldByEnds({c \in S : HasListener(c)})[x] \in Int
<1> DEFINE T == {c \in S : HasListener(c)}
<1>1. T \subseteq Pair
  BY DEF Types
<1>2. /\ IsFiniteSet(T)
      /\ Count(stacked', With(x)) = Count(stacked, With(x))
           + Cardinality(T \intersect With(x))
  BY EndContactsStacks
<1> HIDE DEF T
<1>3. HeldByEnds(T)[x] = Cardinality(T \intersect With(x)) /\ HeldByEnds(T)[x] \in Int
  BY <1>1, <1>2, HeldByEndsIs
<1>4. QED
  BY <1>2, <1>3 DEF T

LEMMA ReferencesByDelete ==
  ASSUME Types, Bodies, References, NEW e \in Entity, DeleteEntity(e)
  PROVE  References'
<1> SUFFICES ASSUME NEW x \in Entity PROVE RefOK(x)'
  BY DEF References
<1> DEFINE r == ReferencesOfDestroy(e)
<1> DEFINE one == One({e})
<1> DEFINE gained == Count(stacked', With(x)) - Count(stacked, With(x))
<1>1. r[x] = gained - one[x] /\ Count(stacked', With(x)) \in Int
  <2>1. CASE phase # "step"
    <3> DEFINE h == HeldByEnds({c \in ContactsOf(e) : HasListener(c)})
    <3>1. EndContacts(ContactsOf(e)) /\ ContactsOf(e) \in SUBSET touching
      BY <2>1 DEF DeleteEntity, Destroy, DestroyAttached, ContactsOf
    <3>2. Count(stacked', With(x)) = Count(stacked, With(x)) + h[x] /\ h[x] \in Int
      BY <3>1, EndingReferences
    <3>3. r = Minus(h, one)
      BY <2>1 DEF ReferencesOfDestroy
    <3> HIDE DEF h, r, one
    <3>4. r[x] = h[x] - one[x]
      BY <3>3, PlusMinusAre
    <3>5. QED
      BY <3>2, <3>4, ReferencesTerms
  <2>2. CASE phase = "step"
    <3>1. stacked' = stacked
      BY <2>2 DEF DeleteEntity, Destroy
    <3>2. r = Minus(One({}), one)
      BY <2>2 DEF ReferencesOfDestroy
    <3>3. One({})[x] = 0
      BY OneIs
    <3> HIDE DEF r, one
    <3>4. r[x] = 0 - one[x]
      BY <3>2, <3>3, PlusMinusAre
    <3>5. QED
      BY <3>1, <3>4, ReferencesTerms
  <2>3. QED
    BY <2>1, <2>2
<1>2. /\ e \in body /\ e \in listed
      /\ body' = body \ {e} /\ handles' = handles
  BY DEF DeleteEntity, Destroy, Bodies
<1>3. \/ listed' = listed \ {e} /\ ref' = Plus(ref, Minus(r, one))
      \/ listed' = listed /\ ref' = Plus(ref, r)
  BY DEF DeleteEntity
<1>4. One(body')[x] = One(body)[x] - one[x]
  BY <1>2, OneIs
<1>5. one[x] \in {0, 1} /\ One(listed)[x] \in {0, 1} /\ One(body)[x] \in {0, 1}
      /\ One(handles)[x] \in {0, 1}
  BY OneIs
<1>6. RefOK(x)
  BY DEF References
<1>7. CASE listed' = listed \ {e} /\ ref' = Plus(ref, Minus(r, one))
  <2>1. One(listed')[x] = One(listed)[x] - one[x]
    BY <1>2, <1>7, OneIs
  <2>2. ref'[x] = ref[x] + (r[x] - one[x])
    <3> HIDE DEF r, one
    <3>1. QED
      BY <1>7, PlusMinusAre
  <2> HIDE DEF r, one
  <2>3. QED
    BY <1>1, <1>2, <1>4, <1>5, <1>6, <2>1, <2>2, ReferencesTerms DEF RefOK
<1>8. CASE listed' = listed /\ ref' = Plus(ref, r)
  <2> HIDE DEF r, one
  <2>1. ref'[x] = ref[x] + r[x]
    BY <1>8, PlusMinusAre
  <2>2. QED
    BY <1>1, <1>2, <1>4, <1>5, <1>6, <1>8, <2>1, ReferencesTerms DEF RefOK
<1>9. QED
  BY <1>3, <1>7, <1>8

(* Scale and EndContact: only the ends that are stacked take references.   *)
LEMMA ReferencesByEnding ==
  ASSUME Types, References, NEW S \in SUBSET touching, EndContacts(S),
         NEW h, h = HeldByEnds({c \in S : HasListener(c)}),
         \A x \in Entity : ref'[x] = ref[x] + h[x],
         listed' = listed, body' = body, handles' = handles
  PROVE  References'
<1> SUFFICES ASSUME NEW x \in Entity PROVE RefOK(x)'
  BY DEF References
<1>1. Count(stacked', With(x)) = Count(stacked, With(x)) + h[x] /\ h[x] \in Int
  BY EndingReferences
<1>2. RefOK(x) /\ ref'[x] = ref[x] + h[x]
  BY DEF References
<1>3. One(listed)[x] \in {0, 1} /\ One(body)[x] \in {0, 1} /\ One(handles)[x] \in {0, 1}
  BY OneIs
<1>4. QED
  BY <1>1, <1>2, <1>3, ReferencesTerms DEF RefOK

LEMMA ReferencesByScale ==
  ASSUME Types, References, NEW e \in Entity, Scale(e)
  PROVE  References'
<1> DEFINE h == HeldByEnds({c \in ContactsOf(e) : HasListener(c)})
<1> DEFINE one == One({e})
<1>1. EndContacts(ContactsOf(e)) /\ ContactsOf(e) \in SUBSET touching
  BY DEF Scale, DestroyAttached, ContactsOf
<1>2. phase # "step" /\ listed' = listed /\ body' = body /\ handles' = handles
  BY DEF Scale
<1>3. ref' = Plus(ref, Plus(Minus(h, one), one))
  BY <1>2 DEF Scale, ReferencesOfDestroy
<1>4. ASSUME NEW x \in Entity PROVE ref'[x] = ref[x] + h[x]
  <2>1. one[x] \in Int
    BY OneIs
  <2>2. h[x] \in Int
    BY <1>1, EndingReferences
  <2> HIDE DEF h, one
  <2>3. ref'[x] = ref[x] + ((h[x] - one[x]) + one[x])
    BY <1>3, PlusMinusAre
  <2>4. QED
    BY <2>1, <2>2, <2>3, ReferencesTerms
<1>5. QED
  BY <1>1, <1>2, <1>4, ReferencesByEnding

LEMMA ReferencesByEndContact ==
  ASSUME Types, References, NEW c \in Pair, EndContact(c)
  PROVE  References'
<1> DEFINE h == HeldByEnds({d \in {c} : HasListener(d)})
<1>1. /\ EndContacts({c}) /\ {c} \in SUBSET touching
      /\ ref' = Plus(ref, h)
      /\ listed' = listed /\ body' = body /\ handles' = handles
  BY DEF EndContact
<1>2. \A x \in Entity : ref'[x] = ref[x] + h[x]
  <2> HIDE DEF h
  <2>1. QED
    BY <1>1, PlusMinusAre
<1>3. QED
  BY <1>1, <1>2, ReferencesByEnding

(* The callbacks of a contact that ended release its two entities.         *)
LEMMA ReferencesByEndReported ==
  ASSUME Types, Control, References, EndReported
  PROVE  References'
<1> SUFFICES ASSUME NEW x \in Entity PROVE RefOK(x)'
  BY DEF References
<1>1. /\ stacked \in Seq(Pair) /\ stacked # <<>> /\ contact = Head(stacked)
      /\ contact \in Pair
      /\ stacked' = Tail(stacked)
      /\ ref' = Minus(ref, One(Ends(contact)))
      /\ listed' = listed /\ body' = body /\ handles' = handles
  BY DEF EndReported, Types, Control
<1>2. /\ stacked' \in Seq(Pair)
      /\ Count(stacked, With(x)) = Count(stacked', With(x))
           + (IF contact \in With(x) THEN 1 ELSE 0)
  BY <1>1, CountTail
<1>3. contact \in With(x) <=> x \in Ends(contact)
  BY <1>1 DEF With
<1>4. ref'[x] = ref[x] - One(Ends(contact))[x]
  BY <1>1, PlusMinusAre
<1>5. One(Ends(contact))[x] = IF contact \in With(x) THEN 1 ELSE 0
  BY <1>3, OneIs
<1>6. Count(stacked', With(x)) \in Nat
  BY <1>2, PositionsFinite
<1>7. One(listed)[x] \in {0, 1} /\ One(body)[x] \in {0, 1} /\ One(handles)[x] \in {0, 1}
  BY OneIs
<1> DEFINE own == One(listed)[x] + One(body)[x] + One(handles)[x]
<1> DEFINE before == Count(stacked, With(x))
<1> DEFINE after == Count(stacked', With(x))
<1> DEFINE released == IF contact \in With(x) THEN 1 ELSE 0
<1>8. own \in Nat /\ released \in Nat /\ after \in Nat
  BY <1>6, <1>7
<1>9. ref[x] = own + before
  BY DEF References, RefOK
<1>10. before = after + released /\ ref'[x] = ref[x] - released
  BY <1>2, <1>4, <1>5
<1>11. (ref'[x] = own + after) => RefOK(x)'
  BY <1>1 DEF RefOK, One, With
<1> HIDE DEF own, before, after, released
<1>12. ref'[x] = own + after
  BY ONLY <1>8, <1>9, <1>10
<1>13. QED
  BY ONLY <1>11, <1>12

(* An entity without references is in no place that could hold it.         *)
LEMMA Unreferenced ==
  ASSUME Types, References, NEW e \in Entity, ref[e] = 0
  PROVE  /\ e \notin listed /\ e \notin body /\ e \notin handles
         /\ Count(stacked, With(e)) = 0
<1>1. RefOK(e)
  BY DEF References
<1>2. /\ One(listed)[e] = IF e \in listed THEN 1 ELSE 0
      /\ One(body)[e] = IF e \in body THEN 1 ELSE 0
      /\ One(handles)[e] = IF e \in handles THEN 1 ELSE 0
  BY OneIs
<1>3. QED
  BY <1>1, <1>2, ReferencesTerms DEF RefOK

LEMMA ReferencesByHolding ==
  ASSUME Types, References, NEW e \in Entity,
         AddEntity(e) \/ TakeHandle(e) \/ DropHandle(e) \/ Discard(e)
  PROVE  References'
<1> SUFFICES ASSUME NEW x \in Entity PROVE RefOK(x)'
  BY DEF References
<1>1. stacked' = stacked /\ RefOK(x)
  BY DEF AddEntity, TakeHandle, DropHandle, Discard, bodyVars, References
<1>2. /\ One(listed)[x] = IF x \in listed THEN 1 ELSE 0
      /\ One(body)[x] = IF x \in body THEN 1 ELSE 0
      /\ One(handles)[x] = IF x \in handles THEN 1 ELSE 0
      /\ One(listed')[x] = IF x \in listed' THEN 1 ELSE 0
      /\ One(body')[x] = IF x \in body' THEN 1 ELSE 0
      /\ One(handles')[x] = IF x \in handles' THEN 1 ELSE 0
      /\ One({e})[x] = IF x = e THEN 1 ELSE 0
  BY OneIs
<1>3. /\ Plus(ref, One({e}))[x] = ref[x] + One({e})[x]
      /\ Minus(ref, One({e}))[x] = ref[x] - One({e})[x]
  BY PlusMinusAre
<1>4. CASE AddEntity(e)
  <2>1. /\ ref[e] = 0 /\ handles' = handles
        /\ listed' = listed \cup {e} /\ body' = body \cup {e}
        /\ ref' = [ref EXCEPT ![e] = 2]
    BY <1>4 DEF AddEntity
  <2>2. e \notin listed /\ e \notin body /\ e \notin handles
        /\ Count(stacked, With(e)) = 0
    BY <2>1, Unreferenced
  <2>3. ref'[x] = IF x = e THEN 2 ELSE ref[x]
    BY <2>1 DEF Types
  <2>4. QED
    BY <1>1, <1>2, <2>1, <2>2, <2>3, ReferencesTerms DEF RefOK
<1>5. CASE TakeHandle(e)
  BY <1>1, <1>2, <1>3, <1>5, ReferencesTerms DEF TakeHandle, RefOK, bodyVars
<1>6. CASE DropHandle(e)
  BY <1>1, <1>2, <1>3, <1>6, ReferencesTerms DEF DropHandle, RefOK, bodyVars
<1>7. CASE Discard(e)
  BY <1>1, <1>2, <1>3, <1>7, ReferencesTerms DEF Discard, RefOK, bodyVars
<1>8. QED
  BY <1>4, <1>5, <1>6, <1>7

LEMMA ReferencesByKillListed ==
  ASSUME Types, References, KillListed
  PROVE  References'
<1>1. PICK e \in listed :
        /\ listed' = listed \ {e}
        /\ body' = body \ {e}
        /\ ref' = Minus(Minus(ref, One({e})), One({e} \intersect body))
  BY DEF KillListed
<1>2. handles' = handles /\ stacked' = stacked
  BY DEF KillListed
<1> SUFFICES ASSUME NEW x \in Entity PROVE RefOK(x)'
  BY DEF References
<1>3. /\ One(listed)[x] = IF x \in listed THEN 1 ELSE 0
      /\ One(body)[x] = IF x \in body THEN 1 ELSE 0
      /\ One(handles)[x] \in {0, 1}
      /\ One(listed')[x] = IF x \in listed' THEN 1 ELSE 0
      /\ One(body')[x] = IF x \in body' THEN 1 ELSE 0
      /\ One({e})[x] = IF x = e THEN 1 ELSE 0
      /\ One({e} \intersect body)[x] = IF x = e /\ x \in body THEN 1 ELSE 0
  BY OneIs
<1>4. ref'[x] = (ref[x] - One({e})[x]) - One({e} \intersect body)[x]
  BY <1>1, PlusMinusAre
<1>5. RefOK(x)
  BY DEF References
<1>6. QED
  BY <1>1, <1>2, <1>3, <1>4, <1>5, ReferencesTerms DEF RefOK

LEMMA ReferencesByDestroySimulator ==
  ASSUME Types, References, DestroySimulator
  PROVE  References'
<1> SUFFICES ASSUME NEW x \in Entity PROVE RefOK(x)'
  BY DEF References
<1>1. stacked' = <<>> /\ listed' = listed /\ body' = body /\ handles' = handles
  BY DEF DestroySimulator
<1>2. ref'[x] = ref[x] - Count(stacked, With(x))
  <2>1. ref'[x] = ref[x] - Cardinality(StackedOf(x))
    BY DEF DestroySimulator
  <2>2. Cardinality(StackedOf(x)) = Count(stacked, With(x))
    BY StackedOfIsCount DEF Types
  <2>3. QED
    BY <2>1, <2>2
<1>3. Count(stacked', With(x)) = 0
  BY <1>1, CountEmpty
<1>4. One(listed)[x] \in {0, 1} /\ One(body)[x] \in {0, 1} /\ One(handles)[x] \in {0, 1}
  BY OneIs
<1>5. RefOK(x)
  BY DEF References
<1>6. QED
  BY <1>1, <1>2, <1>3, <1>4, <1>5, ReferencesTerms DEF RefOK

LEMMA ReferencesStep == PhysicsInv /\ [PhysicsNext]_vars => References'
<1> SUFFICES ASSUME Types, Control, Bodies, References, [PhysicsNext]_vars
             PROVE  References'
  BY DEF PhysicsInv
<1>1. ASSUME NEW e \in Entity,
             AddEntity(e) \/ TakeHandle(e) \/ DropHandle(e) \/ Discard(e)
      PROVE  References'
  BY <1>1, ReferencesByHolding
<1>2. ASSUME NEW e \in Entity, DeleteEntity(e) \/ Scale(e) PROVE References'
  BY <1>2, ReferencesByDelete, ReferencesByScale
<1>3. ASSUME NEW c \in Pair, EndContact(c) PROVE References'
  BY <1>3, ReferencesByEndContact
<1>4. CASE EndReported \/ KillListed \/ DestroySimulator
  BY <1>4, ReferencesByEndReported, ReferencesByKillListed,
     ReferencesByDestroySimulator
<1>5. ASSUME NEW e \in Entity, ResolveJoints(e) PROVE References'
  BY <1>5, ReferencesUnchanged DEF ResolveJoints, bodyVars
<1>6. ASSUME NEW c \in Pair, BeginContact(c) \/ PersistContact(c) PROVE References'
  BY <1>6, ReferencesUnchanged DEF BeginContact, PersistContact, bodyVars
<1>7. CASE \/ DisableContact \/ CallbackRuns \/ CallbackReturns \/ CallbackSkipped
           \/ BeginReported \/ PreSolveReported \/ NextEnd
  BY <1>7, ReferencesUnchanged DEF DisableContact, CallbackRuns, CallbackReturns,
     CallbackSkipped, BeginReported, PreSolveReported, NextEnd, bodyVars
<1>8. CASE \/ StepBegins \/ StepEnds \/ StackIsClear \/ SceneIsGone
           \/ Terminated \/ UNCHANGED vars
  BY <1>8, ReferencesUnchanged DEF StepBegins, StepEnds, StackIsClear, SceneIsGone,
     Terminated, vars, bodyVars
<1>9. QED
  BY <1>1, <1>2, <1>3, <1>4, <1>5, <1>6, <1>7, <1>8
  DEF PhysicsNext, Script, Engine

-------------------------------------------------------------------------------
(* Begin and end callbacks                                                 *)

LEMMA MatchTerms ==
  ASSUME Types, NEW p \in Pair
  PROVE  /\ open[p] \in Nat /\ Count(stacked, Same(p)) \in Nat
         /\ BeginUntold(p) \in {0, 1} /\ EndTold(p) \in {0, 1}
         /\ Unended(p) \in {0, 1}
BY PositionsFinite DEF Types, BeginUntold, EndTold, Unended

LEMMA MatchUnchanged ==
  ASSUME Match, open' = open, touching' = touching, stacked' = stacked,
         body' \subseteq body, kind' = kind, contact' = contact, side' = side,
         scripting' = scripting, Live' => Live
  PROVE  Match'
<1> SUFFICES ASSUME NEW p \in Pair, Live', p[1] \in Both \intersect body'
             PROVE  MatchOK(p)'
  BY DEF Match, MatchOK
<1>1. MatchOK(p) /\ p[1] \in Both \intersect body
  BY DEF Match
<1>2. BeginUntold(p)' = BeginUntold(p) /\ EndTold(p)' = EndTold(p)
      /\ Unended(p)' = Unended(p)
  BY DEF BeginUntold, EndTold, Unended, IsReported, IsTold, Touches
<1>3. QED
  BY <1>1, <1>2 DEF MatchOK

(* A contact that ends and is stacked counts as before.                    *)
LEMMA EndingMatch ==
  ASSUME Types, Bodies, NEW S \in SUBSET touching, EndContacts(S),
         NEW p \in Pair, p[1] \in EndCallback
  PROVE  Unended(p)' + Count(stacked', Same(p)) = Unended(p) + Count(stacked, Same(p))
<1> DEFINE T == {c \in S : HasListener(c)}
<1>1. /\ Count(stacked', Same(p)) = Count(stacked, Same(p))
           + Cardinality(T \intersect Same(p))
      /\ touching' = touching \ S
  BY EndContactsStacks DEF EndContacts
<1>2. CASE Same(p) \intersect S = {}
  <2>1. T \intersect Same(p) = {}
    BY <1>2
  <2>2. Cardinality(T \intersect Same(p)) = 0
    BY <2>1, FS_EmptySet
  <2>3. Unended(p)' = Unended(p)
    BY <1>1, <1>2 DEF Unended, Touches, Same, Reversed
  <2> HIDE DEF T
  <2>4. QED
    BY <1>1, <2>2, <2>3, MatchTerms
<1>3. ASSUME NEW c \in Same(p), c \in S
      PROVE  Unended(p)' + Count(stacked', Same(p)) = Unended(p) + Count(stacked, Same(p))
  <2>1. c \in touching /\ c \in Pair /\ Reversed(c) \notin touching
    BY <1>3 DEF Types, Bodies
  <2>2. Same(p) = {c, Reversed(c)} /\ Ends(c) = Ends(p)
    BY <1>3, PairFacts DEF Same
  <2>3. HasListener(c)
    BY <2>2, PairFacts DEF HasListener
  <2>4. T \intersect Same(p) = {c}
    BY <1>3, <2>1, <2>2, <2>3
  <2>5. Cardinality(T \intersect Same(p)) = 1
    BY <2>4, FS_Singleton
  <2>6. Unended(p) = 1
    BY <2>1, <2>2 DEF Unended, Touches, Same, Reversed
  <2>7. Unended(p)' = 0
    BY <1>1, <1>3, <2>1, <2>2 DEF Unended, Touches, Same, Reversed
  <2> HIDE DEF T
  <2>8. QED
    BY <1>1, <2>5, <2>6, <2>7, MatchTerms
<1>4. QED
  BY <1>2, <1>3

LEMMA MatchByEnding ==
  ASSUME Types, Bodies, Match, Live, NEW S \in SUBSET touching, EndContacts(S),
         body' \subseteq body, open' = open, kind' = kind, contact' = contact,
         side' = side, scripting' = scripting
  PROVE  Match'
<1> SUFFICES ASSUME NEW p \in Pair, p[1] \in Both \intersect body'
             PROVE  MatchOK(p)'
  BY DEF Match, MatchOK
<1>1. MatchOK(p) /\ p[1] \in Both \intersect body /\ p[1] \in EndCallback
  BY DEF Match, Both
<1>2. BeginUntold(p)' = BeginUntold(p) /\ EndTold(p)' = EndTold(p)
  BY DEF BeginUntold, EndTold, IsReported, IsTold
<1>3. Unended(p)' + Count(stacked', Same(p)) = Unended(p) + Count(stacked, Same(p))
  BY <1>1, EndingMatch
<1>4. Unended(p)' \in {0, 1} /\ Count(stacked', Same(p)) \in Nat
  BY EndContactsStacks, PositionsFinite DEF Unended
<1>5. QED
  BY <1>1, <1>2, <1>3, <1>4, MatchTerms DEF MatchOK

(* Steps that only change what is reported.                                *)
LEMMA MatchByReport ==
  ASSUME Match, Live, open' = open, touching' = touching, stacked' = stacked,
         body' = body,
         \A p \in Pair : p[1] \in Both \intersect body =>
           BeginUntold(p)' = BeginUntold(p) /\ EndTold(p)' = EndTold(p)
  PROVE  Match'
<1> SUFFICES ASSUME NEW p \in Pair, p[1] \in Both \intersect body
             PROVE  MatchOK(p)'
  BY DEF Match, MatchOK
<1>1. MatchOK(p) /\ Unended(p)' = Unended(p)
  BY DEF Match, Unended, Touches
<1>2. QED
  BY <1>1 DEF MatchOK

(* Who has been told of a contact, by the side whose turn it is.           *)
LEMMA ToldBySide ==
  ASSUME NEW e
  PROVE  /\ side = 1 => (IsTold(e) <=> (contact[1] = e => scripting) /\ contact[2] # e)
         /\ side = 2 => (IsTold(e) <=> (contact[2] = e => scripting))
         /\ side = 3 => IsTold(e)
BY DEF IsTold

LEMMA ToldBySideNext ==
  ASSUME NEW e
  PROVE  /\ side' = 1 => (IsTold(e)' <=> (contact'[1] = e => scripting') /\ contact'[2] # e)
         /\ side' = 2 => (IsTold(e)' <=> (contact'[2] = e => scripting'))
         /\ side' = 3 => IsTold(e)'
BY DEF IsTold

LEMMA MatchByReturn ==
  ASSUME Types, Control, Match, CallbackReturns
  PROVE  Match'
<1>1. /\ side \in {1, 2} /\ scripting /\ ~scripting' /\ side' = side + 1
      /\ kind' = kind /\ contact' = contact
  BY DEF CallbackReturns, Control
<1>2. Live
  BY <1>1 DEF Control, Live, Types, Kinds
<1>3. ASSUME NEW p \in Pair, p[1] \in Both \intersect body
      PROVE  BeginUntold(p)' = BeginUntold(p) /\ EndTold(p)' = EndTold(p)
  <2>1. IsTold(p[1])' <=> IsTold(p[1])
    <3>1. CASE side = 1
      <4>1. side' = 2
        BY <1>1, <3>1
      <4>2. QED
        BY <1>1, <3>1, <4>1, ToldBySide, ToldBySideNext
    <3>2. CASE side = 2
      <4>1. side' = 3
        BY <1>1, <3>2
      <4>2. QED
        BY <1>1, <3>2, <4>1, ToldBySide, ToldBySideNext
    <3>3. QED
      BY <1>1, <3>1, <3>2
  <2>2. QED
    BY <1>1, <2>1 DEF BeginUntold, EndTold, IsReported
<1>4. QED
  BY <1>2, <1>3, MatchByReport DEF CallbackReturns, bodyVars, history

(* A side is skipped that has no callback, or is dead when a contact ends. *)
LEMMA MatchBySkip ==
  ASSUME Types, Control, Match, CallbackSkipped
  PROVE  Match'
<1>1. /\ side \in {1, 2} /\ ~scripting /\ scripting' = scripting /\ side' = side + 1
      /\ kind' = kind /\ contact' = contact /\ kind # "none"
  BY DEF CallbackSkipped
<1>2. Live
  BY <1>1 DEF Control, Live, Types, Kinds
<1>3. ASSUME NEW p \in Pair, p[1] \in Both \intersect body
      PROVE  BeginUntold(p)' = BeginUntold(p) /\ EndTold(p)' = EndTold(p)
  <2>1. CASE kind = "begin" \/ kind = "end"
    <3>1. p[1] # contact[side]
      BY <1>3, <2>1 DEF CallbackSkipped, IsRun, Listens, Both
    <3>2. IsTold(p[1])' <=> IsTold(p[1])
      <4>1. CASE side = 1
        <5>1. side' = 2
          BY <1>1, <4>1
        <5>2. QED
          BY <1>1, <3>1, <4>1, <5>1, ToldBySide, ToldBySideNext
      <4>2. CASE side = 2
        <5>1. side' = 3
          BY <1>1, <4>2
        <5>2. QED
          BY <1>1, <3>1, <4>2, <5>1, ToldBySide, ToldBySideNext
      <4>3. QED
        BY <1>1, <4>1, <4>2
    <3>3. QED
      BY <1>1, <3>2 DEF BeginUntold, EndTold, IsReported
  <2>2. CASE kind # "begin" /\ kind # "end"
    BY <1>1, <2>2 DEF BeginUntold, EndTold, IsReported
  <2>3. QED
    BY <2>1, <2>2
<1>4. QED
  BY <1>2, <1>3, MatchByReport DEF CallbackSkipped, bodyVars, history

(* The reports that begin or end without a change of the balance: pre-     *)
(* solve ones, an end before anybody hears of it, a begin that both heard. *)
LEMMA MatchByTurn ==
  ASSUME Types, Control, Match,
         \/ BeginReported \/ PreSolveReported \/ NextEnd
         \/ \E c \in Pair : PersistContact(c)
  PROVE  Match'
<1>1. /\ Live
      /\ open' = open /\ touching' = touching /\ stacked' = stacked /\ body' = body
  BY DEF BeginReported, PreSolveReported, NextEnd, PersistContact, CanUpdate,
     Control, Live, bodyVars, history
<1>2. ASSUME NEW p \in Pair, p[1] \in Both \intersect body
      PROVE  BeginUntold(p)' = BeginUntold(p) /\ EndTold(p)' = EndTold(p)
  <2>1. CASE BeginReported
    <3>1. IsTold(p[1]) /\ kind = "begin" /\ kind' # "begin" /\ kind' # "end"
      BY <2>1, ToldBySide DEF BeginReported, Reports
    <3>2. QED
      BY <3>1 DEF BeginUntold, EndTold, IsReported
  <2>2. CASE PreSolveReported \/ \E c \in Pair : PersistContact(c)
    BY <2>2 DEF PreSolveReported, PersistContact, CanUpdate, Reports,
       BeginUntold, EndTold, IsReported
  <2>3. CASE NextEnd
    <3>1. /\ kind = "none" /\ ~scripting /\ ~scripting'
          /\ kind' = "end" /\ side' = 1 /\ contact' = Head(stacked)
          /\ contact' \in Pair
      BY <2>3 DEF NextEnd, Reports, Control, Types
    <3>2. Ends(contact') = Ends(p) => ~IsTold(p[1])'
      <4>1. p[1] \in Ends(contact') => contact'[1] = p[1] \/ contact'[2] = p[1]
        BY DEF Ends
      <4>2. QED
        BY <3>1, <4>1, PairFacts, ToldBySideNext
    <3>3. QED
      BY <3>1, <3>2 DEF BeginUntold, EndTold, IsReported
  <2>4. QED
    BY <2>1, <2>2, <2>3
<1>3. QED
  BY <1>1, <1>2, MatchByReport

LEMMA MatchByRun ==
  ASSUME Types, Control, Match, CallbackRuns
  PROVE  Match'
<1>1. /\ side \in {1, 2} /\ ~scripting /\ scripting' /\ side' = side
      /\ kind' = kind /\ contact' = contact /\ contact \in Pair /\ kind # "none"
      /\ body' = body /\ touching' = touching /\ stacked' = stacked
      /\ open \in [Pair -> Nat]
  BY DEF CallbackRuns, Types, report, bodyVars
<1>2. Live
  BY <1>1 DEF Control, Live, Types, Kinds
<1>3. /\ Told \in Pair /\ Told[1] = contact[side] /\ Told[2] = contact[3 - side]
      /\ Ends(Told) = Ends(contact)
  BY <1>1 DEF Told, Pair, Ends
<1>4. /\ contact[side] \notin Both => open' = open
      /\ contact[side] \in Both /\ kind = "begin" =>
           open' = [open EXCEPT ![Told] = @ + 1]
      /\ contact[side] \in Both /\ kind = "end" =>
           open' = [open EXCEPT ![Told] = @ - 1]
      /\ contact[side] \in Both /\ kind # "begin" /\ kind # "end" => open' = open
  BY DEF CallbackRuns
<1> SUFFICES ASSUME NEW p \in Pair, p[1] \in Both \intersect body
             PROVE  MatchOK(p)'
  BY <1>1 DEF Match, MatchOK
<1>5. MatchOK(p) /\ Unended(p)' = Unended(p)
  BY <1>1, <1>2 DEF Match, Unended, Touches
<1>6. CASE p[1] # contact[side] \/ Ends(p) # Ends(contact)
  <2>1. open'[p] = open[p]
    <3>1. p # Told
      BY <1>3, <1>6
    <3>2. QED
      BY <1>1, <1>4, <3>1
  <2>2. BeginUntold(p)' = BeginUntold(p) /\ EndTold(p)' = EndTold(p)
    <3>1. CASE p[1] # contact[side]
      <4>1. IsTold(p[1])' <=> IsTold(p[1])
        BY <1>1, <3>1, ToldBySide, ToldBySideNext
      <4>2. QED
        BY <1>1, <4>1 DEF BeginUntold, EndTold, IsReported
    <3>2. CASE Ends(p) # Ends(contact)
      BY <1>1, <3>2 DEF BeginUntold, EndTold, IsReported
    <3>3. QED
      BY <1>6, <3>1, <3>2
  <2>3. QED
    BY <1>1, <1>5, <2>1, <2>2 DEF MatchOK
<1>7. CASE p[1] = contact[side] /\ Ends(p) = Ends(contact)
  <2>1. p = Told
    BY <1>3, <1>7 DEF Pair, Ends
  <2>2. ~IsTold(p[1]) /\ IsTold(p[1])'
    <3>1. contact[3 - side] # p[1]
      BY <1>1, <1>7 DEF Pair
    <3>2. CASE side = 1
      BY <1>1, <1>7, <3>1, <3>2, ToldBySide, ToldBySideNext
    <3>3. CASE side = 2
      BY <1>1, <1>7, <3>1, <3>3, ToldBySide, ToldBySideNext
    <3>4. QED
      BY <1>1, <3>2, <3>3
  <2>3. CASE kind = "begin"
    <3>1. open'[p] = open[p] + 1
      BY <1>1, <1>4, <1>7, <2>1, <2>3
    <3>2. /\ BeginUntold(p) = 1 /\ BeginUntold(p)' = 0
          /\ EndTold(p) = 0 /\ EndTold(p)' = 0
      BY <1>1, <1>7, <2>2, <2>3 DEF BeginUntold, EndTold, IsReported
    <3>3. QED
      BY <1>1, <1>5, <3>1, <3>2, MatchTerms DEF MatchOK
  <2>4. CASE kind = "end"
    <3>1. open'[p] = open[p] - 1
      BY <1>1, <1>4, <1>7, <2>1, <2>4
    <3>2. /\ BeginUntold(p) = 0 /\ BeginUntold(p)' = 0
          /\ EndTold(p) = 0 /\ EndTold(p)' = 1
      BY <1>1, <1>7, <2>2, <2>4 DEF BeginUntold, EndTold, IsReported
    <3>3. QED
      BY <1>1, <1>5, <3>1, <3>2, MatchTerms DEF MatchOK
  <2>5. CASE kind # "begin" /\ kind # "end"
    <3>1. open' = open
      BY <1>4, <2>5
    <3>2. BeginUntold(p)' = BeginUntold(p) /\ EndTold(p)' = EndTold(p)
      BY <1>1, <2>5 DEF BeginUntold, EndTold, IsReported
    <3>3. QED
      BY <1>1, <1>5, <3>1, <3>2 DEF MatchOK
  <2>6. QED
    BY <2>3, <2>4, <2>5
<1>8. QED
  BY <1>6, <1>7

LEMMA MatchByBegin ==
  ASSUME Types, Control, Match, NEW c \in Pair, BeginContact(c)
  PROVE  Match'
<1>1. /\ Live /\ kind = "none" /\ ~scripting /\ ~scripting'
      /\ kind' = "begin" /\ contact' = c /\ side' = 1
      /\ touching' = touching \cup {c}
      /\ c \notin touching /\ Reversed(c) \notin touching
      /\ open' = open /\ stacked' = stacked /\ body' = body
  BY DEF BeginContact, CanUpdate, CanTouch, Reports, Control, Live, Reversed, history
<1> SUFFICES ASSUME NEW p \in Pair, p[1] \in Both \intersect body
             PROVE  MatchOK(p)'
  BY <1>1 DEF Match, MatchOK
<1>2. MatchOK(p)
  BY <1>1 DEF Match
<1>3. BeginUntold(p) = 0 /\ EndTold(p) = 0 /\ EndTold(p)' = 0
  BY <1>1 DEF BeginUntold, EndTold, IsReported
<1>4. CASE c \in Same(p)
  <2>1. Ends(c) = Ends(p) /\ {p, Reversed(p)} = {c, Reversed(c)}
    BY <1>4, PairFacts DEF Same
  <2>2. Unended(p) = 0 /\ Unended(p)' = 1
    BY <1>1, <2>1 DEF Unended, Touches, Reversed
  <2>3. ~IsTold(p[1])'
    <3>1. c[1] = p[1] \/ c[2] = p[1]
      BY <2>1, PairFacts DEF Ends
    <3>2. QED
      BY <1>1, <3>1, ToldBySideNext
  <2>4. BeginUntold(p)' = 1
    BY <1>1, <2>1, <2>3 DEF BeginUntold, IsReported
  <2>5. QED
    BY <1>1, <1>2, <1>3, <2>2, <2>4, MatchTerms DEF MatchOK
<1>5. CASE c \notin Same(p)
  <2>1. Ends(c) # Ends(p)
    BY <1>5, PairFacts
  <2>2. Unended(p)' = Unended(p)
    BY <1>1, <1>5 DEF Unended, Touches, Same, Reversed
  <2>3. BeginUntold(p)' = 0
    BY <1>1, <2>1 DEF BeginUntold, IsReported
  <2>4. QED
    BY <1>1, <1>2, <1>3, <2>2, <2>3 DEF MatchOK
<1>6. QED
  BY <1>4, <1>5

LEMMA MatchByEndReported ==
  ASSUME Types, Control, Match, EndReported
  PROVE  Match'
<1>1. /\ Live /\ kind = "end" /\ kind' = "none" /\ side = 3
      /\ stacked \in Seq(Pair) /\ stacked # <<>> /\ contact = Head(stacked)
      /\ contact \in Pair /\ stacked' = Tail(stacked)
      /\ open' = open /\ touching' = touching /\ body' = body
  BY DEF EndReported, Reports, Control, Types, Live, history
<1> SUFFICES ASSUME NEW p \in Pair, p[1] \in Both \intersect body
             PROVE  MatchOK(p)'
  BY <1>1 DEF Match, MatchOK
<1>2. MatchOK(p) /\ Unended(p)' = Unended(p)
  BY <1>1 DEF Match, Unended, Touches
<1>3. /\ stacked' \in Seq(Pair)
      /\ Count(stacked, Same(p)) = Count(stacked', Same(p))
           + (IF contact \in Same(p) THEN 1 ELSE 0)
  BY <1>1, CountTail
<1>4. EndTold(p) = IF contact \in Same(p) THEN 1 ELSE 0
  BY <1>1, PairFacts, ToldBySide DEF EndTold, IsReported
<1>5. BeginUntold(p) = 0 /\ BeginUntold(p)' = 0 /\ EndTold(p)' = 0
  BY <1>1 DEF BeginUntold, EndTold, IsReported
<1>6. Count(stacked', Same(p)) \in Nat
  BY <1>3, PositionsFinite
<1>7. QED
  BY <1>1, <1>2, <1>3, <1>4, <1>5, <1>6, MatchTerms DEF MatchOK

(* A new body has no contacts, nor has the stack any of its entity.        *)
LEMMA MatchByAdd ==
  ASSUME Types, Control, Bodies, References, Match, NEW e \in Entity, AddEntity(e)
  PROVE  Match'
<1>1. /\ CanCall /\ phase # "step" /\ e \notin world /\ ref[e] = 0
      /\ body' = body \cup {e}
      /\ open' = [p \in Pair |-> IF p[1] = e THEN 0 ELSE open[p]]
      /\ touching' = touching /\ stacked' = stacked
      /\ kind' = kind /\ contact' = contact /\ side' = side /\ scripting' = scripting
  BY DEF AddEntity, report
<1>2. Live
  BY <1>1, CallsAreLive
<1> SUFFICES ASSUME NEW p \in Pair, p[1] \in Both \intersect body'
             PROVE  MatchOK(p)'
  BY <1>1 DEF Match, MatchOK
<1>3. MatchOK(p) /\ Unended(p)' = Unended(p)
      /\ BeginUntold(p)' = BeginUntold(p) /\ EndTold(p)' = EndTold(p)
  BY <1>1, <1>2 DEF Match, Unended, Touches, BeginUntold, EndTold, IsReported, IsTold
<1>4. CASE p[1] # e
  BY <1>1, <1>3, <1>4 DEF MatchOK
<1>5. CASE p[1] = e
  <2>1. open'[p] = 0
    BY <1>1, <1>5
  <2>2. Unended(p) = 0
    <3>1. p \notin touching /\ Reversed(p) \notin touching
      BY <1>1, <1>5, PairFacts DEF Bodies
    <3>2. QED
      BY <3>1 DEF Unended, Touches, Reversed
  <2>3. \A i \in 1 .. Len(stacked) : stacked[i] \notin With(e)
    BY <1>1, Unreferenced, CountNone DEF Types
  <2>4. Same(p) \subseteq With(e)
    BY <1>5, PairFacts DEF Same, With
  <2>5. Count(stacked, Same(p)) = 0
    <3>1. Positions(stacked, Same(p)) = {}
      BY <2>3, <2>4 DEF Positions
    <3>2. QED
      BY <3>1, FS_EmptySet DEF Count
  <2>6. BeginUntold(p) = 0
    BY <1>1 DEF BeginUntold, IsReported, Control
  <2>7. EndTold(p) = 0
    <3>1. ASSUME kind = "end" PROVE Ends(contact) # Ends(p)
      <4>1. contact \in Pair /\ stacked # <<>> /\ contact = Head(stacked)
        BY <3>1 DEF Control, Types
      <4>2. 1 \in 1 .. Len(stacked) /\ stacked[1] = contact
        BY <4>1 DEF Types
      <4>3. QED
        BY <2>3, <2>4, <4>1, <4>2, PairFacts
    <3>2. QED
      BY <3>1 DEF EndTold, IsReported
  <2>8. QED
    BY <1>1, <1>3, <2>1, <2>2, <2>5, <2>6, <2>7 DEF MatchOK
<1>6. QED
  BY <1>4, <1>5

LEMMA MatchByDelete ==
  ASSUME Types, Control, Bodies, Match, NEW e \in Entity, DeleteEntity(e)
  PROVE  Match'
<1>1. /\ body' \subseteq body /\ open' = open /\ kind' = kind /\ contact' = contact
      /\ side' = side /\ scripting' = scripting /\ phase' = phase
  BY DEF DeleteEntity, Destroy, report
<1>2. CASE phase # "step"
  <2>1. EndContacts(ContactsOf(e)) /\ ContactsOf(e) \in SUBSET touching
    BY <1>2 DEF DeleteEntity, Destroy, DestroyAttached, ContactsOf
  <2>2. Live
    BY CallsAreLive DEF DeleteEntity
  <2>3. QED
    BY <1>1, <2>1, <2>2, MatchByEnding
<1>3. CASE phase = "step"
  BY <1>1, <1>3, MatchUnchanged DEF DeleteEntity, Destroy, Live
<1>4. QED
  BY <1>2, <1>3

LEMMA MatchByScale ==
  ASSUME Types, Control, Bodies, Match, NEW e \in Entity, Scale(e)
  PROVE  Match'
<1>1. EndContacts(ContactsOf(e)) /\ ContactsOf(e) \in SUBSET touching
  BY DEF Scale, DestroyAttached, ContactsOf
<1>2. Live
  BY CallsAreLive DEF Scale
<1>3. QED
  BY <1>1, <1>2, MatchByEnding DEF Scale, report

LEMMA MatchStep == PhysicsInv /\ [PhysicsNext]_vars => Match'
<1> SUFFICES ASSUME Types, Control, Bodies, References, Match, [PhysicsNext]_vars
             PROVE  Match'
  BY DEF PhysicsInv
<1>1. ASSUME NEW e \in Entity, AddEntity(e) PROVE Match'
  BY <1>1, MatchByAdd
<1>2. ASSUME NEW e \in Entity, DeleteEntity(e) \/ Scale(e) PROVE Match'
  BY <1>2, MatchByDelete, MatchByScale
<1>3. ASSUME NEW e \in Entity,
             TakeHandle(e) \/ DropHandle(e) \/ Discard(e) \/ ResolveJoints(e)
      PROVE  Match'
  BY <1>3, MatchUnchanged DEF TakeHandle, DropHandle, Discard, ResolveJoints, Live,
     report, bodyVars, history
<1>4. ASSUME NEW c \in Pair, BeginContact(c) PROVE Match'
  BY <1>4, MatchByBegin
<1>5. ASSUME NEW c \in Pair, EndContact(c) PROVE Match'
  <2>1. EndContacts({c}) /\ {c} \in SUBSET touching /\ Live
    BY <1>5 DEF EndContact, CanUpdate, Live
  <2>2. QED
    BY <1>5, <2>1, MatchByEnding DEF EndContact, report
<1>6. CASE \/ BeginReported \/ PreSolveReported \/ NextEnd
           \/ \E c \in Pair : PersistContact(c)
  BY <1>6, MatchByTurn
<1>7. CASE CallbackRuns \/ CallbackReturns \/ CallbackSkipped \/ EndReported
  BY <1>7, MatchByRun, MatchByReturn, MatchBySkip, MatchByEndReported
<1>8. CASE DisableContact
  BY <1>8, MatchUnchanged DEF DisableContact, Live, report, bodyVars
<1>9. CASE StepBegins \/ StepEnds \/ StackIsClear \/ Terminated \/ UNCHANGED vars
  BY <1>9, MatchUnchanged DEF StepBegins, StepEnds, StackIsClear, Terminated, Live,
     vars, report, bodyVars, history
<1>10. CASE DestroySimulator \/ KillListed \/ SceneIsGone
  BY <1>10 DEF DestroySimulator, KillListed, SceneIsGone, Match, Live
<1>11. QED
  BY <1>1, <1>2, <1>3, <1>4, <1>5, <1>6, <1>7, <1>8, <1>9, <1>10
  DEF PhysicsNext, Script, Engine

-------------------------------------------------------------------------------

LEMMA PhysicsInvInit == PhysicsInit => PhysicsInv
<1> SUFFICES ASSUME PhysicsInit PROVE PhysicsInv
  OBVIOUS
<1>1. Types
  <2>1. ref \in [Entity -> Int] /\ open \in [Pair -> Nat]
    BY DEF PhysicsInit
  <2>2. stacked \in Seq(Pair) /\ IsFiniteSet(touching)
    BY FS_EmptySet DEF PhysicsInit
  <2>3. /\ kind \in Kinds /\ contact \in Pair \cup {NoContact} /\ side \in 1 .. 3
        /\ kind = "none"
    BY DEF PhysicsInit, Kinds
  <2>4. scripting \in BOOLEAN /\ disableNextContact \in BOOLEAN
    BY DEF PhysicsInit
  <2>5. QED
    BY <2>1, <2>2, <2>3, <2>4 DEF PhysicsInit, Types
<1>2. Control
  BY DEF PhysicsInit, Control, Live
<1>3. Bodies
  BY DEF PhysicsInit, Bodies
<1>4. References
  BY CountEmpty DEF PhysicsInit, References, RefOK, One
<1>5. Match
  BY DEF PhysicsInit, Match, MatchOK
<1>6. QED
  BY <1>1, <1>2, <1>3, <1>4, <1>5 DEF PhysicsInv

THEOREM PhysicsIsInvariant == PhysicsSafety => []PhysicsInv
<1>1. PhysicsInv /\ [PhysicsNext]_vars => PhysicsInv'
  BY TypesStep, ControlStep, BodiesStep, ReferencesStep, MatchStep DEF PhysicsInv
<1>2. QED
  BY <1>1, PhysicsInvInit, PTL DEF PhysicsSafety

(* Every reference to an entity is held by its bucket, its body, a script  *)
(* or a contact in the stack: what AddEntity, CreateBody, EndContact, the  *)
(* end callbacks, Destroy and the destructor take and release adds up,     *)
(* whatever scripts delete and in the step too.                            *)
THEOREM ReferencesAreExact == PhysicsSafety => []RefExact
<1>1. PhysicsInv => RefExact
  BY StackedOfIsCount DEF PhysicsInv, References, RefOK, RefExact, Types
<1>2. QED
  BY <1>1, PhysicsIsInvariant, PTL

(* The variables have their types: no count of references and no balance   *)
(* of callbacks gets below zero.                                           *)
THEOREM PhysicsTypes == PhysicsSafety => []PhysicsTypeOK
<1>1. PhysicsInv => PhysicsTypeOK
  <2> SUFFICES ASSUME PhysicsInv PROVE PhysicsTypeOK
    OBVIOUS
  <2>1. ASSUME NEW x \in Entity PROVE ref[x] \in Nat
    <3>1. RefOK(x) /\ Types
      BY DEF PhysicsInv, References
    <3>2. One(listed)[x] \in Nat /\ One(body)[x] \in Nat /\ One(handles)[x] \in Nat
      BY OneIs
    <3>3. QED
      BY <3>1, <3>2, ReferencesTerms DEF RefOK
  <2>2. QED
    BY <2>1 DEF PhysicsInv, Types, PhysicsTypeOK
<1>2. QED
  BY <1>1, PhysicsIsInvariant, PTL

(* The begin callbacks an entity is told of are matched by end callbacks,  *)
(* one for one, in whatever order contacts begin, end and are served and   *)
(* bodies are destroyed: by scripts, between steps and while the stack     *)
(* runs.                                                                   *)
THEOREM CallbacksAreMatched == PhysicsSafety => []CallbacksMatch
<1>1. PhysicsInv => CallbacksMatch
  <2> SUFFICES ASSUME PhysicsInv, Live, NEW p \in Pair,
                      p[1] \in Both \intersect body
               PROVE  open[p] + Number(IsReported("begin", p) /\ ~IsTold(p[1]))
                        = Number(Touches(p)) + Cardinality(EndsStacked(p))
                            - Number(IsReported("end", p) /\ IsTold(p[1]))
    BY DEF CallbacksMatch, Live
  <2>1. MatchOK(p)
    BY DEF PhysicsInv, Match
  <2>2. Cardinality(EndsStacked(p)) = Count(stacked, Same(p))
    BY EndsStackedIsCount DEF PhysicsInv, Types
  <2>3. QED
    BY <2>1, <2>2 DEF MatchOK, BeginUntold, EndTold, Unended, Number
<1>2. QED
  BY <1>1, PhysicsIsInvariant, PTL

-------------------------------------------------------------------------------
(* As long as no script deletes an entity in the step, the world and the   *)
(* controllers know of the same bodies and joints.                         *)

Locked ==
  /\ world = body
  /\ \A j \in held : j[1] \in body
  /\ Live => held = joints /\ \A j \in joints : Ends(j) \subseteq world
  /\ phase = "gone" => listed = {}

LEMMA LockedUnchanged ==
  ASSUME Locked, world' = world, body' = body, joints' = joints, held' = held,
         Live' => Live, phase' # "gone"
  PROVE  Locked'
BY DEF Locked

(* A body that goes from the world takes its joints with it, and their     *)
(* owners forget them.                                                     *)
LEMMA LockedDestroyed ==
  ASSUME Locked, Live, phase' = phase, NEW e \in Entity,
         \/ body' = body \ {e} /\ world' = world \ {e}
         \/ body' = body /\ world' = world,
         joints' = joints \ JointsOf(e), held' = held \ JointsOf(e)
  PROVE  Locked'
<1>1. held' = joints' /\ \A j \in joints' : j \in joints /\ e \notin Ends(j)
  BY DEF Locked, JointsOf
<1>2. \A j \in joints' : Ends(j) \subseteq world' /\ j[1] \in body'
  BY <1>1 DEF Locked, Ends
<1>3. world' = body' /\ phase' # "gone"
  BY DEF Locked, Live
<1>4. QED
  BY <1>1, <1>2, <1>3 DEF Locked

LEMMA LockedStep ==
  ASSUME "DeleteInStep" \notin Calls
  PROVE  PhysicsInv /\ Locked /\ [PhysicsNext]_vars => Locked'
<1> SUFFICES ASSUME Types, Control, Bodies, Locked, [PhysicsNext]_vars PROVE Locked'
  BY DEF PhysicsInv
<1>1. ASSUME NEW e \in Entity, AddEntity(e) PROVE Locked'
  <2>1. Live
    BY <1>1, CallsAreLive DEF AddEntity
  <2>2. QED
    BY <1>1, <2>1 DEF AddEntity, Locked, Live
<1>2. ASSUME NEW e \in Entity, DeleteEntity(e) PROVE Locked'
  <2>1. Live
    BY <1>2, CallsAreLive DEF DeleteEntity
  <2>2. phase # "step"
    BY <1>2 DEF DeleteEntity
  <2>3. /\ body' = body \ {e} /\ world' = world \ {e}
        /\ joints' = joints \ JointsOf(e) /\ held' = held \ JointsOf(e)
        /\ phase' = phase
    BY <1>2, <2>2 DEF DeleteEntity, Destroy, DestroyAttached, SayGoodbye
  <2>4. QED
    BY <2>1, <2>3, LockedDestroyed
<1>3. ASSUME NEW e \in Entity, Scale(e) PROVE Locked'
  <2>1. Live
    BY <1>3, CallsAreLive DEF Scale
  <2>2. /\ body' = body /\ world' = world
        /\ joints' = joints \ JointsOf(e) /\ held' = held \ JointsOf(e)
        /\ phase' = phase
    BY <1>3 DEF Scale, DestroyAttached, SayGoodbye
  <2>3. QED
    BY <2>1, <2>2, LockedDestroyed
<1>4. ASSUME NEW e \in Entity, ResolveJoints(e) PROVE Locked'
  <2>1. Live /\ e \in body /\ phase' = phase
    BY <1>4, CallsAreLive DEF ResolveJoints
  <2> DEFINE made == {j \in JointDefinition : j[1] = e /\ j[2] \in body}
  <2>2. joints' = joints \cup made /\ held' = held \cup made
        /\ world' = world /\ body' = body
    BY <1>4 DEF ResolveJoints, CreateJoints, bodyVars
  <2>3. \A j \in made : Ends(j) \subseteq body /\ j[1] \in body
    BY <2>1 DEF Ends
  <2> HIDE DEF made
  <2>4. QED
    BY <2>1, <2>2, <2>3 DEF Locked, Live
<1>5. ASSUME NEW e \in Entity, TakeHandle(e) \/ DropHandle(e) \/ Discard(e)
      PROVE  Locked'
  <2>1. Live
    BY <1>5, CallsAreLive DEF TakeHandle, DropHandle, Discard
  <2>2. QED
    BY <1>5, <2>1, LockedUnchanged DEF TakeHandle, DropHandle, Discard, bodyVars, Live
<1>6. CASE DisableContact
  <2>1. Live
    BY <1>6, CallsAreLive DEF DisableContact
  <2>2. QED
    BY <1>6, <2>1, LockedUnchanged DEF DisableContact, bodyVars, Live
<1>7. ASSUME NEW c \in Pair, BeginContact(c) \/ PersistContact(c) \/ EndContact(c)
      PROVE  Locked'
  BY <1>7, LockedUnchanged DEF BeginContact, PersistContact, EndContact, CanUpdate,
     bodyVars, Live
<1>8. CASE \/ CallbackRuns \/ CallbackReturns \/ CallbackSkipped \/ BeginReported
           \/ PreSolveReported \/ NextEnd \/ EndReported
  <2>1. Live
    BY <1>8 DEF CallbackRuns, CallbackReturns, CallbackSkipped, BeginReported,
       PreSolveReported, NextEnd, EndReported, Control, Types, Kinds, Live
  <2>2. QED
    BY <1>8, <2>1, LockedUnchanged DEF CallbackRuns, CallbackReturns,
       CallbackSkipped, BeginReported, PreSolveReported, NextEnd, EndReported,
       bodyVars, Live
<1>9. CASE StepBegins \/ StepEnds \/ StackIsClear \/ DestroySimulator
  BY <1>9, LockedUnchanged DEF StepBegins, StepEnds, StackIsClear, DestroySimulator,
     bodyVars, Live
<1>10. CASE KillListed
  BY <1>10 DEF KillListed, Locked, Live
<1>11. CASE SceneIsGone
  BY <1>11 DEF SceneIsGone, Locked, Live, bodyVars
<1>12. CASE Terminated \/ UNCHANGED vars
  BY <1>12 DEF Terminated, Locked, Live, vars, bodyVars
<1>13. QED
  BY <1>1, <1>2, <1>3, <1>4, <1>5, <1>6, <1>7, <1>8, <1>9, <1>10, <1>11, <1>12
  DEF PhysicsNext, Script, Engine

LEMMA PhysicsIsLocked ==
  ASSUME "DeleteInStep" \notin Calls PROVE PhysicsSafety => [](PhysicsInv /\ Locked)
<1>1. PhysicsInit => Locked
  BY DEF PhysicsInit, Locked
<1>2. Locked /\ PhysicsInv /\ [PhysicsNext]_vars => Locked'
  BY LockedStep
<1>3. QED
  BY <1>1, <1>2, PhysicsIsInvariant, PTL DEF PhysicsSafety

(* The world has the bodies of the controllers and contacts between them   *)
(* only, and an entity with a body has another reference, which the        *)
(* release in Destroy before the last use of the body relies on.           *)
THEOREM WorldIsKept ==
  ASSUME "DeleteInStep" \notin Calls PROVE PhysicsSafety => []WorldIsSound
<1>1. PhysicsInv /\ Locked => WorldIsSound
  <2> SUFFICES ASSUME PhysicsInv, Locked PROVE WorldIsSound
    OBVIOUS
  <2>1. ASSUME NEW e \in body PROVE ref[e] > 1
    <3>1. Types /\ e \in Entity /\ e \in listed /\ RefOK(e)
      BY DEF PhysicsInv, Types, Bodies, References
    <3>2. One(listed)[e] = 1 /\ One(body)[e] = 1 /\ One(handles)[e] \in {0, 1}
      BY <3>1, OneIs
    <3>3. QED
      BY <3>1, <3>2, ReferencesTerms DEF RefOK
  <2>2. QED
    BY <2>1 DEF PhysicsInv, Locked, Bodies, WorldIsSound
<1>2. QED
  BY <1>1, PhysicsIsLocked, PTL

(* The controllers point to the joints of the world, and those connect     *)
(* bodies that exist, whichever of the two went first.                     *)
THEOREM JointsAreInSync ==
  ASSUME "DeleteInStep" \notin Calls PROVE PhysicsSafety => []JointsInSync
<1>1. Locked => JointsInSync
  BY DEF Locked, JointsInSync, Live
<1>2. QED
  BY <1>1, PhysicsIsLocked, PTL

(* The destructors of the simulator and of the buckets release everything  *)
(* but what scripts hold: the stack, the bodies, the joints.               *)
THEOREM NothingIsLeft ==
  ASSUME "DeleteInStep" \notin Calls PROVE PhysicsSafety => []NothingOutlivesScene
<1>1. PhysicsInv /\ Locked => NothingOutlivesScene
  <2> SUFFICES ASSUME PhysicsInv, Locked, phase = "gone"
               PROVE  body = {} /\ world = {} /\ held = {} /\ ref = One(handles)
    BY DEF NothingOutlivesScene
  <2>1. listed = {} /\ body = {} /\ world = {} /\ held = {} /\ stacked = <<>>
    BY DEF PhysicsInv, Locked, Bodies, Control, Live
  <2>2. ASSUME NEW x \in Entity PROVE ref[x] = One(handles)[x]
    <3>1. RefOK(x) /\ Count(stacked, With(x)) = 0
      BY <2>1, CountEmpty DEF PhysicsInv, References
    <3>2. One(listed)[x] = 0 /\ One(body)[x] = 0 /\ One(handles)[x] \in {0, 1}
      BY <2>1, OneIs
    <3>3. QED
      BY <3>1, <3>2 DEF RefOK
  <2>3. ref \in [Entity -> Int] /\ One(handles) \in [Entity -> Int]
    BY OneTyped DEF PhysicsInv, Types
  <2>4. ref = One(handles)
    BY <2>2, <2>3
  <2>5. QED
    BY <2>1, <2>4
<1>2. QED
  BY <1>1, PhysicsIsLocked, PTL

(* RunContactCallback takes the entity from the body of the side: begin    *)
(* and pre-solve callbacks, which do not check, find one because a contact *)
(* is between bodies of the world, and end callbacks because they check.   *)
THEOREM CallbacksHaveBodies ==
  ASSUME "DeleteInStep" \notin Calls PROVE PhysicsSafety => CallbackHasBody
<1> DEFINE Runs == kind # "none" /\ ~scripting /\ scripting' => contact[side] \in body
<1>1. PhysicsInv /\ Locked /\ [PhysicsNext]_vars => [Runs]_vars
  <2> SUFFICES ASSUME PhysicsInv, Locked, PhysicsNext, kind # "none",
                      ~scripting, scripting'
               PROVE  contact[side] \in body
    BY DEF Runs
  <2>1. CallbackRuns
    BY DEF PhysicsNext, Script, Engine, AddEntity, TakeHandle, DropHandle,
       DeleteEntity, Destroy, Discard, Scale, ResolveJoints, DisableContact,
       StepBegins, CallbackReturns, CallbackSkipped, BeginReported,
       PreSolveReported, StepEnds, NextEnd, EndReported, StackIsClear, KillListed,
       SceneIsGone, BeginContact, PersistContact, EndContact, DestroySimulator,
       Terminated, vars
  <2>2. /\ kind = "begin" \/ kind = "preSolve" => contact \in touching
        /\ kind \in Kinds /\ contact \in Pair /\ side \in {1, 2}
    BY <2>1 DEF CallbackRuns, PhysicsInv, Control, Types
  <2>3. CASE kind = "end"
    BY <2>1, <2>3 DEF CallbackRuns, IsRun
  <2>4. CASE kind = "begin" \/ kind = "preSolve"
    BY <2>2, <2>4 DEF PhysicsInv, Bodies, Locked, Ends
  <2>5. QED
    BY <2>2, <2>3, <2>4 DEF Kinds
<1>2. QED
  BY <1>1, PhysicsIsLocked, PTL DEF PhysicsSafety, CallbackHasBody

-------------------------------------------------------------------------------
(* As long as scripts call DisableContact in pre-solve callbacks only, the *)
(* flag belongs to the contact that is being reported.                     *)

Flags ==
  /\ Live => asked \subseteq touching
  /\ kind # "preSolve" => disabled = asked /\ ~disableNextContact
  /\ kind = "preSolve" =>
       /\ disabled = asked \ {contact}
       /\ disableNextContact <=> contact \in asked
  /\ kind = "begin" => contact \notin asked

LEMMA FlagsUnchanged ==
  ASSUME Flags, touching' = touching, asked' = asked, disabled' = disabled,
         disableNextContact' = disableNextContact, kind' = kind, contact' = contact,
         Live' => Live
  PROVE  Flags'
BY DEF Flags

LEMMA FlagsByEnding ==
  ASSUME Flags, Live, kind = "none" \/ kind = "end", NEW S, EndContacts(S),
         disableNextContact' = disableNextContact, kind' = kind
  PROVE  Flags'
BY DEF Flags, EndContacts

LEMMA FlagsStep ==
  ASSUME "DisableElsewhere" \notin Calls
  PROVE  PhysicsInv /\ Flags /\ [PhysicsNext]_vars => Flags'
<1> SUFFICES ASSUME Types, Control, Flags, [PhysicsNext]_vars PROVE Flags'
  BY DEF PhysicsInv
<1>1. ASSUME NEW e \in Entity, DeleteEntity(e) PROVE Flags'
  <2>1. CASE phase # "step"
    <3>1. EndContacts(ContactsOf(e))
      BY <1>1, <2>1 DEF DeleteEntity, Destroy, DestroyAttached
    <3>2. Live /\ (kind = "none" \/ kind = "end")
      BY <1>1, <2>1, CallsAreLive DEF DeleteEntity, Control, Types, Kinds
    <3>3. QED
      BY <1>1, <3>1, <3>2, FlagsByEnding DEF DeleteEntity, report
  <2>2. CASE phase = "step"
    BY <1>1, <2>2, FlagsUnchanged DEF DeleteEntity, Destroy, report, Live
  <2>3. QED
    BY <2>1, <2>2
<1>2. ASSUME NEW e \in Entity, Scale(e) PROVE Flags'
  <2>1. EndContacts(ContactsOf(e))
    BY <1>2 DEF Scale, DestroyAttached
  <2>2. Live /\ (kind = "none" \/ kind = "end")
    BY <1>2, CallsAreLive DEF Scale, Control, Types, Kinds
  <2>3. QED
    BY <1>2, <2>1, <2>2, FlagsByEnding DEF Scale, report
<1>3. ASSUME NEW c \in Pair, EndContact(c) PROVE Flags'
  <2>1. EndContacts({c}) /\ Live /\ kind = "none"
    BY <1>3 DEF EndContact, CanUpdate, Live
  <2>2. QED
    BY <1>3, <2>1, FlagsByEnding DEF EndContact, report
<1>4. ASSUME NEW e \in Entity,
             \/ AddEntity(e) \/ TakeHandle(e) \/ DropHandle(e) \/ Discard(e)
             \/ ResolveJoints(e)
      PROVE  Flags'
  BY <1>4, FlagsUnchanged DEF AddEntity, TakeHandle, DropHandle, Discard,
     ResolveJoints, report, bodyVars, history, Live
<1>5. CASE DisableContact
  BY <1>5 DEF DisableContact, Control, Flags, report, bodyVars, Live
<1>6. ASSUME NEW c \in Pair, BeginContact(c) PROVE Flags'
  BY <1>6 DEF BeginContact, CanUpdate, CanTouch, Reports, Flags, history, Live
<1>7. ASSUME NEW c \in Pair, PersistContact(c) PROVE Flags'
  BY <1>7 DEF PersistContact, CanUpdate, Reports, Flags, bodyVars, Live
<1>8. CASE BeginReported
  BY <1>8 DEF BeginReported, Reports, Flags, bodyVars, history, Live
<1>9. CASE PreSolveReported
  <2>1. disabled' = asked
    BY <1>9 DEF PreSolveReported, Flags
  <2>2. QED
    BY <1>9, <2>1 DEF PreSolveReported, Reports, Flags, bodyVars, history, Live
<1>10. CASE NextEnd \/ EndReported
  BY <1>10 DEF NextEnd, EndReported, Reports, Flags, bodyVars, history, Live
<1>11. CASE CallbackRuns \/ CallbackReturns \/ CallbackSkipped
  BY <1>11, FlagsUnchanged DEF CallbackRuns, CallbackReturns, CallbackSkipped,
     report, bodyVars, history, Live
<1>12. CASE \/ StepBegins \/ StepEnds \/ StackIsClear \/ SceneIsGone
            \/ DestroySimulator \/ Terminated \/ UNCHANGED vars
  BY <1>12, FlagsUnchanged DEF StepBegins, StepEnds, StackIsClear, SceneIsGone,
     DestroySimulator, Terminated, vars, report, bodyVars, history, Live
<1>13. CASE KillListed
  <2>1. ~Live' /\ asked' = asked /\ disabled' = disabled
        /\ disableNextContact' = disableNextContact
        /\ kind' = kind /\ contact' = contact
    BY <1>13 DEF KillListed, report, history, Live
  <2>2. QED
    BY <2>1 DEF Flags
<1>14. QED
  BY <1>1, <1>2, <1>3, <1>4, <1>5, <1>6, <1>7, <1>8, <1>9, <1>10, <1>11, <1>12, <1>13
  DEF PhysicsNext, Script, Engine

(* A contact is disabled if and only if one of its own pre-solve callbacks *)
(* asked for it since it was last updated.                                 *)
THEOREM ContactsAreDisabledAsAsked ==
  ASSUME "DisableElsewhere" \notin Calls PROVE PhysicsSafety => []DisabledAsAsked
<1>1. PhysicsInit => Flags
  BY DEF PhysicsInit, Flags
<1>2. Flags /\ PhysicsInv /\ [PhysicsNext]_vars => Flags'
  BY FlagsStep
<1>3. Flags => DisabledAsAsked
  BY DEF Flags, DisabledAsAsked
<1>4. QED
  BY <1>1, <1>2, <1>3, PhysicsIsInvariant, PTL DEF PhysicsSafety

===============================================================================
