--------------------------- MODULE ETHDrawableManager ---------------------------
(***************************************************************************)
(* The list of what scripts draw over the scene (ETHDrawableManager.cpp).  *)
(*                                                                         *)
(* Rectangles, lines, sprites and texts are drawn in one frame, in the     *)
(* order of the calls; fading texts and particle effects stay until their  *)
(* time is over.  Time is counted in frames.                               *)
(***************************************************************************)
EXTENDS Integers, Sequences, FiniteSets

(* call: the number of the call in its frame, of what is drawn once.       *)
Immediate(call, sprite) == [call |-> call, sprite |-> sprite, left |-> 0]
Timed(frames, sprite) == [call |-> 0, sprite |-> sprite, left |-> frames]

IsAlive(drawable) == drawable.left > 0

(* RemoveTheDead: what is alive stays, in its order.                       *)
AliveUpTo(list, i) == {j \in 1 .. i : IsAlive(list[j])}
RemoveTheDead(list) ==
  [n \in 1 .. Cardinality(AliveUpTo(list, Len(list))) |->
     list[CHOOSE i \in DOMAIN list :
            IsAlive(list[i]) /\ Cardinality(AliveUpTo(list, i)) = n]]

FirstAlive(list) ==
  CHOOSE i \in DOMAIN list :
    IsAlive(list[i]) /\ \A j \in 1 .. i - 1 : ~IsAlive(list[j])

(* Faulty variant: new drawables always go to the end.                     *)
Insert_AtEnd(list, drawable) == Append(list, drawable)

(* Insert: "before other persistent elements", which are looked for only   *)
(* if the last element is one.                                             *)
Insert(list, drawable) ==
  IF list # <<>> /\ IsAlive(list[Len(list)])
    THEN LET i == FirstAlive(list)
         IN  SubSeq(list, 1, i - 1) \o <<drawable>> \o SubSeq(list, i, Len(list))
    ELSE Append(list, drawable)

(* DrawTopLayer: each drawable grows older by the frame.                   *)
DrawTopLayer(list) ==
  [i \in DOMAIN list |-> [list[i] EXCEPT !.left = IF @ > 0 THEN @ - 1 ELSE 0]]

===============================================================================
