------------------------------- MODULE ETHEffect -------------------------------
(***************************************************************************)
(* What the particle systems of an entity promise to the scripts that play *)
(* and kill them, whatever times their particles are given: a system that  *)
(* is over shows nothing and stays over until it is played again, and of   *)
(* one that is killed nothing is seen but the lives it was showing and the *)
(* first lives of particles that had not been launched.                    *)
(*                                                                         *)
(* This is what the code keeps.  ETHParticleManager.h says more, that Kill *)
(* works "by avoiding new particles to be launched": the code does not     *)
(* keep that (ETHParticleManager!KilledLaunchesNone).                      *)
(***************************************************************************)
EXTENDS Integers

CONSTANTS
  Slot,     \* the particle systems of the entity
  Life      \* the lives of particles

VARIABLES
  state,    \* what each system does: it plays, it fades out, or it is over
  visible,  \* the lives of each that are drawn
  unseen    \* the first lives of those not launched since it was played

vars == <<state, visible, unseen>>

(* A system that could not be loaded is over from the start.               *)
Init ==
  /\ state \in [Slot -> {"playing", "over"}]
  /\ visible = [s \in Slot |-> {}]
  /\ unseen \in [Slot -> SUBSET Life]

(* Play, or a restart: the effect begins again, with nothing to be seen.   *)
Play(s) ==
  /\ state'[s] = "playing"
  /\ visible'[s] = {}

(* Kill takes no particle away in the middle of its life.                  *)
Kill(s) ==
  /\ state'[s] = IF state[s] = "playing" THEN "killed" ELSE state[s]
  /\ visible'[s] = visible[s]
  /\ unseen'[s] = unseen[s]

(* In any frame nobody is drawn that was not launched, and a system that   *)
(* comes to its end draws nobody.                                          *)
Frame(s) ==
  /\ unseen'[s] \subseteq unseen[s]
  /\ visible'[s] \intersect unseen'[s] = {}
  /\ state'[s] = "over" => visible'[s] = {}

(* While it plays, particles may be launched and launched again.           *)
Plays(s) ==
  /\ state[s] = "playing"
  /\ state'[s] \in {"playing", "over"}
  /\ Frame(s)

(* Once killed, a system goes on to launch those it has not launched, as   *)
(* UpdateParticleSystem does; no life begins but their first.              *)
Fades(s) ==
  /\ state[s] = "killed"
  /\ state'[s] \in {"killed", "over"}
  /\ visible'[s] \subseteq visible[s] \union unseen[s]
  /\ Frame(s)

IsOver(s) ==
  /\ state[s] = "over"
  /\ state'[s] = "over"
  /\ visible'[s] = {}

Next == \A s \in Slot : Play(s) \/ Kill(s) \/ Plays(s) \/ Fades(s) \/ IsOver(s)

Spec == Init /\ [][Next]_vars

===============================================================================
