---------------------------- MODULE AtLeastOnce ----------------------------
(***************************************************************************)
(* What a stage of the pipeline promises to the stage before it: an item   *)
(* is given up by the stage (its sender may forget it) only after the next *)
(* stage has it, an item may be passed on more than once, and an item that *)
(* is dropped on purpose is never counted as passed on by that drop.       *)
(* There is no order: retries rearrange items.                             *)
(***************************************************************************)
EXTENDS Naturals

CONSTANTS
  Items,     \* everything that can be submitted
  Markers    \* items without a payload: there is nothing to pass on

VARIABLES
  submitted, \* items the stage was given
  delivered, \* items the next stage has
  done,      \* items the stage has given up as handled
  dropped    \* items the stage has given up unhandled

avars == <<submitted, delivered, done, dropped>>

AInit ==
  /\ submitted = {} /\ delivered = {} /\ done = {} /\ dropped = {}

Submit(S) ==
  /\ S \subseteq Items \ submitted
  /\ submitted' = submitted \cup S
  /\ UNCHANGED <<delivered, done, dropped>>

\* The next stage may get an item again, as long as it was not given up.
Deliver(S) ==
  /\ S \subseteq submitted \ (done \cup dropped)
  /\ delivered' = delivered \cup S
  /\ UNCHANGED <<submitted, done, dropped>>

\* S is given up as handled and, at the same time, D unhandled.
GiveUp(S, D) ==
  /\ S \cup D \subseteq submitted \ (done \cup dropped)
  /\ S \cap D = {}
  /\ S \subseteq delivered \cup Markers
  /\ done' = done \cup S
  /\ dropped' = dropped \cup D
  /\ UNCHANGED <<submitted, delivered>>

ANext == \E S \in SUBSET Items :
  Submit(S) \/ Deliver(S) \/ \E D \in SUBSET Items : GiveUp(S, D)

ASpec == AInit /\ [][ANext]_avars
=============================================================================
