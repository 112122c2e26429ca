------------------------ MODULE DualStartRefinement ------------------------
(***************************************************************************)
(* DualStart implements StartSwitch: of everything the devices, the radio  *)
(* and the page do, a user sees a switch of two slots.                     *)
(***************************************************************************)
EXTENDS DualStart

Switch == INSTANCE StartSwitch WITH
              owner <- pair.record,
              active <- [s \in Slots |-> slotActive[s].active],
              used <- toggled,
              ready <- shown

\* Every step is a press, one press toggling slots of its device that it has
\* not toggled before, a fall back to inactive, or nothing a user can see; and
\* READY stands on the page only as long as two devices hold both slots active
\* (SPEC 12).
StepsAsSwitch == [][Switch!Next]_(Switch!vars)

\* And the page starts as a switch does: the whole of the abstract
\* specification.
ImplementsSwitch == Switch!Spec
=============================================================================
