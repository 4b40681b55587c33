-------------------------- MODULE MCEventListener --------------------------
(***************************************************************************)
(* EventListener with two listeners that ask for everything, for what a    *)
(* pipe asks for (nothing but plain events), or for nothing any more.      *)
(***************************************************************************)
EXTENDS EventListener

CONSTANTS l1, l2

TwoListeners == {l1, l2}
AllTypes     == EventType
SomeChoices  == {EventType, {"on_other"}, {}}
=============================================================================
