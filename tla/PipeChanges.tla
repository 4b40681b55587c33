------------------------------ MODULE PipeChanges ------------------------------
(***************************************************************************)
(* What a pipe promises about the changes of its source, whatever the user *)
(* of the source does and whenever the pipe ends: a change is on its way   *)
(* once at most and takes effect on the pipe Producer once at most, as the *)
(* change it was; nothing else changes the pipe Producer.  It does not     *)
(* promise that a change arrives, nor in which order changes do.           *)
(***************************************************************************)
EXTENDS Naturals

VARIABLES
  source,    \* whether the source is paused
  made,      \* how many changes it has seen
  pending,   \* changes on their way, each numbered
  opened,    \* whether the pipe Producer was made
  copy       \* whether it is paused

changes == <<source, made, pending, opened, copy>>

ChangesInit ==
  /\ source \in BOOLEAN
  /\ made = 0 /\ pending = {}
  /\ opened = FALSE /\ copy = FALSE

\* The source changes; the change sets out, or nobody listens.
Change ==
  /\ source' = ~source
  /\ made' = made + 1
  /\ pending' \in {pending, pending \cup {[n |-> made', paused |-> source']}}
  /\ UNCHANGED <<opened, copy>>

\* The pipe Producer is made, paused or not.
Open ==
  /\ ~opened
  /\ opened' = TRUE
  /\ copy' \in BOOLEAN
  /\ UNCHANGED <<source, made, pending>>

\* A change takes effect, and is none any more.
Apply(e) ==
  /\ opened
  /\ pending' = pending \ {e}
  /\ copy' = e.paused
  /\ UNCHANGED <<source, made, opened>>

\* Changes are lost with the process or the mailbox they were in.
Lose ==
  /\ pending' \subseteq pending
  /\ UNCHANGED <<source, made, opened, copy>>

ChangesNext == Change \/ Open \/ (\E e \in pending : Apply(e)) \/ Lose

Contract == ChangesInit /\ [][ChangesNext]_changes
=============================================================================
