--------------------------- MODULE CreateContract ---------------------------
(***************************************************************************)
(* What a create call (create_router, create_webrtc_transport, produce,    *)
(* consume ...) promises its caller, said without servers, NIFs, tasks or  *)
(* timers.  The creation takes effect at most once.  {:ok, _} is returned  *)
(* only after the effect; an error or an exception only when there was no  *)
(* effect and never will be one.  {:error, :terminated} promises nothing.  *)
(***************************************************************************)
CONSTANT Creation

VARIABLES outcome,   \* what each caller has been told
          started    \* the creations that took effect

contractVars == <<outcome, started>>

ContractInit == outcome = [c \in Creation |-> "idle"] /\ started = {}

\* A call begins; it may be over at once when there is nobody to call.
Begin(c) ==
  /\ outcome[c] = "idle"
  /\ \E r \in {"pending", "terminated"} : outcome' = [outcome EXCEPT ![c] = r]
  /\ UNCHANGED started

\* The creation takes effect, for a caller that waits or that was given up on.
TakeEffect(c) ==
  /\ outcome[c] \in {"pending", "terminated"}
  /\ c \notin started
  /\ started' = started \cup {c}
  /\ UNCHANGED outcome

Return(c) ==
  /\ outcome[c] = "pending"
  /\ \E r \in {"terminated"} \cup (IF c \in started THEN {"ok"} ELSE {"failed"}) :
       outcome' = [outcome EXCEPT ![c] = r]
  /\ UNCHANGED started

ContractNext == \E c \in Creation : Begin(c) \/ TakeEffect(c) \/ Return(c)

\* A safety contract: that calls return at all is stated of the server itself.
Contract == ContractInit /\ [][ContractNext]_contractVars
=============================================================================
