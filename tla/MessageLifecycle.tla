--------------------------- MODULE MessageLifecycle ---------------------------
(***************************************************************************)
(* What the Messages log promises about one text: its row appears once,    *)
(* with the provider's own word for it, and from there it moves only as    *)
(* the documentation of handle_message_event says (src/src/handlers/       *)
(* telnyx_handler.rs): never back to queued, never out of delivered, and   *)
(* to delivered only when the recipient's network has taken the text.      *)
(***************************************************************************)
CONSTANT Messages

VARIABLES
  shown,     \* the status the log shows, "none" while there is no row
  arrived    \* the texts the recipient's network has confirmed

Shown == {"none", "logged", "queued", "sent", "failed", "delivered"}

LifecycleInit ==
  /\ shown = [m \in Messages |-> "none"]
  /\ arrived = {}

\* The recipient's network confirms a text.
Confirm(m) ==
  /\ arrived' = arrived \cup {m}
  /\ UNCHANGED shown

\* The row appears.
Appear(m, s) ==
  /\ shown[m] = "none"
  /\ s \in Shown \ {"none"}
  /\ s = "delivered" => m \in arrived
  /\ shown' = [shown EXCEPT ![m] = s]
  /\ UNCHANGED arrived

\* The row moves on.
Move(m, s) ==
  /\ shown[m] \in {"queued", "sent", "failed"}
  /\ s \in {"sent", "failed", "delivered"}
  /\ s = "delivered" => m \in arrived
  /\ shown' = [shown EXCEPT ![m] = s]
  /\ UNCHANGED arrived

LifecycleNext ==
  \E m \in Messages : Confirm(m) \/ \E s \in Shown : Appear(m, s) \/ Move(m, s)

LifecycleSpec == LifecycleInit /\ [][LifecycleNext]_<<shown, arrived>>
=============================================================================
