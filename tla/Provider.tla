------------------------------ MODULE Provider ------------------------------
(***************************************************************************)
(* The provider port (app/providers/port.py) and the simulated adapter     *)
(* that deliver_notification plugs into it.                                *)
(***************************************************************************)

\* What NotificationProvider.send can do: return None, raise
\* PermanentProviderError, or raise any other exception.
Outcome == {"ok", "transient", "permanent"}

\* Variant that takes every exception for a transient one.
RetryableAlways(outcome) == TRUE

\* isinstance(exc, PermanentProviderError) is the only test dispatch makes.
Retryable(outcome) == outcome # "permanent"

\* Templates the simulated adapter tells apart.
Template == {"welcome", "fail-transient", "fail-permanent"}

\* SimulatedNotificationProvider.send: two exact switches, else success.
SimulatedSend(template) ==
  CASE template = "fail-permanent" -> "permanent"
    [] template = "fail-transient" -> "transient"
    [] OTHER                       -> "ok"
=============================================================================
