------------------------- MODULE NotificationDomain -------------------------
(***************************************************************************)
(* The domain layer (app/domain): notification statuses, the table of      *)
(* legal transitions and the retry policy.  Pure operators, no state.      *)
(* Also the shape of a row of the notifications table, as far as the       *)
(* services read and write it after the insert.                            *)
(***************************************************************************)
EXTENDS Integers, Sequences

CONSTANTS
  Notification,  \* notification ids (client-side UUIDs)
  MaxAttempts,   \* Settings.max_delivery_attempts
  Countdowns,    \* Settings.delivery_retry_countdowns, in seconds
  None           \* Python's None: no row, no task

\* What Settings (ge=1, require_positive_countdowns) and the policy's
\* __post_init__ both demand.
ASSUME PolicyAssumption ==
  /\ MaxAttempts \in Nat \ {0}
  /\ Countdowns \in Seq(Nat \ {0})
  /\ Len(Countdowns) >= 1

Status == {"PENDING", "PROCESSING", "SENT", "FAILED"}

\* The statuses DispatchService.dispatch skips.
Terminal == {"SENT", "FAILED"}

\* _ALLOWED, as a function from a status to the statuses it may become.
Allowed ==
  [s \in Status |->
     CASE s = "PENDING"    -> {"PROCESSING"}
       [] s = "PROCESSING" -> {"SENT", "FAILED", "PENDING"}
       [] s \in Terminal   -> {}]

CanTransition(src, dst) == dst \in Allowed[src]

-----------------------------------------------------------------------------
(* Retry policy *)

\* Variant with an off-by-one budget: one attempt too many.
ShouldRetryInclusive(retry_count, retryable) ==
  retryable /\ retry_count <= MaxAttempts

\* retry_count counts the attempts already burned, the last one included.
ShouldRetry(retry_count, retryable) == retryable /\ retry_count < MaxAttempts

\* Variant that forgets that slots are numbered from zero in the code.
CountdownForNextSlot(retry_count) ==
  Countdowns[IF retry_count < Len(Countdowns) THEN retry_count + 1
             ELSE Len(Countdowns)]

\* Seconds to wait after the retry_count-th failure; the last slot repeats.
CountdownFor(retry_count) ==
  Countdowns[IF retry_count <= Len(Countdowns) THEN retry_count
             ELSE Len(Countdowns)]

\* The max_retries that deliver_notification hands to Celery.
MaxRetries == MaxAttempts - 1

-----------------------------------------------------------------------------
(* Rows *)

\* error_message and sent_at are nullable columns: TRUE stands for "not NULL".
Row == [status : Status, retry_count : Nat,
        error_message : BOOLEAN, sent_at : BOOLEAN]

ASSUME NoneAssumption == None \notin Row

\* The row NotificationRepository.create adds.
NewRow == [status |-> "PENDING", retry_count |-> 0,
           error_message |-> FALSE, sent_at |-> FALSE]

Settled(row) == row # None /\ row.status \in Terminal
=============================================================================
