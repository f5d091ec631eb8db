---------------------------- MODULE RetryPolicy ----------------------------
(***************************************************************************)
(* What the worker does with a failed job: src/src/jobs/retry-policy.ts.   *)
(* A failure either ends the job ("dead") or sends it back ("pending")     *)
(* after a delay.                                                          *)
(***************************************************************************)
EXTENDS Naturals

CONSTANT MaxAttempts   \* policy.maxAttempts

ASSUME MaxAttemptsAssumption == MaxAttempts \in Nat \ {0}

\* The categories the adapters classify an error into.
PermanentCategory == {"authentication", "invalid", "not-found"}
RetryableCategory == {"conflict", "rate-limit", "temporary"}
FailureCategory   == PermanentCategory \cup RetryableCategory

\* The state retryDecision chooses for a job that failed its attempts-th try.
RetryDecision(category, attempts) ==
  IF attempts >= MaxAttempts \/ category \in PermanentCategory
  THEN "dead"
  ELSE "pending"
=============================================================================
