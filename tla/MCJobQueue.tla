----------------------------- MODULE MCJobQueue -----------------------------
(***************************************************************************)
(* Small instances of JobQueue for TLC.  Each group of definitions below   *)
(* is one scenario; a .cfg picks the group it needs.                       *)
(***************************************************************************)
EXTENDS JobQueue, TLC

Symmetry == Permutations(Worker)

ConstantFunction(S, v) == [s \in S |-> v]

\* One link whose thread is missing: a backlog row and a live lifecycle job
\* wait before the sync that creates the thread.
ThreadEvent     == {}
ThreadOperation == {"closed", "locked", "starter"}
ThreadJob       == ThreadOperation
ThreadPartition == ConstantFunction(ThreadJob, "link")
ThreadMapping   == ConstantFunction(ThreadJob, "feedback")
ThreadKind      == [o \in ThreadOperation |->
                      IF o = "starter" THEN Sync ELSE Lifecycle]
ThreadPlan      == ConstantFunction(ThreadJob, <<>>)
ThreadDepends   == ConstantFunction(ThreadJob, {})
ThreadSubmitted == {"locked", "starter"}
ThreadBacklog   == <<"closed">>

\* A message in the thread of a closed issue: its handler enqueues the
\* reopen and then the comment, which depends on the reopen.
ReopenOperation == {"reopen", "comment"}
ReopenKind      == ConstantFunction(ReopenOperation, "other")
ReopenDepends   == [o \in ReopenOperation |-> IF o = "comment" THEN {"reopen"} ELSE {}]
NoBacklog       == <<>>

\* Beside it an event of another mapping.
MixedEvent     == {"message", "elsewhere"}
MixedJob       == MixedEvent \cup ReopenOperation
MixedPartition == [j \in MixedJob |->
                     CASE j = "elsewhere"      -> "other"
                       [] j \in ReopenOperation -> "link"
                       [] OTHER                 -> "thread"]
MixedMapping   == [j \in MixedJob |-> IF j = "elsewhere" THEN "support" ELSE "feedback"]
MixedPlan      == [j \in MixedJob |->
                     IF j = "message" THEN <<"reopen", "comment">> ELSE <<>>]

=============================================================================
