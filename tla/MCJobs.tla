------------------------------- MODULE MCJobs -------------------------------
(* Small instances of Jobs for TLC.                                        *)
EXTENDS Jobs, TLC

\* A retryable and a one-shot type that share the server resource.
UpdateTypes == {"pmp.update.apply", "pmp.update.force"}
\* A retryable type, one that reads its configuration, one nobody configured.
MixedTypes == {"pmp.update.apply", "ppf.build", "backup"}
RetryTypes == {"pmp.update.apply"}
OnlyPpf == {"ppf.build"}
AllFaults == {"crash", "db", "drop"}
OnlyCrash == {"crash"}
NoFaults == {}

Symmetry == Permutations(Job) \cup Permutations(Run) \cup Permutations(Request)

(* Under fair scheduling a job reaches a terminal state unless its driver  *)
(* was lost, and on the way the cancel map only names live runs of the job *)
(* it is filed under.  jobs/mod.rs, jobs/routes.rs.                        *)
JobsEnd == [](TypeOK /\ FlagsBelongToLiveRuns) /\ JobsSettle
=============================================================================
