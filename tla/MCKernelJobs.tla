---------------------------- MODULE MCKernelJobs ----------------------------
(* The instance of KernelJobs that TLC checks.                             *)
EXTENDS KernelJobsInvariant
=============================================================================
