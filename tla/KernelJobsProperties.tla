------------------------ MODULE KernelJobsProperties ------------------------
(***************************************************************************)
(* What must hold of the coding children and of their jobs.                *)
(***************************************************************************)
EXTENDS KernelJobs

TypeOK ==
    /\ jobs \subseteq Job /\ threads \subseteq Job /\ stopping \subseteq Job
    /\ status \in [Job -> Status] /\ finished \subseteq Job
    /\ proc \in [Job -> Proc]
    /\ waiter \in [Job -> Waiter] /\ verdict \in [Job -> Terminal \cup {"none"}]
    /\ timedOut \subseteq Job
    /\ at \in [Caller -> At] /\ on \in [Caller -> Job \cup {None}]
    /\ follow \in [Caller -> BOOLEAN] /\ joins \in [Caller -> BOOLEAN]

(* What a job became it stays: a stop does not overwrite what its thread   *)
(* recorded, nor the thread, late, what a stop recorded.                   *)
TerminalStays ==
    [][\A j \in Job : status[j] \in Terminal => status'[j] = status[j]]_vars

(* The store knows what runs: a child that is alive is listed as running,  *)
(* or it ignored the SIGTERM that ended its time, which nothing repeats.   *)
LiveIsKnown ==
    \A j \in Job : proc[j] = "live" => (j \in jobs /\ status[j] = "running") \/ j \in timedOut

(* Nobody who spawns, waits, stops or steers waits forever, whatever the   *)
(* children do.                                                            *)
CallsReturn == \A c \in Caller : at[c] # "idle" ~> at[c] = "idle"
=============================================================================
