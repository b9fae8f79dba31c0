--------------------------------- MODULE Host ---------------------------------
(***************************************************************************)
(* What the converters and the printing backends share: the platform, the  *)
(* files of one print job, and the faults that may still happen.           *)
(***************************************************************************)
EXTENDS Naturals, Sequences, FiniteSets

CONSTANTS Platforms,   \* a subset of {"windows", "unix"}
          MaxFaults,   \* bound on I/O errors, crashes and tools that fail
          None

ASSUME HostAssumption ==
    /\ Platforms \subseteq {"windows", "unix"}
    /\ MaxFaults \in Nat

VARIABLES platform,  \* cfg(target_os)
          work,      \* whether the job's conversion directory exists
          out,       \* the PDF next to the downloaded file: what it holds, who wrote it
          temp,      \* whether the temporary file of raw data exists
          faults

host == <<platform, work, out, temp, faults>>

Windows == platform = "windows"

NoFile == [kind |-> "none", by |-> None]

HostInit ==
    /\ platform \in Platforms
    /\ work = FALSE /\ out = NoFile /\ temp = FALSE
    /\ faults = 0

Fault == faults < MaxFaults /\ faults' = faults + 1
===============================================================================
