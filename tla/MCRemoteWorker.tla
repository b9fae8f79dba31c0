--------------------------- MODULE MCRemoteWorker ---------------------------
(* RemoteWorker on two remote jobs, sent alone and in a batch.              *)
EXTENDS RemoteWorker

CONSTANTS j1, j2, b1

Raw(id, length) ==
    [job_id |-> id, format |-> "raw", printer |-> TRUE, paper |-> FALSE,
     copies |-> 1, size |-> length, well_formed |-> TRUE]

MCInputs == {Raw(j1, 1)}

\* One job, sent alone and in a batch.
MCTasks ==
    {[batch_id |-> None, jobs |-> <<Raw(j1, 2)>>],
     [batch_id |-> b1, jobs |-> <<Raw(j1, 2)>>]}

MCBatchOfTwo == {[batch_id |-> b1, jobs |-> <<Raw(j1, 1), Raw(j2, 1)>>]}

MCTask == {[batch_id |-> b1, jobs |-> <<Raw(j1, 1)>>]}

Remote(enabled, accepted, retries) ==
    [enabled |-> enabled, accepted |-> accepted, max_report_retries |-> retries]

Config(most_bytes, endpoint) ==
    [default_printer |-> FALSE, default_paper |-> FALSE, max_copies |-> 1,
     max_file_size |-> most_bytes, max_batch_jobs |-> 2, remote |-> endpoint]

\* The endpoint of the second configuration is refused and the third is
\* disabled; both also set a limit that the tasks exceed.
MCConfigs ==
    {Config(2, Remote(TRUE, TRUE, 1)), Config(1, Remote(TRUE, FALSE, 1)),
     Config(1, Remote(FALSE, TRUE, 2))}

\* A refused endpoint and its correction.
MCCorrection == {Config(2, Remote(TRUE, TRUE, 2)), Config(2, Remote(TRUE, FALSE, 2))}

\* Each report is tried once.
MCOneTry == {Config(2, Remote(TRUE, TRUE, 1))}

MCGoodConfigs == {Config(2, Remote(TRUE, TRUE, 2))}
=============================================================================
