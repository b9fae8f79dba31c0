--------------------------- MODULE MCStatusStream ---------------------------
(* StatusStream with a page on this machine and a page elsewhere that       *)
(* connect one after the other, a remote service, and two job ids.          *)
EXTENDS StatusStream, TLC

CONSTANTS j1, j2, b1, here, site, c1

Job(id, form) ==
    [job_id |-> id, format |-> form, printer |-> TRUE, paper |-> TRUE, copies |-> 1,
     size |-> 1, well_formed |-> TRUE]

Sub(id, form, at) == [job |-> Job(id, form), url |-> at]

MCHostOf == here :> "127.0.0.1" @@ site :> "public"

MCPeers == {<<1, here>>, <<2, site>>}

MCSubmissions == {Sub(j1, "pdf", site)}

\* The page on this machine prints itself and a public page.
MCBatches == {[batch_id |-> b1, subs |-> <<Sub(j1, "html", here), Sub(j2, "html", site)>>]}

MCConfigs ==
    {[ips |-> {Loopback, Ip(2)}, origins |-> {here, site}, max_file_size |-> 1,
      max_batch_jobs |-> 2]}
=============================================================================
