------------------------------- MODULE MCWorkerPool -------------------------------
(* vadpcmstats with up to 3 workers on 3 files; one job, and more than files. *)
EXTENDS WorkerPool

MCJobRequests == {1, 2, 5}
=================================================================================
