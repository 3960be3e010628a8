---------------------------- MODULE JobLogCacheSpec ----------------------------
(***************************************************************************)
(* What the live-log cache of one job promises its readers (the document   *)
(* content provider and the decoration provider), stated without          *)
(* refreshers, ticks or API calls.                                         *)
(*                                                                         *)
(* The job's trace on the server only grows, and the job finishes once.    *)
(* The cached log is a prefix of the server's trace that never shrinks     *)
(* while the item is live (it has an eTag).  The item turns final (set(),  *)
(* no eTag) only after the job has finished; a final item never changes   *)
(* again.  Once the job has finished the item eventually turns final.     *)
(***************************************************************************)
EXTENDS Naturals

CONSTANT MaxTrace   \* bound on the length of the server's trace

VARIABLES
    trace,    \* length of the job's trace on the server
    status,   \* "running" or "finished"
    log,      \* length of the cached trace
    live      \* the cached item has an eTag

absVars == <<trace, status, log, live>>

AbsInit ==
    /\ trace = 0 /\ status = "running"
    /\ log = 0 /\ live = TRUE

\* the job writes output, and may write a last line as it finishes
Write ==
    /\ status = "running" /\ trace < MaxTrace
    /\ trace' = trace + 1
    /\ UNCHANGED <<status, log, live>>

Finish ==
    /\ status = "running"
    /\ status' = "finished"
    /\ trace' \in {trace, trace + 1} \cap 0..MaxTrace
    /\ UNCHANGED <<log, live>>

\* a live item catches up with (a prefix of) the server's trace
Sync ==
    /\ live
    /\ log' \in log..trace
    /\ UNCHANGED <<trace, status, live>>

\* a live item of a finished job turns final, keeping a prefix of the trace
Finalise ==
    /\ live /\ status = "finished"
    /\ live' = FALSE
    /\ log' \in log..trace
    /\ UNCHANGED <<trace, status>>

AbsNext == Write \/ Finish \/ Sync \/ Finalise

AbsSpec == AbsInit /\ [][AbsNext]_absVars /\ WF_absVars(Finalise)

=============================================================================
