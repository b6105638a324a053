--------------------------- MODULE MCRelaySession ---------------------------
(***************************************************************************)
(* Bounds for RelaySession.  A record costs one byte beside its plaintext  *)
(* and a window is two bytes, so one data record fills a window and two    *)
(* exhaust the allowance; a FIN alone is half a window.                    *)
(***************************************************************************)
EXTENDS RelaySession

\* No connection breaks, nothing expires, the Node goes on running.
Quiet == [traffic |-> [m \in Members |-> 0], opens |-> 1, breaks |-> 0,
          ticks |-> FALSE, elapse |-> FALSE, drain |-> FALSE, time |-> 0,
          closes |-> Members, queue |-> 8, blocks |-> FALSE]

OneWay(n) == [m \in Members |-> IF m = "sender" THEN n ELSE 0]

\* Queues of the length of the code and nothing breaks: two windows one way,
\* one window under timeouts, one window each way, a shutdown, and blocks that
\* take or reject what was submitted.
StreamScenarios ==
    {[Quiet EXCEPT !.traffic = OneWay(4)],
     [Quiet EXCEPT !.traffic = OneWay(2), !.elapse = TRUE],
     [Quiet EXCEPT !.traffic = [m \in Members |-> 2]],
     [Quiet EXCEPT !.drain = TRUE],
     [Quiet EXCEPT !.traffic = OneWay(2), !.blocks = TRUE]}

\* One break or restart at any point, and queues that have room for three more
\* frames: with a recovery, when both ends close, under ticks when none does,
\* with traffic, after valid_until, and with blocks; without one until claim_until.  Nothing
\* breaks but by a queue that overflows: two windows under timeouts.
Broken == [Quiet EXCEPT !.opens = 2, !.breaks = 1, !.queue = 3]

OneCloses == [Broken EXCEPT !.closes = {"sender"}]

RecoveryScenarios ==
    {Broken,
     [Broken EXCEPT !.ticks = TRUE, !.closes = {}],
     [OneCloses EXCEPT !.traffic = OneWay(2)],
     [OneCloses EXCEPT !.time = 1],
     [OneCloses EXCEPT !.blocks = TRUE],
     [Broken EXCEPT !.time = 2, !.opens = 1],
     [OneCloses EXCEPT !.traffic = OneWay(4), !.elapse = TRUE, !.opens = 1,
                       !.breaks = 0]}

AllScenarios == StreamScenarios \cup RecoveryScenarios
=============================================================================
