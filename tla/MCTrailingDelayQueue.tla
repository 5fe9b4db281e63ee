------------------------ MODULE MCTrailingDelayQueue ------------------------
(***************************************************************************)
(* Small instances of TrailingDelayQueue for TLC, with a history variable  *)
(* for how long a request waits, in ticks.                                 *)
(***************************************************************************)
EXTENDS TrailingDelayQueue

VARIABLE early   \* history: ticks that came too early for the pending item

MCInit == Init /\ early = 0

MCNext ==
    \/ (\E i \in Items : Submit(i)) /\ early' = 0
    \/ RunSkip /\ early' = IF item = NoItem THEN 0 ELSE early + 1
    \/ RunTake /\ early' = 0
    \/ /\ \/ \E u \in Uids : Get(u)
          \/ Shutdown \/ PassTime \/ RunTick \/ RunStore \/ RunShutdown
          \/ \E s \in Statuses : RunHandle(s)
       /\ UNCHANGED early

MCSpec == MCInit /\ [][MCNext]_<<vars, early>> /\ Fairness

\* A request is executed at the fourth tick at the latest after its last
\* submission: run may be about to check for a tick from before it, the channel
\* may hold another, and the next tick may come before more than Delay has
\* passed since the ticker is not aligned with submissions, but no fourth tick
\* comes too early (run, line 79).
ThreeEarlyTicksAtMost == early <= 3
=============================================================================
