------------------------------ MODULE MCQueues ------------------------------
(* The audio queue over four drivers: driver is chosen once.                *)
EXTENDS MCAudioQueue

VARIABLE driver

allVars == <<driver, vars>>

\* Two display events wait for a clock that is only estimated.
Display == INSTANCE AudioQueue WITH
    StartCounts <- {0, 2}, Tracing <- TRUE, SeekPoints <- {0, 1},
    MaxSample <- 4, MaxTrace <- 2, MaxErrors <- 0

\* A small queue, whose player and device are fair.
Live == INSTANCE AudioQueue WITH
    MaxBuckets <- 1, Tracing <- TRUE, MaxSample <- 4, MaxTrace <- 1, MaxErrors <- 0

\* The driver answers how many samples it holds.
Exact == INSTANCE AudioQueue WITH
    MaxBuckets <- 1, Tracing <- TRUE, Reports <- TRUE, MaxTrace <- 1, MaxErrors <- 0

\* "silent" is the queue without a display, over a driver that may fail.
MCInit ==
    \/ driver = "silent" /\ Init
    \/ driver = "display" /\ Display!Init
    \/ driver = "live" /\ Live!Init
    \/ driver = "exact" /\ Exact!Init

MCNext ==
    /\ \/ driver = "silent" /\ Next
       \/ driver = "display" /\ Display!Next
       \/ driver = "live" /\ Live!Next
       \/ driver = "exact" /\ Exact!Next
    /\ UNCHANGED driver

\* The player's thread is scheduled; time passes and the device plays.
MCSpec ==
    /\ MCInit /\ [][MCNext]_allVars
    /\ WF_allVars(driver = "live" /\ Live!Running /\ UNCHANGED driver)
    /\ WF_allVars(driver = "live" /\ Live!Tick /\ UNCHANGED driver)

-----------------------------------------------------------------------------
(* The properties of AudioQueue hold whatever the driver, except for two.    *)

\* ClockAccountsOutput, for a driver that does not answer; with a driver that may
\* fail the statics of aq.c and miditrace.c stay of their types.
ClockAccounts ==
    /\ driver # "exact" => ClockAccountsOutput
    /\ driver = "silent" => TypeOK

\* AudioQueue!FillNeverBlocks, for a driver that answers PM_REQ_GETFILLABLE.
FillWaits == driver = "exact" => Exact!FillNeverBlocks

\* Every aq_add and every flush returns: a full queue drains into the device,
\* though the fill level that the waits look at is an estimate.
CallsReturn == driver = "live" /\ pc # "idle" ~> pc = "idle"
=============================================================================
