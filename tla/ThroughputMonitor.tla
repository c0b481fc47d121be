------------------------- MODULE ThroughputMonitor -------------------------
(***************************************************************************)
(* ThroughputMonitor of cpnet/server.py: the thread that serves counts       *)
(* bytes sent and received, a second one takes the counters every second    *)
(* and writes a line of a CSV file, which is opened anew for each line.      *)
(***************************************************************************)
EXTENDS Integers

CONSTANT MaxAdds      \* bound: bytes counted

VARIABLES
    monitorOn,    \* _running: the flag start and stop set
    thread,       \* the second thread: "new", "alive", "ended", or "off"
    count,        \* tx_bytes and rx_bytes
    hand,         \* taken and not written yet, or None
    csv,          \* sums of the lines
    added         \* sums of all calls

monitorVars == <<monitorOn, thread, count, hand, csv, added>>

Dir == {"tx", "rx"}
Zero == [d \in Dir |-> 0]
None == [d \in {} |-> 0]

start ==
    /\ thread = "new"
    /\ monitorOn' = TRUE /\ thread' = "alive"
    /\ UNCHANGED <<count, hand, csv, added>>

stop ==
    /\ monitorOn /\ monitorOn' = FALSE
    /\ UNCHANGED <<thread, count, hand, csv, added>>

\* add_tx and add_rx, under the lock.
add(d, n) ==
    /\ thread \in {"alive", "ended"} /\ added[d] + n <= MaxAdds
    /\ count' = [count EXCEPT ![d] = @ + n] /\ added' = [added EXCEPT ![d] = @ + n]
    /\ UNCHANGED <<monitorOn, thread, hand, csv>>

\* _run: after a second the counters are taken and cleared under the lock; the
\* line is written without it.  stop is seen after that.
Run ==
    /\ thread = "alive"
    /\ IF hand = None THEN hand' = count /\ count' = Zero /\ UNCHANGED <<csv, thread>>
       ELSE /\ csv' = [d \in Dir |-> csv[d] + hand[d]] /\ hand' = None /\ UNCHANGED count
            /\ thread' = IF monitorOn THEN "alive" ELSE "ended"
    /\ UNCHANGED <<monitorOn, added>>

MonitorStart(t) ==
    /\ thread = t /\ monitorOn = FALSE /\ count = Zero /\ hand = None /\ csv = Zero /\ added = Zero

MonitorIdle == MonitorStart("off")
MonitorInit == MonitorStart("new")

MonitorNext ==
    \/ start
    \/ stop
    \/ \E d \in Dir, n \in 1 .. 2 : add(d, n)
    \/ Run

-----------------------------------------------------------------------------
\* No byte is counted twice or forgotten, whatever is added between the thread's
\* taking the counters and its writing the line, and when it is stopped.
NothingUncounted ==
    \A d \in Dir : csv[d] + count[d] + (IF hand = None THEN 0 ELSE hand[d]) = added[d]
=============================================================================
