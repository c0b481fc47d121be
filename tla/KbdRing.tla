------------------------------- MODULE KbdRing -------------------------------
(***************************************************************************)
(* The keyboard of the RC702 BIOS (rcbios-in-c/bios.c): the PIO interrupt  *)
(* handler puts keystrokes into a ring and sets kbstat; CONIN takes them   *)
(* out, sleeping in HALT while there are none, and CONST reports kbstat.   *)
(* The console is the keyboard alone (IOBYTE CON: = CRT).  CONIN is one    *)
(* step per access to shared state; the handler is one step.               *)
(***************************************************************************)
EXTENDS Integers

CONSTANTS
    Key,        \* raw key codes
    KBBUFSZ     \* size of the ring

ASSUME KbdAssumption == KBBUFSZ \in Nat /\ KBBUFSZ > 1 /\ Key # {}

Index == 0 .. KBBUFSZ - 1

VARIABLES
    kbbuf, kbhead, kbtail, kbstat,
    pc,         \* where CONIN is
    raw,        \* the key taken out
    more,       \* what kbd_dequeue found: more keys are waiting
    got         \* the key CONIN returned last (inconv maps it one to one)

vars == <<kbbuf, kbhead, kbtail, kbstat, pc, raw, more, got>>

TypeOK ==
    /\ kbbuf \in [Index -> Key] /\ kbhead \in Index /\ kbtail \in Index
    /\ kbstat \in BOOLEAN
    /\ pc \in {"idle", "poll", "to_halt", "halt", "load", "tail", "compare", "stat"}
    /\ raw \in Key /\ more \in BOOLEAN /\ got \in Key

Succ(i) == (i + 1) % KBBUFSZ

RingFull(new_head) == new_head = kbtail

\* isr_pio_kbd: store the key unless the ring is full.  An interrupt also ends
\* a HALT.
IsrPioKbd ==
    /\ \E key \in Key :
          LET new_head == Succ(kbhead) IN
          IF RingFull(new_head) THEN UNCHANGED <<kbbuf, kbhead, kbstat>>
          ELSE /\ kbbuf' = [kbbuf EXCEPT ![kbhead] = key]
               /\ kbhead' = new_head
               /\ kbstat' = TRUE
    /\ pc' = IF pc = "halt" THEN "poll" ELSE pc
    /\ UNCHANGED <<kbtail, raw, more, got>>

\* Bug: the refresh interrupt does not wake a program in HALT.
WakesFromHalt_Not == "halt"

WakesFromHalt == "poll"

\* isr_crt comes 50 times a second and ends a HALT too.
IsrCrt ==
    /\ pc = "halt"
    /\ pc' = WakesFromHalt
    /\ UNCHANGED <<kbbuf, kbhead, kbtail, kbstat, raw, more, got>>

\* bios_conin: loop until there is a key.
Conin ==
    /\ pc = "idle"
    /\ pc' = "poll"
    /\ UNCHANGED <<kbbuf, kbhead, kbtail, kbstat, raw, more, got>>

ConinPoll ==
    /\ pc = "poll"
    /\ pc' = IF kbtail # kbhead THEN "load" ELSE "to_halt"
    /\ UNCHANGED <<kbbuf, kbhead, kbtail, kbstat, raw, more, got>>

\* hal_halt: a key that came since the test does not keep CONIN from it.
ConinHalt ==
    /\ pc = "to_halt"
    /\ pc' = "halt"
    /\ UNCHANGED <<kbbuf, kbhead, kbtail, kbstat, raw, more, got>>

\* Bug: the key behind the first is taken.
DequeueLoad_Next ==
    /\ pc = "load"
    /\ raw' = kbbuf[Succ(kbtail)]
    /\ pc' = "tail"
    /\ UNCHANGED <<kbbuf, kbhead, kbtail, kbstat, more, got>>

\* kbd_dequeue.
DequeueLoad ==
    /\ pc = "load"
    /\ raw' = kbbuf[kbtail]
    /\ pc' = "tail"
    /\ UNCHANGED <<kbbuf, kbhead, kbtail, kbstat, more, got>>

DequeueTail ==
    /\ pc = "tail"
    /\ kbtail' = Succ(kbtail)
    /\ got' = raw
    /\ pc' = "compare"
    /\ UNCHANGED <<kbbuf, kbhead, kbstat, raw, more>>

\* Bug: the status after taking a key is left as it was.
MoreKeys_Kept == kbstat

MoreKeys == kbtail # kbhead

DequeueCompare ==
    /\ pc = "compare"
    /\ more' = MoreKeys
    /\ pc' = "stat"
    /\ UNCHANGED <<kbbuf, kbhead, kbtail, kbstat, raw, got>>

DequeueStat ==
    /\ pc = "stat"
    /\ kbstat' = more
    /\ pc' = "idle"
    /\ UNCHANGED <<kbbuf, kbhead, kbtail, raw, more, got>>

Init ==
    /\ \E key \in Key : kbbuf = [i \in Index |-> key] /\ raw = key /\ got = key
    /\ kbhead = 0 /\ kbtail = 0 /\ kbstat = FALSE
    /\ pc = "idle" /\ more = FALSE

ConinStep ==
    \/ ConinPoll \/ ConinHalt
    \/ DequeueLoad \/ DequeueTail \/ DequeueCompare \/ DequeueStat

Next == IsrPioKbd \/ IsrCrt \/ Conin \/ ConinStep

Spec == Init /\ [][Next]_vars

\* The processor runs, and the display is refreshed 50 times a second.
FairSpec == Spec /\ WF_vars(ConinStep) /\ WF_vars(IsrCrt)

-----------------------------------------------------------------------------
Queue == INSTANCE ByteQueue WITH
            Byte <- Key, Capacity <- KBBUFSZ - 1, Flushes <- FALSE,
            queue <- [i \in 1 .. (kbhead - kbtail) % KBBUFSZ |->
                        kbbuf[(kbtail + i - 1) % KBBUFSZ]]

\* Keys reach the program in the order they were struck, each once; keys struck
\* into a full ring are dropped and change nothing.
ImplementsQueue == Queue!Spec

\* CONST raises no false alarm: a program that has seen it report a key does
\* not block in CONIN.
NoFalseAlarm == (pc = "idle" /\ kbstat) => kbtail # kbhead

\* A key struck while CONIN is about to go to sleep is not slept over.
KeyWakes == (pc \in {"poll", "to_halt", "halt"} /\ kbtail # kbhead) ~> (pc = "idle")
=============================================================================
