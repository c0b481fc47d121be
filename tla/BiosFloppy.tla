----------------------------- MODULE BiosFloppy -----------------------------
(***************************************************************************)
(* The floppy driver and the timers of the RC702 BIOS (rcbios-in-c/bios.c):  *)
(* chktrk moves the head, sec_rw reads or writes a sector with ten attempts, *)
(* fdstar keeps the motor of a mini drive running; isr_crt, 50 times a       *)
(* second, counts the clock, the EXIT timer, the motor's timer and a delay.  *)
(* A handler is one step, the mainline one step per access to what a handler *)
(* shares with it, EI and DI taken into account.                             *)
(*                                                                         *)
(* The controller (external) ends every command with an interrupt.  It       *)
(* compares the cylinder of a sector's address with the one asked for, so    *)
(* that a head in the wrong place gives an error.                           *)
(***************************************************************************)
EXTENDS Integers

CONSTANTS
    FloppyDrive, Cyl,   \* drives, cylinders
    REPET,              \* attempts (10)
    RECALAT,            \* value of repet at which the head is recalibrated (6)
    SPINUP,             \* ticks from motor on to a transfer (50)
    WordSize,           \* values of half of the clock (2^16)
    MaxDiskFaults, MaxExits   \* bounds

ASSUME FloppyAssumption ==
    /\ REPET \in Nat /\ RECALAT \in 2 .. REPET
    /\ SPINUP \in Nat /\ SPINUP > 0 /\ WordSize \in Nat /\ WordSize > 1

VARIABLES
    use,            \* what programs do: "disk", "clock", "exit", or "off"
    mini,           \* drives with a motor the BIOS turns on and off
    dpc,            \* where the mainline is
    want,           \* disk and track of the call: hostbuf_disk, hostbuf_track
    homing,         \* the call is HOME
    last_seek,      \* last_seek_disk and last_seek_track
    repet,
    result,         \* of the last transfer: "ok", "error", or "none"
    fdc_irq_fired, st0,
    fdc,            \* the command the controller carries out, or "none"
    cyl,            \* where the heads are
    done,           \* the controller has moved the data of this transfer
    motor, spin,    \* sw1; ticks since the motor was turned on
    timer2, delay_ticks,
    clean,          \* no fault during this transfer
    dfaults,
    rtc, clk,       \* rtc2 and rtc0; the time they should show
    skipped,        \* a carry has come between the two stores of CLOCK
    reading,        \* CLOCK (get): time at the call, value, time at the return
    timer1, owner, warmjp, called, exits   \* EXIT: the count and whose it is

diskVars == <<dpc, want, homing, last_seek, repet, result, fdc_irq_fired, st0, fdc, cyl, done, motor, spin, timer2,
              delay_ticks, clean, dfaults>>
clockVars == <<rtc, clk, skipped, reading>>
exitVars == <<timer1, owner, warmjp, called, exits>>
floppyVars == <<use, mini, diskVars, clockVars, exitVars>>

Time == WordSize * WordSize
NoSeek == <<-1, -1>>

-----------------------------------------------------------------------------
(* chktrk and sec_rw *)

\* Bug: the flag is not cleared before the command.
BugIssue(c) == fdc' = c /\ UNCHANGED fdc_irq_fired

\* fdc_irq_arm and the command bytes.
Issue(c) == fdc' = c /\ fdc_irq_fired' = FALSE

\* A transfer begins.  The head is moved unless it is where it should be; that
\* it is there is noted before it is known.
Chktrk(d, t) ==
    /\ use = "disk" /\ dpc = "idle"
    /\ want' = <<d, t>> /\ homing' = FALSE /\ repet' = REPET /\ clean' = TRUE /\ done' = FALSE
    /\ IF last_seek = <<d, t>> THEN dpc' = "fdstar" /\ UNCHANGED <<fdc, fdc_irq_fired, last_seek>>
       ELSE last_seek' = <<d, t>> /\ dpc' = "seek" /\ Issue("seek")
    /\ UNCHANGED <<use, mini, result, st0, cyl, motor, spin, timer2, delay_ticks, dfaults>>
    /\ UNCHANGED <<clockVars, exitVars>>

\* fdc_irq_wait_rearm, and what is done next.  Only the first seek's result is
\* looked at.
SeekDone ==
    /\ fdc_irq_fired
    /\ \/ /\ dpc = "seek"
          /\ IF st0 = "ok" THEN dpc' = "fdstar" /\ fdc_irq_fired' = FALSE /\ UNCHANGED fdc
             ELSE dpc' = "recal" /\ Issue("recal")
       \/ /\ dpc = "recal"
          /\ dpc' = "seek2" /\ Issue("seek")
       \/ /\ dpc \in {"seek2", "home"}
          /\ dpc' = IF homing THEN "idle" ELSE "fdstar"
          /\ fdc_irq_fired' = FALSE /\ UNCHANGED fdc
    /\ UNCHANGED <<use, mini, want, homing, last_seek, repet, result, st0, cyl, done, motor, spin, timer2, delay_ticks, clean, dfaults>>
    /\ UNCHANGED <<clockVars, exitVars>>

\* The work area is cleared at boot and the configured stop time stored in
\* stptim_var; nothing is ever stored in fdtimo_var.
fdtimo_var == 0

\* fdstar, the part with interrupts disabled.
Fdstar ==
    /\ dpc = "fdstar"
    /\ timer2' = IF mini THEN fdtimo_var ELSE timer2
    /\ dpc' = IF mini /\ timer2 = 0 THEN "motor_on" ELSE "started"
    /\ UNCHANGED <<use, mini, want, homing, last_seek, repet, result, fdc_irq_fired, st0, fdc, cyl, done, motor, spin, delay_ticks, clean, dfaults>>
    /\ UNCHANGED <<clockVars, exitVars>>

\* Motor on, and waitd.
MotorOn ==
    /\ \/ dpc = "motor_on" /\ motor' = TRUE /\ spin' = (IF motor THEN spin ELSE 0) /\ delay_ticks' = SPINUP /\ dpc' = "spin"
       \/ dpc = "spin" /\ delay_ticks = 0 /\ dpc' = "started" /\ UNCHANGED <<motor, spin, delay_ticks>>
    /\ UNCHANGED <<use, mini, want, homing, last_seek, repet, result, fdc_irq_fired, st0, fdc, cyl, done, timer2, clean, dfaults>>
    /\ UNCHANGED <<clockVars, exitVars>>

\* HOME (a dirty buffer is written before, by a transfer).
BiosHome(d) ==
    /\ use = "disk" /\ dpc = "idle"
    /\ want' = <<d, 0>> /\ homing' = TRUE /\ dpc' = "fdstar"
    /\ UNCHANGED <<use, mini, last_seek, repet, result, fdc_irq_fired, st0, fdc, cyl, done, motor, spin, timer2, delay_ticks, clean, dfaults>>
    /\ UNCHANGED <<clockVars, exitVars>>

\* Its second half.  Whether the recalibration worked is not looked at.
HomeHead ==
    /\ dpc = "started" /\ homing /\ dpc' = "home"
    /\ last_seek' = want /\ Issue("recal")
    /\ UNCHANGED <<use, mini, want, homing, repet, result, st0, cyl, done, motor, spin, timer2, delay_ticks, clean, dfaults>>
    /\ UNCHANGED <<clockVars, exitVars>>

StartTransfer ==
    /\ dpc = "started" /\ ~homing /\ dpc' = "transfer" /\ Issue("rw")
    /\ UNCHANGED <<use, mini, want, homing, last_seek, repet, result, st0, cyl, done, motor, spin, timer2, delay_ticks, clean, dfaults>>
    /\ UNCHANGED <<clockVars, exitVars>>

\* Bug: the head is not recalibrated.
BugRecalibrates == FALSE

Recalibrates == repet = RECALAT

\* The loop of sec_rw after fdc_irq_wait: done, given up at once when the
\* drive is not ready, or another attempt.
TransferDone ==
    /\ dpc = "transfer" /\ fdc_irq_fired
    /\ \/ st0 = "ok" /\ result' = "ok" /\ dpc' = "idle" /\ UNCHANGED <<repet, fdc, fdc_irq_fired>>
       \/ st0 = "not_ready" /\ result' = "error" /\ dpc' = "idle" /\ UNCHANGED <<repet, fdc, fdc_irq_fired>>
       \/ /\ st0 = "bad" /\ repet' = repet - 1
          /\ IF Recalibrates THEN dpc' = "recal" /\ Issue("recal") /\ UNCHANGED result
             ELSE /\ dpc' = IF repet = 1 THEN "idle" ELSE "fdstar"
                  /\ result' = IF repet = 1 THEN "error" ELSE result
                  /\ UNCHANGED <<fdc, fdc_irq_fired>>
    /\ UNCHANGED <<use, mini, want, homing, last_seek, st0, cyl, done, motor, spin, timer2, delay_ticks, clean, dfaults>>
    /\ UNCHANGED <<clockVars, exitVars>>

-----------------------------------------------------------------------------
(* The controller, and isr_floppy, which takes its status. *)

Turning == ~mini \/ motor

\* A drive whose motor is off may refuse to seek; anything else is a fault.
FdcDone ==
    /\ fdc # "none"
    /\ fdc' = "none" /\ fdc_irq_fired' = TRUE
    /\ LET d == want[1]
       IN  \/ /\ fdc = "seek" /\ st0' = "ok" /\ cyl' = [cyl EXCEPT ![d] = want[2]]
              /\ UNCHANGED <<done, clean, dfaults>>
           \/ /\ fdc = "recal" /\ st0' = "ok" /\ cyl' = [cyl EXCEPT ![d] = 0]
              /\ UNCHANGED <<done, clean, dfaults>>
           \/ /\ fdc \in {"seek", "recal"} /\ ~Turning /\ st0' = "bad"
              /\ UNCHANGED <<cyl, done, clean, dfaults>>
           \/ /\ fdc = "rw"
              /\ LET hit == Turning /\ cyl[d] = want[2]
                 IN  st0' = (IF hit THEN "ok" ELSE "bad") /\ done' = (done \/ hit)
              /\ UNCHANGED <<cyl, clean, dfaults>>
           \/ /\ dfaults < MaxDiskFaults /\ dfaults' = dfaults + 1 /\ clean' = FALSE
              /\ \/ fdc # "rw" /\ st0' = "bad" /\ \E c \in Cyl : cyl' = [cyl EXCEPT ![d] = c]
                 \/ fdc = "rw" /\ st0' \in {"bad", "not_ready"} /\ UNCHANGED cyl
              /\ UNCHANGED done
    /\ UNCHANGED <<use, mini, dpc, want, homing, last_seek, repet, result, motor, spin, timer2, delay_ticks>>
    /\ UNCHANGED <<clockVars, exitVars>>

-----------------------------------------------------------------------------
(* isr_crt *)

\* Bug: the delay is counted down only while the motor's timer is.
BugDelayAfterTick == IF delay_ticks # 0 /\ timer2 # 0 THEN delay_ticks - 1 ELSE delay_ticks

DelayAfterTick == IF delay_ticks # 0 THEN delay_ticks - 1 ELSE delay_ticks

\* The whole handler.
IsrCrtTimers ==
    /\ use # "off"
    /\ rtc' = LET low == (rtc[2] + 1) % WordSize
              IN  <<IF low = 0 THEN (rtc[1] + 1) % WordSize ELSE rtc[1], low>>
    /\ clk' = (clk + 1) % Time
    /\ skipped' = (skipped \/ (dpc = "clock_set" /\ rtc[2] = WordSize - 1))
    /\ timer1' = IF timer1 # 0 THEN timer1 - 1 ELSE 0
    /\ called' = IF timer1 = 1 THEN <<warmjp, owner>> ELSE called
    /\ timer2' = IF timer2 # 0 THEN timer2 - 1 ELSE 0
    /\ motor' = (motor /\ timer2 # 1)
    /\ spin' = IF motor /\ spin < SPINUP THEN spin + 1 ELSE spin
    /\ delay_ticks' = DelayAfterTick
    /\ UNCHANGED <<use, mini, dpc, want, homing, last_seek, repet, result, fdc_irq_fired, st0, fdc, cyl, done, clean, dfaults,
                   reading, owner, warmjp, exits>>

-----------------------------------------------------------------------------
(* CLOCK and EXIT *)

\* Bug: the halves are read with interrupts enabled.
BugClockGet ==
    /\ use = "clock"
    /\ \/ dpc = "idle" /\ dpc' = "clock_get" /\ reading' = <<clk, rtc[2], clk>>
       \/ dpc = "clock_get" /\ dpc' = "idle" /\ reading' = <<reading[1], rtc[1] * WordSize + reading[2], clk>>
    /\ UNCHANGED <<use, mini, want, homing, last_seek, repet, result, fdc_irq_fired, st0, fdc, cyl, done, motor, spin, timer2,
                   delay_ticks, clean, dfaults, rtc, clk, skipped, exitVars>>

\* bios_clock with A # 0, under DI.
ClockGet ==
    /\ use = "clock" /\ dpc = "idle"
    /\ reading' = <<clk, rtc[1] * WordSize + rtc[2], clk>>
    /\ UNCHANGED <<use, mini, diskVars, rtc, clk, skipped, exitVars>>

\* bios_clock with A = 0: the low word, then the high word, with interrupts
\* enabled.
ClockSet(v) ==
    /\ use = "clock"
    /\ \/ /\ dpc = "idle" /\ dpc' = "clock_set"
          /\ rtc' = <<rtc[1], v % WordSize>> /\ want' = <<v, v>> /\ clk' = v /\ skipped' = FALSE
          /\ reading' = <<0, 0, 0>>
       \/ /\ dpc = "clock_set" /\ v = want[1] /\ dpc' = "idle"
          /\ rtc' = <<v \div WordSize, rtc[2]>> /\ want' = NoSeek /\ UNCHANGED <<clk, skipped, reading>>
    /\ UNCHANGED <<use, mini, homing, last_seek, repet, result, fdc_irq_fired, st0, fdc, cyl, done, motor, spin, timer2,
                   delay_ticks, clean, dfaults, exitVars>>

\* bios_exit: the address (routines are numbered), then the count.
BiosExit(n) ==
    /\ use = "exit"
    /\ \/ dpc = "idle" /\ exits < MaxExits /\ exits' = exits + 1 /\ warmjp' = exits' /\ dpc' = "exit" /\ UNCHANGED <<timer1, owner>>
       \/ dpc = "exit" /\ timer1' = n /\ owner' = warmjp /\ dpc' = "idle" /\ UNCHANGED <<exits, warmjp>>
    /\ UNCHANGED <<use, mini, want, homing, last_seek, repet, result, fdc_irq_fired, st0, fdc, cyl, done, motor, spin, timer2,
                   delay_ticks, clean, dfaults, called, clockVars>>

-----------------------------------------------------------------------------
FloppyStart(u) ==
    /\ use = u /\ mini \in (IF u = "disk" THEN BOOLEAN ELSE {TRUE})
    /\ dpc = "idle" /\ want = NoSeek /\ homing = FALSE /\ last_seek = NoSeek /\ repet = 0 /\ result = "none"
    /\ fdc_irq_fired = FALSE /\ st0 = "ok" /\ fdc = "none" /\ cyl = [d \in FloppyDrive |-> 0]
    /\ done = FALSE /\ motor = FALSE /\ spin = 0 /\ timer2 = 0 /\ delay_ticks = 0 /\ clean = TRUE
    /\ dfaults = 0 /\ rtc = <<0, 0>> /\ clk = 0 /\ skipped = FALSE /\ reading = <<0, 0, 0>>
    /\ timer1 = 0 /\ owner = 0 /\ warmjp = 0 /\ called = <<0, 0>> /\ exits = 0

FloppyIdle == FloppyStart("off")
FloppyInit == \E u \in {"disk", "clock", "exit"} : FloppyStart(u)

Driver ==
    \/ SeekDone
    \/ Fdstar
    \/ MotorOn
    \/ HomeHead
    \/ StartTransfer
    \/ TransferDone

FloppyNext ==
    \/ \E d \in FloppyDrive, t \in Cyl : Chktrk(d, t)
    \/ \E d \in FloppyDrive : BiosHome(d)
    \/ Driver
    \/ FdcDone
    \/ IsrCrtTimers
    \/ ClockGet
    \/ \E v \in 0 .. Time - 1 : ClockSet(v)
    \/ \E n \in 1 .. 2 : BiosExit(n)

FloppySpec == FloppyInit /\ [][FloppyNext]_floppyVars

FloppyFairness == WF_floppyVars(Driver) /\ WF_floppyVars(FdcDone) /\ WF_floppyVars(IsrCrtTimers)

-----------------------------------------------------------------------------
(* Properties. *)

\* A transfer that reports success has been carried out, with the head on the
\* track asked for, during this call: no earlier interrupt is taken for its own.
OkMeansTransferred == (dpc = "idle" /\ result = "ok") => done

\* last_seek_disk and last_seek_track are set before the seek, or the
\* recalibration of HOME, has worked.  A later transfer that believes them, with
\* nothing going wrong any more, still succeeds: the recalibration half way
\* through sec_rw repairs it.
SeekRepaired == (dpc = "idle" /\ clean) => result # "error"

\* While a transfer is under way the motor of a mini drive turns, and has had
\* time to come up to speed: isr_crt does not stop it under a transfer.
MotorUpToSpeed == (dpc = "transfer" /\ mini) => (motor /\ spin = SPINUP)

\* The "floppy motor stop timer" (bios.h:638), loaded from the configuration and
\* counted down by isr_crt, stops the motor of a drive no longer used.
MotorStops == (use = "disk" /\ dpc = "idle" /\ motor) ~> (~motor \/ dpc # "idle")

\* Every transfer and every HOME comes to an end as long as the controller
\* interrupts.
TransferReturns == (use = "disk" /\ dpc # "idle") ~> (dpc = "idle")

\* CLOCK returns a time between call and return, never one half of before a
\* carry and one of after it -- once set in a way that has not met a carry
\* between its own two stores.
ClockNotTorn ==
    (use = "clock" /\ dpc = "idle" /\ ~skipped) =>
        (reading[2] - reading[1]) % Time <= (reading[3] - reading[1]) % Time

\* A count that runs out calls the routine it was given with, or a newer one,
\* never one that has been replaced.
ExitNotStale == called[1] >= called[2]

\* What sec_rw reports as done has been done, on a track that was reached and with a
\* motor that was up to speed.
TransferRight == OkMeansTransferred /\ MotorUpToSpeed

\* What isr_crt shares with CLOCK and EXIT is never used half old, half new.
TimersRight == ClockNotTorn /\ ExitNotStale
=============================================================================
