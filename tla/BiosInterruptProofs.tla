------------------------- MODULE BiosInterruptProofs -------------------------
(***************************************************************************)
(* The parts of the BIOS that share state with its interrupt handlers.     *)
(*                                                                         *)
(* For rings of every size: the keyboard's state keeps its type, CONST     *)
(* never reports a key that is not there, and the handler and CONIN        *)
(* together are a queue.                                                   *)
(*                                                                         *)
(* For every set of drives and cylinders, every number of attempts and of  *)
(* faults and every size of the clock's halves: what sec_rw reports as     *)
(* done was done, a head that is not where last_seek says is brought back, *)
(* and CLOCK and EXIT never mix old and new halves.                        *)
(***************************************************************************)
EXTENDS KbdRing, BiosFloppy, DataTheorems
-----------------------------------------------------------------------------
(* The keyboard: isr_pio_kbd and CONIN *)

\* Where CONIN has found a key and not yet taken it.
HasKey == pc \in {"load", "tail"} => kbtail # kbhead

\* What kbd_dequeue is about to store is true: keys are only added behind it.
MoreIsTrue == (pc = "stat" /\ more) => kbtail # kbhead

\* Outside kbd_dequeue a raised kbstat means a waiting key.  Inside it, after
\* the tail has moved, kbstat is out of date until the store.
StatIsTrue == (pc \notin {"compare", "stat"} /\ kbstat) => kbtail # kbhead

\* The key CONIN has loaded is still the oldest one: the handler writes only
\* the free slot at the head.
RawIsOldest == pc = "tail" => raw = kbbuf[kbtail]

KbdInv == TypeOK /\ HasKey /\ MoreIsTrue /\ StatIsTrue /\ RawIsOldest

\* Masking keeps an index in the ring.
LEMMA SuccIndex == ASSUME NEW i \in Index PROVE Succ(i) \in Index
  BY KbdAssumption, SMT DEF Succ, Index

\* The ring is empty and CONIN is not running after a cold boot.
LEMMA KbdInit == Init => KbdInv
  <1> SUFFICES ASSUME Init PROVE KbdInv
    OBVIOUS
  <1>1. 0 \in Index
    BY KbdAssumption DEF Index
  <1>2. PICK key \in Key : kbbuf = [i \in Index |-> key] /\ raw = key /\ got = key
    BY DEF Init
  <1> QED
    BY <1>1, <1>2 DEF Init, KbdInv, TypeOK, HasKey, MoreIsTrue, StatIsTrue, RawIsOldest

\* No step of CONIN, of the keyboard handler or of the refresh handler
\* breaks the invariant.
LEMMA KbdNext == KbdInv /\ [Next]_vars => KbdInv'
  <1> SUFFICES ASSUME KbdInv, [Next]_vars PROVE KbdInv'
    OBVIOUS
  <1> USE DEF KbdInv, TypeOK, HasKey, MoreIsTrue, StatIsTrue, RawIsOldest
  <1>1. CASE IsrPioKbd
    <2>1. Succ(kbhead) \in Index
      BY SuccIndex
    <2>2. PICK key \in Key :
            IF RingFull(Succ(kbhead)) THEN UNCHANGED <<kbbuf, kbhead, kbstat>>
            ELSE /\ kbbuf' = [kbbuf EXCEPT ![kbhead] = key]
                 /\ kbhead' = Succ(kbhead)
                 /\ kbstat' = TRUE
      BY <1>1 DEF IsrPioKbd
    <2>3. UNCHANGED <<kbtail, raw, more, got>> /\ pc' = IF pc = "halt" THEN "poll" ELSE pc
      BY <1>1 DEF IsrPioKbd
    <2>4. CASE RingFull(Succ(kbhead))
      BY <2>2, <2>3, <2>4
    <2>5. CASE ~RingFull(Succ(kbhead))
      <3>1. kbhead' # kbtail'
        BY <2>2, <2>3, <2>5 DEF RingFull
      <3> QED
        BY <2>1, <2>2, <2>3, <2>5, <3>1
    <2> QED
      BY <2>4, <2>5
  <1>2. CASE IsrCrt
    BY <1>2 DEF IsrCrt, WakesFromHalt
  <1>3. CASE Conin
    BY <1>3 DEF Conin
  <1>4. CASE ConinPoll
    BY <1>4 DEF ConinPoll
  <1>5. CASE ConinHalt
    BY <1>5 DEF ConinHalt
  <1>6. CASE DequeueLoad
    BY <1>6 DEF DequeueLoad
  <1>7. CASE DequeueTail
    <2>1. Succ(kbtail) \in Index
      BY SuccIndex
    <2> QED
      BY <1>7, <2>1 DEF DequeueTail
  <1>8. CASE DequeueCompare
    BY <1>8 DEF DequeueCompare, MoreKeys
  <1>9. CASE DequeueStat
    BY <1>9 DEF DequeueStat
  <1>10. CASE UNCHANGED vars
    BY <1>10 DEF vars
  <1> QED
    BY <1>1, <1>2, <1>3, <1>4, <1>5, <1>6, <1>7, <1>8, <1>9, <1>10 DEF Next, ConinStep

\* The strengthened invariant holds in every reachable state.
LEMMA KbdInductive == Spec => []KbdInv
  BY KbdInit, KbdNext, PTL DEF Spec

\* The indices stay inside the ring and every slot holds a key, for rings of
\* every size (isr_pio_kbd, kbd_dequeue).
THEOREM TypeCorrect == Spec => []TypeOK
  <1>1. KbdInv => TypeOK
    BY DEF KbdInv
  <1> QED
    BY KbdInductive, <1>1, PTL

\* Whenever CONIN is not running and kbstat is raised a key is waiting, so a
\* program that polls CONST does not block in CONIN.
THEOREM NoFalseAlarmHolds == Spec => []NoFalseAlarm
  <1>1. KbdInv => NoFalseAlarm
    BY DEF KbdInv, StatIsTrue, NoFalseAlarm
  <1> QED
    BY KbdInductive, <1>1, PTL

-----------------------------------------------------------------------------
\* The keys waiting in the ring, oldest first: what the queue holds.
Waiting == Held(kbbuf, kbhead, kbtail, KBBUFSZ)

\* A step of the ring seen as a step of the queue.
QueueStep == [Queue!Next]_(Queue!vars)

\* kbbuf is a ring as the theorems about rings mean it.
LEMMA KbdIsRing == KbdInv => IsRing(kbbuf, kbhead, kbtail, KBBUFSZ, Key)
  BY KbdAssumption DEF KbdInv, TypeOK, Index, IsRing

\* A key stored by isr_pio_kbd joins the queue at its end, while there is room.
LEMMA IsrPuts ==
    ASSUME KbdInv, IsrPioKbd PROVE QueueStep
  <1>1. PICK key \in Key :
          IF RingFull(Succ(kbhead)) THEN UNCHANGED <<kbbuf, kbhead, kbstat>>
          ELSE /\ kbbuf' = [kbbuf EXCEPT ![kbhead] = key]
               /\ kbhead' = Succ(kbhead)
               /\ kbstat' = TRUE
    BY DEF IsrPioKbd
  <1>2. UNCHANGED <<kbtail, got>>
    BY DEF IsrPioKbd
  <1>3. CASE RingFull(Succ(kbhead))
    BY <1>1, <1>2, <1>3 DEF QueueStep, Queue!vars
  <1>4. CASE ~RingFull(Succ(kbhead))
    <2>1. (kbhead + 1) % KBBUFSZ # kbtail
      BY <1>4 DEF RingFull, Succ
    <2>2. Len(Waiting) < KBBUFSZ - 1
      BY KbdIsRing, <2>1, HeldRoom DEF Waiting
    <2>3. Held(Stored(kbbuf, kbhead, key), (kbhead + 1) % KBBUFSZ, kbtail, KBBUFSZ)
            = Append(Waiting, key)
      BY KbdIsRing, <2>1, HeldPut DEF Waiting
    <2>4. Waiting' = Append(Waiting, key)
      BY <1>1, <1>2, <1>4, <2>3 DEF Waiting, Succ, Stored
    <2>5. Queue!Put
      BY <1>2, <2>2, <2>4 DEF Queue!Put, Waiting, Held
    <2> QED
      BY <2>5 DEF QueueStep, Queue!Next
  <1> QED
    BY <1>3, <1>4

\* The tail moves over the key CONIN hands to the program: the oldest one.
LEMMA DequeueGets ==
    ASSUME KbdInv, DequeueTail PROVE QueueStep
  <1>1. kbhead # kbtail /\ got' = kbbuf[kbtail]
    BY DEF KbdInv, DequeueTail, HasKey, RawIsOldest
  <1>2. /\ Waiting # <<>> /\ Head(Waiting) = kbbuf[kbtail]
        /\ Held(kbbuf, kbhead, (kbtail + 1) % KBBUFSZ, KBBUFSZ) = Tail(Waiting)
    BY KbdIsRing, <1>1, HeldGet DEF Waiting
  <1>3. Waiting' = Tail(Waiting)
    BY <1>2 DEF DequeueTail, Waiting, Succ
  <1>4. Queue!Get
    BY <1>1, <1>2, <1>3 DEF Queue!Get, Waiting, Held
  <1> QED
    BY <1>4 DEF QueueStep, Queue!Next

\* No other step moves the ring or the key the program got.
LEMMA QueueSteps == KbdInv /\ [Next]_vars => QueueStep
  <1> SUFFICES ASSUME KbdInv, [Next]_vars PROVE QueueStep
    OBVIOUS
  <1>1. CASE IsrPioKbd
    BY <1>1, IsrPuts
  <1>2. CASE DequeueTail
    BY <1>2, DequeueGets
  <1>3. CASE UNCHANGED <<kbbuf, kbhead, kbtail, got>>
    BY <1>3 DEF QueueStep, Queue!vars
  <1> QED
    BY <1>1, <1>2, <1>3 DEF Next, ConinStep, vars, IsrCrt, Conin, ConinPoll, ConinHalt,
       DequeueLoad, DequeueCompare, DequeueStat

\* The empty ring is the empty queue.
LEMMA QueueInit == Init => Queue!Init
  <1> SUFFICES ASSUME Init PROVE Queue!Init
    OBVIOUS
  <1>1. KbdInv /\ kbhead = kbtail
    BY KbdInit DEF Init
  <1>2. Waiting = <<>>
    BY <1>1, KbdIsRing, HeldEmpty DEF Waiting
  <1> QED
    BY <1>1, <1>2 DEF Queue!Init, KbdInv, TypeOK, Waiting, Held

\* isr_pio_kbd and kbd_dequeue, interleaved in any way, give the program the
\* keys in the order they were struck and each once, for rings of every size.
THEOREM IsQueue == Spec => ImplementsQueue
  BY QueueInit, QueueSteps, KbdInductive, PTL DEF Spec, ImplementsQueue, Queue!Spec, QueueStep
-----------------------------------------------------------------------------
(* The floppy driver and the timers *)

Track == Cyl \union {0}

\* Where the mainline waits for the controller.
Commanded == {"seek", "recal", "seek2", "home", "transfer"}
\* Where it is on the way to the transfer.
Starting == {"fdstar", "motor_on", "spin", "started"}

Types ==
    /\ result \in {"none", "ok", "error"} /\ st0 \in {"ok", "bad", "not_ready"}
    /\ repet \in 0 .. REPET

\* Every drive's head is on some track.
Heads == cyl \in [FloppyDrive -> Track]

\* What programs do with the BIOS, and where the mainline can be.
Modes ==
    /\ use \in {"disk", "clock", "exit"}
    /\ use = "disk" => dpc \in {"idle"} \union Commanded \union Starting
    /\ use = "clock" => dpc \in {"idle", "clock_set"} /\ result = "none"
    /\ use = "exit" => dpc \in {"idle", "exit"} /\ result = "none"
    /\ dpc \in Commanded \union Starting => want \in FloppyDrive \X Track

\* The controller carries out what the mainline waits for.
Command ==
    /\ dpc \notin Commanded => fdc = "none"
    /\ dpc \in {"seek", "seek2"} => fdc \in {"none", "seek"}
    /\ dpc \in {"recal", "home"} => fdc \in {"none", "recal"}
    /\ dpc = "transfer" => fdc \in {"none", "rw"}
    /\ fdc_irq_fired => fdc = "none"
    /\ dpc \in {"seek", "recal", "seek2", "transfer"} => ~homing
    /\ dpc = "home" => homing

\* The motor's timer never runs, so that a motor once on stays on; waitd counts
\* as many ticks as the motor has turned.
Motor ==
    /\ timer2 = 0
    /\ spin \in 0 .. SPINUP /\ delay_ticks \in 0 .. SPINUP
    /\ dpc = "spin" => motor /\ spin + delay_ticks >= SPINUP
    /\ (mini /\ dpc \in {"started", "transfer"}) => motor /\ spin = SPINUP

\* The controller's last answer is about this transfer; the result of the last
\* transfer stands while no other is under way.
Answer ==
    /\ (dpc = "transfer" /\ fdc_irq_fired /\ st0 = "ok") => done
    /\ ((dpc = "idle" \/ homing) /\ result = "ok") => done

\* Where the head is known to be right: after the recalibration in sec_rw, made
\* with the motor on, in a transfer without faults.
Repaired ==
    /\ (dpc = "idle" \/ homing) /\ clean => result # "error"
    /\ dpc = "seek" => repet = REPET
    /\ (~homing /\ dpc \in Commanded \union Starting) => repet >= 1
    /\ (~homing /\ dpc \in Commanded \union Starting /\ repet < RECALAT) => Turning
    /\ (clean /\ ~homing /\ repet < RECALAT
          /\ (dpc \in Starting \union {"transfer"} \/ (dpc = "seek2" /\ fdc_irq_fired)))
         => cyl[want[1]] = want[2]
    /\ (clean /\ dpc = "transfer" /\ fdc_irq_fired) =>
          st0 # "not_ready" /\ (repet < RECALAT => st0 = "ok")

DiskInv == Types /\ Heads /\ Modes /\ Command /\ Motor /\ Answer /\ Repaired

\* The halves of the clock together are the time; while CLOCK sets it, the high
\* half is still to come, and is right unless the low half carries meanwhile.
ClockInv ==
    /\ rtc \in (0 .. WordSize - 1) \X (0 .. WordSize - 1)
    /\ clk \in 0 .. Time - 1 /\ reading \in Nat \X Nat \X Nat
    /\ dpc = "clock_set" => want[1] \in 0 .. Time - 1
    /\ (use = "clock" /\ ~skipped) =>
          /\ dpc = "idle" => clk = rtc[1] * WordSize + rtc[2]
          /\ dpc = "clock_set" => clk = (want[1] \div WordSize) * WordSize + rtc[2]
          /\ reading[2] = reading[1] /\ reading[3] = reading[1]

\* The count belongs to the routine stored last or to one before it.
ExitInv ==
    /\ exits \in Nat /\ warmjp = exits /\ owner \in 0 .. exits
    /\ called \in Nat \X Nat /\ called[2] <= called[1]

IInv == DiskInv /\ ClockInv /\ ExitInv

-----------------------------------------------------------------------------
\* After a cold boot the heads are on track 0 and every timer is stopped.
LEMMA InitIInv == FloppyInit => IInv
  <1> SUFFICES ASSUME NEW u \in {"disk", "clock", "exit"}, FloppyStart(u) PROVE IInv
    BY DEF FloppyInit
  <1> USE FloppyAssumption DEF FloppyStart, Commanded, Starting
  <1>1. Types /\ Heads
    BY DEF Types, Heads, Track
  <1>2. Modes
    BY DEF Modes
  <1>3. Command
    BY DEF Command
  <1>4. Motor
    BY DEF Motor
  <1>5. Answer
    BY DEF Answer
  <1>6. Repaired
    BY DEF Repaired
  <1>7. ClockInv
    <2>1. Time \in Nat /\ Time > 0
      BY DEF Time
    <2> QED
      BY <2>1 DEF ClockInv
  <1>8. ExitInv
    BY DEF ExitInv
  <1> QED
    BY <1>1, <1>2, <1>3, <1>4, <1>5, <1>6, <1>7, <1>8 DEF IInv, DiskInv

\* A step of the floppy driver leaves the clock and EXIT alone.
LEMMA DiskOnly ==
    ASSUME IInv, DiskInv', UNCHANGED <<use, clockVars, exitVars>>, use = "disk"
    PROVE  IInv'
  <1>1. UNCHANGED <<use, rtc, clk, skipped, reading, timer1, owner, warmjp, called, exits>>
    BY DEF clockVars, exitVars
  <1>2. dpc' # "clock_set"
    BY <1>1 DEF DiskInv, Modes, Commanded, Starting
  <1>3. ClockInv'
    BY <1>1, <1>2 DEF IInv, ClockInv, Time
  <1>4. ExitInv'
    BY <1>1 DEF IInv, ExitInv
  <1> QED
    BY <1>3, <1>4 DEF IInv

\* chktrk: a transfer begins.
LEMMA ChktrkKeeps == ASSUME IInv, NEW d \in FloppyDrive, NEW t \in Cyl, Chktrk(d, t) PROVE IInv'
  <1>1. /\ use = "disk" /\ dpc = "idle" /\ want' = <<d, t>> /\ homing' = FALSE
        /\ repet' = REPET /\ clean' = TRUE /\ done' = FALSE
        /\ UNCHANGED <<use, mini, result, st0, cyl, motor, spin, timer2, delay_ticks>>
    BY DEF Chktrk
  <1>2. UNCHANGED <<use, clockVars, exitVars>>
    BY DEF Chktrk
  <1>3. fdc = "none"
    BY <1>1 DEF IInv, DiskInv, Command, Commanded
  <1>4. \/ dpc' = "fdstar" /\ fdc' = fdc
        \/ dpc' = "seek" /\ fdc' = "seek" /\ fdc_irq_fired' = FALSE
    BY DEF Chktrk, Issue
  <1> USE FloppyAssumption DEF IInv, DiskInv
  <1>5. Types' /\ Heads'
    <2>1. Types'
      BY <1>1 DEF Types
    <2>2. Heads'
      BY <1>1 DEF Heads, Track
    <2> QED
      BY <2>1, <2>2
  <1>6. Modes'
    BY <1>1, <1>4 DEF Modes, Commanded, Starting, Track
  <1>7. Command'
    BY <1>1, <1>3, <1>4 DEF Command, Commanded
  <1>8. Motor'
    BY <1>1, <1>4 DEF Motor
  <1>9. Answer'
    BY <1>1, <1>4 DEF Answer
  <1>10. Repaired'
    BY <1>1, <1>4 DEF Repaired, Starting, Commanded, Answer, Types
  <1> QED
    BY <1>1, <1>2, <1>5, <1>6, <1>7, <1>8, <1>9, <1>10, DiskOnly

\* HOME begins.
LEMMA HomeKeeps == ASSUME IInv, NEW d \in FloppyDrive, BiosHome(d) PROVE IInv'
  <1> USE FloppyAssumption DEF IInv, DiskInv, Commanded, Starting, BiosHome
  <1>0. use = "disk" /\ UNCHANGED <<use, clockVars, exitVars>>
    BY DEF Modes, Command
  <1>1. Types'
    BY DEF Types
  <1>2. Heads'
    BY DEF Heads, Track
  <1>3. Modes'
    BY DEF Modes, Track
  <1>4. Command'
    BY DEF Command, Modes
  <1>5. Motor'
    BY DEF Motor, Types, Modes
  <1>6. Answer'
    BY DEF Answer, Types, Command, Modes
  <1>7. Repaired'
    BY DEF Repaired, Types, Modes, Command, Turning, Motor
  <1> QED
    BY <1>0, <1>1, <1>2, <1>3, <1>4, <1>5, <1>6, <1>7, DiskOnly

\* A seek or a recalibration has ended.
LEMMA SeekKeeps == ASSUME IInv, SeekDone PROVE IInv'
  <1>1. /\ fdc_irq_fired /\ dpc \in {"seek", "recal", "seek2", "home"}
        /\ UNCHANGED <<use, mini, want, homing, repet, result, st0, cyl, done, motor, spin, timer2,
                       delay_ticks, clean>>
    BY DEF SeekDone
  <1>2. UNCHANGED <<use, clockVars, exitVars>>
    BY DEF SeekDone
  <1>3. \/ dpc = "seek" /\ dpc' = "fdstar" /\ fdc' = fdc
        \/ dpc = "seek" /\ dpc' = "recal" /\ fdc' = "recal" /\ fdc_irq_fired' = FALSE
        \/ dpc = "recal" /\ dpc' = "seek2" /\ fdc' = "seek" /\ fdc_irq_fired' = FALSE
        \/ dpc \in {"seek2", "home"} /\ homing /\ dpc' = "idle" /\ fdc' = fdc
        \/ dpc \in {"seek2", "home"} /\ ~homing /\ dpc' = "fdstar" /\ fdc' = fdc
    BY DEF SeekDone, Issue
  <1> USE FloppyAssumption DEF IInv, DiskInv
  <1>4. use = "disk"
    BY <1>1 DEF Modes
  <1>5. fdc = "none"
    BY <1>1 DEF Command
  <1>6. Types' /\ Heads'
    <2>1. Types'
      BY <1>1 DEF Types
    <2>2. Heads'
      BY <1>1 DEF Heads, Track
    <2> QED
      BY <2>1, <2>2
  <1>7. Modes'
    BY <1>1, <1>3, <1>4 DEF Modes, Commanded, Starting
  <1>8. Command'
    BY <1>1, <1>3, <1>5 DEF Command, Commanded
  <1>9. Motor'
    BY <1>1, <1>3 DEF Motor
  <1>10. Answer'
    BY <1>1, <1>3 DEF Answer
  <1>11. Repaired'
    BY <1>1, <1>3 DEF Repaired, Types, Starting, Commanded, Command, Turning
  <1> QED
    BY <1>2, <1>4, <1>6, <1>7, <1>8, <1>9, <1>10, <1>11, DiskOnly

\* fdstar starts the motor of a mini drive every time.
LEMMA FdstarKeeps == ASSUME IInv, Fdstar PROVE IInv'
  <1> USE FloppyAssumption DEF IInv, DiskInv, Commanded, Starting, Fdstar, fdtimo_var
  <1>0. use = "disk" /\ UNCHANGED <<use, clockVars, exitVars>>
    BY DEF Modes, Command
  <1>1. Types'
    BY DEF Types
  <1>2. Heads'
    BY DEF Heads, Track
  <1>3. Modes'
    BY DEF Modes, Track
  <1>4. Command'
    BY DEF Command, Modes
  <1>5. Motor'
    BY DEF Motor, Types, Modes
  <1>6. Answer'
    BY DEF Answer, Types, Command, Modes
  <1>7. Repaired'
    BY DEF Repaired, Types, Modes, Command, Turning, Motor
  <1> QED
    BY <1>0, <1>1, <1>2, <1>3, <1>4, <1>5, <1>6, <1>7, DiskOnly

\* waitd lasts until the motor is up to speed.
LEMMA MotorOnKeeps == ASSUME IInv, MotorOn PROVE IInv'
  <1>1. /\ dpc \in {"motor_on", "spin"} /\ dpc' \in {"spin", "started"}
        /\ UNCHANGED <<use, mini, want, homing, repet, result, fdc_irq_fired, st0, fdc, cyl, done, timer2, clean>>
    BY DEF MotorOn
  <1>2. UNCHANGED <<use, clockVars, exitVars>>
    BY DEF MotorOn
  <1> USE FloppyAssumption DEF IInv, DiskInv
  <1>3. use = "disk"
    BY <1>1 DEF Modes
  <1>4. Types' /\ Heads'
    <2>1. Types'
      BY <1>1 DEF Types
    <2>2. Heads'
      BY <1>1 DEF Heads, Track
    <2> QED
      BY <2>1, <2>2
  <1>5. Modes'
    BY <1>1, <1>3 DEF Modes, Commanded, Starting, Track
  <1>6. Command'
    BY <1>1 DEF Command, Commanded
  <1>7. Motor' /\ (motor => motor')
    <2>1. CASE dpc = "motor_on"
      <3>1. motor' /\ spin' = (IF motor THEN spin ELSE 0) /\ delay_ticks' = SPINUP /\ dpc' = "spin"
        BY <2>1 DEF MotorOn
      <3> QED
        BY <1>1, <3>1 DEF Motor
    <2>2. CASE dpc = "spin"
      <3>1. delay_ticks = 0 /\ dpc' = "started" /\ UNCHANGED <<motor, spin, delay_ticks>>
        BY <2>2 DEF MotorOn
      <3>2. motor /\ spin = SPINUP
        BY <2>2, <3>1 DEF Motor
      <3> QED
        BY <1>1, <3>1, <3>2 DEF Motor
    <2> QED
      BY <1>1, <2>1, <2>2
  <1>8. Answer'
    BY <1>1 DEF Answer
  <1>9. Repaired'
    BY <1>1, <1>7 DEF Repaired, Starting, Commanded, Turning
  <1> QED
    BY <1>2, <1>3, <1>4, <1>5, <1>6, <1>7, <1>8, <1>9, DiskOnly

\* HOME recalibrates.
LEMMA HomeHeadKeeps == ASSUME IInv, HomeHead PROVE IInv'
  <1> USE FloppyAssumption DEF IInv, DiskInv, Commanded, Starting, HomeHead, Issue
  <1>0. use = "disk" /\ UNCHANGED <<use, clockVars, exitVars>>
    BY DEF Modes, Command
  <1>1. Types'
    BY DEF Types
  <1>2. Heads'
    BY DEF Heads, Track
  <1>3. Modes'
    BY DEF Modes, Track
  <1>4. Command'
    BY DEF Command, Modes
  <1>5. Motor'
    BY DEF Motor, Types, Modes
  <1>6. Answer'
    BY DEF Answer, Types, Command, Modes
  <1>7. Repaired'
    BY DEF Repaired, Types, Modes, Command, Turning, Motor
  <1> QED
    BY <1>0, <1>1, <1>2, <1>3, <1>4, <1>5, <1>6, <1>7, DiskOnly

\* The transfer is started.
LEMMA StartKeeps == ASSUME IInv, StartTransfer PROVE IInv'
  <1> USE FloppyAssumption DEF IInv, DiskInv, Commanded, Starting, StartTransfer, Issue
  <1>0. use = "disk" /\ UNCHANGED <<use, clockVars, exitVars>>
    BY DEF Modes, Command
  <1>1. Types'
    BY DEF Types
  <1>2. Heads'
    BY DEF Heads, Track
  <1>3. Modes'
    BY DEF Modes, Track
  <1>4. Command'
    BY DEF Command, Modes
  <1>5. Motor'
    BY DEF Motor, Types, Modes
  <1>6. Answer'
    BY DEF Answer, Types, Command, Modes
  <1>7. Repaired'
    BY DEF Repaired, Types, Modes, Command, Turning, Motor
  <1> QED
    BY <1>0, <1>1, <1>2, <1>3, <1>4, <1>5, <1>6, <1>7, DiskOnly

\* The loop of sec_rw.
LEMMA TransferKeeps == ASSUME IInv, TransferDone PROVE IInv'
  <1>1. /\ dpc = "transfer" /\ fdc_irq_fired
        /\ UNCHANGED <<use, mini, want, homing, st0, cyl, done, motor, spin, timer2, delay_ticks, clean>>
    BY DEF TransferDone
  <1>2. UNCHANGED <<use, clockVars, exitVars>>
    BY DEF TransferDone
  <1>3. \/ /\ st0 = "ok" /\ result' = "ok" /\ dpc' = "idle" /\ UNCHANGED <<repet, fdc, fdc_irq_fired>>
        \/ /\ st0 = "not_ready" /\ result' = "error" /\ dpc' = "idle"
           /\ UNCHANGED <<repet, fdc, fdc_irq_fired>>
        \/ /\ st0 = "bad" /\ repet = RECALAT /\ repet' = repet - 1 /\ dpc' = "recal" /\ fdc' = "recal"
           /\ fdc_irq_fired' = FALSE /\ UNCHANGED result
        \/ /\ st0 = "bad" /\ repet # RECALAT /\ repet' = repet - 1 /\ UNCHANGED <<fdc, fdc_irq_fired>>
           /\ \/ repet = 1 /\ dpc' = "idle" /\ result' = "error"
              \/ repet # 1 /\ dpc' = "fdstar" /\ UNCHANGED result
    BY DEF TransferDone, Recalibrates, Issue
  <1> USE FloppyAssumption DEF IInv, DiskInv
  <1>4. use = "disk" /\ ~homing /\ fdc = "none" /\ repet \in 1 .. REPET
    BY <1>1 DEF Modes, Command, Repaired, Commanded, Types
  <1>5. Types' /\ Heads'
    <2>1. Types'
      <3>1. repet' \in 0 .. REPET
        BY <1>3, <1>4
      <3>2. result' \in {"none", "ok", "error"} /\ st0' \in {"ok", "bad", "not_ready"}
        BY <1>1, <1>3 DEF Types
      <3> QED
        BY <3>1, <3>2 DEF Types
    <2>2. Heads'
      BY <1>1, <1>3, <1>4 DEF Heads, Track
    <2> QED
      BY <2>1, <2>2
  <1>6. Modes'
    BY <1>1, <1>3, <1>4 DEF Modes, Commanded, Starting, Track
  <1>7. Command'
    BY <1>1, <1>3, <1>4 DEF Command, Commanded
  <1>8. Motor'
    BY <1>1, <1>3 DEF Motor
  <1>9. Answer'
    BY <1>1, <1>3, <1>4 DEF Answer
  <1>10. Repaired'
    <2>1. Turning /\ Turning'
      BY <1>1 DEF Motor, Turning
    <2>2. clean => st0 # "not_ready" /\ (repet < RECALAT => st0 = "ok")
      BY <1>1 DEF Repaired
    <2>3. (clean /\ repet < RECALAT) => cyl[want[1]] = want[2]
      BY <1>1, <1>4 DEF Repaired
    <2>4. CASE st0 # "bad"
      <3>1. dpc' = "idle" /\ (clean' => result' # "error")
        BY <1>1, <1>3, <2>2, <2>4
      <3> QED
        BY <1>1, <1>4, <3>1 DEF Repaired, Starting, Commanded
    <2>5. CASE st0 = "bad" /\ repet = RECALAT
      <3>1. dpc' = "recal" /\ repet' >= 1 /\ repet' < RECALAT
        BY <1>3, <1>4, <2>5
      <3> QED
        BY <1>1, <1>4, <2>1, <3>1 DEF Repaired, Starting, Commanded
    <2>6. CASE st0 = "bad" /\ repet # RECALAT
      <3>1. \/ dpc' = "idle" /\ repet = 1
            \/ dpc' = "fdstar" /\ repet' = repet - 1 /\ repet # 1
        BY <1>3, <2>6
      <3>2. clean => repet > RECALAT
        BY <1>4, <2>2, <2>6
      <3>3. ~clean \/ (dpc' = "fdstar" /\ repet' >= RECALAT)
        BY <1>4, <3>1, <3>2
      <3> QED
        BY <1>1, <1>4, <2>1, <3>1, <3>3 DEF Repaired, Starting, Commanded
    <2> QED
      BY <2>4, <2>5, <2>6
  <1> QED
    BY <1>2, <1>4, <1>5, <1>6, <1>7, <1>8, <1>9, <1>10, DiskOnly

\* The controller ends a command.
LEMMA FdcKeeps == ASSUME IInv, FdcDone PROVE IInv'
  <1>1. /\ fdc # "none" /\ fdc' = "none" /\ fdc_irq_fired' = TRUE
        /\ UNCHANGED <<use, mini, dpc, want, homing, repet, result, motor, spin, timer2, delay_ticks>>
    BY DEF FdcDone
  <1>2. UNCHANGED <<use, clockVars, exitVars>>
    BY DEF FdcDone
  <1> USE FloppyAssumption DEF IInv, DiskInv
  <1>3. /\ use = "disk" /\ dpc \in Commanded
        /\ want[1] \in FloppyDrive /\ want[2] \in Track
    BY <1>1 DEF Modes, Command, Commanded
  <1>4. \/ /\ fdc = "seek" /\ st0' = "ok" /\ cyl' = [cyl EXCEPT ![want[1]] = want[2]]
           /\ UNCHANGED <<done, clean>>
        \/ /\ fdc = "recal" /\ st0' = "ok" /\ cyl' = [cyl EXCEPT ![want[1]] = 0]
           /\ UNCHANGED <<done, clean>>
        \/ /\ fdc \in {"seek", "recal"} /\ ~Turning /\ st0' = "bad" /\ UNCHANGED <<cyl, done, clean>>
        \/ /\ fdc = "rw" /\ Turning /\ cyl[want[1]] = want[2] /\ st0' = "ok" /\ done'
           /\ UNCHANGED <<cyl, clean>>
        \/ /\ fdc = "rw" /\ ~(Turning /\ cyl[want[1]] = want[2]) /\ st0' = "bad" /\ (done => done')
           /\ UNCHANGED <<cyl, clean>>
        \/ /\ ~clean' /\ fdc # "rw" /\ st0' = "bad" /\ UNCHANGED done
           /\ \E c \in Cyl : cyl' = [cyl EXCEPT ![want[1]] = c]
        \/ /\ ~clean' /\ fdc = "rw" /\ st0' \in {"bad", "not_ready"} /\ UNCHANGED <<cyl, done>>
    BY DEF FdcDone
  <1>5. Types' /\ Heads'
    <2>1. Types'
      BY <1>1, <1>3, <1>4 DEF Types
    <2>2. Heads'
      BY <1>1, <1>3, <1>4 DEF Heads, Track
    <2> QED
      BY <2>1, <2>2
  <1>6. Modes'
    BY <1>1 DEF Modes, Commanded, Starting, Track
  <1>7. Command'
    BY <1>1 DEF Command, Commanded
  <1>8. Motor'
    BY <1>1 DEF Motor
  <1>9. Answer'
    BY <1>1, <1>3, <1>4 DEF Answer, Command, Commanded
  <1>10. Repaired'
    <2>1. Turning' = Turning
      BY <1>1 DEF Turning
    <2>2. clean' => clean
      BY <1>4
    <2>3. ((dpc = "idle" \/ homing) /\ clean => result # "error")'
      BY <1>1, <2>2 DEF Repaired
    <2>4. (dpc = "seek" => repet = REPET)' /\ (~homing => repet >= 1)'
      BY <1>1, <1>3 DEF Repaired
    <2>5. (~homing /\ repet < RECALAT => Turning)'
      BY <1>1, <1>3, <2>1 DEF Repaired
    <2>6. CASE ~clean'
      BY <1>1, <2>3, <2>4, <2>5, <2>6 DEF Repaired
    <2>7. CASE clean' /\ dpc = "seek2"
      <3>1. fdc = "seek" /\ ~homing
        BY <1>1, <2>7 DEF Command
      <3>2. repet < RECALAT => cyl'[want[1]] = want[2]
        BY <1>1, <1>3, <1>4, <2>5, <2>7, <3>1, <2>1 DEF Heads
      <3> QED
        BY <1>1, <2>3, <2>4, <2>5, <2>7, <3>2 DEF Repaired, Starting
    <2>8. CASE clean' /\ dpc = "transfer"
      <3>1. fdc = "rw" /\ ~homing
        BY <1>1, <2>8 DEF Command
      <3>2. repet < RECALAT => Turning /\ cyl[want[1]] = want[2]
        BY <1>1, <1>3, <2>1, <2>2, <2>5, <2>8, <3>1 DEF Repaired
      <3>3. cyl' = cyl /\ st0' # "not_ready" /\ (repet < RECALAT => st0' = "ok")
        BY <1>4, <2>8, <3>1, <3>2
      <3> QED
        BY <1>1, <2>3, <2>4, <2>5, <2>8, <3>2, <3>3 DEF Repaired, Starting
    <2>9. CASE dpc \in {"seek", "recal", "home"}
      BY <1>1, <2>3, <2>4, <2>5, <2>9 DEF Repaired, Starting
    <2> QED
      BY <1>3, <2>6, <2>7, <2>8, <2>9 DEF Commanded
  <1> QED
    BY <1>2, <1>3, <1>5, <1>6, <1>7, <1>8, <1>9, <1>10, DiskOnly


-----------------------------------------------------------------------------
(* The clock's two halves, for halves of every size. *)

\* Two halves together are a time.
LEMMA Halves ==
    ASSUME NEW W \in Nat, W > 1, NEW h \in 0 .. W - 1, NEW l \in 0 .. W - 1
    PROVE  h * W + l \in 0 .. (W * W) - 1
  <1>1. h * W \in Int /\ W * W \in Int /\ (W - 1 - h) * W >= 0
    BY SMT
  <1>2. (W - 1 - h) * W = W * W - W - h * W
    BY SMT
  <1>3. h * W >= 0
    BY SMT
  <1> QED
    BY <1>1, <1>2, <1>3

\* A time is its two halves.
LEMMA HalvesOf ==
    ASSUME NEW W \in Nat, W > 1, NEW v \in 0 .. (W * W) - 1
    PROVE  /\ v = (v \div W) * W + (v % W)
           /\ v % W \in 0 .. W - 1 /\ v \div W \in 0 .. W - 1
  <1>1. v = (v \div W) * W + (v % W) /\ v % W \in 0 .. W - 1 /\ v \div W \in Int
    BY SMT
  <1>2. v \div W >= 0
    BY SMT
  <1>3. v \div W <= W - 1
    BY SMT
  <1> QED
    BY <1>1, <1>2, <1>3

\* A time below the end is its own remainder, and the end wraps to 0.
LEMMA Wraps ==
    ASSUME NEW T \in Nat, T > 0
    PROVE  T % T = 0 /\ \A x \in 0 .. T - 1 : x % T = x
  BY SMT

\* Counting the halves with a carry, as isr_crt does, counts the time.
LEMMA Carry ==
    ASSUME NEW W \in Nat, W > 1, NEW h \in 0 .. W - 1, NEW l \in 0 .. W - 1
    PROVE  LET low  == (l + 1) % W
               high == IF low = 0 THEN (h + 1) % W ELSE h
           IN  /\ low = IF l = W - 1 THEN 0 ELSE l + 1
               /\ low \in 0 .. W - 1 /\ high \in 0 .. W - 1
               /\ high * W + low = (h * W + l + 1) % (W * W)
  <1> DEFINE low  == (l + 1) % W
             high == IF low = 0 THEN (h + 1) % W ELSE h
  <1>1. low = IF l = W - 1 THEN 0 ELSE l + 1
    BY Wraps
  <1>2. (h + 1) % W = IF h = W - 1 THEN 0 ELSE h + 1
    BY Wraps
  <1>3. W * W \in Nat /\ W * W > 0
    BY SMT
  <1>4. CASE l # W - 1
    <2>1. l + 1 \in 0 .. W - 1
      BY <1>4
    <2>2. h * W + (l + 1) \in 0 .. (W * W) - 1
      BY <2>1, Halves
    <2>3. (h * W + (l + 1)) % (W * W) = h * W + (l + 1)
      BY <1>3, <2>2, Wraps
    <2>4. low = l + 1 /\ high = h
      BY <1>1, <1>4
    <2> QED
      BY <1>1, <2>1, <2>3, <2>4
  <1>5. CASE l = W - 1 /\ h # W - 1
    <2>1. h + 1 \in 0 .. W - 1 /\ 0 \in 0 .. W - 1
      BY <1>5
    <2>2. (h + 1) * W + 0 \in 0 .. (W * W) - 1
      BY <2>1, Halves
    <2>3. h * W + l + 1 = (h + 1) * W + 0
      BY <1>5, SMT
    <2>4. ((h + 1) * W + 0) % (W * W) = (h + 1) * W + 0
      BY <1>3, <2>2, Wraps
    <2>5. low = 0 /\ high = h + 1
      BY <1>1, <1>2, <1>5
    <2> QED
      BY <1>1, <2>1, <2>3, <2>4, <2>5
  <1>6. CASE l = W - 1 /\ h = W - 1
    <2>1. h * W + l + 1 = W * W
      BY <1>6, SMT
    <2>2. low = 0 /\ high = 0
      BY <1>1, <1>2, <1>6
    <2>3. (h * W + l + 1) % (W * W) = 0
      BY <1>3, <2>1, Wraps
    <2> QED
      BY <1>1, <2>2, <2>3
  <1> QED
    BY <1>4, <1>5, <1>6

-----------------------------------------------------------------------------
\* A step of CLOCK or EXIT leaves the floppy driver alone.
LEMMA DiskKept ==
    ASSUME DiskInv, dpc \notin Commanded \union Starting, dpc' \notin Commanded \union Starting,
           use # "disk", use = "clock" => dpc' \in {"idle", "clock_set"},
           use = "exit" => dpc' \in {"idle", "exit"},
           UNCHANGED <<use, mini, homing, last_seek, repet, result, fdc_irq_fired, st0, fdc, cyl, done,
                       motor, spin, timer2, delay_ticks, clean, dfaults>>
    PROVE  DiskInv'
  <1> USE DEF DiskInv, Commanded, Starting
  <1>1. Types' /\ Command' /\ Motor'
    BY DEF Types, Command, Motor
  <1>2. Heads'
    BY DEF Heads, Track
  <1>3. Modes'
    BY DEF Modes, Track
  <1>4. Answer' /\ Repaired'
    BY DEF Modes, Answer, Repaired
  <1> QED
    BY <1>1, <1>2, <1>3, <1>4

\* isr_crt.
LEMMA TickKeeps == ASSUME IInv, IsrCrtTimers PROVE IInv'
  <1>1. UNCHANGED <<use, mini, dpc, want, homing, last_seek, repet, result, fdc_irq_fired, st0, fdc, cyl, done,
                    clean, dfaults, reading, owner, warmjp, exits>>
    BY DEF IsrCrtTimers
  <1>2. DiskInv'
    <2> USE DEF IInv, DiskInv
    <2>1. timer2' = 0 /\ (motor => motor') /\ (motor' => motor)
      <3>1. timer2 = 0
        BY DEF Motor
      <3>2. timer2 # 1 /\ timer2' = 0
        BY <3>1 DEF IsrCrtTimers
      <3>3. motor' = (motor /\ timer2 # 1)
        BY DEF IsrCrtTimers
      <3> QED
        BY <3>2, <3>3, Zenon
    <2>2. Motor'
      <3>1. /\ spin' = IF motor /\ spin < SPINUP THEN spin + 1 ELSE spin
            /\ delay_ticks' = IF delay_ticks # 0 THEN delay_ticks - 1 ELSE delay_ticks
        BY DEF IsrCrtTimers, DelayAfterTick
      <3> QED
        BY <1>1, <2>1, <3>1, FloppyAssumption DEF Motor
    <2>3. Types' /\ Command'
      BY <1>1 DEF Types, Command, Commanded
    <2>4. Heads' /\ Modes'
      BY <1>1 DEF Heads, Modes, Track, Commanded, Starting
    <2>5. Answer'
      BY <1>1 DEF Answer
    <2>6. Repaired'
      BY <1>1, <2>1 DEF Repaired, Turning, Commanded, Starting
    <2> QED
      BY <2>2, <2>3, <2>4, <2>5, <2>6
  <1>3. ClockInv'
    <2> DEFINE low == (rtc[2] + 1) % WordSize
               high == IF low = 0 THEN (rtc[1] + 1) % WordSize ELSE rtc[1]
    <2>1. /\ rtc' = <<high, low>> /\ clk' = (clk + 1) % Time
          /\ skipped' = (skipped \/ (dpc = "clock_set" /\ rtc[2] = WordSize - 1))
      BY DEF IsrCrtTimers
    <2>2. /\ rtc[1] \in 0 .. WordSize - 1 /\ rtc[2] \in 0 .. WordSize - 1
          /\ clk \in 0 .. Time - 1 /\ reading \in Nat \X Nat \X Nat
          /\ dpc = "clock_set" => want[1] \in 0 .. Time - 1
      BY DEF IInv, ClockInv
    <2>3. WordSize \in Nat /\ WordSize > 1 /\ Time = WordSize * WordSize /\ Time \in Nat /\ Time > 0
      BY FloppyAssumption, SMT DEF Time
    <2>4. /\ low = IF rtc[2] = WordSize - 1 THEN 0 ELSE rtc[2] + 1
          /\ low \in 0 .. WordSize - 1 /\ high \in 0 .. WordSize - 1
          /\ high * WordSize + low = (rtc[1] * WordSize + rtc[2] + 1) % Time
      <3> DEFINE h == rtc[1]
                 l == rtc[2]
      <3>1. h \in 0 .. WordSize - 1 /\ l \in 0 .. WordSize - 1
        BY <2>2
      <3> HIDE DEF h, l
      <3>2. LET lo == (l + 1) % WordSize
                hi == IF lo = 0 THEN (h + 1) % WordSize ELSE h
            IN  /\ lo = IF l = WordSize - 1 THEN 0 ELSE l + 1
                /\ lo \in 0 .. WordSize - 1 /\ hi \in 0 .. WordSize - 1
                /\ hi * WordSize + lo = (h * WordSize + l + 1) % (WordSize * WordSize)
        BY <2>3, <3>1, Carry
      <3> QED
        BY <2>3, <3>2 DEF h, l
    <2> HIDE DEF low, high
    <2>5. clk' \in 0 .. Time - 1
      BY <2>1, <2>2, <2>3, SMT
    <2>6. rtc'[1] = high /\ rtc'[2] = low /\ rtc' \in (0 .. WordSize - 1) \X (0 .. WordSize - 1)
      BY <2>1, <2>4
    <2>7. (use = "clock" /\ ~skipped') =>
             /\ dpc = "idle" => clk' = high * WordSize + low
             /\ dpc = "clock_set" => clk' = (want[1] \div WordSize) * WordSize + low
             /\ reading[2] = reading[1] /\ reading[3] = reading[1]
      <3> SUFFICES ASSUME use = "clock", ~skipped'
                   PROVE  /\ dpc = "idle" => clk' = high * WordSize + low
                          /\ dpc = "clock_set" => clk' = (want[1] \div WordSize) * WordSize + low
                          /\ reading[2] = reading[1] /\ reading[3] = reading[1]
        OBVIOUS
      <3>1. ~skipped /\ (dpc = "clock_set" => rtc[2] # WordSize - 1)
        BY <2>1
      <3>2. reading[2] = reading[1] /\ reading[3] = reading[1]
        BY <3>1 DEF IInv, ClockInv
      <3>3. ASSUME dpc = "idle" PROVE clk' = high * WordSize + low
        <4>1. clk = rtc[1] * WordSize + rtc[2]
          BY <3>1, <3>3 DEF IInv, ClockInv
        <4> QED
          BY <2>1, <2>4, <4>1
      <3>4. ASSUME dpc = "clock_set" PROVE clk' = (want[1] \div WordSize) * WordSize + low
        <4> DEFINE q == want[1] \div WordSize
        <4>1. clk = q * WordSize + rtc[2] /\ rtc[2] # WordSize - 1
          BY <3>1, <3>4 DEF IInv, ClockInv
        <4>2. q \in 0 .. WordSize - 1
          BY <2>2, <2>3, <3>4, HalvesOf
        <4>3. low = rtc[2] + 1
          BY <2>4, <4>1
        <4> HIDE DEF q
        <4>4. q * WordSize + low \in 0 .. Time - 1
          BY <2>3, <2>4, <4>2, Halves
        <4>5. clk + 1 = q * WordSize + low
          <5>1. q * WordSize \in Int
            BY <2>3, <4>2, SMT
          <5> QED
            BY <2>2, <4>1, <4>3, <5>1
        <4>6. clk' = q * WordSize + low
          BY <2>1, <2>3, <4>4, <4>5, Wraps
        <4> QED
          BY <4>6 DEF q
      <3> QED
        BY <3>2, <3>3, <3>4
    <2> QED
      BY <1>1, <2>2, <2>5, <2>6, <2>7 DEF ClockInv, Time
  <1>4. ExitInv'
    <2>1. called' = IF timer1 = 1 THEN <<warmjp, owner>> ELSE called
      BY DEF IsrCrtTimers
    <2> QED
      BY <1>1, <2>1 DEF IInv, ExitInv
  <1> QED
    BY <1>2, <1>3, <1>4 DEF IInv

\* CLOCK (get) reads both halves with interrupts disabled.
LEMMA ClockGetKeeps == ASSUME IInv, ClockGet PROVE IInv'
  <1>1. /\ use = "clock" /\ dpc = "idle" /\ reading' = <<clk, rtc[1] * WordSize + rtc[2], clk>>
        /\ UNCHANGED <<use, mini, rtc, clk, skipped>>
    BY DEF ClockGet
  <1>2. UNCHANGED <<dpc, want, homing, last_seek, repet, result, fdc_irq_fired, st0, fdc, cyl, done, motor, spin,
                    timer2, delay_ticks, clean, dfaults, timer1, owner, warmjp, called, exits>>
    BY DEF ClockGet, diskVars, exitVars
  <1>3. DiskInv'
    BY <1>1, <1>2, DiskKept DEF IInv, Commanded, Starting
  <1>4. ClockInv'
    <2>1. rtc[1] \in 0 .. WordSize - 1 /\ rtc[2] \in 0 .. WordSize - 1 /\ clk \in 0 .. Time - 1
      BY DEF IInv, ClockInv
    <2>2. Time = WordSize * WordSize /\ Time \in Nat /\ WordSize \in Nat /\ WordSize > 1
      BY FloppyAssumption, SMT DEF Time
    <2>3. rtc[1] * WordSize + rtc[2] \in 0 .. Time - 1
      BY <2>1, <2>2, Halves
    <2> DEFINE value == rtc[1] * WordSize + rtc[2]
    <2>4. ~skipped => clk = value
      BY <1>1 DEF IInv, ClockInv
    <2> HIDE DEF value
    <2>5. value \in Nat /\ clk \in Nat
      BY <2>1, <2>2, <2>3 DEF value
    <2>6. reading' = <<clk, value, clk>>
      BY <1>1 DEF value
    <2>7. reading' \in Nat \X Nat \X Nat /\ (~skipped => reading'[2] = reading'[1] /\ reading'[3] = reading'[1])
      BY <2>4, <2>5, <2>6
    <2> QED
      BY <1>1, <1>2, <2>7 DEF IInv, ClockInv, Time
  <1>5. ExitInv'
    BY <1>2 DEF IInv, ExitInv
  <1> QED
    BY <1>3, <1>4, <1>5 DEF IInv

\* CLOCK (set) stores the low half, then the high half.
LEMMA ClockSetKeeps == ASSUME IInv, NEW v \in 0 .. Time - 1, ClockSet(v) PROVE IInv'
  <1>1. /\ use = "clock"
        /\ UNCHANGED <<use, mini, homing, last_seek, repet, result, fdc_irq_fired, st0, fdc, cyl, done, motor, spin,
                       timer2, delay_ticks, clean, dfaults>>
    BY DEF ClockSet
  <1>2. UNCHANGED <<timer1, owner, warmjp, called, exits>>
    BY DEF ClockSet, exitVars
  <1>3. dpc \in {"idle", "clock_set"} /\ dpc' \in {"idle", "clock_set"}
    BY DEF ClockSet
  <1>4. DiskInv'
    BY <1>1, <1>3, DiskKept DEF IInv, Commanded, Starting
  <1>5. ClockInv'
    <2>1. rtc[1] \in 0 .. WordSize - 1 /\ rtc[2] \in 0 .. WordSize - 1 /\ clk \in 0 .. Time - 1
      BY DEF IInv, ClockInv
    <2>2. Time = WordSize * WordSize /\ Time \in Nat /\ WordSize \in Nat /\ WordSize > 1
      BY FloppyAssumption, SMT DEF Time
    <2> DEFINE q == v \div WordSize
               r == v % WordSize
    <2>3. v = q * WordSize + r /\ r \in 0 .. WordSize - 1 /\ q \in 0 .. WordSize - 1
      BY <2>2, HalvesOf
    <2>4. CASE dpc = "idle"
      <3>1. /\ dpc' = "clock_set" /\ rtc' = <<rtc[1], r>> /\ want' = <<v, v>> /\ clk' = v
            /\ reading' = <<0, 0, 0>>
        BY <2>4 DEF ClockSet
      <3>2. rtc' \in (0 .. WordSize - 1) \X (0 .. WordSize - 1) /\ rtc'[2] = r
        BY <2>1, <2>3, <3>1
      <3>3. want'[1] = v
        BY <3>1
      <3>4. clk' = (want'[1] \div WordSize) * WordSize + rtc'[2]
        BY <2>3, <3>1, <3>2, <3>3
      <3>5. reading' \in Nat \X Nat \X Nat /\ reading'[2] = reading'[1] /\ reading'[3] = reading'[1]
        BY <3>1
      <3>6. clk' \in 0 .. Time - 1 /\ want'[1] \in 0 .. Time - 1
        BY <3>1, <3>3
      <3> QED
        BY <3>1, <3>2, <3>4, <3>5, <3>6 DEF ClockInv, Time
    <2>5. CASE dpc = "clock_set"
      <3>1. /\ v = want[1] /\ dpc' = "idle" /\ rtc' = <<q, rtc[2]>> /\ UNCHANGED <<clk, skipped, reading>>
        BY <2>5 DEF ClockSet
      <3>2. rtc' \in (0 .. WordSize - 1) \X (0 .. WordSize - 1) /\ rtc'[1] = q /\ rtc'[2] = rtc[2]
        BY <2>1, <2>3, <3>1
      <3>3. ~skipped => clk = q * WordSize + rtc[2]
        BY <1>1, <2>5, <3>1 DEF IInv, ClockInv
      <3> QED
        BY <1>1, <2>5, <3>1, <3>2, <3>3 DEF IInv, ClockInv, Time
    <2> QED
      BY <1>3, <2>4, <2>5
  <1>6. ExitInv'
    BY <1>2 DEF IInv, ExitInv
  <1> QED
    BY <1>4, <1>5, <1>6 DEF IInv

\* EXIT stores the address, then the count.
LEMMA ExitKeeps == ASSUME IInv, NEW n, BiosExit(n) PROVE IInv'
  <1>1. /\ use = "exit" /\ dpc \in {"idle", "exit"} /\ dpc' \in {"idle", "exit"}
        /\ UNCHANGED <<use, mini, want, homing, last_seek, repet, result, fdc_irq_fired, st0, fdc, cyl, done, motor, spin,
                       timer2, delay_ticks, clean, dfaults, called>>
    BY DEF BiosExit
  <1>2. UNCHANGED <<rtc, clk, skipped, reading>>
    BY DEF BiosExit, clockVars
  <1>3. DiskInv'
    BY <1>1, DiskKept DEF IInv, Commanded, Starting
  <1>4. ClockInv'
    BY <1>1, <1>2 DEF IInv, ClockInv, Time
  <1>5. ExitInv'
    <2>1. \/ exits' = exits + 1 /\ warmjp' = exits' /\ owner' = owner
          \/ owner' = warmjp /\ UNCHANGED <<exits, warmjp>>
      BY DEF BiosExit
    <2> QED
      BY <1>1, <2>1 DEF IInv, ExitInv
  <1> QED
    BY <1>3, <1>4, <1>5 DEF IInv

\* No step of the driver, of the controller or of isr_crt breaks the invariant.
LEMMA NextIInv == IInv /\ [FloppyNext]_floppyVars => IInv'
  <1> SUFFICES ASSUME IInv, [FloppyNext]_floppyVars PROVE IInv'
    OBVIOUS
  <1>1. CASE UNCHANGED floppyVars
    <2>1. UNCHANGED <<use, mini, dpc, want, homing, repet, result, fdc_irq_fired, st0, fdc, cyl, done, motor, spin,
                      timer2, delay_ticks, clean>>
      BY <1>1 DEF floppyVars, diskVars
    <2>2. UNCHANGED <<rtc, clk, skipped, reading, owner, warmjp, called, exits>>
      BY <1>1 DEF floppyVars, clockVars, exitVars
    <2>3. Types' /\ Command' /\ Motor' /\ Answer'
      BY <2>1 DEF IInv, DiskInv, Types, Command, Motor, Answer, Commanded
    <2>4. Heads' /\ Modes'
      BY <2>1 DEF IInv, DiskInv, Heads, Modes, Track, Commanded, Starting
    <2>5. Repaired'
      BY <2>1 DEF IInv, DiskInv, Repaired, Turning, Commanded, Starting
    <2>6. ClockInv'
      BY <2>1, <2>2 DEF IInv, ClockInv, Time
    <2>7. ExitInv'
      BY <2>2 DEF IInv, ExitInv
    <2> QED
      BY <2>3, <2>4, <2>5, <2>6, <2>7 DEF IInv, DiskInv
  <1>2. CASE FloppyNext
    BY <1>2, ChktrkKeeps, HomeKeeps, SeekKeeps, FdstarKeeps, MotorOnKeeps, HomeHeadKeeps, StartKeeps,
       TransferKeeps, FdcKeeps, TickKeeps, ClockGetKeeps, ClockSetKeeps, ExitKeeps DEF FloppyNext, Driver
  <1> QED
    BY <1>1, <1>2

\* The strengthened invariant holds in every reachable state.
LEMMA Inductive == FloppySpec => []IInv
  BY InitIInv, NextIInv, PTL DEF FloppySpec

\* sec_rw: a transfer that reports success was carried out during this call, on
\* the track asked for, with the motor of a mini drive up to speed; however
\* long isr_crt's ticks are delayed and whatever fails.
THEOREM TransferSafe == FloppySpec => []TransferRight
  <1>1. IInv => TransferRight
    BY DEF IInv, DiskInv, Answer, Motor, TransferRight, OkMeansTransferred, MotorUpToSpeed
  <1> QED
    BY Inductive, <1>1, PTL

\* chktrk and bios_home note the head's place before they know it; a later
\* transfer during which nothing fails succeeds all the same, because sec_rw
\* recalibrates while it has attempts left.
THEOREM SeekIsRepaired == FloppySpec => []SeekRepaired
  <1>1. IInv => SeekRepaired
    BY DEF IInv, DiskInv, Repaired, SeekRepaired
  <1> QED
    BY Inductive, <1>1, PTL

\* CLOCK and EXIT against isr_crt: no time made of halves of two times, and no
\* routine called that had been replaced before its count was stored.
THEOREM TimersSafe == FloppySpec => []TimersRight
  <1>1. IInv => TimersRight
    <2> SUFFICES ASSUME IInv PROVE TimersRight
      OBVIOUS
    <2>1. ClockNotTorn
      <3> SUFFICES ASSUME use = "clock", ~skipped
                   PROVE  (reading[2] - reading[1]) % Time <= (reading[3] - reading[1]) % Time
        BY DEF ClockNotTorn
      <3>1. reading[2] = reading[1] /\ reading[3] = reading[1] /\ reading[1] \in Nat
        BY DEF IInv, ClockInv
      <3>2. Time \in Nat /\ Time > 0
        BY FloppyAssumption, SMT DEF Time
      <3>3. reading[2] - reading[1] = 0 /\ reading[3] - reading[1] = 0
        BY <3>1
      <3>4. 0 % Time = 0
        BY <3>2, Wraps
      <3> QED
        BY <3>3, <3>4
    <2>2. ExitNotStale
      BY DEF IInv, ExitInv, ExitNotStale
    <2> QED
      BY <2>1, <2>2 DEF TimersRight
  <1> QED
    BY Inductive, <1>1, PTL
=============================================================================
