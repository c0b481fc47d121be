# Formal model of the RC702 software

TLA+ modules for the programs this repository maintains for the Regnecentralen
RC702: the CP/M BIOS written in C (`src/rcbios-in-c`), the diskless CP/NOS
system (`src/cpnos-rom`), the CP/NET link between the machine and its server
(`src/cpnet`), and the host programs around them: servers, bridges, the tools
that build and check disk images, and the scripts that deploy over a serial line.
TLC checks the modules on small instances. For the eight modules of the BIOS, the
CP/NOS console, the CP/NET link and its two servers, and for the six of the host's
serial programs, TLAPS proves the safety properties (all but one of the link's and one
of the scripts') and the refinements for every instance. `PROJECT.json` lists components, runs, mutants,
hazards and theorems, and maps every definition to source lines.

To repeat a run: `tlc -config BiosDiskDirectory.cfg MCBiosDisk`. To repeat a
proof: `tlapm BiosDiskProofs.tla`.

## The system and its parts

A Z80 runs one program at a time. There is no operating-system concurrency; what
makes the code hard is that interrupts (keyboard, display refresh at 50 Hz,
floppy controller, the eight interrupts of the two serial channels) come between
any two instructions of the main line, that the floppy disk and the serial line
fail, and that the machine may be reset at any time. The host programs are small
and mostly sequential; what makes them hard is the other side: a machine that is
slow, loses what it is sent and cannot be asked what it received, streams that
arrive in pieces of any size, and file formats read by several parsers that were
written apart.

| Part | State | Operations | Interacts with | Hard behaviour | What makes it correct |
|---|---|---|---|---|---|
| Disk blocking/deblocking (`bios.c`) | one host sector buffer with valid and dirty marks, its position, a pending error, the run of unallocated records, the current format | SELDSK, HOME, SETTRK, SETSEC, SETDMA, READ, WRITE, warm and cold boot | called by the BDOS; calls the floppy driver | a transfer fails in the middle of a call; the error is reported by a later call; reset with a dirty buffer; two drives of different geometry share the buffer | READ returns what was last written; nothing is lost without an error; a directory write is on the disk when it returns |
| Floppy driver (`bios.c`) | seek position, result bytes, interrupt flag, motor timer | recalibrate, seek, read, write with ten retries | interrupt from the controller, refresh interrupt for the motor | waiting for an interrupt, stale seek position, motor stopping | a transfer reaches the sector asked for, and ends |
| Serial channels (`bios.c`) | receive ring, transmit-ready flag, RTS, register pointer of the SIO | READER, PUNCH, LIST, serial CONIN and CONOUT, eight interrupt handlers | sender at the other end of the line | interrupt between two accesses to the ring or to the SIO | the ring is a queue, no byte is dropped, nobody waits for ever |
| Keyboard (`bios.c`) | ring, `kbstat` | CONIN, CONST, `isr_pio_kbd` | refresh interrupt ends a HALT | interrupt between test and HALT, between comparison and store | keys arrive in order, once; CONST tells the truth |
| Display driver, timers, clock (`bios.c`) | screen, cursor, attribute bitmap, clock, two timers | CONOUT, CLOCK, EXIT, `isr_crt` | refresh interrupt | multi-byte values shared with the interrupt | screen and cursor are right, no tick is lost |
| CP/NOS console (`cpnos-rom/resident.c`, `isr.c`) | screen, cursor, dirty mark, XY sequence | CONOUT with its control codes, `isr_crt` | 8275 display controller | overlapping block moves, interrupt between two stores | the screen is that of a terminal; the cursor shown is the cursor |
| CP/NET link, client (`cpnet/snios.asm`) | retry count, status byte, position in the handshake | NTWKIN, NTWKST, SNDMSG, RCVMSG, NTWKDN | serial line, server | lost and spoiled bytes, timeouts, retries without sequence numbers | a request is executed at most once and gets its own answer; calls return |
| CP/NET link, server (`cpnet/server.py`) | position in the handshake | `recv_frame`, `handle_request`, `send_frame` | serial line, client | as above | as above |
| CP/NET file functions (`server.py`) | open files, search list, default drive | open, close, search, read, write, make, delete, rename, random access, sizes | host file system, NDOS's FCB | the FCB travels with each request; search continued after the directory changed; files that end inside a record | the position is kept, a scan is complete, a write touches one record |
| Netboot (`netboot_mpm.c`, `netboot_server.py`) | boot progress; files in memory, files cached at open, search list | log in, open, read, close, start; the BDOS functions | host file system | the image is built anew while it is read, sessions break off and the server's state stays | what is started is one whole image that fits |
| PIO transport and bridge (`transport_pio.c`, `cpnet_pio_server.py`) | position in a frame, stale latch, connection upstream | send and receive a frame, probe, forward, answer | station, upstream server, test client | stale byte at a change of direction, spoiled bytes, waits that run out | a request is carried out as asked and once, an answer reaches its request, no exchange sticks |
| Disk image tools (`rcbios/*.py`, `rcbios-in-c`, `cpm`) | the `.IMD` file | convert, list, renumber, patch, make, verify | each other, by the file | lengths nobody marks; sector numbering; two sides of track 0 | the file still stands for the diskette |
| HEX files, validator, stamps, relocation, PROMs | the image on its way | write, send, load, validate, sysgen, stamp, relocate, check | LOAD, SYSGEN, the emulator | lost and spoiled records, sums that overlap | OK means whole, FAIL means a fault |
| SDLC decoder (`sdlc_receiver.py`) | samples | recover the clock, undo NRZI and stuffing, check | SIO-B's line | jitter, shared flags, bits left over | frames sent are frames found |
| Console and PIP scripts (`rcbios-in-c/*.py`, `server.py`) | step of the script, text read | type, wait for text, compare, save | CP/M | echo mistaken for an answer, waits that run out, missing programs | what is reported as saved is what was sent |
| Bridges, typist, tee, throughput monitor | pieces read, flags of two threads | pass on, answer enquiries, inject, log, count | person, emulator, server | borders of pieces, two threads | nothing lost, doubled or taken for something else |
| Boot PROM (`autoload-in-c`) | recognised format, track being loaded | recognise, load, hand over | floppy controller | retries, two densities | |

The BDOS and CCP are Digital Research's and appear only as the environment of
the disk driver and of the scripts. `PROJECT.json` gives a status and a reason
for every part.

## Modules

| Module | Models | Abstract specification |
|---|---|---|
| `BiosDisk` | the disk half of `bios.c` | `RecordStore` |
| `SioChannel` | one SIO channel of `bios.c` | `ByteQueue` |
| `KbdRing` | keyboard input of `bios.c` | `ByteQueue` |
| `CpnosConsole` | console output of CP/NOS | `Terminal` |
| `DriLink` | SNIOS, `server.py` and the line between them | |
| `BiosFloppy` | the floppy driver, `isr_crt`'s timers, CLOCK and EXIT of `bios.c` | |
| `CpnetServer` | the BDOS functions of `server.py` | |
| `NetbootServer` | `netboot_mpm.c` and `netboot_server.py` | |
| `CpmRecords` | a host file as records, for the two above | |
| `PioBridge` | `transport_pio.c`, `cpnet_pio_server.py`, the envelope of `netboot_server.py`, `cpnet12_client.py` | |
| `ImdTools` | the tools that read and write `.IMD` files | the diskette, a function |
| `IntelHex`, `BiosBuild` | HEX writers and readers; a BIOS on its way to the system tracks | |
| `SystemFiles` | serial number stamps, page relocation, PROM checksums | |
| `SdlcReceiver` | `sdlc_receiver.py` | the frames sent |
| `ConsoleScripts` | scripts that drive CP/M over its console | |
| `SerialFeeds` | scripts that send files to PIP | |
| `SerialBridges` | `siob_interactive.py`, `siob_daemon.py`, `sio_b_driver.py` | |
| `SmokeInject`, `SioTee`, `ThroughputMonitor` | the programs of those names | |
| `BiosDiskProofs`, `SioChannelProofs`, `ConsoleScriptsProofs` | theorems about the module each is named after | |
| `CpnosProofs` | theorems about `CpnosConsole` and `NetbootServer` | |
| `CpnetProofs` | theorems about `CpnetServer` and `DriLink` | |
| `SerialProofs` | theorems about the serial programs as `MCHostPrograms` puts them together | |
| `BiosInterruptProofs` | theorems about `KbdRing` and `BiosFloppy` | |
| `DataTheorems` | lemmas on rings, maxima, quotients, joined sequences and induction that the proofs share | |
| `MC*` | constants, symmetry and views for TLC | |

Four MC modules put modules side by side that share no variable.
`MCKbdRing` runs one of `KbdRing`, `BiosFloppy` and `CpnosConsole`, `MCCpnetServer`
`CpnetServer` or `DriLink`, `MCCpnosHosts` one of `NetbootServer`
and `PioBridge`, `MCHostPrograms` (through `MCHostTools` and `MCSerialScripts`) one
of the host programs. An initial state belongs to one of them, the variables of
the others keep their initial values, and a behaviour is one of that module.

Definitions preceded by a comment "Bug:" are mutated forms of the definition
that follows. No specification uses them; each stands for a plausible bug and
shows that a property notices it.

### BiosDisk

State and names are those of `bios.c`; the three-part positions `hostbuf`, `cpm`
and `unalloc` are tuples. A BIOS call is one step for each disk transfer it makes:
`pc` says which transfer comes next (`rwoper_flush`, `rwoper_fill`, `dir_flush`,
`seldsk_flush`, `home_flush`), so that a failure or a reset can come at each.
`xread` and `xwrite` up to `rwoper`'s decision are `Xread` and `Xwrite`; the code
from label `match` to the return is `Match`.

* A transfer works or fails as a whole: `sec_rw` gives up only after its retries.
  A failed read leaves any member of `Garbage` in the buffer, a failed or
  interrupted write leaves it, or the old contents, on the disk.
* SETTRK, SETSEC and SETDMA only store; the BDOS calls all three before every
  transfer, so they are parameters. `unalloc_mask` has no effect (both callers of
  `rdhst` have cleared the count it protects) and is left out.
* `alloc` and `live` belong to the BDOS: which blocks are allocated, and which
  records hold data that CP/M was told are safe. `BdosWrites` follows the BDOS's
  choice of write type. A write to a block not yet allocated has type WRUAL;
  with `SequentialAlloc` it is the block's first record, as in sequential files.
* `RecordStore` says what CP/M may count on. Live records keep their value,
  except that a failed write loses one sector and leaves an error *owed* to the
  next READ or WRITE; that a reset loses one sector at most; and that after an
  error one sector may stay *in doubt* (finding 1). `ImplementsStore` maps
  `content` to what a READ would find (`View`) and `owed` to `disk_error`.

### SioChannel

The reader, READER for channel A and CONIN for channel B, is one step per access
to shared memory or to the SIO, the handlers one step each. The SIO's control
port is modelled with its register pointer (`Write`, from the Z80-SIO's
documented behaviour and the values the code writes), since two writes make one
access and a handler may come in between. `Slack` is what the sender still sends
after RTS goes off, `Burst` what arrives while the reader turns it on again;
`Events` chooses what else happens in a run. Reads of a flag are atomic, and
stores happen in source order.

The reader has three places where a handler spoils its work: between the two
writes to the control port, while it works with the ring's tail (a flush makes
its copy stale), and any time the ring is emptied with RTS off by someone who
does not turn it on. The history variable `upset` records that one of them was
hit. The properties of the passing run hold until then; what can happen
afterwards is finding 2 and the observations below.

### KbdRing

CONIN with CON:=CRT. Test and HALT are two steps, and so are the comparison and
the store of `kbstat` in `kbd_dequeue`. The key translation table is one to one
and left out.

### CpnosConsole

A byte of CONOUT changes the display at once and queues its stores to `curx`,
`cury` and `cur_dirty` in `todo`; `isr_crt` may come before each. The display is
a flat array, moved by the code's own overlapping `Ldir` and `Lddr`. `Terminal`
has rows that move as wholes. `from` remembers the position and the mark before
the byte, for `NeverTorn`.

### DriLink

The line carries control bytes and the two parts of a frame. A part of a frame
arrives good, bad (wrong checksum) or short (a byte is missing: the receiver
notices at once or waits for one byte more). Time is the order of the timeouts:
1.6 s for an ACK in GETACK, 5 s in `server.py`, 160 s for the answer to ENQ and
for the first byte of a message. A timeout comes only when nothing else can
happen before it; the fault "late" is a GETACK timeout that comes too early.
`effects` records what the faults so far put in question: an ACK the server did
send (`doubt`), a byte SNIOS waits for in RECVBY (`owed`), nothing but a request's
checksum (`spoiled`), or some other part of the handshake (`broken`). Each
property names the effects it does not survive.
`ServerTimeout` is any of the waits of `server.py` inside a frame running out. It comes
when SNIOS is not in its shorter wait and has taken what was there to take (it empties
the ring at once while it is in a call), or when SNIOS is idle and lets bytes lie.
Left out: the check of the destination id (`server.py` always answers to the
sender), and a garbled byte that turns into another valid control byte.

### BiosFloppy

One mainline call at a time, SELDSK's and READ/WRITE's `chktrk` and `sec_rw`, HOME,
CLOCK or EXIT, is one step per access to what `isr_crt` and `isr_floppy` share with
it; the handlers are one step each. The commands of the controller are one step,
its answer another: a seek or recalibration ends on the cylinder asked for, on
another one, or with an error; a transfer works only if the head is where the
controller was told, and may fail even then. `last_seek` is the code's, `cyl`
is where the heads are. The clock's halves and the exit routine's address and count
are stored one after the other. `fdtimo_var` is 0, since no code stores to it
after the work area is cleared (finding 3). A controller that does not interrupt
at all, and the attention interrupt for a drive that becomes ready, are left out.

### CpnetServer, NetbootServer, CpmRecords

One action per handler, from the request's fields to the answer. In `CpnetServer`
the FCB is NDOS's and comes back with the answer, so that the position of a program
in its file is state outside the server; names keep blanks, attribute bits and the
dot, because the handlers convert them both ways. `NetbootServer` keeps what
`netboot_server.py` keeps over a session: files written in memory, contents cached
at open, the rest of a search. `CpmRecords` pads the last record as both do.
The histories `pos` and `scan` keep what a program may expect; `stale` (a random write or
a new build behind the cache) marks what the code does not handle.

### PioBridge

A frame on the port is a sequence of bytes with its checksum, since the bridge
finds its way by lengths; the envelope to the upstream server is ENQ, header and
data, each acknowledged. `mode` says who answers: the bridge ("local"), an upstream
server ("proxy"), or a server tested by `cpnet12_client.py` ("test"). The port's
stale byte, a byte spoiled on its way, characters of the upstream console in front of an
answer, and waits of the station that run out are actions. `Take` is one step: only
the first byte is polled for, INIR reads the rest in a row without waiting, and the answer
was sent with one `sendall`. That the rest is at the port when the first byte is, is an
assumption; a byte that is not would be read as FFH.

`recv_scb` finds the header by the value of the SID byte and the end by SIZ, and has one
byte of checksum. A spoiled byte can therefore make it take a frame from or to a wrong
place, and the sum may still be zero: with SID spoiled to 240 and the next frame taken
for data, TLC finds one that is carried out. `sent` keeps where each frame begins and
ends, `misread` records that the bridge took other bytes than those; `ServedAsAsked` says
that this needs a spoiled byte and that without it a spoiled request is refused. Any
byte of a frame may be spoiled, to 15 (the SID) or to 240.

### ImdTools

`file` is the sequence of bytes of an `.IMD` file behind its header text; `disk` is
the diskette it stands for. Each tool is one step on the file, through its own
parser, and does to `disk` what it is meant to do; `FileHoldsDisk` compares. Two cases
get a tool out of step with the file, and are followed no further than that.
`patch_bios.py` writes a track anew with the flags of its head byte and without the maps
they announce: the file is then `broken`, what the readers take from it is "nonsense",
and only `bin2imd.py` makes a good file again. `verify_checksums.py` takes a sector of
types 5 to 8 to have no bytes (`OutOfStep`). `VerifyAgainstImd` has the comparison too:
what was built (`Builts`) is accepted if it differs from the diskette in at most
`MaxDiffs` bytes, the six of the serial number in the code.

### IntelHex, BiosBuild, SystemFiles

The writers and readers of HEX files are operators, recursive functions over the
image. `BiosBuild` sends a file through a line that loses and spoils records, LOAD
and the validator. The validator travels in the same file and nothing guards it: where
one of its own records was lost, zeros or bytes of the base are executed, and `Validate`
then has any outcome. `OkMeansWhole` is about a validator that arrived whole
(`ProgramWhole`) and an image that fits track 0, whose size `mk_cpm56.py` does not check.
`SystemFiles` checks each tool against the one that uses its
result: a stamp against the overlay, a relocation map against an assembly for
another page, the patched PROMs against the relocator's check.

### SdlcReceiver

Bits are stuffed and encoded as the standard says (external), each cell becomes
`Sps` samples plus or minus the jitter, and the decoders of the script are applied.
`FramesDecoded` says when frames must be found: two flags before them, and cells whose
lengths are off by no more than the recovery copes with (`Copes`). The sweep of
`auto_decode` is sampled: 4 of the code's 16 coarse steps and 3 of its 41 fine ones
(`Coarse`, `Fine`), so that a step in between might still score higher with other frames
is not excluded. The score for `--expect-ascii` is left out.

### ConsoleScripts, SerialFeeds, SerialBridges, SmokeInject, SioTee, ThroughputMonitor

A script is a sequence of steps; typing puts a line into the machine's input, and a
wait ends when its text is in what was read or when the time is over. The machine is external: it
reads when it comes to it, echoes and answers; a line may be lost, a byte spoiled,
a program missing, and the machine may go away for good (`Vanish`): the emulator quits or
never connects, or a machine is switched off and CTS with it. A script on a socket then
ends by an exception (`Abort`) or its timeout, except at `accept` and in the loop that
drains the boot's output (`siob_deploy_server.py:86-113`), which have no end; a script on
a tty hangs in its next `flush`. `Stuck` names these places, `ScriptEnds` says that there
are no others. Of the deployment two things are said: a system with a wrong sum is never
written without a warning, whatever happens (`BrokenSystemWarned`), and when nothing is
missing and nothing goes wrong, the one written is the one that was sent (`SystemIsSent`).

`SerialFeeds` has the wire, the ring of the BIOS and PIP in a
row. The emulator's script sets speed and flow control in its first frame (`Configure`);
a byte that goes over the line before that is lost or garbled. `send_hex_files` sleeps
half a second for this; `sysgen_serial_server.py` waits for a trigger file, and one left
by a run that ended early makes it send at once (`early`). `LoadedIsItsFile` is about six
files that are all there; what happens when one is not is said too (`OneShort`, in
`FeedArrives`).

`SerialBridges` cuts its streams into pieces of any size; `SioTee` and
`ThroughputMonitor` are two threads, one step per call that can block or per shared
counter. A `sendall` that fails may have delivered any part of its bytes.

## Runs

| Run | Instance | Shows |
|---|---|---|
| `disk_directory` | one drive, directory block and data block of two records, two records per sector | `RecordStore` is implemented, a directory write is durable, skipping the pre-read never harms live data when blocks are filled from the start; failures and resets anywhere |
| `disk_drives` | two drives, one with sectors of a single record | a clean buffer agrees with its disk, no flush with the other drive's format, no hit for the other drive's sector |
| `disk_failed_preread` | as `disk_directory` | **violation**, finding 1 |
| `disk_random_alloc` | one drive, two data blocks, a block may be written first at any record | **violation**, finding 4 |
| `sio_channel` | ring of 4, threshold 2, all interrupts, PUNCH, both kinds of READER | until an upset the ring is a queue, nothing is dropped, nobody stalls, READER returns; the transmit-ready flag never lies |
| `sio_wr5_race` | as above, receive and transmit interrupts only | **violation**, finding 2 |
| `bios_interrupts` | ring of 4, two keys; two drives, three cylinders, three faults; a console of 2 columns and 3 rows, every control code | the keyboard ring is a queue, CONST raises no false alarm, no key is slept over; success means the sector was moved, a head in the wrong place is found again, transfers wait for the motor, calls return, clock and exit timer are not torn or stale; `Terminal` is implemented, the cursor is in range, shown, and not torn unless two bytes come between two refreshes |
| `floppy_motor` | as above | **violation**, finding 3 |
| `cpnet_server` | two drives, names of 2+1 characters, records of 2 bytes, extents of 2 records; on the link three requests, one without an answer, `MAXRETRY` 3, 4 faults of every kind | the FCB keeps the program's position, a scan shows every file that was there all the time, a write changes one record, filling writes fill with zeros; an answer belongs to its request; without `doubt` a request is executed at most once; `spoiled` requests are repaired; without `owed` calls return |
| `dri_hang` | two requests, one fault | **violation**, finding 5 |
| `cpnos_hosts` | two images of different lengths, two files; three requests over the port, one spoiled byte in the first two | the image started is whole and fits, the cache agrees with the files, renaming keeps files, booting ends; unless a spoiled byte moved a frame's borders, requests are served as asked and answers match; nothing fails without a fault, exchanges end |
| `host_programs` | images of a few tracks of 2-byte sectors, frames of one byte, scripts with two faults | one property for each group of programs, each the conjunction of the named parts in its module (`DiskKept`, `LoadedAsBuilt`, `FilesFinished`, `FramesDecoded`, `DeployedAsReported`, `FilesFed`, `StreamsKept`, `TestersFaithful`), that a program saved by way of DDT is the one that was typed (`SavedIsData`), and that all of them end (`ProgramsEnd`), but for the places where a script waits for a machine that has gone (`Stuck`) |

Several properties are conjunctions of parts that belong together, each part with a
name and a comment of its own: `FlowControlled` (`TypeOK`, `NoDrop`, `NoStall`),
`CursorKept` (`ConsoleTypeOK`, `CursorShown`), `RetriesEnough` (`TypeOK`, `RetryRecovers`),
`TransferRight` (`OkMeansTransferred`, `MotorUpToSpeed`), `TimersRight` (`ClockNotTorn`,
`ExitNotStale`), `BufferKept` (`Coherence`, `FlushFormat`), `WritesConfined`, `FilesKept`, `ExchangeRight`, `ExchangesEnd`, and those
of `host_programs`. The type invariants of `BiosDisk` and `KbdRing` are proved and not
part of a run.

### Bounds

Sizes are the smallest at which the interesting cases exist. Two record values
tell "kept" from "changed"; two records per sector make an untouched neighbour;
two sectors per track make a buffer that must move. The rings
wrap and fill, with room above the threshold. Three rows are needed so that a
row moved in the wrong direction smears over another. `MAXRETRY` is 3 instead of
10, and `cpnet_server` has more faults than that. The floppy driver keeps its own
`REPET` and `RECALAT` (10 and 6), so that all its retries are tried; `MaxDiskFaults`
is 3, since it takes two to leave a head in the wrong place without notice and one
more to fail while it is being found; `SPINUP` is 2 ticks for 50 and `WordSize` 2 for
65536, so that halves carry. Records are 2 bytes instead of 128 and extents 2 records:
a file may end inside a record, a record in the next extent. `MaxReq` is 3: an
answer that arrives late has a request before it and one after it. `.IMD` files have
every kind of sector record and both sides of track 0; the skew table is the
code's shape at 3 sectors. `MaxMishaps` (records of a HEX file) and `MaxFaults` (of a
script) are 2, so that two errors may cancel each other in a sum; a lost stretch whose
bytes add up to 65536 is beyond the small images. Files a `.COM` is patched in end before
side 1, inside it, at its end and past it. `MaxSpoil` is 2: a spoiled byte has a frame
behind it to be swallowed. Of the types of sector records, 3, 4, 6 and 7 stand on fewer
of the diskettes than the others (`MCImages`). Record values are
symmetric in the `disk_*` runs (they are only copied
and compared). `MCView` forgets what the next call sets anew; it is not used with
liveness.

Deadlock is not checked in `sio_wr5_race`, where the machine does stop, nor in
`dri_hang`, `cpnet_server`, `cpnos_hosts` and `host_programs`, whose requests are finite
and whose programs end when they have done their work.

### Fairness

`SioChannel` and `KbdRing`: the processor goes on executing the call it is in;
for `ReadReturns` the sender goes on sending while RTS is on (without it READER
has nothing to return), and the property itself excepts a line that is in error
again and again; for `KeyWakes` the refresh interrupt keeps coming, as the
8275 raises it 50 times a second. No fairness is assumed of the keyboard or of
the program calling CONIN. `DriLink`: both programs run and their timers expire;
nothing is assumed of the line beyond the bound on faults, nor of NDOS.
`BiosFloppy`: the mainline goes on, the controller ends a command it was given, and
the refresh interrupt keeps coming; `TransferReturns` needs all three.
`NetbootServer`: `netboot_mpm` is a loop and the server answers; a session that
breaks off ends the loop too. `PioBridge`: bridge, server and the station's timer.
The scripts: their own loops run and their waits are bounded by their timeouts, except
the calls without one (`accept`, `flush`), which need a machine that is there;
`FeedArrives` and `SmokeDone` also need a machine that goes on reading, and except
the cases in which the machine lacks a program or the script gave up.

## Findings

1. **A failed pre-read leaves the buffer dirty** (`bios.c:706`,
   `disk_failed_preread`). A later HOME, warm boot or change of format writes the
   buffer over the sector and destroys its other records, without an error.
2. **RTS stays off** (`bios.c:915`, also 1598, `sio_wr5_race`): a transmit
   interrupt between the two writes to the control port takes WR5.
3. **The motor never stops** (`bios.c:351`, `floppy_motor`). `fdstar` loads the timer
   from `fdtimo_var`, which nothing stores to; the configured time goes to
   `stptim_var`, which nothing reads. Each attempt also waits for a motor that turns.
4. **A run of unallocated records leaves its block** (`bios.c:1762`, against the
   comment at 1781-1782, `disk_random_alloc`) when the first record written is not
   the block's first: the writes that go on into the next block skip the pre-read
   and overwrite its other records. `disk_directory` and `disk_drives` write blocks
   from their start, as sequential files do (`SequentialAlloc`).
5. **RCVMSG waits for ever** (`snios.asm:316`, against the comments at 317 and 326,
   `dri_hang`) after a byte is lost inside a message: RECVBY has no timeout.

Seen on the way; the conditions of the properties keep these cases apart:

* The stray WR5 value of finding 2 can also reset a pending transmit interrupt
  (PUNCH then waits for ever) or select register 2, so that the next handler's
  RTS-off goes astray and bytes are dropped.
* A receive error that flushes the ring between the reader's load and store of
  the tail is undone by the store (`bios.c:1593`, 912): the ring then holds bytes
  that were never received.
* A flush while RTS is off (`bios.c:2332`, 2400), and RDR:=UR1 (`bios.c:1603`), empty
  the ring without turning RTS on: reader and sender wait for each other.
* When the mark of the byte before is still on, `isr_crt` may show the new column
  with the old row, against the comment at `isr.c:116-118`; the next refresh
  corrects it.
* A lost ENQ or ACK is not retried (`snios.asm:222-228`) although
  `DRI_PROTOCOL.md:31-32` and 162-163 say so; a byte lost later is not repaired
  either, since `server.py` takes the retried ENQ for the missing byte. Re-sending
  ENQ as described would let a request be executed twice: that is the mutant of
  `AtMostOnce`.
* A request is executed twice when the server's ACK is garbled or late.
* The comment at `bios.c:210` says the work area is zeroed on every warm boot;
  only the cold boot does it (`bios.c:799`).
* CONST misses a key struck between the comparison and the store of `kbstat`
  (`bios.c:936`, against `CONOUT_BENCH.md:68-70`); CONIN finds it all the same.
  No run shows this one: `NoFalseAlarm` is about the other direction.
* A CLOCK call that sets the time while the low half carries loses or gains 65536
  ticks; an EXIT count that runs out between the stores of a new call starts the
  new routine early. `ClockNotTorn` and `ExitNotStale` name these.
* An attention interrupt of the controller between `fdc_irq_arm` and the command
  would be taken for the command's end.
* After a random read or write of record 4096 or later, `server.py:659-660` returns
  a position modulo 32 extents: sequential reads go on near the start of the file.
* `netboot_mpm.c:159` tests for 0xEE00 where its comment says 0xED00, and tests after
  the copy: a record too many is in memory before the boot is refused.
* `verify_checksums.py` takes sector records of types 5 to 8 as having no data;
  `patch_bios.py` writes a track anew without its cylinder and head maps and with types
  1 and 2 only, and takes a mini diskette of 46 data cylinders for an RC703 one.
  All tools write in place: an interruption leaves half a file.
* `verify_58k` prints MATCH when nothing was compared. `mk_cpm56.py` does not check
  the size of a BIOS and leaves old bytes behind a short one; a region of length zero
  would make the validator sum 65536 bytes. As documented, the `mk_sysgen_hex.py` way
  overwrites CCP and BDOS at 0900H with LOAD's fill.
* The comment of `payload_checksum.c` describes a sum, the script stores a correction
  word that makes the sum CAFEH. `stamp_serial.py` leaves the CCP stamped when it
  refuses the BDOS. `build_snios.py` and `spr_relocate` disagree on where a data length
  stands (+3 and +4), and a relocated byte of page 255 gets a warning only.
* `dpll_bits` does not correct cells longer than nominal and bears about 3 % on the
  short side, against the 20 % of its docstring; a frame behind a single shared
  flag may be missed.
* `siob_deploy_server.py` writes an old system and ends with status 0 and no warning when
  PIP or MLOAD is missing or fails: any `A>` counts as the end of PIP (line 142, against
  "A> prompt (PIP done)", line 11), also CCP's after it found no PIP, and the checksum that
  is awaited (line 13) is the one of whatever CPM56.COM an earlier deployment has left.
* A file missing from the directory shifts the ones behind it (`server.py:1145`, against
  lines 1089 and 1105): `send_hex_files` skips it, GO.SUB still has its PIP, LOAD makes
  each later program of its neighbour's file, and the last PIP waits (`OneShort`).
* The text `ddt_deploy.py` waits for is in the echo of its own D command for some
  lengths, and "saved" is printed without a look at SAVE's answer.
  A closed connection makes the drain loop of `siob_deploy_server.py` (109-113) spin.
* `sysgen_serial_server.py` removes the trigger it has acted on (line 52), but not one that
  an earlier run left before it starts to poll; `siob_interactive.py`
  drops keys behind the quit key; `siob_daemon.py` loses a command written between
  its last read of the FIFO and its close.

## Proofs

Every theorem is about the specification the runs check, with its constants left
open, and nothing is taken on trust beyond the named ASSUMEs, which TLC evaluates
in the runs. Each proof has the same shape: an inductive invariant, one lemma or
step per action that keeps it, and a last temporal step. Every inductive invariant
was checked with TLC before it was proved.

| Module | Theorem | States |
|---|---|---|
| `BiosDiskProofs` | `TypeCorrect`, `BufferIsKept` | `TypeOK`; a valid clean buffer agrees with the disk; a flush uses the format of the buffer's drive |
| | `DirWriteIsDurable` | a directory write that succeeds is on the disk |
| | `NoPreReadSafe` | a write without pre-read spares every live record |
| | `IsStore` | `BiosDisk` implements `RecordStore` |
| `BiosInterruptProofs` | `TypeCorrect`, `NoFalseAlarmHolds`, `IsQueue` | `TypeOK`; CONST tells no lie; ring, handler and CONIN implement `ByteQueue` |
| | `TransferSafe`, `SeekIsRepaired`, `TimersSafe` | success means the sector asked for, with the motor up to speed; a stale head position is repaired by the retries; no mixed halves in CLOCK and EXIT |
| `SioChannelProofs` | `FlowControl`, `TxSafe`, `IsQueue` | RTS drops and returns in time; the transmitter is not overwritten; the ring implements `ByteQueue` |
| `CpnosProofs` | `CursorSafe`, `NotTorn`, `IsTerminal` | the cursor stays on the screen and is shown; it is never shown torn; the console implements `Terminal` |
| | `OneVersion`, `ServerFiles` | the station starts one whole version of CPNOS.IMG; the server's files and its cache stay in step and a rename loses nothing |
| `CpnetProofs` | `PositionIsKept`, `ScanIsComplete`, `WritesAreConfined` | the FCB names the program's record; a scan is complete; a write touches one record |
| | `OnceOnly`, `RetriesSuffice` | no request is executed twice; `MAXRETRY` attempts repair fewer spoiled requests |
| `SerialProofs` | `TestersAreFaithful` | no command is typed without a prompt of its own; the tee delivers and logs what was sent; every byte is counted once |
| | `FilesAreFed` | unless bytes were sent before the line was set: what LOAD makes a program of is the whole file of that name; a single file is whole when PIP has ended |
| | `StreamsAreKept` | keys, enquiries, commands and patterns survive every way to cut a stream into pieces |
| | `ScriptsReport` | no broken system is written without a warning; if nothing goes wrong the system written is the one sent; the repair program started is the one typed; nobody types ahead of a machine that answers |

**BiosDisk.** `GeometryAssumption` says what the format tables of `bios.c` guarantee:
every CP/M sector has a host sector and a slot in it, and CCP+BDOS fit on track 1.
`AlignmentAssumption` adds that blocks and tracks are whole numbers of host sectors,
as in each line of the tables. The first two theorems rest on `IInv == TypeOK /\
CallState /\ BootState /\ Coherence /\ FlushFormat`. `Coherence` alone is not
inductive: that a pre-read fills the buffer from the sector it then claims to hold
needs the current format to be that of the selected drive (`CallState`), and that a
read without pre-read cannot make a clean buffer from stale contents needs
`op.is_read => op.need_pre_read` (`BootState`). `NoPreReadSafe` and `IsStore` have the
hypothesis `SequentialAlloc` (the BDOS fills a block from its start; the run
`disk_random_alloc` shows that without it the property is false). They need in
addition that only records of allocated blocks are in use (`AllocState`), that a run of
unallocated records ends with its block and nothing in the rest of it is in use
(`RunState`), that in the sector the run or a WRITE has come to the records in use are
still in the buffer, even in one that was declared invalid (`Kept`, in `RunState` and
`FillState`), and that `rwoper` takes over only a buffer that may be dropped
(`BufferState`, which `DirWriteIsDurable` needs as well). The refinement maps to the store's contents what
CP/M would see (the buffer where it is valid, the disk elsewhere), to the error owed
`disk_error`, and to the sectors in doubt a dirty buffer that is not valid.

**KbdRing and SioChannel.** The ring lemmas of `DataTheorems` (`HeldPut`, `HeldGet`) say
that storing at the head appends to the queue held and advancing the tail takes its
head off, for rings of every size; `IsQueue` follows from them step by step. The
invariant of `KbdRing` adds that a key is there while CONIN takes it out (`HasKey`), that
a comparison that found more keys stays true (`MoreIsTrue`, only CONIN takes keys out)
and that `kbstat` is right outside the dequeue. That of `SioChannel` says that READER's
locals agree with the ring until a flush makes the tail stale (`Taking`), and where RTS
and the register pointer stand until a handler upsets them (`Footing`): with RTS on the
ring is below the threshold, with RTS off there is room for all that may still come
and an empty ring means that READER is about to turn RTS on. `TxTruth` needs no such
condition, so `TxSafe` holds after an upset too. `RingAssumption` is that the threshold
leaves room for what a sender may still send.

**BiosFloppy.** `DiskInv` joins the position of the heads (`Heads`), the mode of the
controller (`Modes`), the command under way (`Command`), the motor's timer (`Motor`), what
the result bytes will say (`Answer`) and which attempt comes after the recalibration
(`Repaired`); `ClockInv` and `ExitInv` are about the timers. `FloppyAssumption` includes
`RECALAT \in 2 .. REPET`: the recalibration comes after a first failure and before
the last attempt, as the constants of `bios.c` have it.

**CpnosConsole.** `ConsoleInv == ConsoleTypeOK /\ MarkIsLast /\ CursorShown`: the dirty mark is the
last store of a byte, so that `isr_crt` may come anywhere before it. The block
moves LDIR and LDDR are recursive functions over overlapping memory; that they have
the closed forms `Shifted` and `Raised` is proved by induction over the bytes moved.
The library's induction theorems take an operator as a parameter and cannot be
used; the proofs reason from the least number that fails instead (`Least` and `UpTo` of
`DataTheorems`).

**CpnetServer.** `CpnetInv == FsIs(fs) /\ FcbIs /\ AnswerIs /\ SearchIs` are the shapes of
the host directories, the FCB, the answer and the search list. `PositionIsKept` has the
hypothesis `MaxRec <= RecPerExt * ExtMod`: the handlers keep only five bits of the
extent, so beyond 4096 records the position in the FCB is that of another record.

**DriLink.** The protocol has no sequence numbers. What excludes a second execution is
which positions of SNIOS, of `server.py` and of the line are possible together, and
that is what the invariants are: `Table` gives, for each place where SNIOS waits, what
the line carries each way and where the server is, on a line that loses and spoils
anything but an ACK of the server; `CleanTable` does the same when nothing but requests
is spoiled, and counts the attempts left against the faults so far (`Tries`).
`OnceOnly` follows from the first: a retry is sent only while the request at hand is
not executed, or when the server waits for the ACK of its ENQ, which the retry's ENQ
breaks off. `RetriesSuffice` follows from the second: an attempt is spent only on a NAK,
and every NAK answers one fault.

**NetbootServer.** `NetbootInv == NetbootTypeOK /\ FcbIs /\ Reading /\ CachedKnown /\ CacheCoherent`.
`Reading` is what makes `WholeImage` inductive: while the station reads, `_OPEN_FILES` has
CPNOS.IMG as it was at the open, and the records loaded are its first ones, as many
as the FCB says; a rebuild changes `_FILE_MAP` and not the cache. That
the loop ends with the last record, and not before, is `EndOfFile`, a lemma about the
quotients in `CpmRecords`. `CacheCoherent` needs `CachedKnown` (only files that are there
are cached) for the rename, which must not move one file's cached contents
over another's. `NetbootAssumption` says that files are sequences of bytes and that
programs write whole records.

**The serial programs.** They share no variable, so each has an invariant of its own, and
`SerialProofs` puts them together: a step of the run's specification is a step of one
program or leaves it alone. `MonitorInv` is that counters, hand and lines written add up
to what was added. `TeeInv` says for each direction what has been delivered, logged and
is in the thread's hand (`Pumped`). `SmokeInv` counts the prompts printed against the
commands typed (`PromptsCounted`) and keeps what of a prompt the buffer and the stream
still hold (`PromptsAhead`); `BufHoldsMarker` is that cutting the buffer leaves a prompt
whole. `FeedInv` says that what is on its way to PIP is what the commands left in GO.SUB
still ask for, in their order (`InStep`), and that a file nobody is writing is empty or
whole (`FilesWhole`); both as long as nothing was sent `early`. Without RTS, `LagFits` keeps the ring from overflowing.
`BridgeInv` says that the keys sent are the meaning of the keys read, with an escape
perhaps pending (`KeysHeld`), that each command is passed on, waiting in the FIFO or one
of those the daemon's close lost (`Passed`), and that the window is the end of what was
read (`WindowHeld`): as the pattern fits it together with a piece (`WindowFits`), it is in
the window as soon as it has come. What the recursive functions behind these compute
(`FlattenSeq`, the keys one by one) is proved by induction over prefixes, as for the
block moves of the console. `FeedSizes` and `StreamsAre` say that lengths are natural
numbers and streams are sequences.

**ConsoleScripts.** `ScriptsInv == ScriptsAre /\ GoneIsFault /\ Warned /\ FixAhead /\
WaitsInStep /\ DeployInTurn`; one part for each property. The length of two of the scripts depends on the program, so
lemmas first say which step stands where (`DdtTable`, `FixSteps`); `ScriptSizes` is that
there is a program and that it is made of bytes.
A machine that has gone says nothing more, and takes a fault (`GoneIsFault`).
`BrokenSystemWarned` holds because of an order: MLOAD is typed before the checksum program
and this before SYSGEN, an OK is shown only for a sound system, and no MLOAD that could
replace it is left on the line then (`Warned`). Faults may lose lines but cannot swap
them, so this needs no bound on them. `FixRunsWhole` cannot rest on the waits, as the
repair script's may end too early: `FixAhead` says instead that of the script's lines c
have been read and the n behind them are on the line, and that c alone decides what DDT
is doing and which bytes are in memory. `TypesInStep` needs that a wait is ended by
the answer to the line just typed and by nothing older: `WaitsInStep` says that what is
left on the line of an answer, behind the text that ended the wait for it, does not
show the text awaited next (`Ordered`), and follows which program reads the console
(`ProgramRuns`). For addresses this is where the echoes count: the echo of a D command
has two addresses in it. `SystemIsSent` rests on the same: as each wait ends only with the
answer to its own line, the file has been received when MLOAD is typed and loaded when its
sum is asked for (`Sending`), and SYSGEN's message stands for tracks written with it
(`Writing`); both are in `DeployInTurn`.

Only model-checked:

* liveness under fairness, which TLAPS does not prove: `ReadReturns`, `KeyWakes`,
  `TransferReturns`, `CallsReturn`, `ExchangesEnd`, `ProgramsEnd` and their parts;
* `AnswerMatches` of `DriLink`, which holds on every line, with garbled and late ACKs
  too: the table for it has several hundred rows and has not been written down;
* `ExchangeRight` of `PioBridge`;
* `DiskKept`, `LoadedAsBuilt`, `FilesFinished` and `FramesDecoded` of the host's tools: what
  recursive encoders and decoders compute for every input;
* `SavedIsData` of `ConsoleScripts`, which is not true of every instance: bytes are
  compared and not where they came from, and with enough faults two of them can make up
  for each other. TLC shows that two faults are not enough for the program of the run.

## Not modelled, and the plan

* The display driver of the C BIOS and CP/NOS console input: larger or smaller
  siblings of `CpnosConsole` and `KbdRing`, with no hazard these do not have.
* The boot PROMs: recognising the format, loading, handing over. Their driver has
  the structure of `BiosFloppy`.
* `bios_hw_init.c` beyond the disk's and timers' state: port programming in a row.
  `max_drive_num` is counted up to 15 while `dph_table` has two entries, and the table in
  `boot_confi.c` has three drives (A and B maxi, C hard disk): SELDSK of drive C gives
  what lies behind the table. Which drives exist is a constant of the model, and each
  has its entry.
* The handshake lines of `transport_pio.c`: a byte strobed between the selection of
  input mode and the enabling of the interrupt.
* `sdlc_capture.c`, the sampling program, the gdb and profile scripts, pictures and
  graphs: they read, print and keep no state.
* Historical BIOS sources, disassemblies and the scripts that annotate them; SYSGEN,
  BDOS and CCP.

What is left to prove: `AnswerMatches` of `DriLink`.
