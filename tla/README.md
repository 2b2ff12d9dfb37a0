# Verification of the radar measurement server and its data path

## 1. The system

The repository holds a radar that measures the distance and the speed of vehicles: VHDL for
the board (root directory, `protcol_rtl`), and the C and C++ programs of the measurement
server (`protocol/rrw_server`). The board samples an ADC, computes the spectra of a rising and
a falling sweep and sends each of them in four UDP packets. The server collects the packets,
finds targets in them, follows the targets from measurement to measurement, and answers a
client that speaks the request/response protocol of `protocol/protol.txt`. A board-side
receiver (`udp_rx`) hears the requests that make it answer with its status or start the
stream. Next to the server of today (`src/UdpServer.cpp` and its classes) the tree keeps its
predecessor (`rrw_server.cpp`, `radar_cli.cpp`, `data_processor.cpp`), with other threads and
another processing of the spectra.

    ADC - FFT - abs - sqrt -> fifo_all -> send_udp  ==UDP==>  UdpRadar -> UdpServer <==> client
              (signal path)      ^            ^                (threads: radar, main, dispatch)
                               aFifo       udp_rx <== client           |
                                                             SweepRadar -> Processor

    predecessor:   rcli_collect -> process_data     receive loop, cycle thread, request loop

### Inventory

| component | state | operations | interactions | what is hard | what makes it correct |
|---|---|---|---|---|---|
| measurement server (`UdpServer`, `UdpConnection`, `main.cpp`) | status word, published measurement, `is_working`, a mutex | `start`, `start_measure`, `create_data`, `dispatch_request`, `send_resp` | main and dispatcher threads share everything; one client | races; a mutex held while waiting for a request; what "unread" means | a response shows one measurement; the status word is right; measuring stops when switched off; nobody waits for ever |
| server protocol (`RrwProtocol`) | the response under construction | `create_response` (three), `parse_req_*` | called by the dispatcher | responses built in parts; lengths | every request gets its response |
| radar client (`UdpRadar`) | slots `sweeps[2][4]`, `data`, `data_for_server`, `data_is_captured`, a mutex | `collect_packets`, `read_sweeps`, `wait_for_data` | a thread of its own; UDP from the board; hand-over to the main thread | lost, doubled, reordered packets, timeouts; torn copies | a capture is complete, of packets that belong together, handed over once |
| target tracking (`Processor`) | list of targets with loss counters | `get_targets`, `detect_targets` | called by `create_data` with the peaks of a sweep pair | erasing while iterating; targets close together | each measured target is followed once; ghosts leave; nothing is given up early |
| peak search (`SweepRadar`) | maxima of the two spectra | `get_targets`, `search_maximums` (recursive), `estimate_harm` | called by `Processor` | offsets in the recursion, window edges | the maxima are real, isolated and at their place |
| sender (`send_udp`, `fifo_all`, `top_sender`) | a state machine, three memories | one clock edge | signal path, receiver, Ethernet | three streams joined by counting; a memory of half a sweep; a count that wraps | frames whole, in order, apart; every sweep leaves |
| FIFO of two clocks (`aFifo`, `GrayCounter`) | pointers, latch, flags, memory | write edge, read edge | two clock domains | flags set asynchronously, full and empty look alike | no overflow, no underflow, words in order |
| request receiver (`udp_rx`, `top_receiver`, `macbits_*`) | a state machine with byte counters | one byte | Ethernet in, pulse to `send_udp` | broken frames, counters not reset | one pulse for each request, none otherwise; broken frames are got over |
| spectrum chain (`make_fft`, `make_abs`, `make_adc`, `sqrt32to16`) | pipeline registers | one clock edge | vendor FFT core | arithmetic widths | the root is the root |
| spectrum processing (`data_processor.cpp`) | threshold, averaged speeds, the followed target, gap counter | `process_data` (target, gap, loss), `data_proc_set_th_pts` | the previous server's receive loop | gaps and losses in any order, averages of averages, divisions by nothing | what is reported lies within what was measured; lost targets are given up |
| socket layer (`eudp.cpp`) | socket, busy flags in simulation | open, recv, send | all network users | test-and-set without a lock (simulation) | one user at a time |
| simulator link (`rtl/connect.c`, `vpi_cpu`) | a register block in shared memory | `WrReg16`, `RdReg16` | simulator process | four-phase handshake without timeout | a read returns the register asked for |
| previous server (`rrw_server.cpp`, `radar_cli.cpp`, `radar.cpp`) | mode, cycle and receive-loop states, status flags, a mutex | `srv_do`, `cycle_start/stop`, `cycle_fn`, `rcv_loop_fn`, `rcli_meas`, `copy_last_raw` | three kinds of threads over flags without a lock | handshakes by polling, a cycle that ends by itself | one thread measures, answers say what is, nobody waits for ever |
| first server (`src/new_rrw_srv`), `oldproc.c`, `data_processor_v0001.c`, `RadarClient` | - | - | earlier versions | - | - |
| configuration, timers, logs; test benches; vendor cores; libraries | - | - | - | - | - |

`PROJECT.json` lists the same components with their files and what is modelled of each, and
under "hazards" every place of this code that is hard to test.

## 2. The modules

| module | models | kind |
|---|---|---|
| `RadarServer` | the three threads and two mutexes of the server | detailed specification |
| `MeasurementService` | what the server promises, without threads | abstract specification |
| `RadarServerRefines` | the refinement mapping between the two | composition |
| `RadarServerProofs` | theorems about `RadarServer` | proofs |
| `SweepCollect` | the radar thread's collection of a sweep pair over a faulty network | detailed specification |
| `SweepCollectProofs` | theorems about `SweepCollect` | proofs |
| `TargetTracker` | the following of targets | detailed specification |
| `TargetTrackerProofs` | theorems about `TargetTracker` | proofs |
| `SweepSender` | `fifo_all` and `send_udp`, clock by clock | detailed specification |
| `UdpRx` | `udp_rx` behind `macbits_conv4to8`, byte by byte | detailed specification |
| `UdpRxProofs` | theorems about `UdpRx` | proofs |
| `PeakSearch` | `SweepRadar`, call by call of the recursion | algorithm |
| `PeakSearchProofs` | theorems about `PeakSearch` | proofs |
| `RcliServer` | the previous server's three kinds of threads | detailed specification |
| `RcliServerProofs` | theorems about `RcliServer` | proofs |
| `SpectrumProcessing` | the previous server's `process_data` | detailed specification |
| `SpectrumProcessingProofs` | theorems about `SpectrumProcessing` | proofs |
| `AFifo` | `aFifo` with its `GrayCounter`s, edge by edge | detailed specification |
| `AFifoCounts` | what a FIFO of two clocks shows, in terms of its accesses | shared by `AFifo` and `SweepSender` |
| `BoardProofs` | theorems about `AFifo` and `SweepSender` | proofs |

The modules meet at their edges. `SweepSender` establishes that the frames on the wire are
consecutive and labelled with their own sweep and number; `SweepCollect` takes exactly this
sequence (frame n is number n % 4 of sweep n / 4) through the network to `captures`. What
happens to a capture after `read_sweeps` took the mutex is `RadarServer`, where a capture is
one number. `TargetTracker` is the call `processor.get_targets` inside `RadarServer`'s
`Process`. The peaks `TargetTracker` follows are `PeakSearch`'s targets.
`AFifo`'s `OutputShowsNext` is what `SweepSender` assumes of the two small FIFOs
(`Holds`; `Shown` of `AFifoCounts`, which both modules extend). The requests that `UdpRx` hears
are those of `SweepSender`: whole Ethernet frames are 84 bytes or 168 edges apart, which is its
`RequestGap`; `PulsesApart` promises 26 bytes even of broken ones.
`SpectrumProcessing` is what the receive loop of `RcliServer` does after a good collection and
its `SET_TH`, both under the mutex, so each is one step of both.

### RadarServer

One action per step of a thread between two accesses to shared memory. `mainPc`, `dispPc` and
`radPc` are the places of the threads; `srvMtx` and `radMtx` the owners of the two mutexes
(each `UdpConnection` object has its own). Copies of structures that another thread could see
half done are two actions (`RadarCopyRise/Fall`, `TakeRise/Fall`, `PublishData/Targets`,
`ServeData/ServeDataTargets`). A sweep is its number. Requests travel through `inbox`; a
message that is no request is `ClientGarble`. A request may be cut off or too long, where its
parser tells the difference (`TooShort`). `sent`, `measSent`, `lateCount` are history. It
is the server as the Debug target of `rrw_server.cbp` builds it, where `read_sweeps` fills
`data` by itself.

### MeasurementService and RadarServerRefines

The abstract machine has a mailbox for the newest capture, one measurement in work, one
published measurement, and answers requests at once. `RadarServerRefines` substitutes the
server's state: the mailbox is `dataForServer` while `dataIsCaptured`, a reply happens when
`dispatch_request` has built it, a publication when `has_unread` is set under the mutex.

### SweepCollect

The slots, the first-packet rule, `is_packets_collected`, the restart with `clear_data` after
a wrong datagram or a timeout, and a network that loses, doubles and swaps frames and brings
foreign datagrams. It is the release target without `RTL_SIMULATION` and with the socket open;
at this commit `eudp.cpp:4` defines it in every target, and `UdpRadar::start` has the call of
`open` in a comment (line 36).

### TargetTracker

One action, the whole of `get_targets`: reset of the flags, matching in order of the list,
appending, the loop that counts losses and steps over the target after an erased one, as
recursive functions over the two lists. IDs and velocities decide nothing and are left out.

### SweepSender and AFifo

`SweepSender` is one edge of `clk125`, which clocks both sides in `tb.vhd`: each action is a
state of `send_udp`'s machine, all registers of the machine are fields of `tx`, and the
memories are counted in nibbles as the code does. `AFifo` has an edge of either clock or of
both as its steps, and a flag that is preset when its clock comes stays up until the next edge;
Gray codes are kept as the counts they stand for, with the two upper bits that the quadrant selectors use computed from the count.

### UdpRx

A step is a byte. `Receive(dv, data)` is the machine with one action per state or pair of like
states; `Begin`, `Continue` and `Silence` are the line. Frames have their real bytes and
lengths (those of `client_stimulus_cpu.vhd`), may break off after any byte, and the bytes of
the checksum are chosen among two, one of which looks like a preamble. The silence is clocked
too, as the converter keeps toggling `ce_o`: only WAITING looks at `i_dv`, so a broken frame is
read on into the silence and, if the gap is short, into the next frame. `safe`, `heard` and
`quiet` are history.

### PeakSearch

The recursion is a stack of calls; a step is one call of `search_maximums`, which returns or
saves a maximum and pushes its two parts. The 16-bit `harm` and the offset handed down are as
in the code; `place` and `rights` remember where the maximum really is and how often the
search turned right.

### RcliServer

The request loop, up to two cycle threads and the receive loop. `measMode`, `cycleState` and
`rcvLoopState` are polled without a lock, so each access is a step. `cycle_stop` and
`en_onreq_mode` are executed by the server and by a cycle thread that ran out of time; their
steps take the thread. `hurried` is history: it notes that the client sent MEAS_CTL, or the
clock ran out, while a cycle thread had not yet settled. Without it two properties fail, see
section 4. The receive loop is started by the first cycle only, as in the code (`rcli_init`
has the call in a comment).

### SpectrumProcessing

`process_data` is one action (`Target`, `Gap` or `Loss`). Distances are half harmonics and
speeds differences of harmonics; the quotient of `estimate_peak` loses its fraction and averages
are rounded down, so that everything is whole, while the divisors, and what becomes of a
division by 0, are those of the code: NaN and the infinities are values, propagated as IEEE
does, NaN false in comparisons. A peak at the last harmonic reads on behind the array, the rise
into the fall, the fall into one of `Behind`. `Init` leaves `avg_spds[0]` and `locked` as
`malloc` left them. `speeds`, `lost` and `spoilt` (a division by 0 since the last loss) are
history. Nothing in the tree calls `data_proc_init`
any more; its parameters are constants, and `Configs` are combinations of its switches.

## 3. What the runs check

| run | question | bounds | result |
|---|---|---|---|
| `server` | whole, new, ordered hand-overs and replies in every interleaving | 3 sweeps, 2 requests under way | holds |
| `refines` | the threaded server implements `MeasurementService`; a captured sweep is published | 2 sweeps, four kinds of request and garbage | holds with fairness |
| `missed` | no measurement is reported as read that nobody read | 2 sweeps | violated, finding |
| `collect` | what a capture may be made of, how long it may take | 16 frames, sweeps of 2, 3 faults | holds |
| `collect_mixed` | each half of a capture is one sweep | 16 frames, sweeps of 4, no fault | violated, finding |
| `tracker` | a matching of what was found with what is followed, ghosts leave, nothing given up early | 3 targets, 4 distances, 2 found at a time, 5 losses | holds |
| `afifo` | flags, latch, order of the words | depth 8, 20 words, any order of edges | holds |
| `sender` | frames whole, in order, labelled, apart; sweeps leave | 2 sweeps of 4 frames, 2 requests | holds with fairness |
| `udp_rx` | a frame on a settled line is heard once, as what it says; pulses are short and apart | any sequence of whole and broken frames, counter of 6 bits | holds |
| `peaks` | maxima apart, none passed over, at their place; two targets each at most with maxima told at theirs | sweeps of 22, three peaks or a row of five, area 2 | holds |
| `rcli` | one thread measures, answers say what is, requests answered, limited cycles end | 2 cycle threads, with and without duration | holds with fairness |
| `processing` | reported speeds are measured ones, only a division by 0 loses a number, losses end, the peak is the strongest | 5 harmonics, 4 levels, 3 spectra in any order, 2 speeds averaged, 2 gaps | holds with fairness |

Why the bounds are enough. Two sweeps are the least that can be torn or overtaken, three let a
capture be replaced while another is in work; a second request lets one wait while the first
is served. In `collect` the sequence has four periods, so a slot that missed its packet three
times can still be filled, and three faults give every pair of kinds in one collection and one
more in the next. In `tracker` three targets allow an erased target, the one that is stepped
over and one more; `MaxCountLost` is the real 5. In `afifo` the pointers go round the memory
twice, through all quadrants, and the theorems cover every depth. In `sender` the lengths are
scaled (frames of 4 bytes, memory of two frames as in the code) and the counting rules of the
code are kept in terms of the same constants; two sweeps show the change of exponent and
direction from one to the next. `SweepGap`, `Window` and `RequestGap` are at the limits of
`PaceAssumption` and `GapAssumption`, so that the last frame is just out before the next sweep,
a data request finds up to two of the four words and an answer and the
pause behind it just fit before the next request; the theorems cover every other choice. In `udp_rx` only the counter is scaled, from 16 bits to 6: 64 is more than the
53 bytes that are counted, and the run has no bound on the number of frames. In `peaks` the
area of 2 instead of 5 leaves room for two descents to the right in 22 harmonics, and in the row
of five peaks a maximum is told where another one is. In `rcli` a
second cycle thread is what a premature start needs, and it is reached, because a thread that
ran out of time is still switching the mode when the next one starts; the client's requests
are not bounded. In `processing` thresholds, failures and measurements come in any order
without a bound on their number. Its spectra are nothing, a strong harmonic 0 with a peak at the
end of the array, and a slope, whose peak is in line with its neighbours when the window begins
within it; with `Behind` the peak at the end also has a divisor below 0. Two averaged speeds
shift, average an average and fill up; two gaps are restored and given up. `Reach` stops a target
two units beyond the points, where nothing of it is shown. In `refines` a request has any size,
in `server` the one of the protocol, because the process may not end there.

Deadlock is checked in `server`, `sender`, `collect`, `collect_mixed`, `tracker`, `afifo`,
`udp_rx` and `processing`. `refines` and `missed` leave it out: with SET_TH the process ends,
and with the dispatcher gone the bounded radar comes to a stop. `peaks` ends when the search
does. `rcli` leaves it out because the hurried server may wait for ever (section 4), which
`RequestAnswered` says more exactly.

Fairness. `refines`: every thread keeps running (WF), because the operating system
schedules ready threads; taking a mutex is SF, because main and dispatcher unlock and lock
again at once and pthread mutexes promise no order, so the runs assume only that a waiting
thread is not passed over for ever; and the client keeps polling (WF), as
`client_stimulus_cpu.vhd` does. The last is needed: the dispatcher waits for a request with
the server's mutex locked (UdpServer.cpp:171, eudp.cpp:413 without a timeout), so a silent
client stops measuring. `sender`: the clock runs (WF of `Next`), and the signal path goes on
delivering words (WF of `Fed`), as the ADC does. `rcli`: threads run (WF); who waits for the
mutex gets it (SF), because the receive loop sleeps 10 ms without it after each collection
(radar_cli.cpp:188); a finite duration passes (SF of `TimeOver`); and a collection ends, by its
eighth packet or the socket's timeout. `processing`: collections go on and do not all fail.

Each property of a passing run has a mutant in `PROJECT.json`: a form of one definition with a
plausible slip (a dropped guard, a missing reset, an unlocked access) under which TLC finds
the property violated. They stand next to what they change, marked "Mutant".
The three specifications with records and threads whose typing is not plain, `RadarServer`,
`RcliServer` and `PeakSearch`, have their `TypeOK` checked as well.

## 4. What the runs found

1. `missed` (UdpServer.cpp:193): a measurement published between a DATA_ALT and the next
   STATUS request is marked read; the client never learns of it.
2. `collect_mixed` (UdpRadar.cpp:102): a collection that starts inside a sweep joins its end
   with the beginning of the next sweep of the same direction, and, undisturbed, so do all
   later ones (`NothingSkipped` in `collect` shows that the place is kept).

Known disagreements that have no run of their own, because a single line shows them or because
a passing run states exactly what they leave of a property:

Server of today.

- SET_TH ends the process: the loop over the thresholds reads one byte too many and nobody
  catches the exception (RrwProtocol.cpp:59-64 against protol.txt:239-253). Only a SET_TH that
  is longer than the protocol has it is answered, and a MEAS_CTL that ends before its duration
  ends the process too (31). `ServeThrows` has it, and the properties are stated for a server that is alive.
- The dispatcher thread is created before `is_working` is set (UdpServer.cpp:64, 67) and may
  leave at once, after the program printed that it is waiting for requests (58, 60).
- MEAS_CTL answers with a status word whose `has_unread` is cleared only by STATUS
  (UdpServer.cpp:214-222 against protol.txt 3.5).
- A request with an unknown code is not answered (UdpServer.cpp:235 against protol.txt 2.4).
- The number of a measurement is an uninitialised local plus one (UdpServer.cpp:291 against
  protol.txt II.2), `elapsed` is the time the measurement took and not its age
  (UdpServer.cpp:247 against II.3), and `duration_meas` is stored and never read (III.3).
- Packet numbers above 3 are written outside of the four slots (UdpRadar.cpp:92), and an
  exponent below 5 loses the upper bits of a sample (UdpRadar.cpp:128).
- Two targets may get the same ID (Processor.cpp:119); the ID is not reported.
- The offset of the right part counts twice (SweepRadar.cpp:119): from the second descent to
  the right on, a peak is reported too far out, and `estimate_harm` reads beyond the sweep.
  `PlaceIsTold` states what is right and what the second descent does; behind later ones the
  sum may also wrap at 16 bits. A peak told too far out may fall on another one, and then a
  maximum of the other sweep becomes three targets: peaks at 2, 6, 10, 14 and 18 of heights
  8, 7, 6, 9 and 5 (with areas of 2) do it, so `TwoTargetsAtMost` counts only the targets with
  maxima that are told at their places.

Board.

- A data request that finds the sample memory full is never answered, because the count of a
  full memory is 0 again (fifo16x4.vhd:114, send_udp.vhd:258 against protol.txt II): without
  `PaceAssumption` and with `Window = 4` in `MC_sender.cfg`, `SweepsLeave` fails. With
  `Window = 3` the first frames have samples missing (fifo_all.vhd:82). `Window` is the
  assumption on the client that remains: it asks before the memory is nearly full (507 of
  512 words with the lengths of the code, `CodeIsPaced`).
- Nothing in the transmitter keeps the gap behind a status answer (send_udp.vhd:246-250): the
  answer takes 136 edges, Ethernet wants 24 more, and only the client's pace keeps the next
  request from coming sooner.
- `aFifo` keeps the order of the words only if the writing clock is not faster than the
  reading one: with two writing edges between two reading ones a word is replaced after its
  read was accepted (aFifo.vhd:98-102). `MaxWrEdges = 2` in `MC_afifo.cfg` shows it.
- `GrayCounter` loses the first word after a reset (GrayCounter.vhd:45-49); the definitions
  `Later` and `Shown` state the order of the words from the second on.
- After a frame that broke off, a gap that ends while the receiver is still within it makes
  the next frame be counted from a wrong place, and with an unlucky length `udp_rx` is deaf
  until its counter wraps, after 65536 bytes. A frame that breaks off behind its tag is taken
  for a status request (udp_rx.vhd:200-215). `SafeFrameHeard` states what is left.
- `udp_rx` compares bytes 42 and 43 with the port, the source port of the datagram; the
  comment in line 95 has the port at 36 and the preamble, byte 44. `tb.vhd:288` has the
  destination port 60606 in a comment and uses the source port 58062 of the `start_connection`
  frames, so the `request_status` and `request_data` frames of `client_stimulus_cpu.vhd`,
  which come from another port, are not heard.

Previous server.

- A MEAS_CTL that comes while a cycle thread is ending by its time may wait for ever: the stop
  sets CYCLE_STOP after the thread set CYCLE_ENDED (radar_cli.cpp:156-164), or the start waits
  for a CYCLE_DURING that is over (147). And the old thread's `en_onreq_mode` undoes the mode
  of a new cycle (127, 219). `RequestAnswered` and `ModeIsKept` fail without `hurried`.
- The receive loop is not stopped when a cycle ends by its time, because `cycle_stop` is not
  reached with CYCLE_ENDED (212); an on-request measurement before the first cycle reports
  success without any data (254), and one between two collections reports the same data as
  new again (267).
- `add_avg_spd` writes one place behind `avg_spds` (data_processor.cpp:279), the first average
  takes in what `malloc` left (27), `locked` is not initialised, distances predicted outside of
  the points or no number are used as an index (322, 363, 402), and a peak at the last harmonic
  reads behind the array (210).
- There are two divisions by 0. The average over no speed is NaN (265, 353). The divisor of
  `estimate_peak` (213) is 0 when the peak is in line with its neighbours: the peak is only the
  strongest inside the window and above the line, so with 110, 100, 90 and the 110 outside it is
  a straight flank. Line 352 lets NaN pass, and it stays in the averages. `NaNHasCause` states
  that there is no third way, and that a loss ends it.
- The comments above `process_loss` and `process_gap` are swapped (376, 388).

## 5. What is proved

`RadarServerProofs`, for every number of sweeps, inbox size, set of client functions and
content of the uninitialised byte, from `ServerAssumption` alone:

- `TypeCorrect`: `TypeOK`, which also ties the locals to the places of the threads.
- `MutualExclusion`: each mutex is owned by exactly the thread whose place is in its critical
  section. This is what all later arguments rest on.
- `SweepsInvariant` -> `CaptureIsIntact`, `MeasurementsAdvanceAlways`. The inductive invariant
  orders the sweeps along the pipeline: published < in work < captured <= filled, with the
  half-done copies as the cases of the places. `CaptureIntact` alone is not inductive: it
  needs that nobody is inside a copy while the other thread holds the radar's mutex.
- `RepliesInvariant` -> `RepliesAreConsistent`: between the two parts of a response and the
  two assignments of a publication the server's mutex is held.
- `UnreadInvariant` -> `UnreadIsAlwaysNew`, and `AtMostOneIsLate`, by strengthening with what
  `has_unread` and the place of the main thread say of the published measurement.
- `Refinement`: initial states map to initial states, every step to a step of
  `MeasurementService` or to a stutter; one case per action.

`BoardProofs` about `AFifo`, for every depth that is a multiple of four and every ratio of the clocks, from
`FifoAssumption`:

- `FifoInvariant`: the pointers' distance is the number of words between them, the latch can be
  set only above a quarter of the depth and reset only below three quarters, and each flag is
  up at its limit. The bounds on the latch are the strengthening: only with them the quadrant
  selectors are known to have corrected it before the pointers meet.
- `StatusAlwaysTells` (`StatusTellsFull`) and `FlagsComeInTime` (`FlagsInTime`): no overflow
  and no underflow.

`RcliServerProofs`, for every number of cycle threads and every set of durations, from
`RcliAssumption`:

- `TypesHold`: `TypeOK` with the ownership of the mutex. The strengthening `PlacesTell` says
  which request the server works on at each place, that a request which starts a cycle was
  taken only with a thread to spare, and that the receive loop is started only where none runs.
- `LoopInv` -> `OneCycleAlways`. `OneCycle` is not inductive, because the server tests
  `cycle_state` and starts the thread in two steps: a thread in its loop keeps `cycle_state`
  from CYCLE_ENDED whatever the others do, and between the test and the start nobody is in it.
- `MixedInv` -> `MixedAlwaysMarked`: whenever the mutex is free, half a collection in `data`
  means that the last one failed.

- `ModeInv` -> `ModeAlwaysKept` (`ModeIsKept`): without hurry at most one cycle thread exists,
  and its place, the server's place, the mode, the state of the cycle and the unread flag fit
  each other, case by case. The property speaks of one place of the server only; its cases at
  the others are the strengthening.

`BoardProofs` on the contents of the FIFO's memory:

- `WordsInvariant` -> `OutputAlwaysShowsNext` (`OutputShowsNext`), for every pair of clocks: the
  word d places before the writing pointer is the d-th last one written.
- `ReadsAlwaysFollowWrites` (`ReadsFollowWrites`), if the writing clock has at most one edge
  between two of the reading clock (`MaxWrEdges = 1`, the hypothesis section 4 shows to be
  needed): a word whose read was accepted stays until it is fetched, because the write that
  could overtake it finds the FIFO full or has gone by.

`SweepCollectProofs`, for every number of packets in a sweep, every size of the socket and
every number of faults, from `CollectAssumption`:

- `CollectInvariant` and `CollectTypeCorrect`. Frames keep the sender's order along socket,
  slots and captures, except that disturbed ones may be twins or neighbours in the wrong order;
  an undisturbed frame that is newer than one read waits or has its slot filled; the frame after
  the one read last waits; the next frame for an empty slot is a period away and one more for
  each fault.
- From it `FramesUsedOnce` (`UsedOnce`), `CapturesAreShort` (`CaptureIsShort`),
  `CapturesSkipNothing` (`NothingSkipped`) and `CollectionAlwaysEnds` (`CollectionEnds`). None
  of the four is inductive: they speak of what arrived, and why nothing was left out is a matter
  of what was still on its way.

`TargetTrackerProofs`, for every set of distances, gate, number of losses and of targets, from
`TrackerAssumption`:

- `TrackerInvariant`: what the list holds after each of the new targets (`Found`), and what the
  ageing loop keeps of it and from where (`Origin`), compose to one call.
- `OneForOneAlways` (`OneForOne`), `GhostsAlwaysLeave` (`GhostsLeave`; the strengthening counts
  the places a target moved forward for the losses that were stepped over) and
  `NeverDroppedEarly` (`NotDroppedEarly`, an action property).

`UdpRxProofs`, for every width of the byte counter, request number and checksum, from
`UdpRxAssumption`:

- `ReceiverInvariant` -> `PulsesAlwaysApart` (`PulsesApart`): the least number of bytes since
  the last pulse, state by state, whatever arrives.
- `SafeInvariant` -> `SafeFrameAlwaysHeard` (`SafeFrameHeard`), for gaps of three bytes or more:
  a frame that breaks off behind its tag is heard in the third byte of silence. The Ethernet gap
  is twelve. The place in a frame tells the receiver's state; what came before is
  bounded by a rank that falls with every byte of silence.

`PeakSearchProofs`, for every sweep of every size and every area, from `PeakAssumption`:

- `SearchInvariant` -> `SearchTypeCorrect` (`TypeOK`), `MaximaAlwaysApart` (`MaximaApart`) and
  `StrongerAlwaysFound` (`StrongerIsFound`): the parts on the stack are in order, the maxima are
  an area away from them, and each place outside of them is covered by a maximum as strong.
- `PlaceAlwaysTold` (`PlaceIsTold`), for sweeps of up to 32768 harmonics (the code has 1024):
  the offset of a part is where it begins as long as the search went right once at most.
- `TwoTargetsAlways` (`TwoTargetsAtMost`), if the limit of nearness is no more than two areas, as
  the 10 and the 5 of the code are. Proving it showed two properties of the run to be too
  strong beyond its bounds, which were 15 harmonics then: later descents wrap, and a peak may be
  told where another one is. The properties and the run now say so (section 4).

`SpectrumProcessingProofs`, for every number of harmonics, threshold, spectrum, configuration and
length of the array of speeds, from `ProcessingAssumption`:

- `ProcInvariant` -> `GhostsAlwaysNull` (`GhostsAreNull`), `SpeedAlwaysMeasured`
  (`SpeedIsMeasured`) and `NaNAlwaysHasCause` (`NaNHasCause`): averages lie between what they
  are made of, so averages of averages do, and zeros average to zero; numbers are not lost by
  adding, halving and averaging some, nor by dividing by what is not 0.
- `PeakAlwaysStrongest` (`PeakIsStrongest`): the peak by induction along the spectrum, and the
  line of the threshold from what the integer division of C drops.

`BoardProofs` about `SweepSender`, for all lengths and gaps that satisfy `SenderAssumption`,
`PaceAssumption` and `GapAssumption`:

- `SenderInvariant`. The states of the transmitter become numbers: `Phase` is how many nibbles
  of a data frame have left, `Answered` the same of a status answer, `Index` the frame of the
  sweep, `Came` and `Taken` the words that came and those that were taken out. An edge of the
  transmitter is one of five (`TxEvent`), whatever its state. `FramesWhole` needs to know that
  the memory is never full when a word comes and never empty when one is asked for, which is
  no matter of one state; the strengthening is a deadline: frame i of a sweep begins no later
  than `Start(i)` edges after the first word (`InTime`), where the first waits for the words of
  a frame or for the request, and a later one for its words or the frame before.
  `PaceAssumption` then says of numbers alone that each deadline is early enough, and all of it
  is used: for a place in the memory, for the count not being 0 again, and for the last frame
  being out before the next sweep.
- `SenderKeepsUp`: no sample is dropped while data is sent, and none is read that is not there.
- `SenderFramesWhole` (`FramesWhole`), by three more invariants: what the memory holds and shows
  (`Contents`), that one exponent and one direction are read per sweep, with its first frame
  (`Labels`), and that the frame on the wire and its checksum are the first `Phase` symbols of
  what they have to be (`Drawn`).
- `SenderFramesApart` (`FramesApart`), with `IdleInv`: the pause since the last frame, state by
  state. `GapAssumption` has its three causes: the delay, the time in which the words of a frame
  come, and the client's pace.
- `CodeIsPaced`: the assumptions hold of the lengths in the code, a pause of 250000 edges between
  sweeps, which `tb.vhd` keeps (a sweep every 16384 samples of 25 edges; 7441 would do), and a
  client that sends whole Ethernet frames and asks before 508 words wait. It is proved from the
  numbers alone.

Recursive functions. Induction theorems with an operator parameter are out of the provers'
reach; `AllNumbers`, induction as a fact about a set of numbers, is not. Where a model has
a recursive function over a list, a lemma shows by it that the function exists
(`StepwiseFunction`, `DetectIsStepwise`, `AgeIsStepwise`) and what its steps are; what it
computes then follows by the same induction.

Only model-checked: liveness (the temporal properties of `refines`, `SweepsLeave`,
`RequestAnswered`, `LimitedCycleEnds`, `TargetGivenUp`), which the prover's treatment of fairness
and ENABLED does not reach. All invariants and all other action properties of the passing runs
are theorems.

## 6. What is not modelled

- `elapsed` and all other times of `create_data`; the bytes of responses; the scaling of
  samples by their exponent (UdpRadar.cpp:117-131) and the dBm table; `estimate_harm` and the
  fraction of `estimate_peak`, which interpolate between harmonics in floating point.
- The order in which the previous collector (`rcli_collect`) takes packets: only that it
  writes each one into `data` at once, and may fail half-way. The measurement number and
  `elapsed` of the previous server.
- The link to the simulator (`rtl/connect.c`, the RTL_SIMULATION branch of `eudp.cpp`): its
  other side, the simulator's loop, is not in the tree in a form that says when a register
  access is acknowledged. Hazards seen there: the busy flags are tested and set without a
  lock (eudp.cpp:408), and a register access waits without a timeout (connect.c:122).
- The spectrum chain (`make_fft`, `make_abs`, `make_adc`, `sqrt32to16`): a pipeline of fixed
  delay around the FFT core of the vendor; the converters and strobes, a few registers each.
- The first server (`src/new_rrw_srv`), a predecessor of the previous one with the same
  protocol and functions; earlier copies of sources that no build names.
- The FFT core, the vendor FIFO beyond the width of its count, third-party headers (most of
  the lines of C in the tree: `nc`, `pthread`, `libconfig`), configuration, logging and
  test-bench file access.

## 7. Plan

Done: `RadarServer` with its abstract specification, refinement and proofs; `SweepSender`; and
`AFifo`, `SweepCollect`, `TargetTracker`, `UdpRx`, `PeakSearch`, `RcliServer` and
`SpectrumProcessing`, each with proofs of all its safety properties.

Next: an abstract stream specification that `SweepSender` and the network refine would make
`SweepCollect`'s input a refinement instead of an agreement.
