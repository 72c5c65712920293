# A verification project for ldmx-tb-online

This directory holds TLA+ models of the LDMX test-beam software (online data
taking under `software/`, offline reformatting under `reformat/`), the TLC
configurations that check them on small instances, and TLAPS proofs about them.
Paths below are relative to the repository.

To check a run: `tlc -config <run>.cfg <Module>.tla`; to check the proofs:
`tlapm <Module>Proofs.tla`. `PROJECT.json` lists the runs, the lines each
definition stands for, a fault for every property, the findings and the hazards.

## 1. The system

Online, **run control** (EUDAQ, external) calls the *producers*; each of them
reads one kind of hardware, writes a raw file and sends events to a **data
collector**, which passes them on to **monitors**. Offline, `reformat` reads the
raw files and builds events from packets with close timestamps.

```
 run control --calls--> producers --TCP bridge--> servers at the detectors
                           |  \
                     raw files  events --> data collector --> monitors
                           |
                 raw data files --> Converter --> event file --> analysis
```

| component | state | operations | interacts through | hard behaviour | module(s) |
|---|---|---|---|---|---|
| `reformat::Converter` | open files, a queue per file, event number | visit a file, align a round | files' `next()`; ROOT output | ordering, end of one file, window edges | `Packets`, `EventBuilding`, `Converter` |
| raw data files: Polarfire, White Rabbit, trigger scintillator (grouped, two fibers), fiber tracker | position, current spill, counters, a static shared by all Polarfire files | `next()` | packets to the Converter | spill numbers, ends of files, widths, uninitialised memory | `RawDataFile`, `PolarfireRawFile`, `WhiteRabbitRawFile`, `TrigScintEventGroupedRawFile`, `TrigScintTwoFibersRawFile`, `FiberTrackerRawFile`, `RawDataFiles` |
| `ldmx_rogue_server`, `TcpCommandReceiver` | command flags, running, generator counter | accept a frame, poll, reset, generate | flags shared by two threads without a lock | interleaving, lost commands | `RogueLink`, `RogueServer` |
| `RogueTcpClientProducer`, `TcpCommandGenerator`, `RogueDataSender`, `TBStreamWriter` | run state, open file, clients on the process-wide command generator | the five calls of run control; a client thread hands out frames | bridge; file writer; data collector | late frames, second client, restart without configuration | `RogueTcpClientProducer`, `RogueRun` |
| `LdmxRceTcpServer` (python) | `state`, the count of frames | configure, run, stop; main loop | attribute shared by two threads | a run or stop between two readings | `RceServer` |
| `PolarfireProducer` | target, `exiting_run_`, mode, writer, slaves | calls of run control, RunLoop | members shared by two threads; a sleep in place of a join | timing, starts and stops that throw, reset | `PolarfireProducer` |
| `HgcrocFileReaderProducer` | `file_`, counts | configure, start, stop; RunLoop | `file_` shared by two threads; events | end of file, a file closed or reopened amid an event | `HgcrocFileReaderProducer` |
| `DarkRunControl`, `TestBeamDataCollector` | flag and time of the run; event count | start, stop, timed stop; receive | all programs of a run; events of all producers | a stop racing a start; prescale | `DarkRunControl`, `TestBeamDataCollector` |
| `HgcrocRawDecode` | none | decode | monitors | lengths, slots, links | `HgcrocRawDecode` |
| `HCalTestBeamMonitor`, `TestBeamEventDisplayMonitor`, `CSVParser` | histograms, event counts, tables | configure, receive | events | what a reset leaves | of the same names |
| `CaptanTrigScintTestBeamProducer`, `TsUdpClient`, `TrigScintDataSender` | file, clients, word buffer | calls of run control; accept a frame | UDP; frames; events | lost packets, events over frames and runs | of the same names |
| `TrigScintFileReaderProducer` | `file_` | configure, start, stop; RunLoop | as its HCal counterpart | as its HCal counterpart | of the same name |
| `TrigScintRawDecode`, `SimQIE`, `TrigScintTestBeamMonitor` | histograms | decode, convert, book and fill | events | marks of samples in two fibers, bins of charges | of the same names |
| python server of the trigger scintillator, DIP and White Rabbit clients, emulators, calibration and plot scripts | | | | | not modelled: section 9 |

What makes each component correct:

* *Converter*: an event holds packets of one trigger; no trigger that every
  file recorded is thrown away; packets keep their order; with `keep_all` only what
  is queued when the last file ends is thrown away (section 3);
  the conversion ends.
* *Raw data files*: the packets are the triggers of the file, in order, each with
  the time that it had in its spill; reading ends with the file (not for all classes, section 4).
* *Servers*: a command never survives a later one; commands are obeyed in order
  and at most once; a waiting command is obeyed; the counts are of one run.
* *Bridge producer*: no data of a later run in a file; frames in the order of
  generation, each of them sent to the data collector once.
* *PolarfireProducer*: RunLoop never works on a deleted target; every event read
  is in the file of its run and has been sent when the run is stopped;
  stopping ends; nothing of a run is left after it, external triggers included,
  unless a call has thrown.
* *HCal chain*: what is sent is what the file holds, event by event; what is shown
  is what the chips had read out; a run is stopped early by nothing but the
  thread of the run before it.
* *Trigger scintillator chain*: what is lost on the way damages the events that it
  was part of and no other; what is decoded is what the chips had read out; a
  charge is the mean of its bin (the last two with exceptions, section 8).

## 2. Plan

Modelled in this order, the most important behaviour first:

1. event building offline (section 3), and the raw data files it reads (section 4);
2. run control over the rogue bridge, and the python server (section 5);
3. the Polarfire readout (section 6);
4. the online chain of the HCal, from a file to the plots (section 7);
5. the online chain of the trigger scintillator, from the front end or a file to
   the plots (section 8).

Each group has its state machines, one module that composes them, an MC module
with the inputs, and one or two passing runs; five more runs show statements
of the repository that the code does not keep (section 9). Bounds are CONSTANTS. What is left is:

* composing `RawDataFiles` with `Converter`: today the streams of `Packets` are
  given, and what the files give is checked by itself;
* `TrigScintTestBeamProducer`, and the alignment of two files in `align.py`.

## 3. Event building: `Packets`, `EventBuilding`, `Converter`

`Converter.tla` models `reformat::Converter::convert`
(`reformat/Reformat/src/Reformat/Converter.cxx`): `PullPacket` and `FileDone`
are the two outcomes of asking one raw data file for its next packet, `Align`
is the round that takes the packets near the earliest queued timestamp off the
queues and writes an event. `EventBuilding.tla` is the abstract specification:
the k-way merge of complete files. The converter sees one packet of each file
at a time; `ImplementsEventBuilding` says that this is enough: pending packets
of the merge are the queued and the unread ones. Payloads are abstracted to a
trigger number; timestamps are small naturals and `TimestampMax` stands for
`numeric_limits::max()`.

| run | checks | bounds |
|---|---|---|
| `converted` | the inductive invariants of the proofs, refinement of the merge, termination; `EventsAligned` and `PacketsInFileOrder`; and, where triggers can be told apart, one trigger per event, no complete trigger dropped, which packets are left over | two files, either of up to three packets with any timestamps of 0..3 and the greatest, equal and decreasing ones included, or of four triggers with every combination of gaps and of lateness 0 or 1, spacing 3, window 2: packets of a trigger are inside the window, those of two triggers are not; `keep_all` off and no event limit, as configured by default |

Fairness: `convert` is one thread that never waits, so `WF(Next)`.

*Proved* (`EventBuildingProofs`, `ConverterProofs`), for any files, window and
limits: type correctness, `VisitInv` (a visited file that is still attached has a
packet queued, an erased file has been read), the refinement, and through it
the merge's invariant (`EB!IInv`: what is pending is a suffix of the file, groups
are in the window, events and dropped groups are in trigger order), from which
one-trigger events, complete triggers and file order follow. The
refinement rests on `EveryFrontVisible`: without it an earlier packet might be
unread when a round is aligned. `ConverterMerges` carries the merge's invariant
back to the queues; `EventsAligned` needs only the types.

`LeftoversExplained` counts triggers against rounds, which takes `OneTriggerPerRound`,
the other half of `IInv` (`ConverterRounds`): after n rounds every attached file has
been asked n times or once more, the others had no more than n packets, and n triggers
have been disposed of or all of them. A round disposes of one trigger because the group
of the merge is the earliest pending trigger as a whole (`NextDisposesOne`) and a queue
that is not empty makes the round a step of the merge. That the last round finds no
file attached gives the number of rounds, one more than the longest file has packets.
This assumes finitely many files (`FilesAssumption`), as there are in a configuration.
`ConverterKeeps` says the same of the events: with `keep_all` every packet is in an event
at the end exactly if there were as many rounds as triggers, for what is left in the
queues is in no event (`LeftAreNotKept`), and all else has been written
(`KeptIfEnoughRounds`, which no run checks).
Termination is left to TLC.

`reformat.py` says of `keep_all` "Keep all events even if they are not aligned with
other RawDataFiles" (line 54) and of `event_limit` "Maximum number of events to put into
output EventFile" (line 56). The code keeps neither: when the last file is done, what
is still queued is thrown away, `keep_all` or not, and a conversion with a limit writes
one event more, as it stops only when the number is above the limit. `Align` and `ExitEarly`
follow the code; no run or property is about these two, and `ConverterKeeps` says exactly
when the first of them holds.

## 4. Raw data files: `RawDataFiles`

Each class of `reformat/TestBeam` is a module of `next()` over `RawDataFile`: a file is
a sequence of items that the class reads in one go, the item "cut" one that the
file ends in, and `next()` takes one step for each, so that several files are
read in turns. `RawDataFiles` asks them in any order. What is not initialised is chosen:
the first `keep_current_spill`, the fields of a fiber-tracker spill past the end of
the file, and what `TrigScintTwoFibersRawFile::next` copies (`Leftovers`).

| run | checks | bounds |
|---|---|---|
| `raw_files` | `RawInv`; `PolarfireGivesSpills`: a Polarfire gives all events in the range of ticks from the spill after the skipped ones on, with the number of their spill; `WhiteRabbitSpills`: every record of channel 1 counts as a spill; `GroupedTimesFallBack`: the times of grouped events fall back with every new spill | two Polarfire files, the first of up to three events in the range of ticks or above it, the second of up to two items of any kind, with no or one spill to skip, and a cut or bad end; or one file of another class with any items up to three; or a file of the two fibers of up to four words beside a fiber-tracker file of one spill; 2^64, 2^8 and 10^9 are small numbers that keep the order of what is compared |
| `raw_said` | that words are read until the boundary, or else that `next()` of a whole fiber-tracker file returns the null option at its end: neither holds | a file of the two fibers beside a fiber-tracker file of one spill |

What the properties state of the code as it is: all Polarfire files share the flag
that says whether the current spill is kept, so that a file that ends while it
skips takes the rest of a spill from another; White Rabbit subtracts nanoseconds
from seconds without sign, and so takes every such record for a new spill; the
timestamp of a grouped event loses the part that tells the spills apart; a packet of the two fibers has none of the data of its file.
At the end of a fiber-tracker file that is not cut short, `next()` takes uninitialised
memory for the header of another spill: it throws, or makes up packets if the memory
looks like one. `RawDataFile.h` line 42 says that it signals there that the file is done,
and `raw_said` shows that it does not.

*Proved* (`RawDataFilesProofs`), for any number of files of any classes, contents,
offsets and order of asking: `RawInv` (`FilesInvariant`) and the
other three properties of the run, each from one inductive invariant
(`FilesInduction`). Its core, class by class:

* *Polarfire*: among the events in the range of ticks that have been read, `Openings` are
  those whose spill differs from that of the event before; as many have been
  counted, the skipped ones first (`SpillsAreCounted`). An event that is wanted is
  lost only while `keep_current_spill` is false, and that takes a file that has skipped and
  not yet met a spill it keeps (`SkippingIsExplained`): itself, and then its call is still
  under way, or another one that has ended so. The next opening sets the flag,
  hence what is lost is the rest of one spill (`RestIsLost`).
* *White Rabbit*: seconds minus the nanoseconds of the last spill wrap around to more
  than five if the nanoseconds are more than the seconds and five less than
  the width (`NanosecondsAreMore`); the clock satisfies this from its first second on,
  and until its nanoseconds no longer fit.
* *Grouped events*: where the highest byte is zero, what is left of the times keeps their
  order in steps of a byte or more (`LowBytes`), so that adding fewer spills than a
  byte counts cannot turn the order of two timestamps, and nothing overflows.
* *Fiber tracker*: a reader that has failed has met a cut, thrown, or given a packet with the
  fields of an earlier one emptied (`TrackersFail`).
* *Two fibers*: `next()` works on one word, however long the file is. If a half word of it that
  is kept has a separator in it, then every part between two separators has at most four bytes (`SplitShort`);
  if none has, there is one part, of an even number of bytes (`SplitWhole`). None has the
  eleven of a sample (`NoSamples`), so both fibers are empty and the packet has no error. The file
  fails with its first packet but if the word is the boundary (`TwoFibersFail`, which makes
  `TwoFibersAreEmpty` inductive).

The loops that cleaning, splitting and decoding are in the code are folds here. That a fold takes its steps one
by one is proved for each (`CleanSteps`, `SplitSteps`, `SampleSteps`): a function with these
steps exists up to every length (`FoldExists`), and what holds at 0 and is kept by a
step holds up to the end (`Induct`), both by a least counterexample, as the library's
induction, which takes an operator as its parameter, cannot be used.

Assumed is that ticks, seconds and bytes are natural numbers (`TicksAssumption`,
`SecondsAssumption`, `ByteAssumption`; all are unsigned in the code), that a file ends where it
is cut (`CutComesLast`), and that what is in memory is a word of eight bytes
(`LeftoversAssumption`).

## 5. Runs over the bridge: `RogueServer`, `RceServer`, `RogueTcpClientProducer`, `RogueRun`

`RogueServer` has two threads. `AcceptFrame`, `ReceiverResets` (one flag at a
time) and `ReceiverSets` are `TcpCommandReceiver::acceptFrame`; `Poll`,
`MainResets` and `Generate` are the main loop of `ldmx_rogue_server`. The flags
are plain bools used by both threads, so each access is a step of its own; a
one-byte store is taken to become visible as a whole. `latest` and `obeyed` are
history: the number of the last command accepted and of those obeyed.

`RogueTcpClientProducer` has the calls of run control; `DoConfigure` and
`DoStopRun` are two steps each, as a client thread may hand a frame to the
writer between closing and opening, or between the stop command and closing.
`ReceiveFrame`, `WriteFrame` and `SendFrame` are a client thread. `RogueRun`
composes both over `RogueLink`.

`RceServer` is the server in python: `_acceptFrame` on the thread of the bridge, and the
main loop, which reads `state` at three places of a round. `_configure` is two steps,
as the loop may set the state to idle between its check and its assignment.
`MCRogueServer` runs one of the two servers, `program` says which.

Assumed of what is not in the repository: run control makes one call at a time
and only those its state allows (a reset is not sent while running, a run
starts from configured or stopped, `GetRunNumber` is the number of the run
started last); the bridge keeps the order of a connection and loses nothing; a
frame of the server goes to one of its connections.

| run | checks | bounds |
|---|---|---|
| `server_flags` | C++: `ServerInv` (its parts `FlagIsLatest` and `ObeyedInOrder` among them), `WaitingIsObeyed`; python: `RceInv`, `RunIsShown` | three commands of any kind, one-byte unknowns, strings and bad frames included; four messages and two frames for python; both threads fair |
| `two_runs` | files and order of frames, `EveryFrameSent` | up to two runs with one client, and one with the two that a reset and a second initialisation leave; five calls, two frames, threads fair; with two clients run control waits until the server has obeyed its last command (`LastIsObeyed` of `MCRogueRun`) |
| `lost_stop` | a stop that is dropped | |

Fairness: the receiver and the main loop are threads that always run
(`while (true)` with a sleep), so each is weakly fair; so are a call in progress
and the client threads. Run control itself need not call.

*Proved*: `ServerInvariant` (`RogueRunProofs`), for any clients and frames. Its core:
while a frame is accepted, the flags already reset stay down
(`ClearedStaysCleared`, as only this thread sets flags), and a flag that has been
obeyed is one that the loop is about to reset (`ObeyedIsReset`), which gives
order and at-most-once. `RceInvariant` (`RceServerProofs`), for any number of messages: the python
server counts no frames while it is idle or configured, and makes at most one
after a stop; its core is where the loop may be in which state (`LoopHasSeen`). Two
things it cannot promise: a run that comes between the loop's seeing a stop and its
setting idle is lost, and one that overtakes the reset goes on counting
(`RunIsKept` leaves both out). `RunInvariant` (`RogueRunProofs`) adds `FileIsCurrent`: no run is
started over an open file but the first after it was opened, and that nothing
in the system is of a run not started yet; hence `NoLaterRunInFile`. Files are
named after the run before, so a file named r holds run r + 1, and may also
hold late frames of earlier runs.

`FramesAlwaysInOrder`, about runs with one client, needs more. That a frame comes after
all the others is clear only from what the server will count: the frames handed out, held by the client
threads and under way follow each other and the last one the generator has made
(`FramesInLine`). A start sets the count back, but to a run that is later: the starts not
obeyed yet are of later runs than everything made so far, and a count that a stop has
set to zero waits for one of them (`StartsAreLater`). Only the client that is attached gets
frames, and a reset leaves the old one with what it holds (`OnlyAttached`). Only the
liveness properties are left to TLC.

## 6. `PolarfireProducer`

`DoStartRun` is followed step by step (`Connect`, `Setup`, `Open`, `Prepare`);
`BeginStop`, `Slept`, `Disable`, `Close` and `Drop` are `DoStopRun`, which
`DoReset` and `DoTerminate` call unless `exiting_run_` is set. Every call to the target
or to the writer may throw, of a start (`StartThrows`) and of a stop (`StopThrows`, at
`fc_enables`, `daq_dma_close` and both ways to `close`), with or without having done its
work. Nothing in `DoStopRun` catches it: the steps after it are not taken, and `exiting_run_`
stays true, so that a reset does nothing. `Begin` to `WakeUp` are
RunLoop. Three members are not initialised by the constructor: `Init` chooses
them. What separates the threads is a sleep of two busy periods, so the model
has timers: sending a trigger takes up to `MaxTrigger`, reading and passing on an
event up to `MaxRead`; `Tick` lets time pass unless a step is due. Waking up
takes no time. With `TimesAllow` (`MaxTrigger < Busy` and
`MaxTrigger + MaxRead < 2 * Busy`) everything holds; the run `pf_slow_read`
shows what happens otherwise.

Assumed of what is not in the repository: EUDAQ has one RunLoop at a time and
goes to the error state when a call or RunLoop throws; the rogue stream master
appends slaves without looking for duplicates; the writer drops frames while
no file is open, and closes an open file before it opens another.

| run | checks | bounds |
|---|---|---|
| `pf_two_runs` | `PolarfireInv`, `StoppedIsComplete`, `CopiesGrow`, `LeftByThrows`, `StopEnds` | busy 3, trigger 1, read 4; two runs, four triggers, nine calls, every mode, DMA or not, every call to the target or the writer may throw; both threads and time fair |
| `pf_slow_read` | that RunLoop never finds the target deleted: does not hold | busy 2, read 5 |
| `pf_reset` | that a reset leaves neither target nor file, or that the target takes no external triggers after one, or that every run writes its events once, as the first does: none of the three holds | busy 3, trigger 1, read 4; two runs, seven calls |

What the properties state of the code as it is: without DMA each start adds the writer
once more to the slaves, so that a run writes each of its events as often as such starts have
been made (`CopiesGrow`; `pf_reset` for the comment in line 173). A stop
that does not throw leaves neither target nor file. What a start or stop that threw has left,
external triggers included, goes through a reset, an initialisation and a configuration
if `exiting_run_` is true (`LeftByThrows`; `pf_reset` for the comments on
`DoReset`). External triggers that a stop which threw has left on stay on even through
later runs that are stopped, until one in the mode `EXTERNAL` is.

*Proved* (`PolarfireProofs`), under `TimesAllow`, for all times, runs and calls: the
invariant, and from it `LoopTargetIsLive` (`TargetOutlivesTurn`), `LoopIsGone`
(`TurnIsOver`), `EventsReachTheirFile` (`NoEventMissesItsFile`), `StoppedIsComplete`
(`StoppedRunIsComplete`), `CopiesGrow` and `LeftByThrows` (`OnlyThrowsLeave`). The core is
`LoopIsReady`: a turn that is under way when `exiting_run_` is set is over before the
time left to sleep, because both timers run together and the sleep starts with more. It does
not depend on what throws later. `CopiesAlwaysGrow` takes how often the writer is a slave
at every point of a start (`CopiesSoFar`). `LeftByThrows` is inductive only with
`TriggersAreUndone` and `LeftoversAreUndone`, which follow the triggers, the target and
the files through a stop: without a throw they are there only while `exiting_run_` is
false or a call is in progress. `StopEnds`, that a stop ends with nothing left or in the
error state, is left to TLC.

## 7. The HCal chain: `HCalReadout`

`HCalReadout` composes `DarkRunControl`, `HgcrocFileReaderProducer`, `TestBeamDataCollector`,
`HCalTestBeamMonitor` and `TestBeamEventDisplayMonitor`; the events are in queues from one to
the next. `UserStarts`, `UserStops` and `ExecStops` of `DarkRunControl` carry the commands to the
producer; `RunLoop` of the producer is a step for each read, and configuring, starting
and stopping may come between any two. `decode` of `HgcrocRawDecode` is a function of the
words of a packet; `CSVParser` builds the maps of the channels. A packet is kept as
the stretches of the file that it was read from (`parts`), with how often the file
had been opened (`opens`); the words beyond are zero, as in the code.

| run | checks | bounds |
|---|---|---|
| `hcal_chain` | `HCalInv` (types, `OneRunPerOpening`, `ConfiguredIsFresh`, `RunIsWatched`), `EventsFollowFile`, `NumbersTellApart`, `ReadoutIsShown` (`DecodeGivesReadout`, `CutEventsAreMadeUp`, `HitsArePulses`, `PastHasNoPart`), `PlotsAreRecent`, `DisplayStandsStill`, `CutShortOnlyByOverlap` | files of no, one and two events of both versions, whole, cut, and begun in the middle; up to two runs, two configurations, up to five events of another producer; two links, of which a few channels are in the map |

To keep the run small `MCHCalReadout` lets old runs be stopped only with the empty file,
plays cut files in one run only, sends the other producer's events with one of the
files, and has the monitors receive their events before anything but a
configuration goes on; they share nothing with the producer but the queue, so that
later receptions fill the same. `Open` is one step, though `FileReader::open` seeks the end and the beginning while RunLoop
may read without a lock: a read in between takes less than one after it. Half of the
events get to the monitors. The other producer sends more than two only in the first run
after one configuration, and then the monitors count three: with
`NRESET` and `NSPILL` 2 the second adds to the plots of the first, and the third resets them.

What the properties state of the code as it is: a packet may be put together from
two openings of the file, if it is closed and opened while RunLoop is reading
(`EventsFollowFile`); the loop of one run may go on in the next (`caught`), and an event
that it is reading at the stop is booked to the next run; an event that ends with
the file is sent with zeros, which version 1 shows as samples (`CutEventsAreMadeUp`);
a start that overlaps with the end of `Exec`'s stop is not watched, and may be stopped
itself (`overlap`, `starting`); with `NRESET` above 1 the event display draws one event and
stands still. A producer that is configured twice without a run in between fails,
as its stream is open already, and goes on failing.

*Proved* in `HCalReadoutProofs` for any files, runs, configurations and numbers of
events: `HCalInvariant`, `EventsAlwaysFollowFile`, `RunsAreCutShortOnlyByOverlap`,
`NumbersAlwaysTellApart`, `PlotsAlwaysRecent` and `DisplayAlwaysStandsStill`. They assume of a file
(`FilesAssumption`) that no word which may pass for a header announces less than the
two words that RunLoop has read by then, and that no event has the pattern of a
signal word in it: RunLoop looks for neither, and `EventsFollowFile` would fail without
the second. The number of words read at once (`ChunkAssumption`), the fraction
(`FractionAssumption`), `NRESET` and `NSPILL` (`PeriodsAssumption`, `DisplayResetAssumption`) are at
least 1: the monitors divide by them.

The invariant of the first three is `IInv`, a rearrangement of `HCalInv` and the parts of
`EventsFollowFile` that are about the events that have been sent and the one that is
being read. The properties alone are not inductive, for these reasons:

* which run a file belongs to is known only while it can be read and RunLoop has not
  met it (`Live`): such a file is of the run that is on, or fresh (`LiveIsOfRun`); a file
  that RunLoop met is excepted for good (`caught`), as it is read in two runs;
* that the next event starts where the last one ended takes where reading goes on
  (`ReadingGoesOn`, `After`): behind the last event of this opening, or at the beginning;
* that words are missing only for a reason takes why a read fails (`FailsBecause`):
  the end of the file, another opening, or a stop. A file that RunLoop met may also be
  configured a third time while it is open, which sets its fail bit in the middle of
  an event (the last case of `CutBecause`). TLC's two configurations do not reach
  that; the proof did;
* a header tells the length only of a packet that is one stretch: if the file was
  opened anew behind the signal word, its header is the first word of the file,
  whatever that is.

The numbers need an invariant of their own (`NumbersInv`): those of a run go back from
`m_evt_c` without a gap, as many events have one as it says, and for every run the
share of the monitors is the quotient. `DisplayAlwaysStandsStill` follows from `CountedOnce`.

The plots have `PlotsInv`. That those which are reset show the events since the last
multiple of `NRESET` takes that every fill so far is of an event counted before and that
an event which is no multiple has the same last multiple as the one before
(`Multiples`). That the others show what `decode` gives of every event counted
(`PlotsAlwaysOfEvents`) takes the history `looked` and that an event does not change once it
has been sent and delivered (`QueuesGrow`, `BlockStays`). The theorem says "for some value of
`w`". That the value has no part in it (`PastHasNoPart`) rests on what the headers in the player's
files say of the length of their packets, which no invariant of the proofs relates to the words
sent: it is model-checked, not proved. The rest of `ReadoutIsShown` depends on what `decode` computes
for a packet, an induction over its words, and stays with TLC.

## 8. The chain of the trigger scintillator: `TrigScintReadout`

The events come from the front end, through `CaptanTrigScintTestBeamProducer` and
`TrigScintDataSender`, or from a file, through `TrigScintFileReaderProducer`; `source` says which. The
front end has a stream of words and sends a frame of it after the other while it is
enabled; frames and messages may be lost, and stay in order. A word is its place in
the stream, so that an event sent can be compared with what the front end had. The
thread of the client writes a frame (`WriteFrame`) and hands it to the sender, which takes one
word at a time (`TakeWord`), so that run control may come between two words, or none of a
frame with an error (`DropFrame`).
`TSevent` (`TrigScintRawDecode`) reads the samples of the two fibers out of an event, `ADC2Q`
(`SimQIE`) makes charges of counts, and the monitor fills its plots.

| run | checks | bounds |
|---|---|---|
| `trigscint_chain` | `DamageIsLocal`, `EventsAreInFiles`, `TrigScintInv` (`LineInv`, `PiecesInv`, `FiledInv`, `AskedInv`, `PlayedInv`, `WordsInv`, `BookedInv`), `FibersAreRead` (`FiberOneIsRead`, `WholeSamplesAreShown`, `SamplesAreTrueOrZero`), `EventsAreDecoded` (`SamplesAreCut`, `CapIdIsNotRead`, `ChargesAreInBins`) | streams of two events of two samples, which begin with a sample or amid one in either half of it, commas before and between words, and counts that look like marks; 3 words instead of 50 before an event is sent; two runs, two clients, one lost frame or message; two configurations; all counts |
| `trigscint_said` | that the words before the first mark are skipped in fiber 2, too, or that fiber 2 shows every sample, as fiber 1 does, or that every charge is the mean of its bin: none of the three holds | the same streams |

As above, the monitor receives its events before anything but a configuration goes
on. The front end waits while the sender has a frame, since neither reads or changes
what the other changes. A second client is tried with one stream, losses with another:
the streams differ in what is decoded, not in how they are taken.

What the properties state of the code as it is: the buffer of `TrigScintDataSender`
outlives stops and runs; a frame with an error is in the file and not in an event;
a count of 0xBC or 0xFC splits a sample; the ID of the capacitor is read from the mark (`CapIdIsNotRead`); the plots of the
channels that are filled after a second configuration are the first ones, which
presumes that booking makes new histograms.

The second fiber is read with the flag and count that the first has left. What lies whole
between its marks is shown (`WholeSamplesAreShown`), but its time and first words are not
skipped, as the comments of `TrigScintRawDecode.cxx` at lines 142 and 149 say, and the
end of the event is not joined to its beginning, as line 134 says it is
(`trigscint_said`). Therefore `SamplesAreCut` says nothing of
what is before the first mark of fiber 2, but that it is shown as at most one sample.
Nor is the charge always the mean of its bin, as `SimQIE.cxx` line 8 has it
(`trigscint_said`, too): the first bin of each subrange but the lowest is taken for one of the
subrange before, whose bins are narrower, so that its charge is too low by up to half of the bin.

`EventsAreInFiles` is not about words that came when no file was open (`unwritten`): after a
stop the file may be closed before the front end is off, and those words are in no file.

*Proved* (`TrigScintReadoutProofs`), for any streams, sizes, losses, runs and configurations:
`DamageAlwaysLocal`, `EventsAlwaysInFiles`, `EventsAlwaysDecoded` and `TrigScintInvariant`, from
which also `FrontEndObeys` (the front end is on exactly while a run is, once it has got what
is under way, unless the last message was lost), `PlayedFollowsFile` (what is played are pieces of the file of the right size, one after the other,
whatever run control does between two reads) and `FirstPlotsAreFilled`. `AskedInv` follows the
last message under way, `PlayedInv` where the next read begins in each part of the loop.

Neither `DamageIsLocal` nor `EventsAreInFiles` is inductive. `LineInv` puts all words in one line:
what the sender has been given, the frame it is at, the frames under way, what the
front end has still to send; so a word that is taken comes after all that have been.
`PiecesInv` says which words are where: every event that has been sent is all that the
sender has been given between an end and the one before (`Piece`), in order, every such
piece with enough words has been sent, and the buffer is what came after the last end.
A later word changes no piece that has ended (`PiecesStay`) and comes to the open one
(`PieceGrows`) or ends it (`PieceEnds`). An event that arrives with both its ends is then the
whole piece between them (`WholeIsPiece`), and rising words that are all of an interval
are its words in order (`RisingThroughInterval`). `FiledInv` carries what the writer has
done along with the buffer and the frame: a word in either is in a file of this run or of
one before, or came when no file was open. `TakingAssumption` and `StreamsAssumption` say that the sizes are
naturals, that a frame has words, and that a stream is a sequence of four words of 16 bits
each.

`EventsAlwaysDecoded` is about what is shown of an event, whatever it is. If both fibers
have a mark, the first after its time (`HaveMarks`), the samples are the parts of the two
fibers between the marks (`AreCut`), of the fiber with more of them the last ones; and the
cap IDs of fiber 1 are of the marks. (A fiber without a mark may leave a sample of left over
bytes, whose cap ID is anything.) The charge of a channel is the sum of the means of its
counts (`MeanOf`; 0 and 255 give the two ends of the range) or less than it, by at most
half a bin for each count that is the first of a subrange (`RoomOf`).
`TSevent`, `Fiber` and `sum_charge` are folds: since no induction theorem of the library
can be used, `Induct` proves by the least counterexample what the proofs need, and
`FoldExists` and `StepsOf` take a fold apart into its steps. `LoopReads` then carries, word
by word, the list of the cuts so far and what has been read (`IsCuts`, `IsRead`);
`ListPlaces` says where a cut is in that list, `PartsOf` what is between two of them, and
`FiberIsRead` that the samples are these, with the flag and the count that the first fiber
leaves to the second one. In fiber 2 its beginning counts as a cut there; `MarksCut` takes it
away again, as it moves every part one place and changes none (`PlacesAreSame`,
`PartsAreSame`). `ChargeIsMean` goes through the tables of `SimQIE` subrange by subrange
(`SubrangesMeet`), and `SumBetween` adds up. `HasBlock` follows from the invariants above:
an event is of words that the front end or the file has (`WordsInv`), so its fibers are
sequences of words.

`FibersAreRead`, which compares what is decoded with what the chips of each stream have read
out, is about the streams of the MC module and stays with TLC.

## 9. Findings, and what is not modelled

Ten statements of the repository's comments and headers that the code does not keep,
quoted in `PROJECT.json`, and the run that shows it:

| run | what is claimed | what happens |
|---|---|---|
| `lost_stop` | the flag says that a run should be stopped | a stop may be dropped by the server |
| `pf_slow_read` | sleeping lets RunLoop close up | RunLoop may work on a deleted target |
| `pf_reset` | a reset goes back to newly created | target and file may stay |
| | a reset recovers from failure | the target may go on taking external triggers |
| | a run starts cleanly | a later run without DMA writes its events more than once |
| `raw_said` | words are read until the boundary word | the file of the two fibers is read to its end |
| | `next()` returns the null option when the file is done | a whole fiber-tracker file ends with an exception or a made-up packet |
| `trigscint_said` | leading words are skipped in fiber 2 | they are taken for a sample |
| | fiber 2 is read as fiber 1 | its last sample may be missing |
| | the charge is the mean of the bin | at the first bin of a subrange it is below |

Where a run has two or three rows its property is the disjunction of the claims
(`ResetOrStartIsClean`, `BoundaryOrEndIsSeen`, `FiberTwoOrChargesAreRight`), of which each is a
definition of its own. A disjunction is violated only in a state in which all of them
are false, so the state that TLC finds refutes every one. The two divergences of
`reformat.py` are described in section 3.

What else differs from what one would expect is in the properties of the passing runs,
named in the sections above.

The proofs cover safety only: liveness needs fairness and ENABLED and stays with TLC
(`ConversionEnds`, `WaitingIsObeyed`, `RunIsShown`, `EveryFrameSent`, `StopEnds`). So do the two
properties of MC modules that compare what is shown with what those modules' inputs hold:
`ReadoutIsShown` (section 7) and `FibersAreRead` (section 8).

Not modelled:

* the servers of the trigger scintillator in python: `TsTcpServer.py` does not start
  (it uses a misspelt member), its sender writes an undefined array,
  `TcpCommandSlave.py` uses a local of another function, and nothing acts on the state;
* the DIP and White Rabbit producers, whose clients are not in the repository;
* the emulators' random packets and the receivers that print; `TestFile` and the
  options of reformat, which are constants here;
* `TrigScintTestBeamProducer`, which is `RogueTcpClientProducer` with another data sender;
* calibration, plot and decoding scripts, which are numerical or textual and sequential;
* the data path of PolarfireProducer with DMA, which never enters RunLoop; starting
  the server with neither `--hcal` nor `--trig`, and the python server with another image
  than "DataDpm", where each uses a generator that does not exist;
* headers of an HCal event that give less than their own length, tables without the
  columns that are read, events with fewer than two words of the second fiber;
* payloads where nothing reads them, headers, file names and log messages.
