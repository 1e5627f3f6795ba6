# Verification of the CAN FD and RISC-V verification environments

TLA+ models of the UVM bench for a CAN FD controller in `src/canfd/canfd`, of the
scripts that run it, and of the test generator in `src/riscv-cpu/riscv-dv-master`
(its Python generator, its run flow and its comparison of simulator traces):
what these parts promise, model-checked with TLC, and theorems about them proved
with TLAPS. Paths below are relative to `src/canfd/canfd/`, in the paragraphs on
riscv-dv to `src/riscv-cpu/riscv-dv-master/`, unless they begin with `src/`;
`pg223` is the product guide `src/canfd/设计相关文档/pg223_canfd_中文翻译.md`.

## 1. Inventory

The repository is a collection of hardware verification environments. The
program written here, and not vendored or generated, is the CAN FD environment;
of the vendored trees riscv-dv is the one that is a program with logic of its own.

| Component | State | Operations | Hard behaviour |
|---|---|---|---|
| Reference model `env/canfd_ref_model.sv` | registers, 32 TX buffers, two RX FIFOs, TX event FIFO, error counters, timestamp | `write_reg`, `write_tx_buf`, `process_tx_arbitration`, `on_can_frame_received`, `read_rx_fifo`, `on_error_detected`, `tick`, `read_reg`, `get_expected_tx_frame` | FIFOs at their depths, 6- and 9-bit values, status registers stored at four places, resets between any two calls |
| Scoreboard `env/canfd_scoreboard.sv` | three analysis FIFOs, result counters, the reference model | `process_tx_frame`, `process_rx_frame`, `process_axi4lite_tr`, the tick | four threads per clock edge in any order; the mirror and the device learn of a frame at different moments |
| AXI4-Lite agent `uvc/axi4lite/` | driver: current item and channel; monitor: latches and flags | `do_write`, `do_read`, the monitor's loop | handshakes against a slave that answers when it likes; READY before VALID; deadlock |
| Regression manager `run/regression.py` and `run/xrun` | thread pool, results; per xrun a `sim.log` and verdicts; per group a regression file | start, kill, collect, report; simulate, check, append | processes killed anywhere, a file shared by concurrent processes, exceptions in a pool |
| CAN PHY agent `uvc/canphy/` | bit stream of the current frame; per line the capture | build, stuff, drive, disturb; capture, destuff, publish | where a frame ends, frames longer than a capture, frames without a gap |
| Test sequences `testcase/` | – | register accesses, polling waits with timeouts | a poll that races the event |
| Register model, environment, virtual sequencer, assertions, coverage | – | wiring, field declarations, observation | – |
| xrun's compile flow, `run/xrun_lib`, `run/run`, dashboard, spreadsheet conversion | K-files, command lines | ifdef expansion, formatting | nesting of conditionals |
| UCSPI agent; `src/mpsoc` | – | stubs with a TODO | – |
| Program generator `pygen/pygen_src` (riscv-dv) | per hart the instruction list and the directed streams; the list of basic instructions, shared by all | generate, inject, label, give targets, drop labels, write | what one pass establishes the next ones must not break; class attributes that outlive a hart |
| Run flow `run.py`, `scripts/lib.py` (riscv-dv) | seeds, processes, programs and logs on disk | batch, start, wait, kill, compile, simulate | failing, hanging, killed processes; files of an earlier run; Ctrl-C |
| Trace comparison `scripts/*_to_trace_csv.py`, `instr_trace_compare.py` | converter state; known register values | convert line by line, advance, judge | logs of different habits, cut logs, traces of different lengths |
| `openc910`, `opene906`, `riscv-tests` | – | third-party RTL and tests | – |

**How they interact.** The test sends items to the AXI4-Lite driver, which puts
them on the bus; the AXI4-Lite monitor publishes each completed transaction,
and the CAN PHY monitor each frame of either direction, into the analysis FIFOs
of the scoreboard. A scoreboard thread per FIFO calls the reference model: every
write is mirrored, every received frame is put into the mirror's FIFOs, every
read below 0x100 and every transmitted frame is compared. A fourth thread ticks
the timestamp. The whole bench is one simulation, started by an `xrun` process,
which judges the simulation's log and appends its verdict to
`build/<group>/regression`; `regression.py` starts one xrun per test, serially or
from a pool, and counts statuses in a report.

In riscv-dv `run.py` cuts each test of the list into batches, starts one generator
process per batch, which writes its programs with a pool of workers, compiles every
program, runs it on one or two instruction set simulators and has their logs
converted and compared. The three parts share nothing but files.

**What makes each correct.** The mirror shows what a correct device shows and
its status registers show its queues; the queues lose nothing silently;
transmissions follow the priority. The scoreboard raises no false alarm and
passes over no frame. The driver completes every item and the monitor reports
exactly what happened. The regression ends, accounts for every test once,
loses no verdict, and does not report as passed what was not run. The PHY monitor
misses no frame and reports none twice. A generated program keeps its streams
whole and its branches have targets that exist and do not lead into a stream; a batch run makes
every program once, from seeds that are on record, and judges nothing an earlier
run left behind; a comparison that passes means equal traces.

## 2. Modules

| Module | Models | Role |
|---|---|---|
| `RxQueues` | – | abstract: bounded queues with a shared overflow flag |
| `CanfdRefModel` | `env/canfd_ref_model.sv` | the reference model |
| `CanfdRefModelProofs` | – | theorems about it |
| `CanfdScoreboard` | `env/canfd_scoreboard.sv` | extends `CanfdRefModel`: the bench around the mirror |
| `CanfdScoreboardProofs` | – | theorems about it |
| `Axi4lite` | `uvc/axi4lite/axi4lite_driver.sv`, `axi4lite_monitor.sv` | the agent against every slave |
| `Axi4liteProofs` | – | theorems about it |
| `Regression` | `run/regression.py`, `run/xrun` | the manager and its xruns |
| `RegressionProofs` | – | theorems about it |
| `CanphyLink` | `uvc/canphy/canphy_driver.sv`, `canphy_monitor.sv` | the agent on one line, bit by bit |
| `CanphyLinkProofs` | – | theorems about it |
| `InstrStream` | `riscv_instr_stream.py`, `riscv_directed_instr_lib.py`, `riscv_loop_instr.py` | instruction lists, injection and mixing, the shapes of the directed streams |
| `ProgramGen` | `riscv_asm_program_gen.py`, `riscv_instr_sequence.py` | extends `InstrStream`: the program of each hart, pass by pass |
| `ProgramGenProofs` | – | theorems about it |
| `IssLog` | `scripts/spike_`, `sail_`, `ovpsim_log_to_trace_csv.py` | the three converters, as functions of a state and a line |
| `TraceCompare` | `compare_iss_log` of `run.py`, `instr_trace_compare.py` | extends `IssLog`: conversion of two logs and their comparison |
| `TraceCompareProofs` | – | theorems about it |
| `RiscvDvRun` | `run.py`, `scripts/lib.py`, `pygen_src/test/*.py` | one run with all steps |
| `RiscvDvRunProofs` | – | theorems about it |
| `MC*` | – | values for TLC |

### CanfdRefModel

One action per method; per register for `write_reg`. A SystemVerilog function
takes no simulation time, so a call is one step. Registers that only store what
is written are the map `regs` over `PlainRegs`; ISR, ESR, SR, TRR and TCR are sets
of flags or of buffer indices. A frame is a model value, and a filter the set of
frames it accepts. Depths, limits and widths are constants: 64, 32, 96, 128, 256,
8 and so on in the code.

The class has public fields and methods the bench does not use: nobody in the
repository sets `ready_req`, configures a filter object, reads an RX FIFO of the
mirror or reports an error. The constants `Requesters`, `FilterSettings`,
`Readers` and `Errors` say which of these users there are; the class is checked with
them, the scoreboard without.

### RxQueues

What the reception side promises: each queue keeps what it accepted in order; an
arrival enters each queue it is meant for, or that queue is full and the overflow
flag is up afterwards. `Rx == INSTANCE RxQueues WITH queue <- rx_fifo, overflow <-
"RXOVF" \in isr` is the refinement mapping. Its limit: an arrival that is lost
without raising the flag changes nothing and is a stutter.

### CanfdScoreboard

`served` holds the bench's threads that ran at the present clock edge; `NextEdge`
may happen when the tick has run and the FIFOs are drained, because what is
published at an edge is processed before time advances. Between, the threads run
in any order. The device is external and is modelled after its product guide, with state,
conditions and register layouts of its own (`dut`, `TakeFrame`, `DeviceWrite`,
`DeviceRead`): nothing is received in configuration mode (`pg223:322`) or stored while no
filter is in use (`pg223:720`), ISR and FSR have the bits of `pg223:481-483` and
`pg223:741-743`. The mirror reads its own layouts, the whole of FSR included
(`ReadReg`). The one thing taken from the bench is the addressing of the TX buffers,
16 bytes apart (the guide says 72, `pg223:765-769`): with the guide's addresses no
buffer but the first would agree. The device takes a frame over at one moment (`DeviceReceives`),
the monitor publishes it at another (`MonitorRx`), and the test reads and writes at any
time in between. Overload frames are among `ErrorFrames` for the receive thread and
not for `process_tx_frame`, which skips error frames only.

### Axi4lite

A step is a clock edge: driver, monitor and slave read the signals of before it,
their non-blocking assignments hold after it. `offer[c]` is the driver's own
signal on channel `c` (VALID of AW, W and AR, READY of B and R) and `answer[c]` the slave's.
The code leaves a request channel at once when READY is up already, setting and
clearing VALID in one time step (`Proceed`). `try_next_item` returns after the
assignments of its edge, so a new item sees what the slave has just raised
(`NextItem`). The slave may do whatever the protocol allows within its policy: READY
after VALID, both write channels jointly, or at any time.

### Regression

A step is a system call or code no other process observes. `phase[t]` is where the
xrun of test `t` is; `PrintResultLog` is three steps (`FindFile`, `CreateFile`,
`AppendEntries`) because the xruns of a group share the file. `Crash` is any
uncaught exception of xrun, `Timeout` the kill after 7200 s, possible in any
phase. xrun's own timeout has the same length and starts later; where it comes
first its effect is that of `Crash`. `Launch` may fail. In the pool an exception is
seen by `main` only when every submitted test has ended (`Raise`).

### CanphyLink

A step is a nominal bit time. The driver extends its arrays by `new[size+1]`, which
keeps nothing: of a data frame only the length reaches the line, all bits but the
last are dominant (`Built`). A frame is therefore its number of bits up to the data,
the last of them (it decides how many stuff bits there are), the format, and where a
bit is inverted. The monitor is in `watch` or in `capture`; `inside` says, for the
properties only, of which frames the capture holds bits. `Destuffed` is the
destuffing as the code does it, wrong bits included, up to the length that decides
whether the capture is published: `Pass` is one pass of the loop of `parse_frame`, and
after twenty the size is 20 or the loop is over, so no recursion is needed.

### InstrStream and ProgramGen

An instruction is what label assignment looks at: whether it is a branch, atomic,
labelled, and the label and target. Its stream and its place in it (`sid`, `part`) are
ghosts. One action per pass of the code and per element of its loops; a pick is a
quantifier, and the sets (`InjectPoints`, `MixSlots`, `GenInstr`) are what the picks,
retries and overrides of the code can result in. `basic` is the one list of
basic instructions that `setup_allowed_instr` extends in place; it survives
`NextHart`. The order of the streams is any order, for the code shuffles them. A loop
stream has one or two loops (`LoopSkeleton`), whose labels differ (`LoopLabel`), and any
of the instructions drawn for init, limit and update may be a branch (`OwnBranches`): it
gets a forward target like any other. The instruction that line 253 appends again is
the same object as its first place: the field `shared` marks the two, and `Written`
writes both, whichever of them a pass has reached (`SameObject`).

### IssLog and TraceCompare

A log line is what the converters' regular expressions tell of it. What a simulator
logs for an execution is external (`LogOf`): spike and sail log boot code and every
write, ovpsim only changes; all log something behind the ecall. A killed simulator
leaves a log that ends anywhere (`EndOfLog`). `TakeRow`, `Advance`, `Judge`,
`Leftover` are the two loops of `compare_trace_csv`, row by row, with the two
dictionaries of known register values.

### RiscvDvRun

`phase` is the step of `run.py`, `at` its batch or program, `job` and `task` the
generator processes and the tasks of their pools. A file is told by who made it, and
with which seed. The environment is `Fault`: a task that raises, a worker or a
process that is killed, gcc or a simulator that fails, Ctrl-C; and the timeouts.
With `--lsf_cmd` all processes run at once. `script` is the test name put into
`sim_cmd` by the first test, which the later ones find in place of `<test_name>`; the
script for the random test imports that of the base test, which is why a process
may run two generators in turn (`Rounds`). An output directory is new or that
of an earlier run.

## 3. Runs

Sizes are chosen so that queues fill and overflow, requests tie, counters pass
each limit, and every action and disjunct happens. Nothing in the code treats the
33rd buffer or the 65th frame in a way the third does not show; the exceptions, the
widths of 6 and 9 bits, are the constants `FillLevels` and `CounterValues`.

| Run | Instance | Shows |
|---|---|---|
| `refmodel_tx` | 2 buffers, 3 identifiers, event FIFO of 2, masks one or all | `EventStatusExact`, `QueuesAccounted`, and `TransmitsHighestPriority` with ties, cancellations and resets between |
| `refmodel_rx` | 2 data frames and an error frame, depth 2, a field of FSR that holds 2 values, a filter, both readers; errors with limits 3, 4, 8, step 4, 16 values | `FillStatusExact` (a full FIFO reads 0), `RxImplementsQueues` with full and unequal FIFOs, `TypeOK` (saturation before overflow), `ErrorStateLatched` |
| `scoreboard` | data and overload frames, 2 buffers, 3 accesses back to back that write, request, cancel, reset and read, the device transmitting and signalling, 3 edges, mirror FIFOs of depth 1 | `FramesConserved`, `TxBuffersMirrored`, `EverythingProcessed` |
| `axi4lite` | 2 items of 4 kinds, 2 responses, 3 slave policies | `MonitorFaithful`, `RequestsHeld`, `TypeOK` (one channel at a time), `ItemsComplete` |
| `regression` | 2 groups (2 and 1 tests), serial with 2 iterations, pools of 1 and 2 | `ReportAccountsAll`, `EntriesComplete`, `EndsClean`, `RegressionEnds`, `TypeOK` (pool bound) |
| `canphy` | every pair of 7 frame shapes (shortest, longest, inverted in the first bit, in a middle bit, behind the cut at 200 bits; error frame), up to 4 idle bits before, between and after | `EverySofSeen`, `ApartPublishedOnce` |
| `program_gen` | 2 harts, 3 instructions, up to 2 streams of every shape with at most 13 instructions together (a nested loop with its body), bodies and mixes of at most 1, one branch among a loop's own instructions, one jump, branch step up to 2, branches allowed or not | `StreamsIntact`, `BranchesForward`, `BranchesAvoidAtomic`, `LoopsClosed`, `Terminates` |
| `trace_compare` | programs of up to 3 instructions over 2 registers and 2 values, every pair of simulators with spike in it; equal, different in one instruction, or one simulator killed | `ConversionExact`, `SameRunsPass`, `PassMeansPrefix`, `PassMeansEqual` |
| `riscv_run` | 4 test lists of 1 and 2 tests, up to 3 programs, batch size 0, 1, 2, serial and parallel, 1 and 2 simulators, fixed and random seeds, one fault and any number of timeouts | `BatchesExact`, `SeedsApart`, `SeedReproduces`, `QuietDisk`, `NoOrphans`, `BuiltIsOwn`, `Ends`, `TypeOK` |

Why these sizes: four idle bits and the interframe space make the seven recessive
bits that end a frame, one less is the other case, and a third frame meets a
monitor in no state a second does not meet it in. The second hart is the first that
finds branches in the shared list; two streams are the least that can be put into
each other; three instructions leave a branch with and without a label behind
it. Three instructions give a write without effect between two with one. Two
tests are the least for `sim_cmd` to be wrong, three batches the least with a middle
one; one fault at any place, because a second one mostly meets a run that has
ended, and the theorems of section 5 hold for any number.

`refmodel_rx` has errors and no transmissions, `refmodel_tx` the other way about: that a
transmission lowers a TEC above 0 is in no run, and is covered by `TypeCorrect` and
`ErrorStateCorrect`, which hold for every combination of users.

`CHECK_DEADLOCK FALSE` is used where the system really stops: at the end of the
budgets of a test, and when the manager has ended. Bounds that are only the
model's: `CountBound` (`tx_count`, `rx_count`), `HostBudget`, `FrameBudget`,
`EdgeBound`, `NItems`; in the model of the class each stands in the guard of the
action that counts. Likewise `MaxIdle`, `NFrames`, `MaxStreams`, `MaxMixed`,
`MaxBody`, `MaxOwnBranch`, `MaxDirected`, `NJumps` and `MaxFaults`. `program_gen`,
`claim_line_labels`, `trace_compare`, `riscv_run`, `claim_traces_compared` and `canphy`
end where the program ends or the frames are sent.

Runs that show a disagreement between the code and what is said of it:

| Run | Statement | What the code does |
|---|---|---|
| `claim_traces_compared` | with two simulators "the instruction trace from these runs will be cross compared" (`docs/source/getting_started.rst:174`) | `iss_sim` writes `test_i.log`, `iss_cmp` reads `test.i.log`: in a new output directory `run.py` ends before any comparison |

| `claim_real_mismatch` | every difference the scoreboard finds in a register is a real mismatch (`canfd_scoreboard.sv:223-224`) | a read is compared with what the reference model shows when the AXI thread runs. A frame that comes before CEN is set is stored by the mirror and not by a device after pg223, and a read of the status that follows is counted as a failure although the device is right |
| `claim_line_labels` | "Label is attached to the instruction if available, otherwise attach proper space" (`riscv_instr_sequence.py:225`) | the first instruction of a loop stands in it twice as one object (`riscv_loop_instr.py:253`); if it is line 1 of the program, its `has_label` is set (239) and its second line is printed with the empty label `:` |

`TracesCompared` is stated of fault-free runs (`MaxFaults = 0`). `NoFalseAlarm` is checked
with the device enabled or not, filters in use or not, and reads of ISR, FSR and AFR at any
time; the counterexample is the shortest, the register layouts and a read between the two
ends of a frame give others. Other disagreements are described in section 6.

## 4. Fairness

- `CanfdRefModel` has none: a class does nothing by itself, and no liveness is
  stated of it.
- `CanfdScoreboard`: the simulator runs a thread that is ready, the clock runs, a
  frame on the bus ends, a served access is seen. No fairness for the test
  (`InjectFrame`, `HostStart`) or for transmissions.
- `Axi4lite`: the clock runs; a slave that may raise a signal does so in the end; a
  sequence with items left sends the next. `ItemsComplete` is unconditional for slaves
  that wait for VALID on each channel; with the others every item completes or
  driver and slave end in one of the two deadlocks that `Hung` describes, and in no
  other way.
- `Regression`: the manager's threads and an xrun that is not in a simulation go
  on, and the timer of `subprocess.run` fires. There is none for `Iterate`: a
  simulation may hang, and the regression ends because of the timer alone.
- `CanphyLink` and `TraceCompare` have none; their properties are about states.
- `ProgramGen`: weak fairness of every step but that of making one more stream
  (`Pass`), for it is sequential code; the number of streams is bounded. `Terminates`
  says that no pass loops and no retry goes on for ever.
- `RiscvDvRun`: `run.py` goes on, and the timers of `subprocess` fire. None for a
  generator: a dead worker makes `pool.map` wait for ever, and `Ends` holds because of the
  timeouts alone.

## 5. Proofs

`CanfdRefModelProofs` proves, for all values of the constants that satisfy
`SizeAssumption`, `LimitAssumption` and `UserAssumption` (sizes are naturals, limits
are ordered, `BUSOFF_LIMIT + ErrorStep < CounterValues` so that the addition cannot
wrap before saturation, users act within the buffers and FIFOs that exist):

| Theorem | States | Argument |
|---|---|---|
| `TypeCorrect` | `Spec => []TypeOK` | inductive as it stands, because it contains the bounds of the FIFOs and counters: `Saturated` needs the old value within the limit to know that `Bump` did not wrap. One step per method, lemmas for arbitration, cancellation, buffers, reception and errors |
| `EventStatusCorrect`, `FillStatusCorrect`, `QueuesAreAccounted` | `[]EventStatusExact`, `[]FillStatusExact`, `[]QueuesAccounted` | the conjunction `Accounted` is inductive under `TypeOK`; only arbitration, cancellation, reception, reading and reset touch queues. `FillStatusExact` says what FSR shows without the function that computes it: the number of frames, or 0 if it is 64 (`FillLevels`), by arithmetic of the remainder |
| `ErrorStateCorrect` | `[]ErrorStateLatched` | the two halves together: with BOFF alone CONFIG is not determined; the transitions are taken from the values before saturation, which does not cross a limit |
| `RxRefinement` | `Spec => RxImplementsQueues` | `Init` maps to `Rx!Init`; reception maps to `Arrive` with the FIFOs whose filters match, `ReadRxFifo` to `Take`, clearing ISR to `ClearOverflow` or a stutter, reset to `Reset`, the rest to stutters |
| `TransmissionOrder` | `Spec => TransmitsHighestPriority` | only arbitration raises `tx_count`; `Winner` is the least of `Pending` in (identifier, index), from `TypeOK` |

`CanfdScoreboardProofs`, for any sizes, depths, budgets and accesses
(`ScoreboardAssumption` besides those above: the budgets stay within the counters, and
writes have values of the right kind):

| Theorem | States | Argument |
|---|---|---|
| `FramesAreConserved` | `ScbSpec => []FramesConserved` | `OneEach`: at most one frame and one access are on the buses, and each FIFO holds at most what was published at this edge; so the three places a frame can be in are counted by 0 or 1 each |
| `BuffersAreMirrored` | `ScbSpec => []TxBuffersMirrored` | `DeviceAhead`: the device has served up to two accesses the mirror has not seen, one in the FIFO and one on the bus; the two applied in that order to the mirror give the device's identifiers and at least its requests. `ready_req` is never set, so arbitration changes nothing |

That the scoreboard's verdicts are right is no theorem: `claim_real_mismatch` refutes it.

`Axi4liteProofs`, for any items, responses and slave policy (`Axi4liteAssumption`):

| Theorem | States | Argument |
|---|---|---|
| `TypeCorrect` | `Spec => []TypeOK` | with `DriverInv`: the driver offers only at the channel it waits at |
| `MonitorIsFaithful` | `Spec => []MonitorFaithful` | `BusInv`: slave and monitor have taken the same requests, all of the current item, and a response is on the bus only when they are complete; `RecordInv`: what was sent, served and published is equal up to the response on the bus |
| `RequestsStay` | `Spec => RequestsHeld` | a request that is not taken leaves the driver where it waits |

`ProgramGenProofs` proves, for every number of harts, streams, instructions, jumps and
for bodies of any size (`ShapeAssumption`, `ProgramAssumption`):

| Theorem | States | Argument |
|---|---|---|
| `TypeCorrect` | `[]TypeOK` | with the shapes of the streams: what `AsStream` yields is typed and atomic |
| `StreamsStayIntact` | `[]StreamsIntact` | `IInv`: every stream put in stands somewhere, whole and atomic; a splice happens before an instruction that is not atomic, so it is before or behind every stream and shifts those behind it; labels and targets leave `sid`, `part` and `atomic` alone |
| `BranchesGoForward` | `[]BranchesForward` | the labels rise by one, in order, over the instructions that have one; every label below `label_idx` is there until the third loop passes it; the label a branch asks for is in `branch_target` and lies behind the branch, so that it is not dropped. Random streams never end in a branch, so there is a label behind the last one |
| `BranchesStayOut` | `[]BranchesAvoidAtomic` | `AtomicSealed`: an atomic instruction has no label that post-processing may drop, and a number only in a jump stream; a splice keeps this, and the labels given later go to instructions that are not atomic |
| `LoopsStayClosed` | `[]LoopsClosed` | `ShapeInv`: in every stream yet to be put in and in the list, the target of a named branch stands before it, for both loops of a nest and any branches among their own instructions. `SlotsApart`: mixing keeps the order of a loop's instructions but for the last, which ends up behind its target. Putting a stream in shifts whole streams, `StreamsIntact` keeps a branch and its target in one, and naming or dropping labels leaves sealed ones alone |

The object that stands at two places needs strengthening in each of these: `Aliases` (places of
one object are alike but for `part`, and what stands between them is atomic, so that a write
at the place reached changes another place that takes no label), and labels, targets and
shapes are stated so that a place written early satisfies them too.

`TraceCompareProofs`, for all registers, values, pairs of simulators and executions
(`RegsAssumption`, `ExecutionAssumption`):

| Theorem | States | Argument |
|---|---|---|
| `TypeCorrect` | `[]TypeOK` | per converter, line by line |
| `PassedIsPrefix` | `[]PassMeansPrefix` | the dictionaries hold the last value of each register in the rows read, so that `IsChange` decides membership in `ChangeSet`; as long as nothing mismatched the changes judged so far are paired, place by place |
| `PassedIsEqual` | `[]PassMeansEqual` | the last row of a whole spike log is that of the ecall, which is no change: the loop over trace 1 is not left with a change of trace 2 at its end |
| `ConversionIsExact` | `[]ConversionExact` | `ConvInv`, a loop invariant per converter: after q instructions the rows have the writes of the first q (spike: with the row in hand; ovpsim, which puts a row out one instruction late: of q - 1, the last in hand), between the two lines of an instruction those of q; the end of the log puts out what is in hand |
| `SameRunsAgree` | `[]SameRunsPass` | converters that keep the writes keep the changes in order, at the same rank, which `Rank` counts; from `IInv` the judgements pair the changes by rank, so `NoAlarm`: no mismatch is counted, and trace 2 has no change behind the place where the loop is left |

`RiscvDvRunProofs`, for all test lists, batch sizes, seeds and numbers of faults
(`ConfigAssumption`, `BoundAssumption`):

| Theorem | States | Argument |
|---|---|---|
| `BatchesAreExact` | `[]BatchesExact` | arithmetic of the division: the batches before the last are full, the last ends at the number of iterations and is not empty; and `at` runs through the batches in order |
| `DiskIsQuiet` | `[]QuietDisk` | every batch before `at` has ended, in the serial and in the waiting loop |
| `NothingIsLeft` | `[]NoOrphans` | a serial run has at most the process at `at`, and every exit from `run` ends it first |
| `SeedsDiffer` | `[]SeedsApart` | `used` is `i * batch_cnt` for every started batch, and `batch_cnt` is not 0 |
| `RunTypeCorrect` | `[]TypeOK` | with `TypeInv`: `at` stays among the batches or the programs, a process goes through two pools at most, every log on disk has one of the names the two loops build |
| `SeedYamlReproduces` | `[]SeedReproduces` | `SeedsOf`: a program made with its batch's seed has the one in `used`, and what is not yet started has made nothing; `yaml` is `used` once the last batch is started. Programs that an orphan of a parallel run writes late are of batches that are in `used` already |
| `SuccessIsOwn` | `[]BuiltIsOwn` | `DiskInv`, from the generator to the log: `Made` (a process whose script is its own has written its programs when its pool is through), `ScriptIsFirsts` (the script in the command is that of the first test), `Outcomes` (a bad end shows in `exit`, or the run was parallel), `Compiled`, `Simulated` (each loop has done what is before `at`, and `QuietDisk` keeps it) |

`RegressionProofs`, for any disjoint groups of tests, any `--parallel`, `-n` and any logs
(`RegressionAssumption`):

| Theorem | States | Argument |
|---|---|---|
| `TypeCorrect` | `[]TypeOK` | `PoolKept`: the tests whose `subprocess.run` has not returned are never more than the threads, and an xrun that is alive is one of them |
| `ReportAccounts` | `[]ReportAccountsAll` | `InOrder`: before the current group every test is back, behind it none has started; `Counted`: a test that is back has one result unless its exception is the manager's; `Excepted`: then the manager is raising or has raised |
| `EndIsClean` | `[]EndsClean` | a manager that has raised has nothing outstanding: serially because the only one is the one that raised, in the pool because `Raise` waits |
| `EntriesAreComplete` | `[]EntriesComplete` | `FileOf`: a test that is to create the file found none, so a file from before is never truncated; without concurrency there is nobody else of its group to be truncated, by `PoolKept` |

`CanphyLinkProofs`, for any set of frames, any number of them and any idle times
(`FrameAssumption`):

| Theorem | States | Argument |
|---|---|---|
| `TypeCorrect` | `Spec => []TypeOK` | with the limits of a capture that goes on |
| `NoSofMissed` | `[]EverySofSeen` | outside a capture `prev` is the level of the line, and the line is recessive whenever the driver is not busy: the first bit of a frame is an edge the monitor sees, or falls into a capture |
| `ApartReportedOnce` | `Spec => []ApartPublishedOnce` | `LinkInv`. `UnderWay`: a frame that found the monitor waiting is expected (its first bit is inverted), or captured with as many bits as the line has shown of it, or done with: published once and without a falling edge left. `Past`: a frame with idle time behind it stays as it is, no capture has its bits. `Order`: a capture has counted the recessive bits at the end, so idle time ends it. `DestuffedSize`: parse_frame keeps 27 bits or more and drops fewer than 20; a captured data frame has at least 30 and a flag 13. A disturbed frame over 200 bits is excepted: what is left of it has a falling edge |

Every invariant and every action property that a passing run checks is proved. Only
model-checked: liveness (`EverythingProcessed`, `ItemsComplete`, `RegressionEnds`,
`Terminates`, `Ends`), which rests on fairness and so on ENABLED, out of the prover's
reach. `TracesCompared`, `NoFalseAlarm` and `LabelsAvailable` are violated.

## 6. Divergences seen and not run

Reference model:
- The fill levels of FSR are 0 to 64 (`pg223:741`) and kept in 6 bits (333): a full FIFO of 64 shows 0.
- `ECR` returns 8 bits of TEC, which reaches 256; the comment at 346 says "REC -= 1" and nothing lowers REC.
- A buffer with the all-ones identifier is never selected (241, strict comparison with the initial minimum).
- CEN = 0 neither stops reception nor resets the counters; RXOK is raised for FIFO 0 only; TCR leaves the bits of TRR.
- Writes to FSR (IRI) have no case, and the layouts of ISR and FSR differ from pg223.
- TCR pops a TX event although no event of the cancelled buffer exists.

Scoreboard:
- "Every difference is a real mismatch" (`canfd_scoreboard.sv:223-224`) is refuted by `claim_real_mismatch` on a device after pg223, which differs from the mirror in reception before CEN and without filters, in the layouts of ISR and FSR, in the width of the fill level, and in the moment at which a frame is taken over.
- TX buffers are 16 bytes apart in tests and mirror (`BufIdx`), 72 in `pg223:765-769`.
- Sent frames are to be compared with the expected one (`ARCHITECTURE.md:300`): nothing sets `ready_req`, so `get_expected_tx_frame` returns null and `process_tx_frame` only warns (111).
- Word 1 of a message is DLC, BRS and ESI (`canfd_common_task_function.sv:107`): the byte offset 4 is passed as a word offset (215), and the word is stored as data.
- TXOK is never set in the mirror in the bench, so a read of ISR after a transmission is a mismatch.
- A message with more than 8 data bytes spills into the next 16-byte slot, of buffer and of mirror alike.
- Filter words at 0x1F00 and above map to buffer indices past 31 and are dropped.

AXI4-Lite driver: READY up before VALID loses the transaction; a slave that takes
address and data together hangs it, although the comment at line 63 says the W channel
may be driven with AW. The slaves `any_time` and `joint` of `axi4lite` reach both, and
`ItemsComplete` says that these are the only ways to hang.

Scripts:
- UVM_FATAL and UVM_ERROR in the log mean FAIL (`run/xrun:524`), but the manager sees neither the log nor an exit code that tells (`regression.py:133`): a test whose simulation failed is reported as PASS. `ReportAccountsAll` states what PASS does mean: xrun ended by itself and judged each simulation. The converse depends on the library: UVM's report summary prints the words `UVM_ERROR` and `UVM_FATAL` with their counts, so xrun judges a log with a summary as FAIL.
- Two xruns of the pool that both find no regression file: one creates and fills it, the other truncates it. `EntriesComplete` therefore claims completeness only for groups whose file exists, or without concurrency, and otherwise that no entry is ever partial or doubled.
- `-n` "with random seeds" (`regression.py:13`) passes one `--seed` for all iterations; they share a directory, so a simulator that cannot start leaves the verdict to the previous log. The pool ignores `-n`. The seed never reaches the simulator, whose options fix it to 1.
- `--report` reads `build/regression`, xrun writes `build/<group>/regression`; `by_group` counts a TIMEOUT as failed; `xrun -p` calls an undefined method.
- A killed xrun leaves its simulator running.

CAN PHY agent:
- `new[size+1]` without the old array drops the bits built so far (`canphy_driver.sv:78` and the like); a frame that is sent has the right length only.
- A disturbed frame longer than 200 bits can make two captures, and frames without idle time between them one: the driver's three recessive bits between frames and the one at its end are less than seven. `ApartPublishedOnce` is stated for frames that are apart.
- Destuffing skips and repeats bits behind five equal ones; the fields are read in another order than they are driven.

Program generator (riscv-dv):
- Branches are to avoid atomic streams (`riscv_instr_sequence.py:123`); the labels of a jump stream are numbers too and are taken by a branch to the same number. `BranchesAvoidAtomic` excepts them.
- `setup_allowed_instr` extends the list of basic instructions itself (`riscv_instr_stream.py:167`): later streams may hold branches though they asked for none.
- `mix_instr_stream` with `contained` puts the last instruction before one or more of the others' last (131); for a loop its target is before it all the same (`LoopsClosed`).
- `riscv_loop_instr.py:253` appends an object that is in the list already; what comes of it is `claim_line_labels`. The init, limit and update instructions of a loop are any instructions, branches included, for the restriction to ADDI is commented out (154, 170, 209).
- Sub programs are unreachable (`callstack_gen` is undefined, `riscv_asm_program_gen.py:231`); an empty list ends in an UnboundLocalError (`riscv_instr_sequence.py:251`).

Run flow and comparison (riscv-dv):
- Seeds count up from the start seed (`run.py:875`), which is `start_seed + i * batch_cnt`; `--seed_yaml` "implies --iterations=1" and nothing enforces it; `seed.yaml` is written after generation, so a run that fails leaves none.
- The random test's script with `--gen_test` of the base test runs both generators; the name of the first test's script stays in the command of the later ones (305). `BuiltIsOwn` excepts it.
- A parallel run goes on with what a failed or late generator left, and with a first one that is late ends on an unbound `output` (`lib.py:190`); a process killed by a signal counts as successful (133). A Ctrl-C leaves the parallel ones running.
- `run.py` ends with status 0 whatever the comparisons said; `save_regr_report` counts the lines of earlier summaries.
- The loop of the comparison ends with trace 2 (`instr_trace_compare.py:119`): with sail or ovpsim second changes left in trace 1 are not noticed, and a cut second trace passes.

## 7. Not modelled, and why

- Device under test and simulator: external; modelled only as far as the bench depends on them.
- Reset in the middle of a test: monitor and scoreboard ignore it; see the plan.
- CAN PHY agent: the bit rate switch, the parsing of fields, the thread of the TX line (the same code on another line) and arbitration, of which the code has none.
- Program generator: registers, operands and the text of instructions; sub programs; page tables, trap handlers, CSR, vector and floating-point streams: they add lines before and after the main program and share no state with it. The load and store streams are one shape, `mem`.
- Run flow: the SystemVerilog generators, CSR and directed tests, `--debug`, `-co`, `-so` and single steps; a process group ends at once when it gets SIGTERM.
- Trace comparison: one register a row; pc, mode, CSRs and the modes `in_order_mode = 0` and `compare_final_value_only`, which `run.py` does not use.
- The recursive and generated data of riscv-dv (instruction classes per extension, coverage groups, settings): tables.
- Test cases, register model, environment, assertions, coverage: stimuli, declarations and observers.
- Compile flow, dashboard, spreadsheet conversion: command lines and formatting, except the ifdef expansion (plan).
- UCSPI agent and `src/mpsoc`: generated stubs. `openc910`, `opene906`, `riscv-tests`: third-party RTL and tests.

## 8. Plan

Done, in this order: `CanfdRefModel` with `RxQueues` and the proofs, `CanfdScoreboard`,
`Axi4lite`, `Regression`, then `ProgramGen`, `TraceCompare` and `RiscvDvRun` with
their proofs, and `CanphyLink`.

Next modules:
1. `VirtualSequencer`: the wait tasks with their timeouts against the interrupt, over `CanfdScoreboard`.
2. `KFile`: the ifdef stack of `gen_kf_ff_info` against the meaning of nested conditionals.
3. Reset in the middle of a transaction: `Axi4lite` with the bench's reset, and the scoreboard's mirror after it.

Next theorems: the safety half of the liveness properties, which needs no fairness: that
a thread of the scoreboard, the pool of the regression and the loops of `run.py` and of
the generator always have a step, or a measure that every step lowers.

## 9. Running it

    tlc -config refmodel_tx.cfg MCCanfdRefModel.tla     # and so on, the table above
    tlapm CanfdRefModelProofs.tla                       # and the other *Proofs modules

`PROJECT.json` lists every run with its module, the source lines of every
definition, the mutant that breaks each property, findings, hazards and theorems.
