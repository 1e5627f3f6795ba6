----------------------------- MODULE RiscvDvRun -----------------------------
(***************************************************************************)
(* A run of riscv-dv with the Python generator (run.py --simulator pyflow  *)
(* with all steps): the generator is started in batches, one at a time or  *)
(* all at once (--lsf_cmd), each a process with a pool of workers that     *)
(* write one program each; then gcc compiles the programs, the instruction *)
(* set simulators run them, and two simulators' logs are compared.         *)
(* Processes fail, hang and are killed; the output directory still holds   *)
(* the files of the run before (--noclean is always true).                 *)
(***************************************************************************)
EXTENDS Integers, Sequences, FiniteSets

CONSTANTS Configs,    \* command lines, with the test list they select
          RandSeeds,  \* what random.getrandbits may return
          MaxFaults   \* bound: failures, deaths and kills in one run

GenTests == {"riscv_instr_base_test", "riscv_rand_instr_test"}

ASSUME ConfigAssumption ==
  \A c \in Configs :
    /\ c.tests # <<>>
    /\ c.tests \in Seq([iterations : Nat \ {0}, gen_test : GenTests])
    /\ c.batch_size \in Nat /\ c.lsf \in BOOLEAN /\ c.iss \in 1..2
    /\ c.start_seed \in BOOLEAN

ASSUME BoundAssumption == RandSeeds \subseteq Nat /\ MaxFaults \in Nat

VARIABLES config,   \* the command line
          phase,    \* the step run.py is in
          exit,     \* its exit status, "none" before
          at, sim,  \* the batch or program it is at, and the simulator
          script,   \* the name sim_cmd has in place of <test_name>
          job,      \* the generator processes
          round,    \* which of the pools of its script a process is in
          task,     \* the pool's tasks, one for a program
          used,     \* sim_seed
          yaml,     \* seed.yaml
          asm, elf, \* the programs on disk: .S and .o
          log,      \* the logs of each simulator, by file name
          compared, \* programs with a verdict in the report
          faults    \* how many so far

vars == <<config, phase, exit, at, sim, script, job, round, task, used, yaml, asm, elf, log,
          compared, faults>>

-----------------------------------------------------------------------------
Tests(c)     == DOMAIN c.tests
Iter(c, t)   == c.tests[t].iterations
Programs(c)  == UNION {{<<t, i>> : i \in 0..(Iter(c, t) - 1)} : t \in Tests(c)}

(* do_simulate: the batches of a test, and the part of each.                *)
BatchCnt(n, size) == IF size > 0 THEN (n + size - 1) \div size ELSE 1

(* Mutant: the last batch is a whole one, too.                              *)
WholeBatches(n, size, i) == IF size > 0 THEN size ELSE n

TestCnt(n, size, i) == IF i < BatchCnt(n, size) - 1 THEN size ELSE n - i * size

StartIdx(size, i) == i * size

Batches(c)  == UNION {{<<t, i>> : i \in 0..(BatchCnt(Iter(c, t), c.batch_size) - 1)} :
                        t \in Tests(c)}

(* The programs whose numbers start_idx .. start_idx + num_of_tests - 1 the *)
(* batch's process is given.                                                *)
Given(c, b) ==
  LET start == StartIdx(c.batch_size, b[2])
  IN {<<b[1], k>> : k \in start..(start + TestCnt(Iter(c, b[1]), c.batch_size, b[2]) - 1)}

(* SeedGen.get, with --start_seed 0 or without; mutant: test_iter is not    *)
(* passed.                                                                  *)
SameSeed(c, b) == IF c.start_seed THEN {0} ELSE RandSeeds

Seeds(c, b) ==
  IF c.start_seed THEN {b[2] * BatchCnt(Iter(c, b[1]), c.batch_size)} ELSE RandSeeds

(* A file: not there, of an earlier run, opened and not yet written, or     *)
(* made by a generator test, seeded with the batch's seed (the pool's first *)
(* task) or with one of the worker's own.                                   *)
NoSeed  == -1
OwnSeed == -2
Absent == [by |-> "absent", seed |-> NoSeed]
Old    == [by |-> "old",    seed |-> NoSeed]
Part   == [by |-> "part",   seed |-> NoSeed]

(* Names of ISS logs: iss_sim writes test_i.log, iss_cmp reads test.i.log.  *)
SimLog(p) == <<p, "test_i">>
CmpLog(p) == <<p, "test.i">>

(* What the script the process runs does, given --gen_test: the module of   *)
(* the base test runs it only if it is the one named, the module of the     *)
(* random test imports the former and always runs its own.                  *)
Rounds(name, gen_test) ==
  (IF gen_test = "riscv_instr_base_test" THEN <<"riscv_instr_base_test">> ELSE <<>>)
  \o (IF name = "riscv_rand_instr_test" THEN <<"riscv_rand_instr_test">> ELSE <<>>)

RoundsOf(b) == Rounds(script, config.tests[b[1]].gen_test)

Jobs      == Batches(config)
Progs     == Programs(config)
FirstJob  == <<1, 0>>
LastBatch(b) == b[2] = BatchCnt(Iter(config, b[1]), config.batch_size) - 1
LastJob(b) == b[1] = Len(config.tests) /\ LastBatch(b)
\* Mutant: the tests' loop is not taken up again.
NextBatch(b) == <<b[1], b[2] + 1>>

NextJob(b) == IF LastBatch(b) THEN <<b[1] + 1, 0>> ELSE <<b[1], b[2] + 1>>

LastProg(p)  == p[1] = Len(config.tests) /\ p[2] = Iter(config, p[1]) - 1
NextProg(p)  == IF p[2] = Iter(config, p[1]) - 1 THEN <<p[1] + 1, 0>> ELSE <<p[1], p[2] + 1>>

Init ==
  /\ config \in Configs
  /\ phase = "gen" /\ exit = "none" /\ at = FirstJob /\ sim = 1 /\ script = "<test_name>"
  /\ job = [b \in Jobs |-> "none"] /\ round = [b \in Jobs |-> 1]
  /\ task = [p \in Progs |-> "none"]
  /\ used = [b \in Jobs |-> NoSeed] /\ yaml = [b \in Jobs |-> NoSeed]
  /\ \E earlier \in {{}, Progs} :
       /\ asm = [p \in Progs |-> IF p \in earlier THEN Old ELSE Absent]
       /\ elf = asm
       /\ log = [k \in 1..config.iss |->
                   [f \in {SimLog(p) : p \in Progs} \cup {CmpLog(p) : p \in Progs} |->
                      IF f[2] = "test_i" THEN asm[f[1]] ELSE Absent]]
  /\ compared = {} /\ faults = 0

(* run.py ends.                                                             *)
Exit(status) == phase' = "exited" /\ exit' = status /\ UNCHANGED at

Fault == faults < MaxFaults /\ faults' = faults + 1

-----------------------------------------------------------------------------
(* Mutant: seed.yaml is written before the last batch has its seed.         *)
StartJobYamlEarly ==
  /\ phase = "gen"
  /\ \E seed \in Seeds(config, at) : used' = [used EXCEPT ![at] = seed]
  /\ script' = IF script = "<test_name>" THEN config.tests[at[1]].gen_test ELSE script
  /\ job' = [job EXCEPT ![at] = "running"]
  /\ task' = [p \in DOMAIN task \cup Given(config, at) |->
                IF p \in Given(config, at) THEN "todo" ELSE task[p]]
  /\ IF ~config.lsf THEN phase' = "run" /\ UNCHANGED <<at, yaml>>
     ELSE IF LastJob(at) THEN phase' = "wait" /\ at' = FirstJob /\ yaml' = used
     ELSE phase' = "gen" /\ at' = NextJob(at) /\ UNCHANGED yaml
  /\ UNCHANGED <<config, exit, sim, round, asm, elf, log, compared, faults>>

(* do_simulate, one batch: its seed, its command, with sim_cmd as the first *)
(* test left it, and its process.  run_parallel_cmd starts them all.        *)
StartJob ==
  /\ phase = "gen"
  /\ \E seed \in Seeds(config, at) : used' = [used EXCEPT ![at] = seed]
  /\ script' = IF script = "<test_name>" THEN config.tests[at[1]].gen_test ELSE script
  /\ job' = [job EXCEPT ![at] = "running"]
  /\ task' = [p \in DOMAIN task \cup Given(config, at) |->
                IF p \in Given(config, at) THEN "todo" ELSE task[p]]
  /\ IF ~config.lsf THEN phase' = "run" /\ UNCHANGED <<at, yaml>>
     ELSE IF LastJob(at) THEN phase' = "wait" /\ at' = FirstJob /\ yaml' = used'
     ELSE phase' = "gen" /\ at' = NextJob(at) /\ UNCHANGED yaml
  /\ UNCHANGED <<config, exit, sim, round, asm, elf, log, compared, faults>>

(* run_cmd returns: a status above 0 ends run.py, a signal does not.        *)
JobReturns ==
  /\ phase = "run" /\ job[at] \in {"ok", "failed", "killed"}
  /\ IF job[at] = "failed" THEN Exit("fail") /\ UNCHANGED yaml
     ELSE IF LastJob(at)
     THEN phase' = "compile" /\ at' = <<1, 0>> /\ yaml' = used /\ UNCHANGED exit
     ELSE phase' = "gen" /\ at' = NextJob(at) /\ UNCHANGED <<exit, yaml>>
  /\ UNCHANGED <<config, sim, script, job, round, task, used, asm, elf, log, compared, faults>>

(* Mutant: the process is killed and waited for.                            *)
JobTimeoutWaits ==
  /\ phase = "run" /\ job[at] = "running"
  /\ job' = [job EXCEPT ![at] = "timeout"]
  /\ UNCHANGED <<config, phase, exit, at, sim, script, round, task, used, yaml, asm, elf, log,
                 compared, faults>>

JobTimeout ==
  /\ phase = "run" /\ job[at] = "running"
  /\ job' = [job EXCEPT ![at] = "timeout"]
  /\ Exit("130")
  /\ UNCHANGED <<config, sim, script, round, task, used, yaml, asm, elf, log, compared, faults>>

NextWait ==
  /\ phase' = IF LastJob(at) THEN "compile" ELSE "wait"
  /\ at' = IF LastJob(at) THEN <<1, 0>> ELSE NextJob(at)
  /\ UNCHANGED exit

(* run_parallel_cmd waits for one after the other; exit_on_error is 0.      *)
WaitJob ==
  /\ phase = "wait" /\ job[at] \in {"ok", "failed", "killed"}
  /\ NextWait
  /\ UNCHANGED <<config, sim, script, job, round, task, used, yaml, asm, elf, log, compared,
                 faults>>

(* Mutant: the process that is too late is left alone.                      *)
WaitTimeoutNoKill ==
  /\ phase = "wait" /\ job[at] = "running"
  /\ IF at = FirstJob THEN Exit("fail") ELSE NextWait
  /\ UNCHANGED <<config, sim, script, job, round, task, used, yaml, asm, elf, log, compared, faults>>

(* The process is killed; "output" is unbound if it was the first, and      *)
(* logging it ends run.py.                                                  *)
WaitTimeout ==
  /\ phase = "wait" /\ job[at] = "running"
  /\ job' = [job EXCEPT ![at] = "timeout"]
  /\ IF at = FirstJob THEN Exit("fail") ELSE NextWait
  /\ UNCHANGED <<config, sim, script, round, task, used, yaml, asm, elf, log, compared, faults>>

-----------------------------------------------------------------------------
(* A generator process: the workers of the pool take the tasks, gen_program *)
(* and gen_test_file write the program.                                     *)
Runs(b) == job[b] = "running" /\ round[b] <= Len(RoundsOf(b))

OpenProgram(b, p) ==
  /\ Runs(b) /\ p \in Given(config, b) /\ task[p] = "todo"
  /\ task' = [task EXCEPT ![p] = "writing"]
  /\ asm' = [asm EXCEPT ![p] = Part]
  /\ UNCHANGED <<config, phase, exit, at, sim, script, job, round, used, yaml, elf, log, compared,
                 faults>>

CloseProgram(b, p) ==
  /\ Runs(b) /\ p \in Given(config, b) /\ task[p] = "writing"
  /\ task' = [task EXCEPT ![p] = "done"]
  /\ asm' = [asm EXCEPT ![p] =
               [by |-> RoundsOf(b)[round[b]],
                seed |-> IF p[2] = StartIdx(config.batch_size, b[2]) THEN used[b] ELSE OwnSeed]]
  /\ UNCHANGED <<config, phase, exit, at, sim, script, job, round, used, yaml, elf, log, compared,
                 faults>>

(* run_phase catches what a task raises and returns 1.                      *)
TaskRaises(b, p) ==
  /\ Runs(b) /\ p \in Given(config, b) /\ task[p] = "todo" /\ Fault
  /\ task' = [task EXCEPT ![p] = "raised"]
  /\ UNCHANGED <<config, phase, exit, at, sim, script, job, round, used, yaml, asm, elf, log,
                 compared>>

(* A worker that dies takes its task with it: pool.map waits for ever.      *)
WorkerDies(b, p) ==
  /\ Runs(b) /\ p \in Given(config, b) /\ task[p] \in {"todo", "writing"} /\ Fault
  /\ task' = [task EXCEPT ![p] = "lost"]
  /\ UNCHANGED <<config, phase, exit, at, sim, script, job, round, used, yaml, asm, elf, log,
                 compared>>

(* Mutant: what run_phase returned is not looked at.                        *)
PoolReturnsAnyhow(b) ==
  /\ Runs(b) /\ \A p \in Given(config, b) : task[p] \in {"done", "raised"}
  /\ round' = [round EXCEPT ![b] = @ + 1]
  /\ task' = [p \in DOMAIN task |-> IF p \in Given(config, b) THEN "todo" ELSE task[p]]
  /\ UNCHANGED <<config, phase, exit, at, sim, script, job, used, yaml, asm, elf, log,
                 compared, faults>>

(* riscv_instr_base_test.run at the end of pool.map, and the end of the     *)
(* script.                                                                  *)
PoolReturns(b) ==
  /\ Runs(b) /\ \A p \in Given(config, b) : task[p] \in {"done", "raised"}
  /\ IF \E p \in Given(config, b) : task[p] = "raised"
     THEN job' = [job EXCEPT ![b] = "failed"] /\ UNCHANGED <<round, task>>
     ELSE /\ round' = [round EXCEPT ![b] = @ + 1]
          /\ task' = [p \in DOMAIN task |-> IF p \in Given(config, b) THEN "todo" ELSE task[p]]
          /\ UNCHANGED job
  /\ UNCHANGED <<config, phase, exit, at, sim, script, used, yaml, asm, elf, log, compared, faults>>

ScriptEnds(b) ==
  /\ job[b] = "running" /\ round[b] > Len(RoundsOf(b))
  /\ job' = [job EXCEPT ![b] = "ok"]
  /\ UNCHANGED <<config, phase, exit, at, sim, script, round, task, used, yaml, asm, elf, log,
                 compared, faults>>

(* The process and its workers are killed by a signal.                      *)
Killed(b) ==
  /\ job[b] = "running" /\ Fault
  /\ job' = [job EXCEPT ![b] = "killed"]
  /\ UNCHANGED <<config, phase, exit, at, sim, script, round, task, used, yaml, asm, elf, log,
                 compared>>

-----------------------------------------------------------------------------
(* gcc_compile: a program that is not there ends run.py, as does a gcc that *)
(* fails, by the exception of check_output.  What was written in part may   *)
(* compile or not.                                                          *)
CompileProgram ==
  /\ phase = "compile"
  /\ \/ /\ asm[at] = Absent /\ Exit("fail") /\ UNCHANGED <<elf, faults>>
     \/ /\ asm[at] # Absent /\ Fault /\ Exit("fail") /\ UNCHANGED elf
     \/ /\ asm[at] # Absent
        /\ elf' = [elf EXCEPT ![at] = asm[at]]
        /\ IF LastProg(at) THEN phase' = "sim" /\ at' = <<1, 0>>
           ELSE at' = NextProg(at) /\ UNCHANGED phase
        /\ UNCHANGED <<exit, faults>>
  /\ UNCHANGED <<config, sim, script, job, round, task, used, yaml, asm, log, compared>>

(* iss_sim: the shell opens the log anew; a simulator that ends by a signal *)
(* counts as one that ends well.                                            *)
SimProgram ==
  /\ phase = "sim"
  /\ log' = [log EXCEPT ![sim][SimLog(at)] = elf[at]]
  /\ \/ /\ IF ~LastProg(at) THEN at' = NextProg(at) /\ UNCHANGED <<phase, sim>>
           ELSE IF sim < config.iss THEN sim' = sim + 1 /\ at' = <<1, 0>> /\ UNCHANGED phase
           ELSE phase' = "cmp" /\ UNCHANGED <<at, sim>>
        /\ UNCHANGED <<exit, faults>>
     \/ Fault /\ (Exit("fail") \/ Exit("130")) /\ UNCHANGED sim
  /\ UNCHANGED <<config, script, job, round, task, used, yaml, asm, elf, compared>>

(* iss_cmp, then sys.exit(RET_SUCCESS), whatever the verdicts were; a log   *)
(* that is not there ends run.py when the converter opens it.               *)
Compare ==
  /\ phase = "cmp"
  /\ IF config.iss = 1 THEN Exit("success") /\ UNCHANGED compared
     ELSE IF \E p \in Progs, k \in 1..2 : log[k][CmpLog(p)] = Absent
     THEN Exit("fail") /\ UNCHANGED compared
     ELSE Exit("success") /\ compared' = Progs
  /\ UNCHANGED <<config, sim, script, job, round, task, used, yaml, asm, elf, log, faults>>

(* Mutant: run_cmd does not kill the process it waits for.                  *)
InterruptOnly ==
  /\ phase # "exited" /\ Fault
  /\ Exit("130")
  /\ UNCHANGED <<config, sim, script, job, round, task, used, yaml, asm, elf, log, compared>>

(* Ctrl-C: run_cmd kills the process it waits for, run_parallel_cmd leaves  *)
(* the processes to themselves.                                             *)
Interrupt ==
  /\ phase # "exited" /\ Fault
  /\ job' = IF phase = "run" /\ job[at] = "running" THEN [job EXCEPT ![at] = "stopped"] ELSE job
  /\ Exit("130")
  /\ UNCHANGED <<config, sim, script, round, task, used, yaml, asm, elf, log, compared>>

-----------------------------------------------------------------------------
RunPy == \/ StartJob \/ JobReturns \/ WaitJob \/ CompileProgram \/ SimProgram \/ Compare

Generator ==
  \E b \in Jobs :
    \/ \E p \in Progs : \/ OpenProgram(b, p) \/ CloseProgram(b, p)
                        \/ TaskRaises(b, p) \/ WorkerDies(b, p)
    \/ PoolReturns(b) \/ ScriptEnds(b) \/ Killed(b)

Next == RunPy \/ JobTimeout \/ WaitTimeout \/ Generator \/ Interrupt

(* run.py goes on, gcc ends; the timeouts that subprocess keeps do pass.    *)
Fairness == WF_vars(RunPy) /\ WF_vars(JobTimeout) /\ WF_vars(WaitTimeout)

Spec == Init /\ [][Next]_vars /\ Fairness

-----------------------------------------------------------------------------
File == [by : {"absent", "old", "part"} \cup GenTests, seed : Nat \cup {NoSeed, OwnSeed}]

(* The types of the variables.                                              *)
TypeOK ==
  /\ config \in Configs
  /\ phase \in {"gen", "run", "wait", "compile", "sim", "cmp", "exited"}
  /\ exit \in {"none", "success", "fail", "130"} /\ (exit = "none" <=> phase # "exited")
  /\ at \in Jobs \cup Progs /\ sim \in 1..config.iss /\ script \in {"<test_name>"} \cup GenTests
  /\ job \in [Jobs -> {"none", "running", "ok", "failed", "killed", "timeout", "stopped"}]
  /\ round \in [Jobs -> 1..3]
  /\ task \in [Progs -> {"none", "todo", "writing", "done", "raised", "lost"}]
  /\ used \in [Jobs -> Nat \cup {NoSeed}] /\ yaml \in [Jobs -> Nat \cup {NoSeed}]
  /\ asm \in [Progs -> File] /\ elf \in [Progs -> File]
  /\ \A k \in 1..config.iss : \A f \in DOMAIN log[k] : log[k][f] \in File
  /\ compared \subseteq Progs /\ faults \in 0..MaxFaults

Started   == {b \in Jobs : job[b] # "none"}
Generated == phase \in {"compile", "sim", "cmp"}

(* No two generator processes are given the same program, and when gcc      *)
(* starts every program of the test list was given to one: the batches are  *)
(* cut without gap or overlap.                                              *)
BatchesExact ==
  /\ \A a, b \in Started : a # b => Given(config, a) \cap Given(config, b) = {}
  /\ Generated => UNION {Given(config, b) : b \in Started} = Progs

(* With --start_seed no two batches of a test get the same seed, which      *)
(* would make the same programs twice.                                      *)
SeedsApart ==
  config.start_seed =>
    \A a, b \in Started : a # b /\ a[1] = b[1] => used[a] # used[b]

(* seed.yaml tells the seed of every program on disk that was made with the *)
(* seed of its batch: --seed_yaml makes it again.                           *)
SeedReproduces ==
  Generated =>
    \A b \in Jobs : \A p \in Given(config, b) :
      asm[p].seed \notin {NoSeed, OwnSeed} => asm[p].seed = yaml[b]

(* No generator is writing when gcc reads, although processes time out,     *)
(* lose workers or are waited for in another order than they end in.        *)
QuietDisk == Generated => \A b \in Jobs : job[b] # "running"

(* run.py leaves no generator behind, however it ends, unless they run in   *)
(* parallel.                                                                *)
NoOrphans ==
  phase = "exited" /\ ~config.lsf => \A b \in Jobs : job[b] # "running"

BatchOf(p) == CHOOSE b \in Jobs : p \in Given(config, b)

(* A successful end means that every simulator has run what is compiled,    *)
(* and that it was made by this run for this test; it may be an old, a      *)
(* partial or another test's program only if the generator was killed, if   *)
(* it failed or was too late in a parallel run, or if the test list's first *)
(* test had another gen_test.                                               *)
BuiltIsOwn ==
  exit = "success" =>
    \A p \in Progs :
      /\ elf[p] = asm[p] /\ \A k \in 1..config.iss : log[k][SimLog(p)] = elf[p]
      /\ \/ elf[p].by = config.tests[p[1]].gen_test
         \/ job[BatchOf(p)] = "killed"
         \/ config.lsf /\ job[BatchOf(p)] \in {"failed", "timeout"}
         \/ config.tests[p[1]].gen_test # config.tests[1].gen_test

(* run.py always ends, also when a worker's death keeps a generator from    *)
(* ever ending.                                                             *)
Ends == <>(phase = "exited")

(* "the instruction trace from these runs will be cross compared"           *)
(* (docs/source/getting_started.rst): with two simulators, run.py does not  *)
(* end in the comparison without a verdict on every program.                *)
TracesCompared ==
  [][phase = "cmp" /\ exit' \in {"success", "fail"} /\ config.iss = 2
     => compared' = Progs]_vars
=============================================================================
