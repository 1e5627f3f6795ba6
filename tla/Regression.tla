----------------------------- MODULE Regression -----------------------------
(***************************************************************************)
(* The regression manager (canfd/run/regression.py) and the xrun processes *)
(* (canfd/run/xrun) it starts, one per test: serially (run_group) or from  *)
(* a pool of threads (run_parallel).  The xruns of a group share one file, *)
(* build/<group>/regression, to which each appends its verdicts.           *)
(*                                                                         *)
(* A step is one system call or one stretch of code another process cannot *)
(* observe.  The simulator is external: it leaves any log, or none.        *)
(***************************************************************************)
EXTENDS Naturals, Sequences, FiniteSets

CONSTANTS
    Groups,     \* the tests of the groups to run: a sequence of sequences
    Workers,    \* possible values of --parallel; 0 is the serial manager
    Repeat,     \* -n
    Logs        \* what a simulation may leave in sim.log: sets of markers

GroupIds == DOMAIN Groups
TestsOf(g) == {Groups[g][i] : i \in DOMAIN Groups[g]}
Tests == UNION {TestsOf(g) : g \in GroupIds}

Markers == {"UVM TIMEOUT", "UVM_FATAL", "UVM_ERROR", "UVM TEST PASSED",
            "UVM TEST FAILED", "$finish"}
NoLog == {"no log"}

ASSUME RegressionAssumption ==
    /\ Groups \in Seq(Seq(Tests))
    /\ \A g \in GroupIds : Cardinality(TestsOf(g)) = Len(Groups[g])
    /\ \A g, h \in GroupIds : g # h => TestsOf(g) \cap TestsOf(h) = {}
    /\ Workers \subseteq Nat /\ Repeat \in Nat \ {0}
    /\ Logs \subseteq SUBSET Markers

VARIABLES
    parallel,   \* --parallel
    old,        \* groups whose regression file exists when the manager starts
    group,      \* the group the manager is at
    state,      \* running; raising: an exception waits for the pool; raised; reported
    results,    \* of each test, the statuses the manager has collected
    back,       \* tests whose subprocess.run has returned or raised
    phase,      \* where the xrun of a test is
    log,        \* sim.log in the directory of a test and its seed
    verdicts,   \* xrun's regressionlog: the verdicts of the iterations
    present,    \* the groups that have a regression file
    entries     \* per test, what this regression has added to the file

manager == <<parallel, old, group, state, results, back>>
xruns   == <<phase, log, verdicts, present, entries>>
vars    == <<manager, xruns>>

Init ==
    /\ parallel \in Workers
    /\ old \in SUBSET GroupIds /\ present = old
    /\ group = 1 /\ state = "running"
    /\ results = [t \in Tests |-> <<>>] /\ back = {}
    /\ phase = [t \in Tests |-> "waiting"]
    /\ log = [t \in Tests |-> NoLog]
    /\ verdicts = [t \in Tests |-> <<>>]
    /\ entries = [t \in Tests |-> <<>>]

Enter(t, from, to) == phase[t] = from /\ phase' = [phase EXCEPT ![t] = to]

-----------------------------------------------------------------------------
(* One xrun: DoSimulation with -g and -t, CheckSimLog, PrintResultLog      *)

\* run_parallel does not pass -n on.
Iterations == IF parallel = 0 THEN Repeat ELSE 1

\* CheckSimLog: the first of its tests that holds decides.
Verdict(content) ==
    LET fail(why) == [status |-> "FAIL", reason |-> why]
        exception(why) == [status |-> "EXCEPTION", reason |-> why]
    IN  IF content = NoLog THEN exception("no log")
        ELSE IF "UVM TIMEOUT" \in content THEN fail("TIMEOUT")
        ELSE IF "UVM_FATAL" \in content THEN fail("FATAL")
        ELSE IF "UVM_ERROR" \in content THEN fail("ERROR")
        ELSE IF "UVM TEST PASSED" \in content THEN [status |-> "PASS", reason |-> ""]
        ELSE IF "UVM TEST FAILED" \in content THEN fail("FAILED")
        ELSE IF "$finish" \in content THEN exception("no PASS/FAIL")
        ELSE exception("incomplete log")

\* One iteration: the simulator leaves a log, or cannot start and leaves the
\* one that was there; xrun judges what it finds.
Iterate(t) ==
    /\ phase[t] = "running" /\ Len(verdicts[t]) < Iterations
    /\ \E content \in Logs \cup {log[t]} :
          /\ log' = [log EXCEPT ![t] = content]
          /\ verdicts' = [verdicts EXCEPT ![t] = Append(@, Verdict(content))]
    /\ UNCHANGED <<manager, phase, present, entries>>

\* PrintResultLog: is there a regression file; if not create it, which empties
\* one that another xrun has created since; add the verdicts to its end.
GroupOf(t) == CHOOSE g \in GroupIds : t \in TestsOf(g)

FindFile(t) ==
    /\ Len(verdicts[t]) = Iterations
    /\ Enter(t, "running", IF GroupOf(t) \in present THEN "appending" ELSE "creating")
    /\ UNCHANGED <<manager, log, verdicts, present, entries>>

CreateFile(t) ==
    /\ Enter(t, "creating", "appending")
    /\ present' = present \cup {GroupOf(t)}
    /\ entries' = [u \in Tests |-> IF u \in TestsOf(GroupOf(t)) THEN <<>> ELSE entries[u]]
    /\ UNCHANGED <<manager, log, verdicts>>

\* mutant: the file is opened for writing
AppendEntriesOverwriting(t) ==
    /\ Enter(t, "appending", "leaving")
    /\ entries' = [u \in Tests |-> IF u = t THEN verdicts[t]
                                   ELSE IF u \in TestsOf(GroupOf(t)) THEN <<>> ELSE entries[u]]
    /\ UNCHANGED <<manager, log, verdicts, present>>

AppendEntries(t) ==
    /\ Enter(t, "appending", "leaving")
    /\ entries' = [entries EXCEPT ![t] = @ \o verdicts[t]]
    /\ UNCHANGED <<manager, log, verdicts, present>>

\* xrun ends with exit code 0 whatever the verdicts are, or with 1 when an
\* exception ends it: no such directory or test, its own timeout, a full disk.
Leave(t) == Enter(t, "leaving", "exited") /\ UNCHANGED <<manager, log, verdicts, present, entries>>

Alive == {"running", "creating", "appending", "leaving"}

Crash(t) ==
    /\ phase[t] \in Alive \ {"leaving"}
    /\ Enter(t, phase[t], "crashed")
    /\ UNCHANGED <<manager, log, verdicts, present, entries>>

-----------------------------------------------------------------------------
(* The manager                                                             *)

\* t is the first test of the current group that has not started.
NextInGroup(t) ==
    \E i \in DOMAIN Groups[group] :
        /\ t = Groups[group][i] /\ phase[t] = "waiting"
        /\ \A j \in 1 .. i - 1 : phase[Groups[group][j]] # "waiting"

Pool == IF parallel = 0 THEN 1 ELSE parallel

\* The tests whose subprocess.run has been called and has not returned.
Outstanding == {t \in Tests : phase[t] # "waiting"} \ back

\* mutant: one thread too many
PoolIsFreeOffByOne == Cardinality(Outstanding) <= Pool

PoolIsFree == Cardinality(Outstanding) < Pool

\* subprocess.run starts the xrun of the next test, or raises: no such file,
\* no process.  Threads go on after an exception of one of them.
Launch(t) ==
    /\ state \in {"running", "raising"} /\ group \in GroupIds /\ PoolIsFree
    /\ NextInGroup(t)
    /\ \/ /\ Enter(t, "waiting", "running")
          /\ UNCHANGED <<state, back>>
       \/ /\ Enter(t, "waiting", "unlaunched")
          /\ back' = back \cup {t}
          /\ state' = IF parallel = 0 THEN "raised" ELSE "raising"
    /\ UNCHANGED <<parallel, old, group, results, log, verdicts, present, entries>>

\* mutant: subprocess.run is given no timeout
TimeoutNever(t) == FALSE /\ UNCHANGED vars

\* 7200 s have passed: subprocess.run kills the xrun, wherever it is.
Timeout(t) ==
    /\ phase[t] \in Alive
    /\ Enter(t, phase[t], "killed")
    /\ UNCHANGED <<manager, log, verdicts, present, entries>>

\* What xrun has written to its standard output: the verdicts it gave.  The
\* simulator's own output is captured by xrun and not passed on.
Printed(t) == UNION {{verdicts[t][i].status, verdicts[t][i].reason} : i \in DOMAIN verdicts[t]}

\* How run_group and run_one judge the xrun of a test that has ended.
Status(t) ==
    IF \/ phase[t] = "crashed"
       \/ {"UVM_FATAL", "UVM_ERROR"} \cap Printed(t) # {}
    THEN "FAIL" ELSE "PASS"

Collect(t, status) ==
    /\ results' = [results EXCEPT ![t] = Append(@, status)]
    /\ UNCHANGED state

\* mutant: a killed test gives no result
ReturnNoTimeouts(t) ==
    /\ phase[t] \in {"exited", "crashed", "killed"} /\ t \notin back
    /\ back' = back \cup {t}
    /\ \/ phase[t] # "killed" /\ Collect(t, Status(t))
       \/ phase[t] = "killed" /\ UNCHANGED <<results, state>>
    /\ UNCHANGED <<parallel, old, group, xruns>>

\* subprocess.run returns; after a kill it raises TimeoutExpired, which
\* run_one turns into a status and run_group does not handle.
Return(t) ==
    /\ phase[t] \in {"exited", "crashed", "killed"} /\ t \notin back
    /\ back' = back \cup {t}
    /\ \/ phase[t] # "killed" /\ Collect(t, Status(t))
       \/ phase[t] = "killed" /\ parallel > 0 /\ Collect(t, "TIMEOUT")
       \/ phase[t] = "killed" /\ parallel = 0 /\ state' = "raised" /\ UNCHANGED results
    /\ UNCHANGED <<parallel, old, group, xruns>>

\* mutant: the exception does not wait for the pool
RaiseAtOnce ==
    /\ state = "raising" /\ state' = "raised"
    /\ UNCHANGED <<parallel, old, group, results, back, xruns>>

\* The exception of a thread reaches main when the whole pool has ended.
Raise ==
    /\ state = "raising" /\ TestsOf(group) \subseteq back
    /\ state' = "raised"
    /\ UNCHANGED <<parallel, old, group, results, back, xruns>>

\* main goes on to the next group; after the last it writes the report, if
\* there is anything to report.
NextGroup ==
    /\ state = "running" /\ group \in GroupIds /\ TestsOf(group) \subseteq back
    /\ group' = group + 1
    /\ UNCHANGED <<parallel, old, state, results, back, xruns>>

Report ==
    /\ state = "running" /\ group \notin GroupIds
    /\ state' = IF \E t \in Tests : results[t] # <<>> THEN "reported" ELSE "ended"
    /\ UNCHANGED <<parallel, old, group, results, back, xruns>>

-----------------------------------------------------------------------------
Advance(t) == FindFile(t) \/ CreateFile(t) \/ AppendEntries(t) \/ Leave(t)

Next ==
    \/ \E t \in Tests : Iterate(t) \/ Crash(t) \/ Advance(t)
    \/ \E t \in Tests : Launch(t) \/ Timeout(t) \/ Return(t)
    \/ Raise \/ NextGroup \/ Report

\* The manager's steps and its timer happen in the end; a simulation may take
\* for ever.
Fairness ==
    /\ \A t \in Tests : WF_vars(Advance(t)) /\ WF_vars(Timeout(t))
    /\ \A t \in Tests : WF_vars(Launch(t)) /\ WF_vars(Return(t))
    /\ WF_vars(Raise) /\ WF_vars(NextGroup) /\ WF_vars(Report)

Spec == Init /\ [][Next]_vars /\ Fairness

-----------------------------------------------------------------------------
(* Properties                                                              *)

Ends == {"reported", "ended", "raised"}

\* Types; and there are never more xruns than --parallel allows.
TypeOK ==
    /\ parallel \in Workers /\ group \in 1 .. Len(Groups) + 1
    /\ state \in {"running", "raising"} \cup Ends
    /\ present \subseteq GroupIds /\ back \subseteq Tests
    /\ phase \in [Tests -> Alive \cup {"waiting", "unlaunched", "exited", "crashed", "killed"}]
    /\ results \in [Tests -> Seq({"PASS", "FAIL", "TIMEOUT"})]
    /\ log \in [Tests -> Logs \cup {NoLog}]
    /\ Cardinality({t \in Tests : phase[t] \in Alive}) <= Pool

\* A report counts every test of every group exactly once: none is missing
\* because it was killed or crashed, none is there twice.  Otherwise the
\* manager has died with an exception (generate_report, run_parallel).  PASS
\* means that the xrun ended by itself and gave a verdict on each of its
\* simulations: which verdict, the manager does not see.
ReportAccountsAll ==
    /\ state = "reported" => \A t \in Tests : Len(results[t]) = 1
    /\ \A t \in Tests : results[t] = <<"PASS">> =>
          phase[t] = "exited" /\ Len(verdicts[t]) = Iterations
    /\ state = "raised" =>
          \/ \E t \in Tests : phase[t] = "unlaunched"
          \/ parallel = 0 /\ \E t \in Tests : phase[t] = "killed"

\* Of an xrun that ended by itself with code 0 the group's file holds every
\* verdict, in order; of one that crashed none; of one that was killed all or
\* none.  With a file from an earlier regression this holds for the pool too;
\* a pool that has to create the file can lose entries but never parts of them
\* (PrintResultLog).
EntriesComplete ==
    \A t \in Tests :
        /\ entries[t] \in {<<>>, verdicts[t]}
        /\ phase[t] = "crashed" => entries[t] = <<>>
        /\ phase[t] \in {"leaving", "exited"} /\ (parallel < 2 \/ GroupOf(t) \in old)
              => entries[t] = verdicts[t] /\ Len(verdicts[t]) = Iterations

\* When the manager has ended, also with an exception, no xrun is left behind
\* and none of its group was skipped by the pool.
EndsClean ==
    state \in Ends =>
        /\ \A t \in Tests : phase[t] \notin Alive
        /\ parallel > 0 /\ group \in GroupIds => \A t \in TestsOf(group) : phase[t] # "waiting"

\* The regression ends, though simulations may hang.
RegressionEnds == <>(state \in Ends)
=============================================================================
