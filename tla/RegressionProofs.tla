-------------------------- MODULE RegressionProofs --------------------------
(***************************************************************************)
(* The regression manager for any groups of tests, any number of threads   *)
(* and of iterations: types and the bound of the pool, what a report       *)
(* counts, what the regression files hold, and that nothing is left alive. *)
(***************************************************************************)
EXTENDS Regression, TLAPS, FiniteSetTheorems

\* The groups are finite and share no test, so a test is in one group.
LEMMA GroupOfTest ==
    ASSUME NEW g \in GroupIds, NEW t \in TestsOf(g)
    PROVE  t \in Tests /\ GroupOf(t) = g
<1>1. t \in Tests
  BY DEF Tests
<1>2. \A h \in GroupIds : t \in TestsOf(h) => h = g
  BY RegressionAssumption
<1> QED
  BY <1>1, <1>2 DEF GroupOf

LEMMA TestInGroup ==
    ASSUME NEW t \in Tests
    PROVE  GroupOf(t) \in GroupIds /\ t \in TestsOf(GroupOf(t))
<1>1. PICK g \in GroupIds : t \in TestsOf(g)
  BY DEF Tests
<1> QED
  BY <1>1 DEF GroupOf

LEMMA GroupRange == GroupIds = 1 .. Len(Groups) /\ Len(Groups) \in Nat
BY RegressionAssumption DEF GroupIds

LEMMA TestAt ==
    ASSUME NEW g \in GroupIds, NEW i \in DOMAIN Groups[g]
    PROVE  Groups[g][i] \in TestsOf(g) /\ Groups[g][i] \in Tests
BY DEF TestsOf, Tests

VerdictType == {Verdict(content) : content \in Logs \cup {NoLog}}

-----------------------------------------------------------------------------
(* The inductive invariant                                                 *)

Ended == {"exited", "crashed", "killed", "unlaunched"}

Typed ==
    /\ parallel \in Workers /\ group \in 1 .. Len(Groups) + 1
    /\ state \in {"running", "raising"} \cup Ends
    /\ present \subseteq GroupIds /\ back \subseteq Tests
    /\ phase \in [Tests -> Alive \cup Ended \cup {"waiting"}]
    /\ results \in [Tests -> Seq({"PASS", "FAIL", "TIMEOUT"})]
    /\ log \in [Tests -> Logs \cup {NoLog}]
    /\ verdicts \in [Tests -> Seq(VerdictType)]
    /\ entries \in [Tests -> Seq(VerdictType)]

\* The pool: never more tests outstanding than threads, so without
\* concurrency at most one.
PoolKept ==
    /\ IsFiniteSet(Outstanding) /\ Cardinality(Outstanding) <= Pool
    /\ parallel < 2 => \A t, u \in Outstanding : t = u

\* What is back has ended; the groups are taken one after the other.
InOrder ==
    /\ \A t \in back : phase[t] \in Ended
    /\ \A t \in Tests : phase[t] = "unlaunched" => t \in back
    /\ \A g \in GroupIds :
          /\ g < group => TestsOf(g) \subseteq back
          /\ g > group => \A t \in TestsOf(g) : phase[t] = "waiting"

\* A test has a result when it is back, unless its exception is the manager's.
Counted ==
    \A t \in Tests :
        /\ t \notin back => results[t] = <<>>
        /\ t \in back /\ phase[t] # "unlaunched" /\ ~(parallel = 0 /\ phase[t] = "killed")
              => Len(results[t]) = 1
        /\ results[t] = <<"PASS">> => phase[t] = "exited"

Cause ==
    \/ \E t \in Tests : phase[t] = "unlaunched"
    \/ parallel = 0 /\ \E t \in Tests : phase[t] = "killed"

\* An exception is on its way as long as main has not got it; when main has,
\* the pool, if there is one, has ended.
Excepted ==
    /\ (\E t \in Tests : phase[t] = "unlaunched") => state \in {"raising", "raised"}
    /\ (parallel = 0 /\ \E t \in back : phase[t] = "killed") => state = "raised"
    /\ state = "raising" => parallel > 0 /\ group \in GroupIds /\ Cause
    /\ state = "raised" =>
          /\ Cause /\ Outstanding = {}
          /\ parallel > 0 /\ group \in GroupIds => TestsOf(group) \subseteq back
    /\ state \in {"reported", "ended"} => group \notin GroupIds

ManagerInv == PoolKept /\ InOrder /\ Counted /\ Excepted

\* The regression file of a group: an xrun that means to create it has not
\* seen one, and without concurrency nobody else creates it meanwhile.
FileOf(t) ==
    /\ phase[t] \in {"creating", "appending", "leaving", "exited"}
          => Len(verdicts[t]) = Iterations
    /\ phase[t] \in {"waiting", "unlaunched", "running", "creating", "appending", "crashed"}
          => entries[t] = <<>>
    /\ entries[t] \in {<<>>, verdicts[t]}
    /\ phase[t] \in {"appending", "leaving", "exited"} => GroupOf(t) \in present
    /\ phase[t] = "creating" =>
          GroupOf(t) \notin old /\ (parallel < 2 => GroupOf(t) \notin present)
    /\ phase[t] \in {"leaving", "exited"} /\ (parallel < 2 \/ GroupOf(t) \in old)
          => entries[t] = verdicts[t]

FileInv == \A t \in Tests : FileOf(t)

IInv == Typed /\ ManagerInv /\ old \subseteq present /\ FileInv

-----------------------------------------------------------------------------
LEMMA PoolIsNat == Typed => parallel \in Nat /\ Pool \in Nat \ {0} /\ (parallel < 2 => Pool = 1)
BY RegressionAssumption DEF Typed, Pool

LEMMA InitInvariant == Init => IInv
<1> SUFFICES ASSUME Init PROVE IInv
  OBVIOUS
<1>1. Typed
  BY GroupRange DEF Init, Typed
<1>2. Outstanding = {}
  BY DEF Init, Outstanding
<1>3. PoolKept
  BY <1>1, <1>2, PoolIsNat, FS_EmptySet DEF PoolKept
<1>4. \A g \in GroupIds : ~(g < group) /\ \A t \in TestsOf(g) : phase[t] = "waiting"
  BY GroupRange DEF Init, Tests
<1>5. InOrder
  BY <1>4 DEF Init, InOrder
<1>6. Counted
  BY DEF Init, Counted
<1>7. Excepted
  BY <1>4 DEF Init, Excepted
<1>8. FileInv
  BY DEF Init, FileInv, FileOf
<1> QED
  BY <1>1, <1>3, <1>5, <1>6, <1>7, <1>8 DEF Init, IInv, ManagerInv

\* What an xrun that is alive does changes nothing for the manager.
LEMMA XrunKeepsManager ==
    ASSUME Typed, ManagerInv, UNCHANGED manager, NEW t \in Tests, phase[t] \in Alive,
           NEW p \in Alive \cup {"exited", "crashed", "killed"},
           phase' = [phase EXCEPT ![t] = p]
    PROVE  ManagerInv'
<1> USE DEF ManagerInv, manager
<1>1. /\ \A u \in Tests : u # t => phase'[u] = phase[u]
      /\ phase'[t] = p /\ phase[t] # "waiting" /\ phase[t] # "unlaunched"
      /\ p # "waiting" /\ p # "unlaunched" /\ phase[t] \notin Ended
  BY DEF Typed, Alive, Ended
<1>2. t \notin back
  BY <1>1 DEF InOrder
<1>3. Outstanding' = Outstanding /\ t \in Outstanding
  BY <1>1, <1>2 DEF Outstanding
<1>4. PoolKept'
  BY <1>3 DEF PoolKept, Pool
<1>5. InOrder'
  <2>1. \A u \in back' : phase'[u] \in Ended
    BY <1>1, <1>2 DEF InOrder, Typed
  <2>2. \A u \in Tests : phase'[u] = "unlaunched" => u \in back'
    BY <1>1 DEF InOrder
  <2>3. ASSUME NEW g \in GroupIds, g > group, NEW u \in TestsOf(g) PROVE phase'[u] = "waiting"
    BY <1>1, <2>3 DEF InOrder, Tests
  <2> QED
    BY <2>1, <2>2, <2>3 DEF InOrder
<1>6. Counted'
  <2> SUFFICES ASSUME NEW u \in Tests
               PROVE  /\ u \notin back => results[u] = <<>>
                      /\ u \in back /\ phase'[u] # "unlaunched" /\ ~(parallel = 0 /\ phase'[u] = "killed")
                            => Len(results[u]) = 1
                      /\ results[u] = <<"PASS">> => phase'[u] = "exited"
    BY DEF Counted
  <2>1. CASE u = t
    BY <1>2, <2>1 DEF Counted
  <2>2. CASE u # t
    BY <1>1, <2>2 DEF Counted
  <2> QED
    BY <2>1, <2>2
<1>7. Excepted'
  <2>1. state # "raised"
    BY <1>3 DEF Excepted
  <2>2. \A u \in Tests : phase'[u] = "unlaunched" <=> phase[u] = "unlaunched"
    BY <1>1
  <2>3. (parallel = 0 /\ \E u \in back : phase'[u] = "killed") => state = "raised"
    BY <1>1, <1>2 DEF Excepted, Typed
  <2>4. state = "raising" => Cause'
    BY <2>2 DEF Excepted, Cause
  <2> QED
    BY <2>1, <2>2, <2>3, <2>4 DEF Excepted
<1> QED
  BY <1>4, <1>5, <1>6, <1>7

-----------------------------------------------------------------------------
(* The steps of an xrun                                                    *)

\* A test keeps its file as long as nothing of its own changes and no other
\* test of its group creates the file.
LEMMA Untouched ==
    ASSUME NEW u \in Tests, FileOf(u), parallel' = parallel, old' = old,
           phase'[u] = phase[u], verdicts'[u] = verdicts[u], entries'[u] = entries[u],
           present' = present
    PROVE  FileOf(u)'
BY DEF FileOf, Iterations

LEMMA IterateKeeps ==
    ASSUME IInv, NEW t \in Tests, Iterate(t) PROVE IInv'
<1> USE DEF IInv
<1>1. PICK content \in Logs \cup {log[t]} :
          /\ log' = [log EXCEPT ![t] = content]
          /\ verdicts' = [verdicts EXCEPT ![t] = Append(@, Verdict(content))]
  BY DEF Iterate
<1>2. phase[t] = "running" /\ UNCHANGED <<manager, phase, present, entries>>
  BY DEF Iterate
<1>3. content \in Logs \cup {NoLog} /\ Verdict(content) \in VerdictType
  BY DEF Typed, VerdictType
<1>4. Typed'
  BY <1>1, <1>2, <1>3 DEF Typed, manager
<1>5. ManagerInv'
  BY <1>2, XrunKeepsManager DEF Typed, Alive
<1>6. FileInv'
  <2> SUFFICES ASSUME NEW u \in Tests PROVE FileOf(u)'
    BY DEF FileInv
  <2>1. CASE u = t
    BY <1>1, <1>2, <2>1 DEF FileInv, FileOf, Typed, manager
  <2>2. CASE u # t
    BY <1>1, <1>2, <2>2, Untouched DEF FileInv, Typed, manager
  <2> QED
    BY <2>1, <2>2
<1> QED
  BY <1>2, <1>4, <1>5, <1>6 DEF manager

LEMMA FindFileKeeps ==
    ASSUME IInv, NEW t \in Tests, FindFile(t) PROVE IInv'
<1> USE DEF IInv
<1> DEFINE p == IF GroupOf(t) \in present THEN "appending" ELSE "creating"
<1>1. /\ phase[t] = "running" /\ phase' = [phase EXCEPT ![t] = p]
      /\ Len(verdicts[t]) = Iterations
      /\ UNCHANGED <<manager, log, verdicts, present, entries>>
  BY DEF FindFile, Enter
<1>2. p \in {"appending", "creating"}
  OBVIOUS
<1>3. Typed'
  BY <1>1, <1>2 DEF Typed, manager, Alive
<1>4. ManagerInv'
  BY <1>1, <1>2, XrunKeepsManager DEF Alive
<1>5. FileInv'
  <2> SUFFICES ASSUME NEW u \in Tests PROVE FileOf(u)'
    BY DEF FileInv
  <2>1. CASE u = t
    <3>1. phase'[t] = p
      BY <1>1 DEF Typed
    <3> QED
      BY <1>1, <2>1, <3>1 DEF FileInv, FileOf, Iterations, manager
  <2>2. CASE u # t
    BY <1>1, <2>2, Untouched DEF FileInv, Typed, manager
  <2> QED
    BY <2>1, <2>2
<1> QED
  BY <1>1, <1>3, <1>4, <1>5 DEF manager

\* Creating the file empties it.  Another xrun of the group that has appended
\* to it can only have done so in a pool and to a file created since.
LEMMA CreateFileKeeps ==
    ASSUME IInv, NEW t \in Tests, CreateFile(t) PROVE IInv'
<1> USE DEF IInv
<1> DEFINE g == GroupOf(t)
<1>1. /\ phase[t] = "creating" /\ phase' = [phase EXCEPT ![t] = "appending"]
      /\ present' = present \cup {g}
      /\ entries' = [u \in Tests |-> IF u \in TestsOf(g) THEN <<>> ELSE entries[u]]
      /\ UNCHANGED <<manager, log, verdicts>>
  BY DEF CreateFile, Enter
<1>2. g \in GroupIds /\ t \in TestsOf(g)
  BY TestInGroup
<1>3. g \notin old /\ (parallel < 2 => g \notin present) /\ Len(verdicts[t]) = Iterations
  BY <1>1 DEF FileInv, FileOf
<1>4. Typed'
  <2>1. entries' \in [Tests -> Seq(VerdictType)]
    BY <1>1 DEF Typed
  <2> QED
    BY <1>1, <1>2, <2>1 DEF Typed, manager, Alive
<1>5. ManagerInv'
  BY <1>1, XrunKeepsManager DEF Alive
<1>6. FileInv'
  <2> SUFFICES ASSUME NEW u \in Tests PROVE FileOf(u)'
    BY DEF FileInv
  <2>1. CASE u = t
    <3>1. phase'[t] = "appending" /\ entries'[t] = <<>> /\ g \in present'
      BY <1>1, <1>2 DEF Typed
    <3> QED
      BY <1>1, <1>3, <2>1, <3>1 DEF FileOf, Iterations, manager
  <2>2. CASE u # t /\ GroupOf(u) # g
    <3>1. u \notin TestsOf(g)
      BY <1>2, <2>2, GroupOfTest
    <3>2. phase'[u] = phase[u] /\ entries'[u] = entries[u]
      BY <1>1, <2>2, <3>1 DEF Typed
    <3>3. GroupOf(u) \in present' <=> GroupOf(u) \in present
      BY <1>1, <2>2
    <3> QED
      BY <1>1, <3>2, <3>3 DEF FileInv, FileOf, Iterations, manager
  <2>3. CASE u # t /\ GroupOf(u) = g
    <3>1. phase'[u] = phase[u] /\ entries'[u] = <<>>
      BY <1>1, <2>3, TestInGroup DEF Typed
    <3>2. phase[u] \in {"leaving", "exited"} => ~(parallel < 2)
      BY <1>3, <2>3 DEF FileInv, FileOf
    <3>3. t \in Outstanding
      BY <1>1 DEF Outstanding, ManagerInv, InOrder, Ended
    <3>4. phase[u] = "creating" => u \in Outstanding
      BY DEF Outstanding, ManagerInv, InOrder, Ended
    <3>5. phase[u] = "creating" => ~(parallel < 2)
      BY <2>3, <3>3, <3>4 DEF ManagerInv, PoolKept
    <3> QED
      BY <1>1, <1>3, <2>3, <3>1, <3>2, <3>5 DEF FileInv, FileOf, Iterations, manager
  <2> QED
    BY <2>1, <2>2, <2>3
<1> QED
  BY <1>1, <1>4, <1>5, <1>6 DEF manager

LEMMA AppendEntriesKeeps ==
    ASSUME IInv, NEW t \in Tests, AppendEntries(t) PROVE IInv'
<1> USE DEF IInv
<1>1. /\ phase[t] = "appending" /\ phase' = [phase EXCEPT ![t] = "leaving"]
      /\ entries' = [entries EXCEPT ![t] = entries[t] \o verdicts[t]]
      /\ UNCHANGED <<manager, log, verdicts, present>>
  BY DEF AppendEntries, Enter
<1>2. entries[t] = <<>> /\ verdicts[t] \in Seq(VerdictType)
  BY <1>1 DEF FileInv, FileOf, Typed
<1>3. entries[t] \o verdicts[t] = verdicts[t]
  BY <1>2
<1>4. Typed'
  BY <1>1, <1>2, <1>3 DEF Typed, manager, Alive
<1>5. ManagerInv'
  BY <1>1, XrunKeepsManager DEF Alive
<1>6. FileInv'
  <2> SUFFICES ASSUME NEW u \in Tests PROVE FileOf(u)'
    BY DEF FileInv
  <2>1. CASE u = t
    <3>1. phase'[t] = "leaving" /\ entries'[t] = verdicts[t]
      BY <1>1, <1>3 DEF Typed
    <3> QED
      BY <1>1, <2>1, <3>1 DEF FileInv, FileOf, Iterations, manager
  <2>2. CASE u # t
    BY <1>1, <2>2, Untouched DEF FileInv, Typed, manager
  <2> QED
    BY <2>1, <2>2
<1> QED
  BY <1>1, <1>4, <1>5, <1>6 DEF manager

\* An xrun leaves, crashes or is killed.
LEMMA EndingKeeps ==
    ASSUME IInv, NEW t \in Tests, Leave(t) \/ Crash(t) \/ Timeout(t) PROVE IInv'
<1> USE DEF IInv
<1>1. PICK p \in {"exited", "crashed", "killed"} :
          /\ phase[t] \in Alive /\ phase' = [phase EXCEPT ![t] = p]
          /\ p = "exited" => phase[t] = "leaving"
          /\ p = "crashed" => phase[t] # "leaving"
          /\ UNCHANGED <<manager, log, verdicts, present, entries>>
  BY DEF Leave, Crash, Timeout, Enter, Alive
<1>2. Typed'
  BY <1>1 DEF Typed, manager, Ended
<1>3. ManagerInv'
  BY <1>1, XrunKeepsManager
<1>4. FileInv'
  <2> SUFFICES ASSUME NEW u \in Tests PROVE FileOf(u)'
    BY DEF FileInv
  <2>1. CASE u = t
    <3>1. phase'[t] = p
      BY <1>1 DEF Typed
    <3> QED
      BY <1>1, <2>1, <3>1 DEF FileInv, FileOf, Iterations, Alive, manager
  <2>2. CASE u # t
    BY <1>1, <2>2, Untouched DEF FileInv, Typed, manager
  <2> QED
    BY <2>1, <2>2
<1> QED
  BY <1>1, <1>2, <1>3, <1>4 DEF manager

-----------------------------------------------------------------------------
(* The steps of the manager                                                *)

\* Past the last group every test is back; before it the groups after the
\* current one have not been touched.
LEMMA NothingOutstanding ==
    ASSUME Typed, InOrder, group \in GroupIds => TestsOf(group) \subseteq back
    PROVE  /\ Outstanding = {}
           /\ group \notin GroupIds => Tests \subseteq back
<1>1. \A t \in Tests : phase[t] = "waiting" \/ t \in back
  BY GroupRange, TestInGroup DEF Typed, InOrder
<1>2. group \notin GroupIds => \A g \in GroupIds : g < group
  BY GroupRange DEF Typed
<1> QED
  BY <1>1, <1>2, TestInGroup DEF Outstanding, InOrder

LEMMA LaunchKeeps ==
    ASSUME IInv, NEW t \in Tests, Launch(t) PROVE IInv'
<1> USE DEF IInv
<1>1. /\ state \in {"running", "raising"} /\ group \in GroupIds /\ PoolIsFree
      /\ t \in TestsOf(group) /\ phase[t] = "waiting"
      /\ UNCHANGED <<parallel, old, group, results, log, verdicts, present, entries>>
  BY DEF Launch, NextInGroup, TestsOf
<1>2. t \notin back /\ t \notin Outstanding
  BY <1>1 DEF ManagerInv, InOrder, Ended, Outstanding
<1>3. \A g \in GroupIds : g > group => t \notin TestsOf(g)
  BY <1>1, GroupOfTest, GroupRange
<1>4. parallel < 2 => Outstanding = {}
  <2>1. IsFiniteSet(Outstanding) /\ Cardinality(Outstanding) \in Nat
    BY FS_CardinalityType DEF ManagerInv, PoolKept
  <2>2. parallel < 2 => Cardinality(Outstanding) = 0
    BY <1>1, <2>1, PoolIsNat DEF PoolIsFree
  <2> QED
    BY <2>1, <2>2, FS_EmptySet
<1>5. PICK p \in {"running", "unlaunched"} :
          /\ phase' = [phase EXCEPT ![t] = p]
          /\ p = "running" => UNCHANGED <<state, back>>
          /\ p = "unlaunched" => /\ back' = back \cup {t}
                                 /\ state' = IF parallel = 0 THEN "raised" ELSE "raising"
  BY DEF Launch, Enter
<1>6. /\ \A u \in Tests : u # t => phase'[u] = phase[u]
      /\ phase'[t] = p
  BY <1>5 DEF Typed
<1>7. Typed'
  BY <1>1, <1>5 DEF Typed, Alive, Ended, Ends
<1>8. PoolKept'
  <2>1. CASE p = "running"
    <3>1. Outstanding' = Outstanding \cup {t}
      BY <1>2, <1>5, <1>6, <2>1 DEF Outstanding
    <3>2. IsFiniteSet(Outstanding') /\ Cardinality(Outstanding') = Cardinality(Outstanding) + 1
      BY <1>2, <3>1, FS_AddElement DEF ManagerInv, PoolKept
    <3>3. Cardinality(Outstanding) \in Nat /\ Cardinality(Outstanding) < Pool /\ Pool' = Pool
      BY <1>1, FS_CardinalityType DEF ManagerInv, PoolKept, PoolIsFree, Pool
    <3>4. Cardinality(Outstanding') <= Pool'
      BY <3>2, <3>3, PoolIsNat
    <3> QED
      BY <1>1, <1>4, <3>1, <3>2, <3>4 DEF PoolKept
  <2>2. CASE p = "unlaunched"
    <3>1. Outstanding' = Outstanding
      BY <1>1, <1>2, <1>5, <1>6, <2>2 DEF Outstanding
    <3> QED
      BY <1>1, <3>1 DEF ManagerInv, PoolKept, Pool
  <2> QED
    BY <2>1, <2>2
<1>9. InOrder'
  <2>1. \A u \in back' : phase'[u] \in Ended
    BY <1>2, <1>5, <1>6 DEF ManagerInv, InOrder, Typed, Ended
  <2>2. \A u \in Tests : phase'[u] = "unlaunched" => u \in back'
    BY <1>5, <1>6 DEF ManagerInv, InOrder
  <2>3. \A g \in GroupIds : g < group => TestsOf(g) \subseteq back'
    BY <1>5 DEF ManagerInv, InOrder
  <2>4. ASSUME NEW g \in GroupIds, g > group, NEW u \in TestsOf(g) PROVE phase'[u] = "waiting"
    BY <1>3, <1>6, <2>4 DEF ManagerInv, InOrder, Tests
  <2> QED
    BY <1>1, <2>1, <2>2, <2>3, <2>4 DEF InOrder
<1>10. Counted'
  <2> SUFFICES ASSUME NEW u \in Tests
               PROVE  /\ u \notin back' => results[u] = <<>>
                      /\ u \in back' /\ phase'[u] # "unlaunched" /\ ~(parallel = 0 /\ phase'[u] = "killed")
                            => Len(results[u]) = 1
                      /\ results[u] = <<"PASS">> => phase'[u] = "exited"
    BY <1>1 DEF Counted
  <2>1. CASE u = t
    <3>1. results[t] = <<>> /\ results[t] # <<"PASS">>
      BY <1>2 DEF ManagerInv, Counted
    <3> QED
      BY <1>2, <1>5, <1>6, <2>1, <3>1
  <2>2. CASE u # t
    BY <1>5, <1>6, <2>2 DEF ManagerInv, Counted
  <2> QED
    BY <2>1, <2>2
<1>11. Excepted'
  <2>1. \A u \in Tests : phase'[u] = "killed" <=> phase[u] = "killed"
    BY <1>1, <1>5, <1>6
  <2>2. CASE p = "running"
    <3>1. \A u \in Tests : phase'[u] = "unlaunched" <=> phase[u] = "unlaunched"
      BY <1>1, <1>6, <2>2
    <3>2. Cause' <=> Cause
      BY <1>1, <2>1, <3>1 DEF Cause
    <3>3. (parallel = 0 /\ \E u \in back : phase'[u] = "killed") => state = "raised"
      BY <2>1 DEF ManagerInv, Excepted, Typed
    <3> QED
      BY <1>1, <1>5, <2>2, <3>1, <3>2, <3>3 DEF ManagerInv, Excepted
  <2>3. CASE p = "unlaunched"
    <3>1. Cause'
      BY <1>6, <2>3 DEF Cause
    <3>2. state' = IF parallel = 0 THEN "raised" ELSE "raising"
      BY <1>5, <2>3
    <3>3. parallel = 0 => Outstanding' = {}
      BY <1>2, <1>4, <1>5, <1>6, <2>3 DEF Outstanding
    <3>4. parallel \in Nat /\ UNCHANGED <<parallel, group>>
      BY <1>1, PoolIsNat
    <3> QED
      BY <1>1, <3>1, <3>2, <3>3, <3>4 DEF Excepted
  <2> QED
    BY <2>2, <2>3
<1>12. FileInv'
  <2> SUFFICES ASSUME NEW u \in Tests PROVE FileOf(u)'
    BY DEF FileInv
  <2>1. CASE u = t
    BY <1>1, <1>5, <1>6, <2>1 DEF FileInv, FileOf, Iterations
  <2>2. CASE u # t
    BY <1>1, <1>6, <2>2, Untouched DEF FileInv
  <2> QED
    BY <2>1, <2>2
<1> QED
  BY <1>1, <1>7, <1>8, <1>9, <1>10, <1>11, <1>12 DEF ManagerInv

LEMMA ReturnKeeps ==
    ASSUME IInv, NEW t \in Tests, Return(t) PROVE IInv'
<1> USE DEF IInv
<1>1. /\ phase[t] \in {"exited", "crashed", "killed"} /\ t \notin back
      /\ back' = back \cup {t}
      /\ UNCHANGED <<parallel, old, group, phase, log, verdicts, present, entries>>
  BY DEF Return, xruns
<1>2. t \in Outstanding /\ Outstanding' = Outstanding \ {t}
  BY <1>1 DEF Outstanding
<1>3. state # "raised" /\ results[t] = <<>>
  BY <1>1, <1>2 DEF ManagerInv, Excepted, Counted
<1>4. PoolKept'
  <2>1. IsFiniteSet(Outstanding') /\ Cardinality(Outstanding') <= Cardinality(Outstanding)
    BY <1>2, FS_Subset DEF ManagerInv, PoolKept
  <2>2. Cardinality(Outstanding) \in Nat /\ Cardinality(Outstanding') \in Nat
    BY <2>1, FS_CardinalityType DEF ManagerInv, PoolKept
  <2>3. Cardinality(Outstanding') <= Pool'
    BY <1>1, <2>1, <2>2, PoolIsNat DEF ManagerInv, PoolKept, Pool
  <2> QED
    BY <1>1, <1>2, <2>1, <2>3 DEF ManagerInv, PoolKept
<1>5. InOrder'
  BY <1>1 DEF ManagerInv, InOrder, Ended
<1>6. FileInv'
  BY <1>1, Untouched DEF FileInv
\* A status is noted, or TimeoutExpired ends the serial manager.
<1>7. Typed' /\ Counted' /\ Excepted'
  <2>1. CASE phase[t] = "killed" /\ parallel = 0 /\ state' = "raised" /\ UNCHANGED results
    <3>1. Typed'
      BY <1>1, <2>1 DEF Typed, Ends
    <3>2. Counted'
      BY <1>1, <1>3, <2>1 DEF ManagerInv, Counted
    <3>3. Outstanding' = {} /\ Cause'
      BY <1>1, <1>2, <2>1 DEF ManagerInv, PoolKept, Cause
    <3> QED
      BY <1>1, <2>1, <3>1, <3>2, <3>3 DEF Excepted
  <2>2. ASSUME NEW s \in {"PASS", "FAIL", "TIMEOUT"}, Collect(t, s),
               s = "PASS" => phase[t] = "exited", phase[t] = "killed" => parallel # 0
        PROVE  Typed' /\ Counted' /\ Excepted'
    <3>1. results' = [results EXCEPT ![t] = <<s>>] /\ state' = state
      BY <1>3, <2>2 DEF Collect
    <3>2. Typed'
      BY <1>1, <3>1 DEF Typed
    <3>3. Counted'
      <4> SUFFICES ASSUME NEW u \in Tests
                   PROVE  /\ u \notin back' => results'[u] = <<>>
                          /\ u \in back' /\ phase[u] # "unlaunched" /\ ~(parallel = 0 /\ phase[u] = "killed")
                                => Len(results'[u]) = 1
                          /\ results'[u] = <<"PASS">> => phase[u] = "exited"
        BY <1>1 DEF Counted
      <4>1. CASE u = t
        <5>1. results'[t] = <<s>>
          BY <3>1 DEF Typed
        <5> QED
          BY <1>1, <2>2, <4>1, <5>1
      <4>2. CASE u # t
        <5>1. results'[u] = results[u]
          BY <3>1, <4>2 DEF Typed
        <5> QED
          BY <1>1, <4>2, <5>1 DEF ManagerInv, Counted
      <4> QED
        BY <4>1, <4>2
    <3>4. Excepted'
      BY <1>1, <1>3, <2>2, <3>1 DEF ManagerInv, Excepted, Cause
    <3> QED
      BY <3>2, <3>3, <3>4
  <2>3. Status(t) \in {"PASS", "FAIL"} /\ (Status(t) = "PASS" /\ phase[t] # "killed" => phase[t] = "exited")
    BY <1>1 DEF Status
  <2>4. CASE phase[t] # "killed" /\ Collect(t, Status(t))
    BY <2>2, <2>3, <2>4
  <2>5. CASE phase[t] = "killed" /\ parallel > 0 /\ Collect(t, "TIMEOUT")
    BY <2>2, <2>5, PoolIsNat
  <2> QED
    BY <2>1, <2>4, <2>5 DEF Return
<1> QED
  BY <1>1, <1>4, <1>5, <1>6, <1>7 DEF ManagerInv

LEMMA ProceedKeeps ==
    ASSUME IInv, Raise \/ NextGroup \/ Report PROVE IInv'
<1> USE DEF IInv
<1>1. UNCHANGED <<parallel, old, results, back, phase, log, verdicts, present, entries>>
  BY DEF Raise, NextGroup, Report, xruns
<1>2. PoolKept' /\ Counted' /\ FileInv'
  <2>1. Outstanding' = Outstanding /\ Pool' = Pool
    BY <1>1 DEF Outstanding, Pool
  <2> QED
    BY <1>1, <2>1, Untouched DEF ManagerInv, PoolKept, Counted, FileInv
<1>3. CASE Raise
  <2>1. state = "raising" /\ TestsOf(group) \subseteq back /\ state' = "raised" /\ group' = group
    BY <1>3 DEF Raise
  <2>2. Outstanding' = {}
    BY <1>1, <2>1, NothingOutstanding DEF ManagerInv, Outstanding
  <2>3. Typed' /\ InOrder'
    BY <1>1, <2>1 DEF ManagerInv, Typed, InOrder, Ends
  <2>4. Excepted'
    BY <1>1, <2>1, <2>2 DEF ManagerInv, Excepted, Cause
  <2> QED
    BY <1>1, <1>2, <2>3, <2>4 DEF ManagerInv
<1>4. CASE NextGroup
  <2>1. /\ state = "running" /\ group \in GroupIds /\ TestsOf(group) \subseteq back
        /\ group' = group + 1 /\ state' = state
    BY <1>4 DEF NextGroup
  <2>2. Typed'
    BY <1>1, <2>1, GroupRange DEF Typed
  <2>3. \A g \in GroupIds : (g < group + 1 => g < group \/ g = group) /\ (g > group + 1 => g > group)
    BY <2>1, GroupRange
  <2>4. InOrder'
    BY <1>1, <2>1, <2>3 DEF ManagerInv, InOrder
  <2>5. Excepted'
    BY <1>1, <2>1 DEF ManagerInv, Excepted
  <2> QED
    BY <1>1, <1>2, <2>2, <2>4, <2>5 DEF ManagerInv
<1>5. CASE Report
  <2>1. /\ state = "running" /\ group \notin GroupIds /\ group' = group
        /\ state' \in {"reported", "ended"}
    BY <1>5 DEF Report
  <2>2. Typed' /\ InOrder'
    BY <1>1, <2>1 DEF ManagerInv, Typed, InOrder, Ends
  <2>3. Excepted'
    BY <1>1, <2>1 DEF ManagerInv, Excepted
  <2> QED
    BY <1>1, <1>2, <2>2, <2>3 DEF ManagerInv
<1> QED
  BY <1>3, <1>4, <1>5

LEMMA NextInvariant == IInv /\ [Next]_vars => IInv'
<1> SUFFICES ASSUME IInv, [Next]_vars PROVE IInv'
  OBVIOUS
<1>1. CASE UNCHANGED vars
  <2>1. Outstanding' = Outstanding /\ Pool' = Pool
    BY <1>1 DEF vars, manager, xruns, Outstanding, Pool
  <2>2. ManagerInv'
    BY <1>1, <2>1 DEF IInv, ManagerInv, vars, manager, xruns, PoolKept, InOrder, Counted, Excepted, Cause
  <2>3. FileInv'
    BY <1>1, Untouched DEF IInv, FileInv, vars, manager, xruns
  <2> QED
    BY <1>1, <2>2, <2>3 DEF IInv, Typed, vars, manager, xruns
<1>2. ASSUME NEW t \in Tests, Iterate(t) \/ Crash(t) \/ Advance(t) PROVE IInv'
  BY <1>2, IterateKeeps, FindFileKeeps, CreateFileKeeps, AppendEntriesKeeps, EndingKeeps DEF Advance
<1>3. ASSUME NEW t \in Tests, Launch(t) \/ Timeout(t) \/ Return(t) PROVE IInv'
  BY <1>3, LaunchKeeps, EndingKeeps, ReturnKeeps
<1>4. CASE Raise \/ NextGroup \/ Report
  BY <1>4, ProceedKeeps
<1> QED
  BY <1>1, <1>2, <1>3, <1>4 DEF Next

THEOREM Invariant == Spec => []IInv
BY InitInvariant, NextInvariant, PTL DEF Spec

-----------------------------------------------------------------------------
(* What the invariant gives                                                *)

\* An xrun that is alive is one the manager still waits for.
LEMMA AliveIsOutstanding ==
    ASSUME IInv, NEW t \in Tests, phase[t] \in Alive PROVE t \in Outstanding
BY DEF IInv, ManagerInv, InOrder, Outstanding, Alive, Ended

\* For any groups and any --parallel the variables have their types and no
\* more xruns are alive than the pool has threads (run_parallel, run_group).
THEOREM TypeCorrect == Spec => []TypeOK
<1>1. ASSUME IInv PROVE TypeOK
  <2> DEFINE living == {t \in Tests : phase[t] \in Alive}
  <2>1. living \subseteq Outstanding
    BY <1>1, AliveIsOutstanding
  <2>2. IsFiniteSet(Outstanding) /\ Cardinality(Outstanding) <= Pool
    BY <1>1 DEF IInv, ManagerInv, PoolKept
  <2>3. IsFiniteSet(living) /\ Cardinality(living) <= Cardinality(Outstanding)
    BY <2>1, <2>2, FS_Subset
  <2>4. Cardinality(living) \in Nat /\ Cardinality(Outstanding) \in Nat /\ Pool \in Nat
    BY <1>1, <2>2, <2>3, FS_CardinalityType, PoolIsNat DEF IInv
  <2>5. Cardinality(living) <= Pool
    BY <2>2, <2>3, <2>4
  <2> QED
    BY <1>1, <2>5 DEF IInv, Typed, TypeOK, Ended
<1> QED
  BY <1>1, Invariant, PTL

\* The report counts every test exactly once, a PASS stands for an xrun that
\* judged all its simulations, and without a report the manager had a cause
\* (generate_report).
THEOREM ReportAccounts == Spec => []ReportAccountsAll
<1>1. ASSUME IInv PROVE ReportAccountsAll
  <2>1. ASSUME state = "reported", NEW t \in Tests PROVE Len(results[t]) = 1
    <3>1. t \in back
      BY <1>1, <2>1, NothingOutstanding DEF IInv, ManagerInv, Excepted
    <3> QED
      BY <1>1, <2>1, <3>1 DEF IInv, ManagerInv, Excepted, Counted
  <2>2. ASSUME NEW t \in Tests, results[t] = <<"PASS">>
        PROVE  phase[t] = "exited" /\ Len(verdicts[t]) = Iterations
    BY <1>1, <2>2 DEF IInv, ManagerInv, Counted, FileInv, FileOf
  <2> QED
    BY <1>1, <2>1, <2>2 DEF IInv, ManagerInv, Excepted, Cause, ReportAccountsAll
<1> QED
  BY <1>1, Invariant, PTL

\* The regression file never holds part of a test's verdicts, and without
\* concurrency, or when the file was there before, all of them of every xrun
\* that ended by itself (PrintResultLog).
THEOREM EntriesAreComplete == Spec => []EntriesComplete
<1>1. IInv => EntriesComplete
  BY DEF IInv, FileInv, FileOf, EntriesComplete
<1> QED
  BY <1>1, Invariant, PTL

\* When the manager has ended no xrun is alive, and the pool has skipped no
\* test of the group it was at (run_parallel, the executor's exit).
THEOREM EndIsClean == Spec => []EndsClean
<1>1. ASSUME IInv PROVE EndsClean
  <2> SUFFICES ASSUME state \in Ends
               PROVE  /\ Outstanding = {}
                      /\ parallel > 0 /\ group \in GroupIds => TestsOf(group) \subseteq back
    <3>1. ASSUME Outstanding = {} PROVE \A t \in Tests : phase[t] \notin Alive
      BY <1>1, <3>1, AliveIsOutstanding
    <3>2. \A t \in back : phase[t] # "waiting"
      BY <1>1 DEF IInv, ManagerInv, InOrder, Ended
    <3> QED
      BY <3>1, <3>2 DEF EndsClean
  <2>1. CASE state = "raised"
    BY <1>1, <2>1 DEF IInv, ManagerInv, Excepted
  <2>2. CASE state \in {"reported", "ended"}
    BY <1>1, <2>2, NothingOutstanding DEF IInv, ManagerInv, Excepted
  <2> QED
    BY <2>1, <2>2 DEF Ends
<1> QED
  BY <1>1, Invariant, PTL
=============================================================================
