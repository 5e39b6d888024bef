-------------------------- MODULE PythonJobProofs --------------------------
(***************************************************************************)
(* Proofs about PythonJob for every set of helpers and every capacity of   *)
(* the pipes, with and without read errors: the inductive invariant and    *)
(* the safety properties that follow from it.                              *)
(***************************************************************************)
EXTENDS PythonJob, TLAPS

USE DEF runnerVars, groupVars, signalVars, Streams, Idle, Open

\* The actions of the runner and of its environment, as one disjunction that
\* the proofs below split the same way.
LEMMA Cases ==
    ASSUME [Next]_vars
    PROVE  \/ \E s \in Streams : ReadLine(s)
           \/ \E s \in Streams : ReadError(s)
           \/ \E s \in Streams : ReadEof(s)
           \/ SeeCancel \/ Cancel
           \/ LeaderReaped \/ ReapKilled \/ WaitLeader \/ ReapOrphan
           \/ Sweep \/ GraceExpires \/ Drop
           \/ \E p \in Procs, s \in Streams : StartWrite(p, s)
           \/ \E p \in Procs, s \in Streams : Write(p, s)
           \/ \E p \in Procs, st \in {"ok", "failed"} : Exit(p, st)
           \/ \E p \in Procs : Die(p)
           \/ \E p \in Procs, h \in Helpers : Fork(p, h)
           \/ UNCHANGED vars
BY DEF Next, Runner, Read, Group

LEMMA InitOK == Init => IInv
<1> SUFFICES ASSUME Init PROVE IInv OBVIOUS
<1> USE JobAssumption DEF Init
<1>1. TypeOK
  <2>1. cancelled \in BOOLEAN BY Zenon
  <2>2. /\ pipe \in [Streams -> 0..PipeCapacity]
        /\ proc \in [Procs -> {"unborn", "running", "zombie", "gone"}]
        /\ writing \in [Procs -> Streams \cup {Idle}]
        /\ holds \subseteq Procs
    BY DEF Procs
  <2>3. QED BY <2>1, <2>2 DEF TypeOK
<1>2. OutputInv BY DEF OutputInv, Procs
<1>3. CancelInv BY DEF CancelInv
<1>4. LeaderInv BY DEF LeaderInv, Procs
<1>5. QED BY <1>1, <1>2, <1>3, <1>4 DEF IInv

LEMMA TypeStep == TypeOK /\ [Next]_vars => TypeOK'
<1> SUFFICES ASSUME TypeOK, [Next]_vars PROVE TypeOK' OBVIOUS
<1> USE JobAssumption
<1>1. CASE \E s \in Streams : ReadLine(s)
  <2>1. PICK s \in Streams : ReadLine(s) BY <1>1
  <2>2. pipe' \in [Streams -> 0..PipeCapacity] BY <2>1 DEF ReadLine, TypeOK
  <2>3. QED BY <2>1, <2>2 DEF ReadLine, TypeOK
<1>2. CASE \E s \in Streams : ReadError(s)
  <2>1. PICK s \in Streams : ReadError(s) BY <1>2
  <2>2. pipe' \in [Streams -> 0..PipeCapacity] BY <2>1 DEF ReadError, TypeOK
  <2>3. QED BY <2>1, <2>2 DEF ReadError, StreamDone, TypeOK
<1>3. CASE \E s \in Streams : ReadEof(s)
  BY <1>3 DEF ReadEof, StreamDone, TypeOK
<1>4. CASE SeeCancel
  BY <1>4 DEF SeeCancel, TypeOK, Running
<1>5. CASE Cancel
  <2>1. cancelled' \in BOOLEAN BY <1>5, Zenon DEF Cancel
  <2>2. QED BY <1>5, <2>1 DEF Cancel, TypeOK
<1>6. CASE LeaderReaped \/ ReapKilled \/ WaitLeader \/ ReapOrphan
  BY <1>6 DEF LeaderReaped, ReapKilled, WaitLeader, ReapOrphan, ReapLeader, Return, TypeOK
<1>7. CASE Sweep \/ GraceExpires \/ Drop
  BY <1>7 DEF Sweep, GraceExpires, Drop, Return, TypeOK, Running
<1>8. CASE \E p \in Procs, s \in Streams : StartWrite(p, s)
  BY <1>8 DEF StartWrite, TypeOK
<1>9. CASE \E p \in Procs, s \in Streams : Write(p, s)
  <2>1. PICK p \in Procs, s \in Streams : Write(p, s) BY <1>9
  <2>2. pipe' \in [Streams -> 0..PipeCapacity] BY <2>1 DEF Write, TypeOK
  <2>3. QED BY <2>1, <2>2 DEF Write, TypeOK
<1>10. CASE \E p \in Procs, st \in {"ok", "failed"} : Exit(p, st)
  BY <1>10 DEF Exit, Remains, TypeOK
<1>11. CASE \E p \in Procs : Die(p)
  BY <1>11 DEF Die, Remains, TypeOK
<1>12. CASE \E p \in Procs, h \in Helpers : Fork(p, h)
  <2>1. PICK p \in Procs, h \in Helpers : Fork(p, h) BY <1>12
  <2>2. holds' \subseteq Procs BY <2>1 DEF Fork, Procs, TypeOK
  <2>3. QED BY <2>1, <2>2 DEF Fork, TypeOK
<1>13. CASE UNCHANGED vars BY <1>13 DEF vars, TypeOK
<1>14. QED
  BY Cases, <1>1, <1>2, <1>3, <1>4, <1>5, <1>6, <1>7, <1>8, <1>9, <1>10,
     <1>11, <1>12, <1>13

LEMMA OutputStep == TypeOK /\ OutputInv /\ CancelInv /\ [Next]_vars => OutputInv'
<1> SUFFICES ASSUME TypeOK, OutputInv, CancelInv, [Next]_vars PROVE OutputInv'
  OBVIOUS
<1> USE JobAssumption DEF Writers, Running
<1>1. CASE \E s \in Streams : ReadLine(s)
  BY <1>1 DEF ReadLine, TypeOK, OutputInv
<1>2. CASE \E s \in Streams : ReadError(s)
  BY <1>2 DEF ReadError, StreamDone, TypeOK, OutputInv, CancelInv
<1>3. CASE \E s \in Streams : ReadEof(s)
  BY <1>3 DEF ReadEof, StreamDone, TypeOK, OutputInv, CancelInv
<1>4. CASE SeeCancel \/ Cancel
  BY <1>4 DEF SeeCancel, Cancel, TypeOK, OutputInv, CancelInv
<1>5. CASE LeaderReaped \/ ReapKilled \/ WaitLeader \/ ReapOrphan
  BY <1>5 DEF LeaderReaped, ReapKilled, WaitLeader, ReapOrphan, ReapLeader, Return,
              TypeOK, OutputInv, CancelInv
<1>6. CASE Sweep \/ GraceExpires \/ Drop
  BY <1>6 DEF Sweep, GraceExpires, Drop, Return, TypeOK, OutputInv, CancelInv
<1>7. CASE \E p \in Procs, s \in Streams : StartWrite(p, s)
  BY <1>7 DEF StartWrite, TypeOK, OutputInv
<1>8. CASE \E p \in Procs, s \in Streams : Write(p, s)
  BY <1>8 DEF Write, TypeOK, OutputInv
<1>9. CASE \E p \in Procs, st \in {"ok", "failed"} : Exit(p, st)
  BY <1>9 DEF Exit, Remains, TypeOK, OutputInv
<1>10. CASE \E p \in Procs : Die(p)
  BY <1>10 DEF Die, Remains, TypeOK, OutputInv
<1>11. CASE \E p \in Procs, h \in Helpers : Fork(p, h)
  BY <1>11 DEF Fork, Procs, TypeOK, OutputInv
<1>12. CASE UNCHANGED vars BY <1>12 DEF vars, OutputInv
<1>13. QED
  BY Cases, <1>1, <1>2, <1>3, <1>4, <1>5, <1>6, <1>7, <1>8, <1>9, <1>10, <1>11, <1>12

LEMMA CancelStep == TypeOK /\ CancelInv /\ [Next]_vars => CancelInv'
<1> SUFFICES ASSUME TypeOK, CancelInv, [Next]_vars PROVE CancelInv' OBVIOUS
<1> USE JobAssumption DEF Running
<1>1. CASE \E s \in Streams : ReadLine(s) \/ ReadError(s) \/ ReadEof(s)
  BY <1>1 DEF ReadLine, ReadError, ReadEof, StreamDone, CancelInv
<1>2. CASE SeeCancel \/ Cancel
  BY <1>2 DEF SeeCancel, Cancel, CancelInv
<1>3. CASE LeaderReaped \/ ReapKilled \/ WaitLeader \/ ReapOrphan
  BY <1>3 DEF LeaderReaped, ReapKilled, WaitLeader, ReapOrphan, ReapLeader, Return,
              TypeOK, CancelInv
<1>4. CASE Sweep \/ GraceExpires \/ Drop
  BY <1>4 DEF Sweep, GraceExpires, Drop, Return, CancelInv
<1>5. CASE \E p \in Procs, s \in Streams : StartWrite(p, s) \/ Write(p, s)
  BY <1>5 DEF StartWrite, Write, CancelInv
<1>6. CASE \E p \in Procs, st \in {"ok", "failed"} : Exit(p, st)
  BY <1>6 DEF Exit, Remains, TypeOK, CancelInv
<1>7. CASE \E p \in Procs : Die(p)
  BY <1>7 DEF Die, Remains, TypeOK, CancelInv
<1>8. CASE \E p \in Procs, h \in Helpers : Fork(p, h)
  BY <1>8 DEF Fork, TypeOK, CancelInv
<1>9. CASE UNCHANGED vars BY <1>9 DEF vars, CancelInv
<1>10. QED
  BY Cases, <1>1, <1>2, <1>3, <1>4, <1>5, <1>6, <1>7, <1>8, <1>9

LEMMA LeaderStep ==
    TypeOK /\ CancelInv /\ LeaderInv /\ [Next]_vars => LeaderInv'
<1> SUFFICES ASSUME TypeOK, CancelInv, LeaderInv, [Next]_vars PROVE LeaderInv'
  OBVIOUS
<1> USE JobAssumption DEF LeaderDiesWithJob, Procs
<1>1. CASE \E s \in Streams : ReadLine(s) \/ ReadError(s) \/ ReadEof(s)
  BY <1>1 DEF ReadLine, ReadError, ReadEof, StreamDone, LeaderInv
<1>2. CASE SeeCancel \/ Cancel
  BY <1>2 DEF SeeCancel, Cancel, LeaderInv
<1>3. CASE LeaderReaped \/ ReapKilled \/ WaitLeader \/ ReapOrphan
  BY <1>3 DEF LeaderReaped, ReapKilled, WaitLeader, ReapOrphan, ReapLeader, Return,
              TypeOK, CancelInv, LeaderInv
<1>4. CASE Sweep \/ GraceExpires \/ Drop
  BY <1>4 DEF Sweep, GraceExpires, Drop, Return, Running, LeaderInv
<1>5. CASE \E p \in Procs, s \in Streams : StartWrite(p, s) \/ Write(p, s)
  BY <1>5 DEF StartWrite, Write, LeaderInv
<1>6. CASE \E p \in Procs, st \in {"ok", "failed"} : Exit(p, st)
  BY <1>6 DEF Exit, Remains, Running, TypeOK, LeaderInv
<1>7. CASE \E p \in Procs : Die(p)
  BY <1>7 DEF Die, Remains, Running, TypeOK, LeaderInv
<1>8. CASE \E p \in Procs, h \in Helpers : Fork(p, h)
  BY <1>8 DEF Fork, TypeOK, LeaderInv
<1>9. CASE UNCHANGED vars BY <1>9 DEF vars, LeaderInv
<1>10. QED
  BY Cases, <1>1, <1>2, <1>3, <1>4, <1>5, <1>6, <1>7, <1>8, <1>9

\* Every reachable state of the job satisfies IInv.
THEOREM JobInvariance == Spec => []IInv
<1>1. IInv /\ [Next]_vars => IInv'
  BY TypeStep, OutputStep, CancelStep, LeaderStep DEF IInv
<1>2. QED BY InitOK, <1>1, PTL DEF Spec

\* Every variable of the job keeps its type.
THEOREM JobTypeCorrect == Spec => []TypeOK
<1>1. IInv => TypeOK BY DEF IInv
<1>2. QED BY <1>1, JobInvariance, PTL

\* No helper, whenever it was forked and whatever it does with SIGTERM, is
\* left at work when a cancelled job returns.
THEOREM NoStraggler == Spec => []NoStragglerSurvivesCancel
<1>1. IInv => NoStragglerSurvivesCancel
  BY DEF IInv, CancelInv, NoStragglerSurvivesCancel
<1>2. QED BY <1>1, JobInvariance, PTL

\* Whatever the writers do, a verdict is given on the whole output.
THEOREM WholeOutput == Spec => []VerdictSeesAllOutput
<1>1. IInv => VerdictSeesAllOutput
  BY DEF IInv, OutputInv, VerdictSeesAllOutput
<1>2. QED BY <1>1, JobInvariance, PTL

\* run.py is dead or about to be killed when the runner returns.
THEOREM LeaderDies == Spec => []LeaderDiesWithJob
<1>1. IInv => LeaderDiesWithJob
  BY DEF IInv, LeaderInv, LeaderDiesWithJob
<1>2. QED BY <1>1, JobInvariance, PTL

\* Steps of the runner, the kernel and the processes that do not end the job.
Goes ==
    \/ \E s \in Streams : ReadLine(s) \/ ReadError(s) \/ ReadEof(s)
    \/ SeeCancel \/ LeaderReaped \/ ReapOrphan \/ GraceExpires
    \/ \E p \in Procs, s \in Streams : StartWrite(p, s) \/ Write(p, s)
    \/ \E p \in Procs, st \in {"ok", "failed"} : Exit(p, st)
    \/ \E p \in Procs : Die(p)
    \/ \E p \in Procs, h \in Helpers : Fork(p, h)

\* No process gets away again: only one at large can start another, and run.py
\* is never started again.
LEMMA StaysCalm ==
    ASSUME TypeOK, Goes
    PROVE  /\ Running \ killed = {} => (Running \ killed)' = {}
           /\ Leader \notin Running \ killed => Leader \notin (Running \ killed)'
<1> USE JobAssumption DEF Running, Procs
<1>1. CASE \E s \in Streams : ReadLine(s) \/ ReadError(s) \/ ReadEof(s)
  BY <1>1 DEF ReadLine, ReadError, ReadEof
<1>2. CASE SeeCancel \/ GraceExpires
  BY <1>2 DEF SeeCancel, GraceExpires
<1>3. CASE LeaderReaped \/ ReapOrphan
  BY <1>3 DEF LeaderReaped, ReapOrphan, ReapLeader, TypeOK
<1>4. CASE \E p \in Procs, s \in Streams : StartWrite(p, s) \/ Write(p, s)
  BY <1>4 DEF StartWrite, Write
<1>5. CASE \E p \in Procs, st \in {"ok", "failed"} : Exit(p, st)
  BY <1>5 DEF Exit, Remains, TypeOK
<1>6. CASE \E p \in Procs : Die(p)
  BY <1>6 DEF Die, Remains, TypeOK
<1>7. CASE \E p \in Procs, h \in Helpers : Fork(p, h)
  BY <1>7 DEF Fork, TypeOK
<1> QED BY <1>1, <1>2, <1>3, <1>4, <1>5, <1>6, <1>7 DEF Goes

\* They leave the phase, the verdict and the token as they are.
LEMMA GoesEffect ==
    ASSUME CancelInv, Goes
    PROVE  /\ pc = "returned" <=> pc' = "returned"
           /\ outcome' = outcome /\ cancelled' = cancelled
<1>1. CASE \E s \in Streams : ReadLine(s) \/ ReadError(s) \/ ReadEof(s)
  BY <1>1 DEF ReadLine, ReadError, ReadEof, StreamDone
<1>2. CASE SeeCancel \/ GraceExpires \/ LeaderReaped \/ ReapOrphan
  BY <1>2 DEF SeeCancel, GraceExpires, LeaderReaped, ReapOrphan
<1>3. CASE \E p \in Procs, s \in Streams : StartWrite(p, s) \/ Write(p, s)
  BY <1>3 DEF StartWrite, Write
<1>4. CASE \E p \in Procs, st \in {"ok", "failed"} : Exit(p, st)
  BY <1>4 DEF Exit
<1>5. CASE \E p \in Procs : Die(p)
  BY <1>5 DEF Die
<1>6. CASE \E p \in Procs, h \in Helpers : Fork(p, h)
  BY <1>6 DEF Fork
<1> QED BY <1>1, <1>2, <1>3, <1>4, <1>5, <1>6 DEF Goes

\* The job ends in one of four ways, and run.py is not at large any more.
LEMMA Ends ==
    ASSUME IInv, IInv', Sweep \/ ReapKilled \/ WaitLeader \/ Drop
    PROVE  /\ pc # "returned" /\ pc' = "returned" /\ cancelled' = cancelled
           /\ outcome' \in {"succeeded", "failed", "cancelled", "dropped"}
           /\ Running \ killed = {} => (Running \ killed)' = {}
           /\ Leader \notin (Running \ killed)'
           /\ outcome' = "cancelled" => cancelled /\ (Running \ killed)' = {}
           /\ outcome' \in {"succeeded", "failed"} => Leader \notin Running \ killed
<1> USE JobAssumption DEF IInv, Return
<1>1. /\ pc # "returned" /\ pc' = "returned" /\ cancelled' = cancelled
      /\ outcome' \in {"succeeded", "failed", "cancelled", "dropped"}
  BY DEF Sweep, ReapKilled, WaitLeader, Drop
<1>2. Running \ killed = {} => (Running \ killed)' = {}
  BY DEF Sweep, ReapKilled, WaitLeader, Drop, ReapLeader, Running, TypeOK
<1>3. Leader \notin (Running \ killed)'
  BY <1>1 DEF LeaderInv, LeaderDiesWithJob, Running
<1>4. outcome' = "cancelled" => cancelled /\ (Running \ killed)' = {}
  BY <1>1 DEF CancelInv
<1>5. outcome' \in {"succeeded", "failed"} => Leader \notin Running \ killed
  BY DEF Sweep, ReapKilled, WaitLeader, Drop, ReapLeader, Running
<1> QED BY <1>1, <1>2, <1>3, <1>4, <1>5

\* Every job is one that the abstract job allows (lib.rs 494-592, process.rs).
THEOREM KeepsPromise == Spec => ImplementsPromise
<1>1. Init => Promise!Init
  <2> SUFFICES ASSUME Init PROVE Promise!Init
    OBVIOUS
  <2>1. pc = "reading" /\ outcome = "none" /\ cancelled = FALSE
    BY DEF Init
  <2>2. Leader \in Running \ killed
    BY DEF Init, Running, Procs
  <2> QED BY <2>1, <2>2, Zenon DEF Promise!Init
<1>2. ASSUME IInv, IInv', [Next]_vars PROVE [Promise!Next]_Promise!vars
  <2> USE DEF Promise!Next, Promise!vars
  <2>1. CASE Goes
    <3>1. Promise!Settle
      BY <1>2, <2>1, StaysCalm, GoesEffect DEF IInv, Promise!Settle, Promise!Calm
    <3> QED BY <3>1
  <2>2. CASE Cancel
    <3>1. Promise!Ask
      BY <2>2 DEF Cancel, Running, Promise!Ask
    <3> QED BY <3>1
  <2>3. CASE Sweep \/ ReapKilled \/ WaitLeader \/ Drop
    <3>1. outcome' \in {"succeeded", "failed", "cancelled", "dropped"}
      BY <1>2, <2>3, Ends
    <3>2. Promise!End(outcome')
      BY <1>2, <2>3, Ends DEF Promise!End, Promise!Calm
    <3> QED BY <3>1, <3>2
  <2>4. CASE UNCHANGED vars
    BY <2>4 DEF vars, Running
  <2> QED
    BY <1>2, <2>1, <2>2, <2>3, <2>4, Cases DEF Goes
<1> QED
  BY <1>1, <1>2, JobInvariance, PTL DEF Spec, ImplementsPromise, Promise!Spec
=============================================================================
