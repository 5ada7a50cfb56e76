----------------------- MODULE ChildSupervisorProofs -----------------------
(***************************************************************************)
(* Proofs about ChildSupervisor: type correctness, and that the install   *)
(* result reflects what the child did, for every value of the constants.  *)
(***************************************************************************)
EXTENDS ChildSupervisor, TLAPS

\* Every status line the applier writes fits the 1024-byte fgets() buffer.
ShortLines == \A l \in Lines : Len(l) = 1

\* The parts of the strengthening of ResultFaithful that is inductive.
ChunksFirst == \A i \in 1..Len(chan) : chan[i].first
\* before the fork there is no child and nothing in the pipe
NoChildBeforeFork == cpc = "none" => ppc \in {"start", "built", "done"} /\ chan = <<>>
ForkedAfterBuild == cpc # "none" => ppc \notin {"start", "built"}
\* once built, the parent holds both ends until the fork
BuiltHoldsPipe == ppc = "built" => fds["parent"] = {"r", "w"}
\* a live child holds the write end
ChildHoldsWrite == cpc \in {"forked", "running"} => "w" \in fds["child"]
\* the parent has read nothing before its setup
NothingReadBeforeSetup == ppc = "forked" => rd = 0
\* retry_update records the chunks read so far
RetryTracksReads ==
    (ppc \in {"reading", "eof"} \/ cpc = "reaped") =>
        (retry_update <=> \E i \in 1..rd : chan[i].cmd = "retry_update")
\* after EOF the child is gone and every chunk was read
DrainedAfterEof ==
    (ppc = "eof" \/ cpc = "reaped") => rd = Len(chan) /\ cpc \in {"exited", "reaped"}
\* the child is reaped only by Reap, which returns its outcome
ReapedOutcome == cpc = "reaped" => ppc = "done" /\ result = Outcome(retry_update, status)

\* TypeOK less log_buffer and ui, which the installer driver also writes.
ProcTypeOK ==
    /\ ppc \in PPCs
    /\ cpc \in CPCs
    /\ fds \in [Procs -> SUBSET {"r", "w"}]
    /\ chan \in Seq(Chunk)
    /\ Len(chan) <= MaxChan
    /\ rd \in 0..Len(chan)
    /\ wipe_cache \in BOOLEAN
    /\ retry_update \in BOOLEAN
    /\ status \in Status
    /\ result \in Results \cup {"none"}

IInv ==
    /\ ProcTypeOK
    /\ ChunksFirst
    /\ NoChildBeforeFork
    /\ ForkedAfterBuild
    /\ BuiltHoldsPipe
    /\ ChildHoldsWrite
    /\ NothingReadBeforeSetup
    /\ RetryTracksReads
    /\ DrainedAfterEof
    /\ ReapedOutcome

---------------------------------------------------------------------------

USE ConstantsAssumption

\* A line of the applier is a sequence of chunks.
LEMMA LinesAreChunks == \A l \in Lines : l \in Seq(Chunk)
BY ConstantsAssumption

\* A remainder modulo 256 is a byte: exit codes are taken modulo 256.
LEMMA ModByteRange == \A x \in Int : x % 256 \in 0..255
BY SMT

LEMMA InitTypeOK == Init => TypeOK
<1> SUFFICES ASSUME Init PROVE TypeOK
  OBVIOUS
<1>1. chan \in Seq(Chunk) /\ Len(chan) <= MaxChan /\ rd \in 0..Len(chan)
  BY DEF Init
<1>2. log_buffer \in Seq(LogEntry)
  BY DEF Init
<1>3. status \in Status
  BY DEF Init, Status, NoStatus
<1>4. fds \in [Procs -> SUBSET {"r", "w"}]
  BY DEF Init
<1>5. QED
  BY <1>1, <1>2, <1>3, <1>4 DEF Init, TypeOK, PPCs, CPCs, Results

\* A step of either process keeps the processes' state typed, whatever
\* else writes log_buffer and ui.
LEMMA StepProcTypeOK ==
    ASSUME ProcTypeOK, Parent \/ Child
    PROVE  ProcTypeOK'
<1>1. CASE Prepare
  <2>1. PICK ret \in CommandOutcomes :
            IF ret = "OK"
               THEN /\ fds' = [fds EXCEPT !["parent"] = {"r", "w"}]
                    /\ ppc' = "built"
                    /\ UNCHANGED result
               ELSE /\ ppc' = "done"
                    /\ result' = ret
                    /\ UNCHANGED fds
    BY <1>1 DEF Prepare
  <2>2. CASE ret = "OK"
    <3>1. fds' = [fds EXCEPT !["parent"] = {"r", "w"}] /\ ppc' = "built" /\ result' = result
      BY <2>1, <2>2
    <3>2. QED
      BY <1>1, <3>1 DEF Prepare, ProcTypeOK, PPCs, Procs
  <2>3. CASE ret # "OK"
    <3>1. ppc' = "done" /\ result' = ret /\ fds' = fds
      BY <2>1, <2>3
    <3>2. result' \in Results
      BY <3>1, <2>3 DEF CommandOutcomes, Results
    <3>3. QED
      BY <1>1, <3>1, <3>2 DEF Prepare, ProcTypeOK, PPCs
  <2>4. QED
    BY <2>2, <2>3
<1>2. CASE Fork
  BY <1>2 DEF Fork, ProcTypeOK, PPCs, CPCs, Procs, Results
<1>3. CASE ParentSetup
  BY <1>3 DEF ParentSetup, ProcTypeOK, PPCs, Procs
<1>4. CASE ReadLine
  <2>1. rd' = rd + 1 /\ rd + 1 <= Len(chan)
    BY <1>4 DEF ReadLine, ProcTypeOK
  <2>2. wipe_cache' \in BOOLEAN /\ retry_update' \in BOOLEAN
    BY <1>4 DEF ReadLine
  <2>3. QED
    BY <1>4, <2>1, <2>2 DEF ReadLine, ProcTypeOK
<1>5. CASE ReadMalformed
  BY <1>5 DEF ReadMalformed, ProcTypeOK, PPCs, Procs
<1>6. CASE ReadEof
  BY <1>6 DEF ReadEof, ProcTypeOK, PPCs, Procs
<1>7. CASE Reap
  BY <1>7 DEF Reap, ProcTypeOK, PPCs, CPCs, Outcome, Results
<1>8. CASE ChildExec
  <2>0. -1 \in Int
    OBVIOUS
  <2>1. (-1) % 256 \in 0..255
    BY <2>0, ModByteRange
  <2>2. [normal |-> TRUE, code |-> (-1) % 256] \in Status
    BY <2>1 DEF Status
  <2>3. CASE cpc' = "running" /\ fds' = [fds EXCEPT !["child"] = @ \ {"r"}]
                /\ UNCHANGED status
    BY <1>8, <2>3 DEF ChildExec, ProcTypeOK, CPCs, Procs
  <2>4. CASE cpc' = "exited" /\ fds' = [fds EXCEPT !["child"] = {}]
                /\ status' = [normal |-> TRUE, code |-> (-1) % 256]
    BY <1>8, <2>2, <2>4 DEF ChildExec, ProcTypeOK, CPCs, Procs
  <2>5. QED
    BY <1>8, <2>3, <2>4 DEF ChildExec
<1>9. CASE ChildWrite
  <2>1. PICK l \in Lines : /\ Len(chan) + Len(l) <= MaxChan
                            /\ chan' = chan \o l
    BY <1>9 DEF ChildWrite
  <2>2. l \in Seq(Chunk)
    BY <2>1, LinesAreChunks
  <2>3. chan' \in Seq(Chunk) /\ Len(chan') = Len(chan) + Len(l)
    BY <2>1, <2>2 DEF ProcTypeOK
  <2>4. QED
    BY <1>9, <2>1, <2>3 DEF ChildWrite, ProcTypeOK
<1>10. CASE ChildExit
  BY <1>10 DEF ChildExit, ProcTypeOK, CPCs, Procs
<1>11. QED
  BY <1>1, <1>2, <1>3, <1>4, <1>5, <1>6, <1>7, <1>8, <1>9, <1>10 DEF Parent, Child

\* The entries read_source_target_build() appends are log entries, and none
\* is the child's.
LEMMA PrepareNoChild ==
    ASSUME NEW pre \in SrcTgtLogs
    PROVE  pre \in Seq(LogEntry) /\ \A k \in 1..Len(pre) : pre[k].src # "child"
<1> DEFINE S == Meta("source_build")  T == Meta("target_build")
<1>1. PICK n \in 0..MaxBuildLines : pre \in [1..n -> {S, T}]
  BY DEF SrcTgtLogs
<1>2. S \in LogEntry /\ T \in LogEntry /\ S.src # "child" /\ T.src # "child"
  BY ConstantsAssumption DEF Meta, LogEntry
<1>3. n \in Nat
  BY DEF MaxBuildLines
<1>. QED
  BY <1>1, <1>2, <1>3

LEMMA NextTypeOK == TypeOK /\ [Next]_vars => TypeOK'
<1> SUFFICES ASSUME TypeOK, [Next]_vars PROVE TypeOK'
  OBVIOUS
<1>1. CASE Parent \/ Child
  <2>1. ProcTypeOK'
    BY <1>1, StepProcTypeOK DEF TypeOK, ProcTypeOK
  <2>2. CASE Prepare
    <3>1. PICK pre \in SrcTgtLogs : log_buffer' = pre
      BY <2>2 DEF Prepare
    <3>2. log_buffer' \in Seq(LogEntry)
      BY <3>1, PrepareNoChild
    <3>3. QED
      BY <2>1, <2>2, <3>2 DEF Prepare, TypeOK, ProcTypeOK
  <2>3. CASE ReadLine
    <3>1. [src |-> "child", line |-> rd + 1] \in LogEntry
      BY <2>3 DEF ReadLine, TypeOK, LogEntry
    <3>2. log_buffer' \in Seq(LogEntry)
      BY <2>3, <3>1 DEF ReadLine, TypeOK
    <3>3. ui' \in [reboot : BOOLEAN, background : {"installing", "none"}]
      BY <2>3 DEF ReadLine, TypeOK
    <3>4. QED
      BY <2>1, <3>2, <3>3 DEF TypeOK, ProcTypeOK
  <2>4. CASE ~Prepare /\ ~ReadLine
    <3>1. UNCHANGED <<log_buffer, ui>>
      BY <1>1, <2>4 DEF Parent, Child, Fork, ParentSetup, ReadMalformed, ReadEof, Reap,
                        ChildExec, ChildWrite, ChildExit
    <3>2. QED
      BY <2>1, <3>1 DEF TypeOK, ProcTypeOK
  <2>5. QED
    BY <2>2, <2>3, <2>4
<1>2. CASE Terminated \/ UNCHANGED vars
  BY <1>2 DEF Terminated, vars, TypeOK
<1>3. QED
  BY <1>1, <1>2 DEF Next

\* The state of the supervisor always has its type.
THEOREM TypeCorrect == Spec => []TypeOK
BY InitTypeOK, NextTypeOK, PTL DEF Spec

---------------------------------------------------------------------------

LEMMA InitIInv == Init => IInv
BY InitTypeOK DEF Init, IInv, TypeOK, ProcTypeOK, ChunksFirst, NoChildBeforeFork, ForkedAfterBuild,
   BuiltHoldsPipe, ChildHoldsWrite, NothingReadBeforeSetup, RetryTracksReads, DrainedAfterEof,
   ReapedOutcome

\* A step of either process keeps IInv, whatever else writes log_buffer
\* and ui.
LEMMA StepIInv ==
    ASSUME ShortLines, IInv, Parent \/ Child
    PROVE  IInv'
<1>0. ProcTypeOK'
  BY StepProcTypeOK DEF IInv
<1> USE DEF IInv
<1> USE DEF ChunksFirst, NoChildBeforeFork, ForkedAfterBuild, BuiltHoldsPipe,
            ChildHoldsWrite, NothingReadBeforeSetup, RetryTracksReads, DrainedAfterEof, ReapedOutcome
<1>1. CASE Prepare
  <2>1. PICK ret \in CommandOutcomes :
            IF ret = "OK"
               THEN /\ fds' = [fds EXCEPT !["parent"] = {"r", "w"}]
                    /\ ppc' = "built"
                    /\ UNCHANGED result
               ELSE /\ ppc' = "done"
                    /\ result' = ret
                    /\ UNCHANGED fds
    BY <1>1 DEF Prepare
  <2>2. ppc = "start" /\ cpc = "none" /\ UNCHANGED <<cpc, chan, rd, retry_update, status>>
    BY <1>1 DEF Prepare, ProcTypeOK
  <2>3. CASE ret = "OK"
    <3>1. fds'["parent"] = {"r", "w"} /\ ppc' = "built" /\ result' = result
      BY <2>1, <2>3 DEF ProcTypeOK, Procs
    <3>2. QED
      BY <1>0, <2>2, <3>1
  <2>4. CASE ret # "OK"
    BY <1>0, <2>1, <2>2, <2>4
  <2>5. QED
    BY <2>3, <2>4
<1>2. CASE Fork
  <2>1. CASE /\ fds' = [fds EXCEPT !["parent"] = {}]
             /\ ppc' = "done" /\ result' = "ERROR" /\ UNCHANGED cpc
    BY <1>0, <1>2, <2>1 DEF Fork, ProcTypeOK
  <2>2. CASE /\ fds' = [fds EXCEPT !["child"] = fds["parent"]]
             /\ cpc' = "forked" /\ ppc' = "forked" /\ UNCHANGED result
    BY <1>0, <1>2, <2>2 DEF Fork, ProcTypeOK
  <2>3. QED
    BY <1>2, <2>1, <2>2 DEF Fork
<1>3. CASE ParentSetup
  BY <1>0, <1>3 DEF ParentSetup, ProcTypeOK
<1>4. CASE ReadLine
  <2> DEFINE c == chan[rd + 1]
  <2>1. rd' = rd + 1 /\ rd + 1 \in 1..Len(chan) /\ UNCHANGED <<ppc, cpc, fds, chan, status, result>>
    BY <1>4 DEF ReadLine, ProcTypeOK
  <2>2. retry_update' = (retry_update \/ c.cmd = "retry_update")
    BY <1>4 DEF ReadLine
  <2>3. RetryTracksReads'
    <3>1. ppc = "reading"
      BY <1>4 DEF ReadLine
    <3>2. retry_update <=> \E i \in 1..rd : chan[i].cmd = "retry_update"
      BY <3>1
    <3>3. (\E i \in 1..rd + 1 : chan[i].cmd = "retry_update")
            <=> (\E i \in 1..rd : chan[i].cmd = "retry_update") \/ c.cmd = "retry_update"
      BY <2>1 DEF ProcTypeOK
    <3>4. QED
      BY <2>1, <2>2, <3>2, <3>3
  <2>4. DrainedAfterEof' /\ ReapedOutcome'
    BY <2>1, <1>4 DEF ReadLine
  <2>5. QED
    BY <1>0, <1>4, <2>1, <2>3, <2>4 DEF ReadLine
<1>5. CASE ReadMalformed
  BY <1>0, <1>5 DEF ReadMalformed, ProcTypeOK
<1>6. CASE ReadEof
  <2>1. ppc = "reading" /\ rd = Len(chan) /\ "w" \notin fds["child"]
    BY <1>6 DEF ReadEof, Writers, Procs
  <2>2. cpc = "exited"
    BY <2>1 DEF ProcTypeOK, CPCs
  <2>3. QED
    BY <1>0, <1>6, <2>1, <2>2 DEF ReadEof, ProcTypeOK
<1>7. CASE Reap
  BY <1>0, <1>7 DEF Reap, ProcTypeOK
<1>8. CASE ChildExec
  BY <1>0, <1>8 DEF ChildExec, ProcTypeOK
<1>9. CASE ChildWrite
  BY <1>0, <1>9 DEF ChildWrite, ProcTypeOK, ShortLines
<1>10. CASE ChildExit
  BY <1>0, <1>10 DEF ChildExit, ProcTypeOK
<1>11. QED
  BY <1>1, <1>2, <1>3, <1>4, <1>5, <1>6, <1>7, <1>8, <1>9, <1>10
     DEF Parent, Child

LEMMA NextIInv == ShortLines /\ IInv /\ [Next]_vars => IInv'
<1> SUFFICES ASSUME ShortLines, IInv, [Next]_vars PROVE IInv'
  OBVIOUS
<1>1. CASE Parent \/ Child
  BY <1>1, StepIInv
<1>2. CASE Terminated \/ UNCHANGED vars
  BY <1>2 DEF Terminated, vars, IInv, ProcTypeOK, ChunksFirst, NoChildBeforeFork,
             ForkedAfterBuild, BuiltHoldsPipe, ChildHoldsWrite, NothingReadBeforeSetup,
             RetryTracksReads, DrainedAfterEof, ReapedOutcome
<1>3. QED
  BY <1>1, <1>2 DEF Next

LEMMA IInvResultFaithful == IInv => ResultFaithful
<1> SUFFICES ASSUME IInv, ppc = "done", cpc = "reaped" PROVE result = ExpectedResult
  BY DEF ResultFaithful
<1>1. rd = Len(chan) /\ result = Outcome(retry_update, status)
  BY DEF IInv, DrainedAfterEof, ReapedOutcome
<1>2. retry_update <=> RetryRequested
  BY <1>1 DEF IInv, RetryTracksReads, ChunksFirst, RetryRequested
<1>3. CASE RetryRequested
  <2>1. result = "RETRY"
    BY <1>1, <1>2, <1>3 DEF Outcome
  <2>2. ExpectedResult = "RETRY"
    BY <1>3 DEF ExpectedResult
  <2>3. QED
    BY <2>1, <2>2
<1>4. CASE ~RetryRequested
  <2>1. ~retry_update
    BY <1>2, <1>4
  <2>2. CASE status.normal /\ status.code = 0
    <3>1. result = "SUCCESS"
      BY <1>1, <2>1, <2>2 DEF Outcome
    <3>2. ExpectedResult = "SUCCESS"
      BY <1>4, <2>2 DEF ExpectedResult
    <3>3. QED
      BY <3>1, <3>2
  <2>3. CASE ~(status.normal /\ status.code = 0)
    <3>1. result = "ERROR"
      BY <1>1, <2>1, <2>3 DEF Outcome
    <3>2. ExpectedResult = "ERROR"
      BY <1>4, <2>3 DEF ExpectedResult
    <3>3. QED
      BY <3>1, <3>2
  <2>4. QED
    BY <2>2, <2>3
<1>5. QED
  BY <1>3, <1>4

\* When every status line of the applier fits the fgets() buffer, the install
\* result always reflects the child: RETRY if it asked for a retry, else
\* SUCCESS exactly when it exited normally with 0.
THEOREM ShortLinesResultFaithful == ASSUME ShortLines PROVE Spec => []ResultFaithful
BY InitIInv, NextIInv, IInvResultFaithful, PTL DEF Spec

---------------------------------------------------------------------------

\* The parent holds no end of the pipe before it creates it, after EOF and
\* once it has returned or died.
ParentReleased == ppc \in {"start", "eof", "done", "crashed"} => fds["parent"] = {}

PInv == TypeOK /\ ParentReleased

LEMMA NextPInv == PInv /\ [Next]_vars => ParentReleased'
<1> SUFFICES ASSUME PInv, [Next]_vars PROVE ParentReleased'
  OBVIOUS
<1> USE DEF PInv, ParentReleased
<1>1. CASE Prepare
  BY <1>1 DEF Prepare
<1>2. CASE Fork
  BY <1>2 DEF Fork, TypeOK, Procs
<1>3. CASE ParentSetup
  BY <1>3 DEF ParentSetup
<1>4. CASE ReadLine
  BY <1>4 DEF ReadLine
<1>5. CASE ReadMalformed
  BY <1>5 DEF ReadMalformed, TypeOK, Procs
<1>6. CASE ReadEof
  BY <1>6 DEF ReadEof, TypeOK, Procs
<1>7. CASE Reap
  BY <1>7 DEF Reap
\* the child's steps change only the child's descriptors
<1>8. CASE Child
  <2>1. fds'["parent"] = fds["parent"] /\ ppc' = ppc
    BY <1>8 DEF Child, ChildExec, ChildWrite, ChildExit, TypeOK, Procs
  <2>2. QED
    BY <2>1
<1>9. CASE Terminated \/ UNCHANGED vars
  BY <1>9 DEF Terminated, vars
<1>10. QED
  BY <1>1, <1>2, <1>3, <1>4, <1>5, <1>6, <1>7, <1>8, <1>9 DEF Next, Parent

\* try_update_binary() returns holding no end of the status pipe, on every
\* path (failed command, failed fork, EOF), for every value of the constants.
THEOREM PipeReleasedThm == Spec => []PipeReleased
<1>1. Init => PInv
  BY InitTypeOK DEF Init, PInv, ParentReleased, Procs
<1>2. PInv /\ [Next]_vars => PInv'
  BY NextPInv, NextTypeOK DEF PInv
<1>3. PInv => PipeReleased
  BY DEF PInv, ParentReleased, PipeReleased
<1>4. QED
  BY <1>1, <1>2, <1>3, PTL DEF Spec

---------------------------------------------------------------------------

\* After the parent's setup, wipe_cache records whether a chunk read so far
\* was a wipe_cache command: ParentSetup resets it and ReadLine ors it in.
WipeTracksReads ==
    (ppc \in {"reading", "eof"} \/ cpc = "reaped") =>
        (wipe_cache <=> \E i \in 1..rd : chan[i].cmd = "wipe_cache")

\* The wipe_cache half of SideEffectsFaithful: once the child is reaped,
\* *wipe_cache is set exactly when the child asked for it, whatever the
\* caller passed in.
WipeCacheFaithful ==
    (ppc = "done" /\ cpc = "reaped") =>
        wipe_cache = \E i \in 1..Len(chan) : chan[i].first /\ chan[i].cmd = "wipe_cache"

LEMMA StepWipe ==
    ASSUME IInv, WipeTracksReads, Parent \/ Child
    PROVE  WipeTracksReads'
<1> USE DEF WipeTracksReads
<1>1. CASE Prepare \/ Fork
  \* the parent is not yet reading and no child has been reaped
  BY <1>1 DEF Prepare, Fork, IInv, ForkedAfterBuild
<1>2. CASE ParentSetup
  BY <1>2 DEF ParentSetup, IInv, NothingReadBeforeSetup
<1>3. CASE ReadLine
  <2> DEFINE c == chan[rd + 1]
  <2>1. rd' = rd + 1 /\ rd + 1 \in 1..Len(chan) /\ UNCHANGED <<ppc, chan>>
    BY <1>3 DEF ReadLine, IInv, ProcTypeOK
  <2>2. wipe_cache' = (wipe_cache \/ c.cmd = "wipe_cache") /\ ppc = "reading"
    BY <1>3 DEF ReadLine
  <2>3. (\E i \in 1..rd + 1 : chan[i].cmd = "wipe_cache")
          <=> (\E i \in 1..rd : chan[i].cmd = "wipe_cache") \/ c.cmd = "wipe_cache"
    BY <2>1 DEF IInv, ProcTypeOK
  <2>4. QED
    BY <2>1, <2>2, <2>3
<1>4. CASE ReadMalformed
  \* the parent dies; a child reaped now would have been reaped while reading
  BY <1>4 DEF ReadMalformed, IInv, ReapedOutcome
<1>5. CASE ReadEof \/ Reap
  BY <1>5 DEF ReadEof, Reap
<1>6. CASE ChildExec \/ ChildExit
  BY <1>6 DEF ChildExec, ChildExit
<1>7. CASE ChildWrite
  \* the child only appends to what the parent has not read
  <2>1. PICK l \in Lines : chan' = chan \o l
    BY <1>7 DEF ChildWrite
  <2>2. l \in Seq(Chunk) /\ chan \in Seq(Chunk) /\ rd \in 0..Len(chan)
    BY LinesAreChunks DEF IInv, ProcTypeOK
  <2>3. \A i \in 1..rd : chan'[i] = chan[i]
    BY <2>1, <2>2
  <2>4. UNCHANGED <<ppc, cpc, rd, wipe_cache>>
    BY <1>7 DEF ChildWrite
  <2>5. QED
    BY <2>3, <2>4
<1>8. QED
  BY <1>1, <1>2, <1>3, <1>4, <1>5, <1>6, <1>7 DEF Parent, Child

WInv == IInv /\ WipeTracksReads

LEMMA NextWInv == ShortLines /\ WInv /\ [Next]_vars => WInv'
<1> SUFFICES ASSUME ShortLines, WInv, [Next]_vars PROVE WInv'
  OBVIOUS
<1>1. CASE Parent \/ Child
  BY <1>1, StepIInv, StepWipe DEF WInv
<1>2. CASE Terminated \/ UNCHANGED vars
  <2>1. UNCHANGED <<ppc, cpc, chan, rd, wipe_cache>>
    BY <1>2 DEF Terminated, vars
  <2>2. QED
    BY <1>2, <2>1, NextIInv DEF WInv, WipeTracksReads
<1>3. QED
  BY <1>1, <1>2 DEF Next

LEMMA WInvWipeCacheFaithful == WInv => WipeCacheFaithful
<1> SUFFICES ASSUME WInv, ppc = "done", cpc = "reaped"
             PROVE  wipe_cache = \E i \in 1..Len(chan) : chan[i].first /\ chan[i].cmd = "wipe_cache"
  BY DEF WipeCacheFaithful
<1>1. rd = Len(chan) /\ \A i \in 1..Len(chan) : chan[i].first
  BY DEF WInv, IInv, DrainedAfterEof, ChunksFirst
<1>2. wipe_cache \in BOOLEAN
  BY DEF WInv, IInv, ProcTypeOK
<1>3. QED
  BY <1>1, <1>2 DEF WInv, WipeTracksReads

---------------------------------------------------------------------------

\* The child entries of log_buffer record, in increasing order, the lines
\* read so far, and once the parent reads they are exactly its log lines.
LogTracksReads ==
    /\ \A k \in ChildEntries : log_buffer[k].line \in 1..rd
    /\ \A k1, k2 \in ChildEntries : k1 < k2 => log_buffer[k1].line < log_buffer[k2].line
    /\ (ppc \in {"reading", "eof"} \/ cpc = "reaped") =>
          {log_buffer[k].line : k \in ChildEntries} = {i \in 1..rd : chan[i].cmd = "log"}

\* The entries read_source_target_build() writes are not the child's.
LEMMA StepLog ==
    ASSUME TypeOK, IInv, LogTracksReads, Parent \/ Child
    PROVE  LogTracksReads'
<1>1. CASE Prepare
  <2>1. PICK pre \in SrcTgtLogs : log_buffer' = pre
    BY <1>1 DEF Prepare
  <2>2. ChildEntries' = {}
    BY <2>1, PrepareNoChild DEF ChildEntries
  <2>3. ppc' \in {"built", "done"} /\ cpc' = "none"
    <3>1. PICK ret \in CommandOutcomes :
            IF ret = "OK" THEN ppc' = "built" ELSE ppc' = "done"
      BY <1>1 DEF Prepare
    <3>2. ppc = "start" /\ cpc' = cpc
      BY <1>1 DEF Prepare
    <3>3. QED
      BY <3>1, <3>2 DEF IInv, ForkedAfterBuild
  <2>4. QED
    BY <2>2, <2>3 DEF LogTracksReads
<1>2. CASE ParentSetup
  \* nothing read yet, so no child entry
  <2>1. rd = 0 /\ UNCHANGED <<rd, log_buffer>>
    BY <1>2 DEF ParentSetup, IInv, NothingReadBeforeSetup
  <2>2. ChildEntries = {}
    BY <2>1 DEF LogTracksReads
  <2>3. QED
    BY <2>1, <2>2 DEF LogTracksReads, ChildEntries
<1>3. CASE ReadLine
  <2> DEFINE c == chan[rd + 1]
             e == [src |-> "child", line |-> rd + 1]
             CE == ChildEntries
  <2>1. rd' = rd + 1 /\ rd + 1 \in 1..Len(chan) /\ UNCHANGED <<ppc, cpc, chan>>
        /\ ppc = "reading"
    BY <1>3 DEF ReadLine, TypeOK
  <2>2. {i \in 1..rd + 1 : chan[i].cmd = "log"}
          = {i \in 1..rd : chan[i].cmd = "log"} \cup (IF c.cmd = "log" THEN {rd + 1} ELSE {})
    BY <2>1 DEF TypeOK
  <2>3. CASE c.cmd = "log"
    <3>1. log_buffer' = Append(log_buffer, e)
      BY <1>3, <2>3 DEF ReadLine
    <3> DEFINE L == Len(log_buffer) + 1
    <3>2. /\ ChildEntries' = CE \cup {L}
          /\ \A k \in CE : log_buffer'[k] = log_buffer[k]
          /\ log_buffer'[L] = e
      BY <3>1 DEF ChildEntries, TypeOK
    <3>3. L \in Nat /\ \A k \in CE : k \in Nat /\ k < L
      BY DEF ChildEntries, TypeOK
    <3>4. \A k \in ChildEntries' : log_buffer'[k].line \in 1..rd'
      BY <2>1, <3>2 DEF LogTracksReads, TypeOK
    <3>5. \A k1, k2 \in ChildEntries' : k1 < k2 => log_buffer'[k1].line < log_buffer'[k2].line
      <4> SUFFICES ASSUME NEW k1 \in ChildEntries', NEW k2 \in ChildEntries', k1 < k2
                   PROVE  log_buffer'[k1].line < log_buffer'[k2].line
        OBVIOUS
      <4>1. k1 \in CE
        BY <3>2, <3>3
      <4>2. CASE k2 = L
        BY <2>1, <3>2, <4>1, <4>2 DEF LogTracksReads, TypeOK
      <4>3. CASE k2 # L
        BY <3>2, <4>1, <4>3 DEF LogTracksReads
      <4>4. QED
        BY <4>2, <4>3
    <3>6. {log_buffer'[k].line : k \in ChildEntries'}
            = {log_buffer[k].line : k \in CE} \cup {rd + 1}
      BY <3>2
    <3>7. QED
      BY <2>1, <2>2, <2>3, <3>4, <3>5, <3>6 DEF LogTracksReads
  <2>4. CASE c.cmd # "log"
    <3>1. UNCHANGED log_buffer
      BY <1>3, <2>4 DEF ReadLine
    <3>2. QED
      BY <2>1, <2>2, <2>4, <3>1 DEF LogTracksReads, ChildEntries
  <2>5. QED
    BY <2>3, <2>4
<1>4. CASE ReadMalformed
  \* the parent dies: no child was reaped while it was reading
  <2>1. ppc = "reading" /\ ppc' = "crashed" /\ rd' = rd + 1 /\ UNCHANGED <<cpc, log_buffer>>
    BY <1>4 DEF ReadMalformed
  <2>2. cpc # "reaped"
    BY <2>1 DEF IInv, ReapedOutcome
  <2>3. ChildEntries' = ChildEntries /\ rd \in Nat
    BY <2>1 DEF ChildEntries, TypeOK
  <2>4. \A k \in ChildEntries' : log_buffer'[k].line \in 1..rd'
    BY <2>1, <2>3 DEF LogTracksReads
  <2>5. QED
    BY <2>1, <2>2, <2>3, <2>4 DEF LogTracksReads
<1>5. CASE ReadEof \/ Reap
  BY <1>5 DEF ReadEof, Reap, LogTracksReads, ChildEntries
<1>6. CASE Fork
  \* the parent is not reading yet and the child is new
  <2>1. ppc = "built" /\ cpc = "none"
    BY <1>6 DEF Fork, IInv, ForkedAfterBuild
  <2>2. UNCHANGED <<chan, rd, log_buffer>> /\ ppc' \in {"done", "forked"} /\ cpc' \in {"none", "forked"}
    BY <1>6, <2>1 DEF Fork
  <2>3. QED
    BY <2>2 DEF LogTracksReads, ChildEntries
<1>9. CASE ChildExec \/ ChildExit
  \* nothing the parent reads changes, and the child is not reaped
  <2>1. UNCHANGED <<ppc, chan, rd, log_buffer>> /\ cpc' \in {"running", "exited"}
    BY <1>9 DEF ChildExec, ChildExit
  <2>2. QED
    BY <2>1 DEF LogTracksReads, ChildEntries
<1>7. CASE ChildWrite
  \* the child only appends to what the parent has not read
  <2>1. PICK l \in Lines : chan' = chan \o l
    BY <1>7 DEF ChildWrite
  <2>2. l \in Seq(Chunk) /\ chan \in Seq(Chunk) /\ rd \in 0..Len(chan)
    BY LinesAreChunks DEF TypeOK
  <2>3. \A i \in 1..rd : chan'[i] = chan[i]
    BY <2>1, <2>2
  <2>4. UNCHANGED <<ppc, cpc, rd, log_buffer>>
    BY <1>7 DEF ChildWrite
  <2>5. QED
    BY <2>3, <2>4 DEF LogTracksReads, ChildEntries
<1>8. QED
  BY <1>1, <1>2, <1>3, <1>4, <1>5, <1>6, <1>7, <1>9 DEF Parent, Child

SInv == TypeOK /\ WInv /\ LogTracksReads

LEMMA NextSInv == ShortLines /\ SInv /\ [Next]_vars => SInv'
<1> SUFFICES ASSUME ShortLines, SInv, [Next]_vars PROVE SInv'
  OBVIOUS
<1>1. TypeOK' /\ WInv'
  BY NextTypeOK, NextWInv DEF SInv
<1>2. CASE Parent \/ Child
  BY <1>1, <1>2, StepLog DEF SInv, WInv
<1>3. CASE Terminated \/ UNCHANGED vars
  <2>1. UNCHANGED <<ppc, cpc, chan, rd, log_buffer>>
    BY <1>3 DEF Terminated, vars
  <2>2. QED
    BY <1>1, <2>1 DEF SInv, LogTracksReads, ChildEntries
<1>4. QED
  BY <1>2, <1>3 DEF Next

\* When every status line of the applier fits the fgets() buffer, the side
\* effects try_update_binary() hands back after reaping the child are the
\* child's: *wipe_cache is set exactly when it sent a wipe_cache line, and
\* log_buffer has one entry for each of its log lines, in the order sent,
\* for every value of the constants.
THEOREM SideEffectsFaithfulThm == ASSUME ShortLines PROVE Spec => []SideEffectsFaithful
<1>1. Init => SInv
  <2> SUFFICES ASSUME Init PROVE SInv
    OBVIOUS
  <2>1. TypeOK /\ IInv
    BY InitTypeOK, InitIInv
  <2>2. ChildEntries = {}
    BY DEF Init, ChildEntries
  <2>3. QED
    BY <2>1, <2>2 DEF Init, SInv, WInv, WipeTracksReads, LogTracksReads
<1>2. SInv => SideEffectsFaithful
  <2> SUFFICES ASSUME SInv, ppc = "done", cpc = "reaped"
               PROVE  SideEffectsFaithful
    BY DEF SideEffectsFaithful
  <2>1. WipeCacheFaithful
    BY WInvWipeCacheFaithful DEF SInv
  <2>2. rd = Len(chan) /\ \A i \in 1..Len(chan) : chan[i].first
    BY DEF SInv, WInv, IInv, DrainedAfterEof, ChunksFirst
  <2>3. LogLinesSent = {i \in 1..rd : chan[i].cmd = "log"}
    BY <2>2 DEF LogLinesSent
  <2>4. QED
    BY <2>1, <2>3 DEF SInv, LogTracksReads, WipeCacheFaithful, SideEffectsFaithful
<1>3. QED
  BY <1>1, <1>2, NextSInv, PTL DEF Spec

=============================================================================
