-------------------------- MODULE ChildSupervisor --------------------------
(***************************************************************************)
(* The child supervisor of the installer: try_update_binary() in           *)
(* src/install.cpp.  The recovery process (the parent) creates a pipe,     *)
(* builds the applier's command line, forks the update applier (the        *)
(* child), reads the child's status lines off the pipe until EOF, then     *)
(* reaps the child and computes the install result.                       *)
(*                                                                         *)
(* The pipe is an immutable history: chan holds every chunk the child has  *)
(* written, rd counts the chunks the parent has read; the unread suffix is *)
(* the pipe's contents.  A chunk is what one fgets() call returns: a line *)
(* of the child, or, for a line longer than the 1024-byte buffer, one of   *)
(* its pieces (first = FALSE for every piece but the first).               *)
(***************************************************************************)
EXTENDS Integers, Sequences, FiniteSets

CONSTANTS
    Lines,          \* the lines the applier may write, each a sequence of chunks
    ExitStatuses,   \* the wait statuses the applier may end with
    MaxChan,        \* bound on the number of chunks the child writes
    PipeCap         \* capacity of the pipe, in chunks

\* The first token of a status line, as strtok(buffer, " \n") returns it:
\* "" is a blank line (strtok returns NULL), "other" an unknown command.
Words == {"progress", "set_progress", "ui_print", "wipe_cache",
          "clear_display", "enable_reboot", "retry_update", "log", "", "other"}

\* args: the arguments the command reads with strtok(NULL, ...) are present.
Chunk == [cmd : Words, args : BOOLEAN, first : BOOLEAN]

\* A wait status: normal is WIFEXITED, code is WEXITSTATUS.
Status == [normal : BOOLEAN, code : 0..255]
NoStatus == [normal |-> FALSE, code |-> 0]

ASSUME ConstantsAssumption ==
    /\ Lines \subseteq Seq(Chunk) \ {<<>>}
    /\ \A l \in Lines : l[1].first /\ \A i \in 2..Len(l) : ~l[i].first
    /\ ExitStatuses \subseteq Status
    /\ MaxChan \in Nat \ {0}
    /\ PipeCap \in Nat \ {0}

\* The install results of install.h and the outcomes of update_binary_command().
Results == {"SUCCESS", "ERROR", "CORRUPT", "RETRY"}
CommandOutcomes == {"OK", "CORRUPT", "ERROR"}

\* A log entry names its origin; a child entry also the index in chan of the
\* "log" chunk it came from.
LogEntry == [src : {"source_build", "target_build", "child"}, line : 0..MaxChan]
Meta(k) == [src |-> k, line |-> 0]

\* What read_source_target_build() may append to log_buffer: one entry per
\* parsable pre-/post-build-incremental line of the metadata, in file order,
\* repeated lines included; the metadata has at most MaxBuildLines of them.
MaxBuildLines == 2
SrcTgtLogs ==
    UNION {[1..n -> {Meta("source_build"), Meta("target_build")}] : n \in 0..MaxBuildLines}

Procs == {"parent", "child"}

VARIABLES
    ppc,            \* parent control point
    cpc,            \* child control point
    fds,            \* fds[p]: the ends of the status pipe process p holds open
    chan, rd,       \* chunks written to the pipe, and how many were read
    wipe_cache,     \* the caller's *wipe_cache out-parameter
    retry_update,
    log_buffer,
    status,         \* the child's wait status once it exited
    result,
    ui              \* the UI state the status commands change

vars == <<ppc, cpc, fds, chan, rd, wipe_cache, retry_update, log_buffer,
          status, result, ui>>

PPCs == {"start", "built", "forked", "reading", "eof", "done", "crashed"}
CPCs == {"none", "forked", "running", "exited", "reaped"}

\* The ends of the pipe still open for writing, in any process.
Writers == {p \in Procs : "w" \in fds[p]}

\* The chunks in the pipe that the parent has not read yet.
Unread == Len(chan) - rd

Init ==
    /\ ppc = "start"
    /\ cpc = "none"
    /\ fds = [p \in Procs |-> {}]
    /\ chan = <<>>
    /\ rd = 0
    /\ wipe_cache \in BOOLEAN      \* left as the caller set it until the fork
    /\ retry_update = FALSE
    /\ log_buffer = <<>>
    /\ status = NoStatus
    /\ result = "none"
    \* really_install_package() sets the background and disables reboot first
    /\ ui = [reboot |-> FALSE, background |-> "installing"]

---------------------------------------------------------------------------
(* Parent *)

\* Mutant of Prepare: the failure path returns without closing the pipe.
Prepare_LeakOnFailure ==
    /\ ppc = "start"
    /\ \E pre \in SrcTgtLogs, ret \in CommandOutcomes :
          /\ log_buffer' = pre
          /\ fds' = [fds EXCEPT !["parent"] = {"r", "w"}]
          /\ ppc' = IF ret = "OK" THEN "built" ELSE "done"
          /\ result' = IF ret = "OK" THEN result ELSE ret
    /\ UNCHANGED <<cpc, chan, rd, wipe_cache, retry_update, status, ui>>

\* read_source_target_build(), pipe(), update_binary_command(); on a
\* failing command both ends are closed again and its code returned.
Prepare ==
    /\ ppc = "start"
    /\ \E pre \in SrcTgtLogs, ret \in CommandOutcomes :
          /\ log_buffer' = pre
          /\ IF ret = "OK"
                THEN /\ fds' = [fds EXCEPT !["parent"] = {"r", "w"}]
                     /\ ppc' = "built"
                     /\ UNCHANGED result
                ELSE /\ ppc' = "done"
                     /\ result' = ret
                     /\ UNCHANGED fds
    /\ UNCHANGED <<cpc, chan, rd, wipe_cache, retry_update, status, ui>>

\* fork(): on failure close both ends and return INSTALL_ERROR; otherwise the
\* child starts with a copy of the parent's descriptors.
Fork ==
    /\ ppc = "built"
    /\ \/ /\ fds' = [fds EXCEPT !["parent"] = {}]
          /\ ppc' = "done"
          /\ result' = "ERROR"
          /\ UNCHANGED cpc
       \/ /\ fds' = [fds EXCEPT !["child"] = fds["parent"]]
          /\ cpc' = "forked"
          /\ ppc' = "forked"
          /\ UNCHANGED result
    /\ UNCHANGED <<chan, rd, wipe_cache, retry_update, log_buffer, status, ui>>

\* Mutant of ParentSetup: *wipe_cache keeps the caller's value.
ParentSetup_NoWipeReset ==
    /\ ppc = "forked"
    /\ fds' = [fds EXCEPT !["parent"] = @ \ {"w"}]
    /\ retry_update' = FALSE
    /\ ppc' = "reading"
    /\ UNCHANGED <<cpc, chan, rd, wipe_cache, log_buffer, status, result, ui>>

\* Mutant of ParentSetup: the parent keeps its copy of the write end.
ParentSetup_KeepWriteEnd ==
    /\ ppc = "forked"
    /\ wipe_cache' = FALSE
    /\ retry_update' = FALSE
    /\ ppc' = "reading"
    /\ UNCHANGED <<cpc, fds, chan, rd, log_buffer, status, result, ui>>

\* close(pipefd[1]); *wipe_cache = false; retry_update = false; fdopen().
ParentSetup ==
    /\ ppc = "forked"
    /\ fds' = [fds EXCEPT !["parent"] = @ \ {"w"}]
    /\ wipe_cache' = FALSE
    /\ retry_update' = FALSE
    /\ ppc' = "reading"
    /\ UNCHANGED <<cpc, chan, rd, log_buffer, status, result, ui>>

\* strtof/strtol/std::string applied to the NULL that strtok returns when a
\* progress, set_progress or log line lacks its arguments: the parent dies.
Malformed(c) == c.cmd \in {"progress", "set_progress", "log"} /\ ~c.args

\* One fgets() that returns a chunk, dispatched on its first token.
ReadLine ==
    /\ ppc = "reading"
    /\ rd < Len(chan)
    /\ LET c == chan[rd + 1] IN
         /\ ~Malformed(c)
         /\ rd' = rd + 1
         /\ wipe_cache' = (wipe_cache \/ c.cmd = "wipe_cache")
         /\ retry_update' = (retry_update \/ c.cmd = "retry_update")
         /\ log_buffer' = IF c.cmd = "log" THEN Append(log_buffer, [src |-> "child", line |-> rd + 1])
                                           ELSE log_buffer
         /\ ui' = [ui EXCEPT !.reboot = @ \/ c.cmd = "enable_reboot",
                             !.background = IF c.cmd = "clear_display"
                                            THEN "none" ELSE @]
    /\ UNCHANGED <<ppc, cpc, fds, chan, status, result>>

\* A malformed chunk: the recovery process crashes and the kernel closes
\* its descriptors.
ReadMalformed ==
    /\ ppc = "reading"
    /\ rd < Len(chan)
    /\ Malformed(chan[rd + 1])
    /\ rd' = rd + 1
    /\ ppc' = "crashed"
    /\ fds' = [fds EXCEPT !["parent"] = {}]
    /\ UNCHANGED <<cpc, chan, wipe_cache, retry_update, log_buffer, status, result, ui>>

\* fgets() returns NULL: the pipe is empty and no write end is open; fclose().
ReadEof ==
    /\ ppc = "reading"
    /\ rd = Len(chan)
    /\ Writers = {}
    /\ fds' = [fds EXCEPT !["parent"] = {}]
    /\ ppc' = "eof"
    /\ UNCHANGED <<cpc, chan, rd, wipe_cache, retry_update, log_buffer, status, result, ui>>

\* Mutant of Outcome: the exit status is checked before retry_update.
Outcome_ExitFirst(retry, s) ==
    IF ~s.normal \/ s.code # 0 THEN "ERROR"
    ELSE IF retry THEN "RETRY"
    ELSE "SUCCESS"

\* The status waitpid() returns mapped to the install result.
Outcome(retry, s) ==
    IF retry THEN "RETRY"
    ELSE IF ~s.normal \/ s.code # 0 THEN "ERROR"
    ELSE "SUCCESS"

\* waitpid() blocks until the child has exited.
Reap ==
    /\ ppc = "eof"
    /\ cpc = "exited"
    /\ cpc' = "reaped"
    /\ result' = Outcome(retry_update, status)
    /\ ppc' = "done"
    /\ UNCHANGED <<fds, chan, rd, wipe_cache, retry_update, log_buffer, status, ui>>

---------------------------------------------------------------------------
(* Child: the forked process and the applier it becomes *)

\* Mutant of ChildExec: the exit code of _exit(-1) taken as -1.
ChildExec_Unmasked ==
    /\ cpc = "forked"
    /\ \/ /\ cpc' = "running"
          /\ fds' = [fds EXCEPT !["child"] = @ \ {"r"}]
          /\ UNCHANGED status
       \/ /\ cpc' = "exited"
          /\ fds' = [fds EXCEPT !["child"] = {}]
          /\ status' = [normal |-> TRUE, code |-> -1]
    /\ UNCHANGED <<ppc, chan, rd, wipe_cache, retry_update, log_buffer, result, ui>>

\* umask(022); close(pipefd[0]); execv().  A failed exec prints to stdout
\* and calls _exit(-1), i.e. exit code 255.
ChildExec ==
    /\ cpc = "forked"
    /\ \/ /\ cpc' = "running"
          /\ fds' = [fds EXCEPT !["child"] = @ \ {"r"}]
          /\ UNCHANGED status
       \/ /\ cpc' = "exited"
          /\ fds' = [fds EXCEPT !["child"] = {}]
          /\ status' = [normal |-> TRUE, code |-> (-1) % 256]
    /\ UNCHANGED <<ppc, chan, rd, wipe_cache, retry_update, log_buffer, result, ui>>

\* The applier writes one status line; it blocks while the pipe is full.
ChildWrite ==
    /\ cpc = "running"
    /\ "r" \in fds["parent"]
    /\ \E l \in Lines :
          /\ Len(chan) + Len(l) <= MaxChan
          /\ Unread + Len(l) <= PipeCap
          /\ chan' = chan \o l
    /\ UNCHANGED <<ppc, cpc, fds, rd, wipe_cache, retry_update, log_buffer, status, result, ui>>

\* The applier exits; the kernel closes its descriptors.
ChildExit ==
    /\ cpc = "running"
    /\ \E s \in ExitStatuses : status' = s
    /\ cpc' = "exited"
    /\ fds' = [fds EXCEPT !["child"] = {}]
    /\ UNCHANGED <<ppc, chan, rd, wipe_cache, retry_update, log_buffer, result, ui>>

---------------------------------------------------------------------------

\* try_update_binary() has returned, or the parent has died.
Terminated ==
    /\ ppc \in {"done", "crashed"}
    /\ UNCHANGED vars

Parent == Prepare \/ Fork \/ ParentSetup \/ ReadLine \/ ReadMalformed \/ ReadEof \/ Reap
Child == ChildExec \/ ChildWrite \/ ChildExit

Next == Parent \/ Child \/ Terminated

\* Both processes keep running: the parent is the recovery process, and the
\* applier is assumed to terminate.
Fairness == WF_vars(Parent) /\ WF_vars(Child)

Spec == Init /\ [][Next]_vars /\ Fairness

---------------------------------------------------------------------------

TypeOK ==
    /\ ppc \in PPCs
    /\ cpc \in CPCs
    /\ fds \in [Procs -> SUBSET {"r", "w"}]
    /\ chan \in Seq(Chunk)
    /\ Len(chan) <= MaxChan
    /\ rd \in 0..Len(chan)
    /\ wipe_cache \in BOOLEAN
    /\ retry_update \in BOOLEAN
    /\ log_buffer \in Seq(LogEntry)
    /\ status \in Status
    /\ result \in Results \cup {"none"}
    /\ ui \in [reboot : BOOLEAN, background : {"installing", "none"}]

\* The child asked for a retry: one of its lines begins with retry_update.
RetryRequested == \E i \in 1..Len(chan) : chan[i].first /\ chan[i].cmd = "retry_update"

\* The result the spec promises for what the child did (spec 4.4).
ExpectedResult ==
    CASE RetryRequested                                      -> "RETRY"
      [] ~RetryRequested /\ status.normal /\ status.code = 0  -> "SUCCESS"
      [] OTHER                                               -> "ERROR"

\* Once the parent has reaped the child, the install result is RETRY when any
\* line the child wrote asked for a retry, whatever its exit status, and
\* otherwise SUCCESS exactly when the applier exited normally with 0
\* (try_update_binary: the read loop, waitpid and the status checks).
ResultFaithful ==
    (ppc = "done" /\ cpc = "reaped") => result = ExpectedResult

\* The indexes in chan of the chunks that begin a log line of the child.
LogLinesSent == {i \in 1..Len(chan) : chan[i].first /\ chan[i].cmd = "log"}

\* The positions in log_buffer of the entries for the child's log lines.
ChildEntries == {k \in 1..Len(log_buffer) : log_buffer[k].src = "child"}

\* Once the child is reaped, *wipe_cache is set exactly when the child asked
\* for it, whatever the caller passed in, and log_buffer holds one entry per
\* log line of the child, in the order the child wrote them: the child
\* entries name exactly the log lines sent, in increasing order.
SideEffectsFaithful ==
    (ppc = "done" /\ cpc = "reaped") =>
        /\ wipe_cache = \E i \in 1..Len(chan) : chan[i].first /\ chan[i].cmd = "wipe_cache"
        /\ {log_buffer[k].line : k \in ChildEntries} = LogLinesSent
        /\ \A k1, k2 \in ChildEntries : k1 < k2 => log_buffer[k1].line < log_buffer[k2].line

\* When try_update_binary() returns, the parent holds no end of the status
\* pipe, on every return path (command failure, fork failure, EOF).
PipeReleased == ppc = "done" => fds["parent"] = {}

\* try_update_binary() returns: the parent sees EOF once the applier exits
\* and then reaps it, which needs the parent's own write end closed.
Termination == <>(ppc = "done")

=============================================================================
