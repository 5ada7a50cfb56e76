# Verification of the OTA installer and the post-boot update verifier

This directory models, model-checks and proves properties of the two
programs of this repository:

* `src/install.cpp` — the recovery-mode installer (`install_package`,
  `really_install_package`, `try_update_binary`, `update_binary_command`,
  `check_newer_ab_build`, `read_source_target_build`, `verify_package`);
* `src/update_verifier/update_verifier.cpp` — the verifier that runs on the
  first boot after an A/B slot switch (`main`, `verify_image`, `read_blocks`).

## 1. Inventory

### Components, their state and operations

| component | code | state | operations |
|---|---|---|---|
| Metadata Reader | `read_metadata_from_package`, `parse_build_number`, `read_source_target_build` (install.cpp 63–125) | none (reads the zip) | extract metadata, append `source_build`/`target_build` to `log_buffer` |
| Build/Device Gate (A/B) | `check_newer_ab_build` (140–215) | none; reads device properties | 7 ordered predicates → 0 / CORRUPT / ERROR |
| Command Builder | `update_binary_command` (217–298, two variants) | scratch file `/tmp/update_binary` (legacy) | build argv, or fail CORRUPT / ERROR |
| Child Supervisor | `try_update_binary` (301–445) | the status pipe's descriptors, `*wipe_cache`, `retry_update`, `log_buffer`, UI flags, the child's pid and wait status | pipe, fork, exec, read loop over 8 commands, EOF, waitpid, result |
| Installer Driver | `really_install_package`, `install_package`, `verify_package` (447–581) | the package mapping, the zip handle, `log_buffer`, the install log file | mount, map, verify, open, supervise, release, write log |
| Care-Map Reader | `verify_image` (109–143) | `/data/ota_package/care_map.txt` | open, read, split into 2 or 4 lines, loop over pairs |
| Block Scanner | `read_blocks` (58–107) | the block device | parse range string, seek and read each range |
| Slot Marker | `main` (145–191) | the boot control's per-slot "successful" flag (persistent), `ro.boot.veritymode` | query slot, check verity mode, scan, `markBootSuccessful` |

External collaborators (not in the repository): the UI, the signature
verifier, the zip reader, the mount helper, the key loader, the applier
binaries (`update-binary`, `update_engine_sideload`), the boot-control HAL,
the kernel's dm-verity and the bootloader.

### Interaction

The installer and the verifier never run at the same time; they interact only
through the device (the installer writes the inactive slot via the applier;
the verifier checks it on the next boot). Inside the installer the only
concurrency is between the recovery process and the forked applier: they share
the status pipe, the applier writing one command per line, the parent reading
until EOF and then reaping. Inside the verifier the concurrency is with the
kernel: in enforcing mode dm-verity restarts the device on a read of a
corrupted block, so the verifier's scan may be cut short by a reboot, and the
next boot runs it again.

### What is hard

* the interleaving of parent and applier over a bounded pipe, and the EOF
  condition (every write end closed, including the parent's own copy);
* the result's dependence on the order of checks (retry before exit status);
* line framing by a fixed 1024-byte `fgets` buffer, and lines lacking arguments;
* descriptor release on every error path (pipe, fork);
* the verifier's reliance on dm-verity enforcing mode, its restarts across
  boots, and the 32-bit arithmetic of the byte count it reads;
* the A/B gate's ordered predicates and signed 64-bit timestamp comparison.

### What makes each component correct

* Child Supervisor: the result is RETRY iff the child asked for a retry,
  else SUCCESS iff it exited normally with 0; `*wipe_cache` and the child's log
  lines reflect exactly what it wrote, in order; the pipe is released on
  every path; the call returns when the applier terminates.
* Slot Marker + Scanner + Care-Map Reader: a slot is marked successful only if
  every block the care map lists is intact (or there is no care map).
* Gate: accepts exactly the packages spec 4.2 accepts.
* Driver: the mapping and the archive are released on every path; the log
  header is path / success bit / time / retry.

The hazards (hard-to-test situations, each at its line) are listed in
`PROJECT.json` under `"hazards"`.

## 2. Plan

In order of importance:

1. **ChildSupervisor** (done) — `try_update_binary` as two processes sharing
   the pipe. Proofs in **ChildSupervisorProofs** (done: type correctness,
   the result theorem, the pipe released, the side effects: wipe_cache and
   the child's log lines in order).
2. **UpdateVerifier** (done) — `main`/`verify_image`/`read_blocks` across
   boots with dm-verity per verity mode. Proofs in **UpdateVerifierProofs**
   (done: type correctness, and `MarkedOnlyIfIntact` for care maps whose
   ranges do not wrap the byte count).
3. **AbGate** (done) — `check_newer_ab_build` as a function over bounded
   metadata and device properties, checked against the spec's reference
   gate (spec 4.2), including the INT64_MAX default. Proof in
   **AbGateProofs** (done: the gate is spec 4.2's for unpadded metadata).
4. **Installer** (done) — `install_package`, `really_install_package` and
   `verify_package`, composing ChildSupervisor and AbGate by INSTANCE.
   Proofs in **InstallerProofs** (done: resources released, no unverified
   apply, the log's result line).
5. **InstallAbstract** (done) — what an install promises; Installer
   refines it (`INSTANCE ... WITH`, checked by TLC as a PROPERTY, and
   proved in **InstallerProofs** for unpadded metadata).
6. Next: the liveness of the verifier across boots, which stays with TLC.

## 3. Modules

### ChildSupervisor (`try_update_binary`, install.cpp 301–445)

State: `ppc` (parent control point), `cpc` (child control point), `fds`
(which ends of the pipe each process holds), `chan`/`rd` (every chunk the
child wrote and how many the parent read — the pipe's contents are the unread
suffix), `wipe_cache`, `retry_update`, `log_buffer`, `status` (the wait
status), `result`, `ui` (reboot enabled, background).

A *chunk* is what one `fgets` returns: the constant `Lines` gives the lines the
applier may write, each a sequence of chunks (one for a line that fits the
buffer, two for a longer one, the second beginning with whatever word sits at
byte 1024). A command is its first token only; arguments are abstracted to
"present or not", since their values change only UI drawing.

Actions: `Prepare` (read_source_target_build — one log entry per build
line of the metadata, repeats included, up to `MaxBuildLines` = 2 lines —
pipe, update_binary_command with its outcome; closes both ends on failure), `Fork` (failure path, or the child
starts with the parent's descriptors), `ParentSetup` (close write end, reset
`*wipe_cache` and `retry_update`), `ReadLine` (dispatch of one chunk on all
commands), `ReadMalformed` (a chunk whose command reads a missing argument:
the process dies), `ReadEof` (empty pipe, no writer left; fclose), `Reap`
(waitpid and the result); for the child `ChildExec` (exec succeeds, or
`_exit(-1)` = code 255), `ChildWrite` (one line, blocking while the pipe is
full) and `ChildExit` (with any status of `ExitStatuses`).

Fairness: weak fairness of the parent (the recovery process runs) and of the
child (the applier is assumed to terminate — a hanging applier hangs
recovery; see the hazards).

### UpdateVerifier (update_verifier.cpp)

State: `vpc`, `boot`, `mode` (this boot's `ro.boot.veritymode`), `slot` (the
boot control's flag for the current slot, persistent), `care_map` and
`corrupt` (persistent, chosen initially), `part`/`pair` (loop indexes),
`read_set` (blocks read this boot).

Actions: `Start` (service, slot status — only FALSE is verified), `CheckMode`,
`OpenCareMap`, `OpenDevice` (device open and count token), `ReadRange` (one
pair: parse, bounds, the read of `ReadSize` bytes with dm-verity's reaction:
restart in enforcing mode, EIO in eio mode, success otherwise; `RangeOutcome`
orders the cases as the code and the kernel meet them: invalid pair, then a
corrupted block, then the end of the device), `FinishDevice`,
`Mark` (the HAL may fail), `Reboot` (the next boot, with a new verity mode),
`Halted`.

The byte count is `((end - start) * BLOCKSIZE) % 2^UINT_BITS` as in the
code's `unsigned int`; the MC instance scales the widths down (8-byte blocks,
5-bit unsigned) so that the wrap happens at 4 blocks, as it happens at 2^20
blocks with 4096-byte blocks and 32 bits.

### AbGate (`check_newer_ab_build`, `read_source_target_build`, `parse_build_number`; install.cpp 64–125, 140–215)

A metadata line is a key and a value, each possibly ending in whitespace
(`kpad`, `vpad`: a space or the `\r` of a CRLF file); `readable` says whether
`read_metadata_from_package` found and extracted the entry. `Lookup` is the
code's parse: split at the first `=`, nothing trimmed, the last occurrence of
a key wins, a missing key reads as `""` (what `operator[]` inserts).
`CheckNewerAbBuild` is the chain of checks in the code's order, the first
failing one deciding. Numbers are text: `NumText` gives the value of the
numeric ones, and `int64_t` is scaled to `TsMin..TsMax` with `TsMax` standing
for INT64_MAX, so that a number past it does not parse (`ParsesInt64`) and
`ro.build.date.utc` is read as `property_get_int64` reads it: strtoimax's
leading number, trailing whitespace after it ignored (a date `Pad("5")`
is 5), and `TsMax` when it is unset, has no number or is out of range
(`BuildTimestamp`). The spec's side, `SpecMeta`, trims values and, as
spec 3 says nothing of keys, matches keys untrimmed. `ReadSourceTargetBuild` gives the `source_build` and
`target_build` log entries. The one-step state machine (`GInit`, `Check`)
applies the gate to every (metadata, properties) pair of the constants.
`SpecGate` is spec 4.2's gate over spec 3's parse (values trimmed, last occurrence).

### Installer (install.cpp 217–251, 447–581) and InstallAbstract

Installer shares the supervisor's variables (`CS == INSTANCE
ChildSupervisor`) and adds `dpc` (driver control point), `pkg` (the package:
its metadata, whether its signature verifies, whether it opens as a zip, and
whether it holds `payload_properties.txt` and `payload.bin`), `mapping`
(none / mapped / released), `zip` (none / open / closed), `keys`
(`load_keys` succeeded), `dresult` and `logfile`. Actions: `SetupMounts`
(failure: ERROR), `MapFile` (background, the ignored mount, `sysMapFile`:
CORRUPT), `VerifyPackage` (keys and signature: log kZipVerificationFailure,
release, CORRUPT), `OpenArchive` (the handle is set on both outcomes, as
libziparchive does; failure: log kZipOpenFailure, release, `CloseArchive`,
CORRUPT; success: reboot disabled), `Supervise` (a parent step of the
supervisor; its `Prepare` is constrained to `ReadSourceTargetBuild` of the
package and to `UpdateBinaryCommand`, the gate followed by the two payload
lookups), `Applier` (a child step), `Finish` (reboot enabled, release,
close, the supervisor's result), `AppendUncrypt` (the uncrypt status is
appended or only warned about), `WriteLog` (the header's result line is "1"
exactly for SUCCESS; a failed write changes nothing), `Stopped`.
Fairness: weak fairness of the driver, of the supervisor's parent and of the
applier, as in ChildSupervisor.

InstallAbstract states what `install_package` promises: `Apply` (the
applier starts, at most once, only for an accepted package), `Return` (SUCCESS
or RETRY only after the applier ran, CORRUPT only if it did not), `Log` (the
result line is "1" exactly for SUCCESS, or the log is not written).
Installer's `A == INSTANCE InstallAbstract WITH ...` maps `applied` to
`cpc # "none"`, `aresult` to `dresult` once really_install_package has
returned, `alog` to the written file's result line, and `Accepted` to the
packages that are signed, open, carry the payload and pass **spec 4.2's**
gate (`SpecGate`), so the refinement also ties the code's gate to the spec's.

## 4. Runs

| run | what it shows | bounds |
|---|---|---|
| child_supervisor | TypeOK, ResultFaithful, SideEffectsFaithful, PipeReleased hold over every interleaving, with well-formed and malformed lines | 3 chunks, pipe of 2, exit 0 / 1 / signal; every command |
| child_supervisor_termination | try_update_binary returns when lines are well formed | same, well-formed lines |
| child_supervisor_long_line (violation) | a long ui_print's tail is parsed as `retry_update`, and RETRY is returned though the child never asked | one long line |
| child_supervisor_malformed (violation) | `log` or `progress` without arguments crashes recovery | malformed lines |
| update_verifier | TypeOK and MarkedOnlyIfIntact over 3 boots, 4 verity modes, 12 care maps (good and every rejected shape), 4 corruption patterns | 6-block partitions |
| update_verifier_long_range (violation) | a range that wraps the byte count is read in part, and a corrupted block past the wrap is missed while the slot is marked | range of 5 blocks, wrap at 4 |
| ab_gate | GateMatchesSpec: the code's gate agrees with spec 4.2 on 20 748 inputs | every combination of present/absent keys with 2–5 values each, repeated keys, an unreadable entry; dates absent, 5, 5 with trailing whitespace and unparsable |
| ab_gate_trim (violation) | a padded value changes the code's verdict but not the spec's | one file with a padded value (a padded key changes neither) |
| ab_gate_max_timestamp (violation) | with no build date a package at INT64_MAX is accepted without ota-downgrade | timestamps 0, 5, 9 = INT64_MAX, 10 = past it |
| installer | ResourcesReleased, NoUnverifiedApply, LogSuccessFaithful, Termination, Refinement | 6 packages (one good, one per failing check), retry / log / print / malformed lines, 2 chunks, exit 0 / 1 |
| update_verifier_invalid (violation) | an INVALID slot status exits 0 without scan or mark | as update_verifier |

Why the bounds suffice: 3 chunks let a retry, a wipe and a log line
interleave with a full pipe of 2 (the child blocks) and with each exit
status; every command appears; every error path of every step is an
enumerated outcome. For the verifier, two partitions exercise the loop over
pairs, two range pairs the loop over ranges, and 3 boots a restart followed
by a boot in another mode.

Each property of a passing run has a mutant (PROJECT.json) that a plausible
bug would make: checking the exit status before `retry_update`, dropping the
`*wipe_cache = false` reset, returning without closing the pipe, keeping the
parent's write end, exit code -1 unmasked, refusing only `eio` instead of
requiring `enforcing`, recording byte offsets as blocks, refusing an empty
serialno, not closing the archive on an open failure, ignoring a failure to
load the keys, writing "1" for any result but ERROR, not looking up
payload.bin (caught by the refinement), and the parent keeping its write end
(the installer never returns).

For the installer, the six packages let each driver step and each check of
`update_binary_command` fail on its own, and every environment outcome
(mounts, map, keys, uncrypt status, log write) is enumerated at each step; the
lines include a retry request, a log line and a line that crashes recovery,
so every result (SUCCESS, ERROR, RETRY, CORRUPT) and the crash are reached.

## 5. Findings

* install.cpp:389 — long status lines are parsed as several commands (spec
  4.4 says one command per line).
* install.cpp:397 — a status line lacking its arguments crashes recovery
  (spec 7 says malformed lines are skipped).
* update_verifier.cpp:96 — the 32-bit byte count wraps for ranges of 4 GiB or
  more, so part of the range is never read and the slot is still marked.
* install.cpp:150 — metadata values are not trimmed, so a CRLF
  metadata file is refused (spec 3 says values are trimmed).
* install.cpp:199 — with `ro.build.date.utc` unset, a package whose
  post-timestamp is exactly INT64_MAX is not a downgrade (spec 9 says the
  sentinel makes every finite timestamp one).
* update_verifier.cpp:161 — an INVALID slot status is treated as already
  marked: the verifier exits 0 without scanning (spec 4.8 says INVALID
  proceeds like FALSE or is an error).

## 6. Proofs (TLAPS)

`ChildSupervisorProofs`:

* `TypeCorrect`: `Spec => []TypeOK`, from the constant assumption
  `ConstantsAssumption` (lines are non-empty sequences of chunks, statuses
  are wait statuses, bounds are positive). Lemma `ModByteRange` gives the
  range of `x % 256` used for `_exit(-1)`.
* `ShortLinesResultFaithful`: under `ShortLines` (every line fits the
  buffer, one chunk), `Spec => []ResultFaithful`. `ResultFaithful` is not
  inductive; the strengthening `IInv` adds: every chunk starts a line; no
  child and empty pipe before the fork; the parent holds both ends between
  build and fork; a live child holds the write end (so EOF implies the child
  exited); nothing read before setup; `retry_update` equals "some chunk read
  so far is retry_update"; after EOF every chunk was read and the child
  exited; a reaped child means the result is `Outcome(retry_update, status)`.
  The proof is Init ⇒ IInv, IInv ∧ [Next] ⇒ IInv' (one step per action),
  IInv ⇒ ResultFaithful. The long-line run shows the assumption is needed.
  `IInv` types only the supervisor's own variables (`ProcTypeOK`, which
  leaves out `log_buffer` and `ui`), and its step lemma `StepIInv` is stated
  for one step of the parent or the child, so that the installer's proof
  below reuses it: the driver writes `log_buffer` and `ui` too.
* `PipeReleasedThm`: `Spec => []PipeReleased`, from `ParentReleased` (the
  parent holds no end of the pipe at "start", "eof", "done", "crashed")
  together with `TypeOK`; the fork failure and the crash close both ends.
* `SideEffectsFaithfulThm`: under `ShortLines`,
  `Spec => []SideEffectsFaithful`. The invariant `SInv` adds two facts to
  `IInv`. `WipeTracksReads`: after setup, `wipe_cache` is "some chunk read
  so far is wipe_cache"; `ParentSetup` resets the caller's value with
  nothing read, `ReadLine` ors in the chunk, and the child only appends
  past `rd`. `LogTracksReads`: every child entry of `log_buffer` names a
  line among the first `rd` chunks, and the child entries name strictly
  increasing lines. From setup on, the lines they name are exactly the
  `log` chunks read. Lemma `PrepareNoChild` says the entries
  `read_source_target_build` writes are not the child's. `ReadLine` on a
  `log` chunk appends entry `rd + 1`, which is above every earlier one. At
  EOF every chunk has been read, so the entries name every log line sent.
  `SideEffectsFaithful` used to compare two `SelectSeq` filters. It now says
  the same thing without them: the child entries' line numbers are the
  set of log lines sent, and they increase with the position. `SelectSeq`
  is a recursive function with no library lemmas, so the old form could not
  be reasoned about. TLC checked that the two forms agree on every state of
  the child_supervisor run before the change.

`UpdateVerifierProofs`:

* `TypeCorrect`: `Spec => []TypeOK`. `TypeOK` alone is not inductive: the
  read of a range indexes the care map with `part` and `pair` and adds
  blocks of `Cur.dev`, so the invariant `TInv` adds that in the states
  "device" and "range" the pair index is within the care map, and in "range"
  the device opened, its count token passed and `pair` is at most one past
  the last range. The assumptions used are `ConstantsAssumption` (care maps
  well formed, 2 or 4 lines giving 1 or 2 pairs, widths positive).
* `NoWrapMarkedOnlyIfIntact`: under `NoWrap` (every valid range spans fewer
  than `2^UINT_BITS` bytes, which on the device means under 4 GiB),
  `Spec => []MarkedOnlyIfIntact`. The strengthening `IInv` adds to `TInv`:
  every state of the scan and of marking is in enforcing mode (the mode is
  checked before the scan and fixed for the boot); every block read in this
  boot is intact (a read that met a corrupted block in enforcing mode
  restarted the device instead, lemma `OutcomeIntact`); the care-map pairs
  before `part` and the ranges before `pair` are all among the blocks read
  (lemma `NoWrapRead`: without a wrap a range read covers exactly
  `[start, end)`); reaching "mark" means there is no care map or every
  listed block was read. A reboot empties the blocks read, which is why the
  coverage facts hold per boot and only the slot's mark carries across
  boots. The long-range run shows that `NoWrap` is needed.

`AbGateProofs`:

* `GateMatchesSpecThm`: for metadata without trailing whitespace on
  values (`NoPadding`), `GSpec => []GateMatchesSpec`: the code's gate
  returns what spec 4.2's gate returns. The trim run shows the hypothesis
  is needed (the code does not trim). The invariant is `GInv` (the metadata
  and properties are of their types, plus the property); the work is the
  lemma `GateIsSpec`: `CheckNewerAbBuild(f, p) = SpecGate(f, p)`. Its
  argument: both sides match keys untrimmed, and without value padding the
  raw value is the value, so the code's `Lookup` and the spec's `SpecMeta` choose the same
  last line (lemma `LookupIsSpecMeta`, with `MaxExists` giving the last
  index through `WFMin` on the naturals); then the code's IF chain and the
  spec's "result of the first failing predicate" agree case by case on the
  first failing index (lemma `ChooseLeast` evaluates the spec's `CHOOSE`).
  The one constant fact it needs is `"" \notin DOMAIN NumText` (ParseInt
  rejects an empty string), added to `ConstantsAssumption`: the code tests
  `post = ""` before parsing, the spec only parses. Z3 cannot be given
  hypotheses that contain the empty string literal, so the steps that use
  that fact go to Zenon and the proof module does not `USE` the assumption.

`InstallerProofs`:

* `ResourcesReleasedThm`: `Spec => []ResourcesReleased`. The invariant
  `DInv` fixes what the driver holds at each control point (nothing before
  mapping; the mapping during verify and open; mapping and archive during
  supervision; neither once returned). The supervisor's and the applier's
  steps leave the driver's variables unchanged, so only the driver's seven
  actions need an argument each.
* `NoUnverifiedApplyThm`: `Spec => []NoUnverifiedApply`. `AInv` adds to
  `DInv`: in "open" and "supervise" the keys loaded and the signature
  verified, in "supervise" the package opened; the supervisor leaves its
  start only while the driver is in "supervise" (and `keys` is not changed
  after verification); before that its result is "none" and there is no
  child; from "built" to "eof", and whenever there is a child,
  `update_binary_command` succeeded. The delicate step is `Prepare`: when
  the command fails the supervisor's `result'` is the failure code, which
  is not "none" (lemma `CommandValues`), so the "OK" branch of the
  supervisor's choice is excluded and the parent cannot reach "built".
* `RefinementThm`: for packages whose metadata has no padding,
  `Spec => Refinement`, i.e. the driver implements `InstallAbstract` under
  the mapping of `Installer`'s `A`. `RInv` adds to `AInv`: no child before
  the fork; once the supervisor returned, a forked child has been reaped
  and its result is one of `Outcomes(forked)`; the same of the driver's
  result once it has it; the log is written only in the last step. Then
  `Init` maps to `A!Init` and each step maps to an abstract step or a
  stutter (`RefinementStep`); the fork is `A!Apply`, whose guard is that
  the package is in `Accepted` — which holds because the command succeeded
  (lemma `CommandAccepted`, which rests on `GateIsSpec` of `AbGateProofs`
  through an instance `GP`; lemma `SameGate` shows that `G` and `GP` name
  the same operators).
* `LogSuccessFaithfulThm`: under `ShortLines`, `Spec => []LogSuccessFaithful`.
  `LInv` is `RInv`, the supervisor's `IInv` (through an instance `CSP` of
  `ChildSupervisorProofs`, whose `StepIInv` covers the supervisor's and the
  applier's steps; lemma `SameSupervisor` shows that `CS` and `CSP` name the
  same actions, and the driver's steps leave `IInv` unchanged), `HandedOver`
  (once really_install_package() returned, the supervisor is either still at
  its start or returned with the driver's result) and `LogRecordsResult`
  (the log says "1" exactly for INSTALL_SUCCESS). A reaped child gives the
  driver the supervisor's result, which `IInv` makes the expected one; with
  no child the driver's result is ERROR or CORRUPT.

Constant assumptions: `AbGate`'s and `ChildSupervisor`'s
`ConstantsAssumption`, and `Installer`'s `InstallerAssumption` (the packages
and properties are of their types; the gate's and the supervisor's
assumptions hold for the constants the installer passes on), all evaluated
by TLC on every run.

Only model-checked (out of the prover's reach):

* `Termination` of the supervisor and of the installer: liveness under
  fairness needs ENABLED and temporal reasoning the installed provers do not
  do.
* Every property for long status lines (the theorems assume `ShortLines`),
  and `GateMatchesSpec` for padded metadata: both are violated there, which
  the long-line and trim runs show.
* The violation runs (`AbsentDateIsDowngrade`, `SuccessOnlyIfMarked`) and
  the mutants.

## 7. Not modelled

* The UI drawing (progress values, printed text), the argument vectors, the
  signature algorithm, the zip format, the log's path, time and retry lines,
  and the kernel beyond dm-verity's reaction to a corrupted read are data or
  external code; the bootloader's slot fallback after repeated failures is
  external.
* The legacy `update_binary_command` (extracting the embedded applier to
  `/tmp/update_binary`) belongs to the other build configuration; the
  modules follow the A/B build.
* A failing `pipe()` (install.cpp:309) leaves `pipefd` uninitialised: what
  follows depends on stack contents, so no justified outcome set exists and
  `Prepare` models a successful `pipe()`.
* A hanging applier (no timeout at install.cpp:435) is outside the fairness
  assumed for `Termination`.
