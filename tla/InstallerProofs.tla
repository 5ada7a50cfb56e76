---------------------------- MODULE InstallerProofs ----------------------------
(***************************************************************************)
(* Proofs about the installer driver, for every value of the constants:    *)
(* the package mapping and the archive handle are released on every path  *)
(* out of really_install_package(), and the update applier is forked only  *)
(* for a package that passed every check before it.                        *)
(***************************************************************************)
EXTENDS Installer, TLAPS

\* The supervisor's proofs, for the supervisor inside the driver.
CSP == INSTANCE ChildSupervisorProofs

\* The gate's proofs, for the package's metadata and the device's properties.
GP == INSTANCE AbGateProofs WITH Metadatas <- {p.meta : p \in Packages},
                                 PropSets <- {DeviceProps},
                                 md <- pkg.meta, pr <- DeviceProps, ret <- "none"

DPCs == {"start", "map", "verify", "open", "supervise", "uncrypt", "write", "done"}

\* The resources the driver holds at each of its control points.
DInv ==
    /\ dpc \in DPCs
    /\ dpc \in {"start", "map"} => mapping = "none" /\ zip = "none"
    /\ dpc \in {"verify", "open"} => mapping = "mapped" /\ zip = "none"
    /\ dpc = "supervise" => mapping = "mapped" /\ zip = "open"
    /\ dpc \in {"uncrypt", "write", "done"} => mapping # "mapped" /\ zip # "open"

\* The checks passed before each state of the supervisor: the supervisor
\* leaves its start only inside the "supervise" step of the driver, which
\* follows a successful verification and open; it builds a command, and
\* later forks, only when update_binary_command() succeeded.
AInv ==
    /\ DInv
    /\ dpc \in {"open", "supervise"} => keys /\ pkg.signed
    /\ dpc = "supervise" => pkg.opens
    /\ ppc # "start" => /\ dpc \in {"supervise", "uncrypt", "write", "done"}
                        /\ keys /\ pkg.signed /\ pkg.opens
    /\ ppc = "start" => result = "none" /\ cpc = "none"
    /\ ppc \in {"built", "forked", "reading", "eof"} => UpdateBinaryCommand(pkg) = "OK"
    /\ cpc # "none" => UpdateBinaryCommand(pkg) = "OK"

\* update_binary_command() returns 0 or one of the two failure codes.
LEMMA CommandValues ==
    ASSUME NEW p
    PROVE  UpdateBinaryCommand(p) \in {"OK", "CORRUPT", "ERROR"}
BY DEF UpdateBinaryCommand, G!CheckNewerAbBuild

LEMMA InitAInv == Init => AInv
BY DEF Init, AInv, DInv, DPCs

\* The driver's steps preserve DInv; the supervisor's and the applier's
\* leave the driver's variables alone.
LEMMA NextDInv == DInv /\ [Next]_vars => DInv'
<1> SUFFICES ASSUME DInv, [Next]_vars PROVE DInv'
    OBVIOUS
<1>1. CASE SetupMounts
  BY <1>1 DEF SetupMounts, DInv, DPCs
<1>2. CASE MapFile
  BY <1>2 DEF MapFile, DInv, DPCs
<1>3. CASE VerifyPackage
  BY <1>3 DEF VerifyPackage, DInv, DPCs
<1>4. CASE OpenArchive
  BY <1>4 DEF OpenArchive, DInv, DPCs
<1>5. CASE Finish
  BY <1>5 DEF Finish, DInv, DPCs
<1>6. CASE AppendUncrypt
  BY <1>6 DEF AppendUncrypt, DInv, DPCs
<1>7. CASE WriteLog
  BY <1>7 DEF WriteLog, DInv, DPCs
<1>8. CASE Supervise
  BY <1>8 DEF Supervise, dvars, DInv, DPCs
<1>9. CASE Applier
  BY <1>9 DEF Applier, dvars, DInv, DPCs
<1>10. CASE Stopped \/ UNCHANGED vars
  BY <1>10 DEF Stopped, vars, csvars, dvars, DInv, DPCs
<1>11. QED
  BY <1>1, <1>2, <1>3, <1>4, <1>5, <1>6, <1>7, <1>8, <1>9, <1>10
     DEF Next, Driver

\* When really_install_package() has returned, on any path, the package
\* mapping is released and the archive handle closed (or never opened).
THEOREM ResourcesReleasedThm == Spec => []ResourcesReleased
<1>1. Init => DInv
  BY InitAInv DEF AInv
<1>2. DInv /\ [Next]_vars => DInv'
  BY NextDInv
<1>3. DInv => ResourcesReleased
  BY DEF DInv, ResourcesReleased
<1>4. QED
  BY <1>1, <1>2, <1>3, PTL DEF Spec


\* The applier's steps change neither the supervisor's parent nor the
\* driver, and need a child.
LEMMA ApplierStep ==
    ASSUME AInv, Applier
    PROVE  /\ cpc # "none" /\ cpc' # "none"
           /\ UNCHANGED <<ppc, result, dvars>>
BY DEF Applier, CS!Child, CS!ChildExec, CS!ChildWrite, CS!ChildExit

\* A step of the supervisor's parent keeps the driver and the child's
\* existence, apart from the fork and the first step out of "start".
LEMMA SuperviseStep ==
    ASSUME AInv, Supervise
    PROVE  /\ dpc = "supervise" /\ UNCHANGED dvars
           /\ \/ Prepare
              \/ CS!Fork
              \/ /\ ppc \in {"forked", "reading", "eof"}
                 /\ ppc' \in {"reading", "eof", "crashed", "done"}
                 /\ cpc # "none" <=> cpc' # "none"
BY DEF Supervise, CS!ParentSetup, CS!ReadLine, CS!ReadMalformed, CS!ReadEof, CS!Reap

LEMMA NextAInv == AInv /\ [Next]_vars => AInv'
<1> SUFFICES ASSUME AInv, [Next]_vars PROVE AInv'
    OBVIOUS
<1>0. DInv'
  BY NextDInv DEF AInv
<1> DEFINE cmd == UpdateBinaryCommand(pkg)
<1>1. CASE SetupMounts
  BY <1>0, <1>1 DEF SetupMounts, AInv, csvars
<1>2. CASE MapFile
  BY <1>0, <1>2 DEF MapFile, AInv
<1>3. CASE VerifyPackage
  BY <1>0, <1>3 DEF VerifyPackage, AInv
<1>4. CASE OpenArchive
  BY <1>0, <1>4 DEF OpenArchive, AInv
<1>5. CASE Finish
  BY <1>0, <1>5 DEF Finish, AInv
<1>6. CASE AppendUncrypt
  BY <1>0, <1>6 DEF AppendUncrypt, AInv
<1>7. CASE WriteLog
  BY <1>0, <1>7 DEF WriteLog, AInv, csvars
<1>8. CASE Supervise
  <2>1. dpc = "supervise" /\ UNCHANGED dvars
    BY <1>8, SuperviseStep
  <2>2. /\ keys /\ pkg.signed /\ pkg.opens
        /\ keys' /\ pkg'.signed /\ pkg'.opens /\ dpc' = "supervise"
        /\ cmd' = cmd
    BY <2>1 DEF AInv, dvars
  <2>3. CASE Prepare
    <3>1. ppc = "start" /\ result = "none" /\ cpc = "none" /\ cpc' = "none"
      BY <2>3 DEF Prepare, CS!Prepare, AInv
    <3>2. cmd \in {"OK", "CORRUPT", "ERROR"}
      BY CommandValues
    <3>3. ppc' \in {"built", "forked", "reading", "eof"} => cmd = "OK"
      BY <2>3, <3>1, <3>2 DEF Prepare, CS!Prepare
    <3>4. ppc' # "start"
      BY <2>3 DEF Prepare, CS!Prepare
    <3>5. QED
      BY <1>0, <2>2, <3>1, <3>3, <3>4 DEF AInv
  <2>4. CASE CS!Fork
    <3>1. ppc = "built" /\ ppc' \in {"done", "forked"}
      BY <2>4 DEF CS!Fork
    <3>2. cmd = "OK"
      BY <3>1 DEF AInv
    <3>3. QED
      BY <1>0, <2>2, <3>1, <3>2 DEF AInv
  <2>5. CASE /\ ppc \in {"forked", "reading", "eof"}
             /\ ppc' \in {"reading", "eof", "crashed", "done"}
             /\ cpc # "none" <=> cpc' # "none"
    <3>1. cmd = "OK"
      BY <2>5 DEF AInv
    <3>2. QED
      BY <1>0, <2>2, <2>5, <3>1 DEF AInv
  <2>6. QED
    BY <1>8, <2>3, <2>4, <2>5, SuperviseStep
<1>9. CASE Applier
  <2>1. /\ cpc # "none" /\ cpc' # "none"
        /\ UNCHANGED <<ppc, result, dvars>>
    BY <1>9, ApplierStep
  <2>2. cmd' = cmd
    BY <2>1 DEF dvars
  <2>3. QED
    BY <1>0, <2>1, <2>2 DEF AInv, dvars
<1>10. CASE Stopped \/ UNCHANGED vars
  BY <1>0, <1>10 DEF Stopped, vars, csvars, dvars, AInv
<1>11. QED
  BY <1>1, <1>2, <1>3, <1>4, <1>5, <1>6, <1>7, <1>8, <1>9, <1>10
     DEF Next, Driver

\* The update applier is forked only for a package whose keys loaded, whose
\* signature verified, that opened as an archive, and for which
\* update_binary_command() succeeded (the device gate and the payload).
THEOREM NoUnverifiedApplyThm == Spec => []NoUnverifiedApply
<1>1. Init => AInv
  BY InitAInv
<1>2. AInv /\ [Next]_vars => AInv'
  BY NextAInv
<1>3. AInv => NoUnverifiedApply
  BY DEF AInv, NoUnverifiedApply
<1>4. QED
  BY <1>1, <1>2, <1>3, PTL DEF Spec

\* The two instances of the supervisor's module name the same steps.
LEMMA SameSupervisor ==
    /\ CS!Prepare <=> CSP!Prepare
    /\ CS!Fork <=> CSP!Fork
    /\ CS!ParentSetup <=> CSP!ParentSetup
    /\ CS!ReadLine <=> CSP!ReadLine
    /\ CS!ReadMalformed <=> CSP!ReadMalformed
    /\ CS!ReadEof <=> CSP!ReadEof
    /\ CS!Reap <=> CSP!Reap
    /\ CS!Child <=> CSP!Child
    /\ CS!ExpectedResult = CSP!ExpectedResult
<1>1. CS!Prepare <=> CSP!Prepare
  BY DEF CS!Prepare, CSP!Prepare, CS!SrcTgtLogs, CSP!SrcTgtLogs, CS!Meta, CSP!Meta, CS!MaxBuildLines, CSP!MaxBuildLines, CS!CommandOutcomes, CSP!CommandOutcomes
<1>2. CS!Fork <=> CSP!Fork
  BY DEF CS!Fork, CSP!Fork
<1>3. CS!ParentSetup <=> CSP!ParentSetup
  BY DEF CS!ParentSetup, CSP!ParentSetup
<1>4. CS!ReadLine <=> CSP!ReadLine
  BY DEF CS!ReadLine, CSP!ReadLine, CS!Malformed, CSP!Malformed
<1>5. CS!ReadMalformed <=> CSP!ReadMalformed
  BY DEF CS!ReadMalformed, CSP!ReadMalformed, CS!Malformed, CSP!Malformed
<1>6. CS!ReadEof <=> CSP!ReadEof
  BY DEF CS!ReadEof, CSP!ReadEof, CS!Writers, CSP!Writers, CS!Unread, CSP!Unread, CS!Procs, CSP!Procs
<1>7. CS!Reap <=> CSP!Reap
  BY DEF CS!Reap, CSP!Reap, CS!Outcome, CSP!Outcome, CS!Writers, CSP!Writers, CS!Unread, CSP!Unread, CS!Procs, CSP!Procs
<1>8. CS!Child <=> CSP!Child
  BY DEF CS!Child, CSP!Child, CS!ChildExec, CSP!ChildExec, CS!ChildWrite, CSP!ChildWrite,
         CS!ChildExit, CSP!ChildExit, CS!Unread, CSP!Unread, CS!Procs, CSP!Procs
<1>9. CS!ExpectedResult = CSP!ExpectedResult
  BY DEF CS!ExpectedResult, CSP!ExpectedResult, CS!RetryRequested, CSP!RetryRequested
<1>10. QED
  BY <1>1, <1>2, <1>3, <1>4, <1>5, <1>6, <1>7, <1>8, <1>9

\* The two instances of the gate's module name the same operators.
LEMMA SameGate ==
    ASSUME NEW f, NEW q
    PROVE  /\ G!CheckNewerAbBuild(f, q) = GP!CheckNewerAbBuild(f, q)
           /\ G!SpecGate(f, q) = GP!SpecGate(f, q)
           /\ G!Metadata = GP!Metadata
           /\ G!Props = GP!Props
<1>1. G!CheckNewerAbBuild(f, q) = GP!CheckNewerAbBuild(f, q)
  BY Zenon DEF G!CheckNewerAbBuild, GP!CheckNewerAbBuild, G!Lookup, GP!Lookup, G!RawKey, GP!RawKey, G!RawVal, GP!RawVal, G!Pad, GP!Pad, G!ParsesInt64, GP!ParsesInt64, G!BuildTimestamp, GP!BuildTimestamp
<1>2. G!SpecGate(f, q) = GP!SpecGate(f, q)
  BY Zenon DEF G!SpecGate, GP!SpecGate, G!SpecPredicates, GP!SpecPredicates,
               G!SpecMeta, GP!SpecMeta, G!RawKey, GP!RawKey, G!Pad, GP!Pad, G!ParsesInt64, GP!ParsesInt64, G!BuildTimestamp, GP!BuildTimestamp, G!MetaKeys, GP!MetaKeys
<1>3. G!Metadata = GP!Metadata /\ G!Props = GP!Props
  BY DEF G!Metadata, GP!Metadata, G!Props, GP!Props, G!MetaLine, GP!MetaLine,
         G!MetaKeys, GP!MetaKeys, G!Pad, GP!Pad
<1>4. QED
  BY <1>1, <1>2, <1>3

\* A package for which update_binary_command() succeeds, and whose
\* metadata has no padded key or value, is one spec 4.2's gate accepts and
\* carries the payload entries.
LEMMA CommandAccepted ==
    ASSUME NEW p \in Packages, GP!NoPadding(p.meta), UpdateBinaryCommand(p) = "OK"
    PROVE  p.props /\ p.payload /\ G!SpecGate(p.meta, DeviceProps) = "OK"
<1>1. p.meta \in GP!Metadata /\ DeviceProps \in GP!Props
  BY InstallerAssumption, SameGate DEF Package
<1>2. G!CheckNewerAbBuild(p.meta, DeviceProps) = "OK" /\ p.props /\ p.payload
  BY DEF UpdateBinaryCommand
<1>3. GP!CheckNewerAbBuild(p.meta, DeviceProps) = GP!SpecGate(p.meta, DeviceProps)
  BY <1>1, GP!GateIsSpec, InstallerAssumption, SameGate, Zenon DEF G!ConstantsAssumption
<1>4. QED
  BY <1>2, <1>3, SameGate

\* The child exists only once the command is built and the fork done.
ForkedAfterBuild == ppc \in {"start", "built"} => cpc = "none"

\* When try_update_binary() has returned, its result is among
\* InstallAbstract's Outcomes for whether the applier was forked (and a
\* forked child has been reaped).
SupervisorResult ==
    ppc = "done" => /\ cpc \in {"none", "reaped"}
                    /\ result \in A!Outcomes(cpc # "none")

\* The same of install_package()'s result once the driver has it.
DriverResult == dpc \in {"uncrypt", "write", "done"} => dresult \in A!Outcomes(cpc # "none")

\* The install log is written only at the driver's last step.
LogWrittenLast == dpc # "done" => ~logfile.written

RInv ==
    /\ AInv
    /\ pkg \in Packages
    /\ ForkedAfterBuild
    /\ SupervisorResult
    /\ DriverResult
    /\ LogWrittenLast

\* Once really_install_package() has returned, the supervisor either never
\* left its start (a failure before it) or has returned and its result is
\* install_package()'s.
HandedOver ==
    dpc \in {"uncrypt", "write", "done"} =>
        \/ ppc = "start"
        \/ ppc = "done" /\ dresult = result

\* The log's result line is "1" exactly for INSTALL_SUCCESS.
LogRecordsResult == logfile.written => (logfile.success <=> dresult = "SUCCESS")

\* The strengthening of LogSuccessFaithful: the driver's invariant, the
\* supervisor's (which ties its result to the applier's requests and exit
\* status), and how the result travels from the supervisor to the log.
LInv ==
    /\ RInv
    /\ CSP!IInv
    /\ HandedOver
    /\ LogRecordsResult

LEMMA InitRInv == Init => RInv
BY InitAInv DEF Init, RInv, ForkedAfterBuild, SupervisorResult, DriverResult,
                LogWrittenLast

\* A step of the applier needs a child that is forked or running.
LEMMA ApplierChild ==
    ASSUME Applier
    PROVE  cpc \in {"forked", "running"}
BY DEF Applier, CS!Child, CS!ChildExec, CS!ChildWrite, CS!ChildExit

LEMMA NextRInv == RInv /\ [Next]_vars => RInv'
<1> SUFFICES ASSUME RInv, [Next]_vars PROVE RInv'
  OBVIOUS
<1>0. AInv' /\ pkg' \in Packages
  BY NextAInv DEF RInv, Next, Driver, SetupMounts, MapFile, VerifyPackage,
                  OpenArchive, Finish, AppendUncrypt, WriteLog, Supervise, Applier,
                  Stopped, vars, dvars
<1>1. dpc \in {"start", "map", "verify", "open"} => ppc = "start" /\ cpc = "none"
  BY DEF RInv, AInv
<1> USE DEF RInv
<1>2. CASE SetupMounts
  BY <1>0, <1>1, <1>2 DEF SetupMounts, csvars, ForkedAfterBuild, SupervisorResult,
                          DriverResult, LogWrittenLast, A!Outcomes
<1>3. CASE MapFile
  BY <1>0, <1>1, <1>3 DEF MapFile, ForkedAfterBuild, SupervisorResult,
                          DriverResult, LogWrittenLast, A!Outcomes
<1>4. CASE VerifyPackage
  BY <1>0, <1>1, <1>4 DEF VerifyPackage, ForkedAfterBuild, SupervisorResult,
                          DriverResult, LogWrittenLast, A!Outcomes
<1>5. CASE OpenArchive
  BY <1>0, <1>1, <1>5 DEF OpenArchive, ForkedAfterBuild, SupervisorResult,
                          DriverResult, LogWrittenLast, A!Outcomes
<1>6. CASE Finish
  BY <1>0, <1>6 DEF Finish, ForkedAfterBuild, SupervisorResult,
                    DriverResult, LogWrittenLast
<1>7. CASE AppendUncrypt
  BY <1>0, <1>7 DEF AppendUncrypt, ForkedAfterBuild, SupervisorResult,
                    DriverResult, LogWrittenLast
<1>8. CASE WriteLog
  BY <1>0, <1>8 DEF WriteLog, csvars, ForkedAfterBuild, SupervisorResult,
                    DriverResult, LogWrittenLast
<1>9. CASE Supervise
  <2>1. dpc = "supervise" /\ UNCHANGED dvars
    BY <1>9, SuperviseStep DEF RInv
  <2>2. DriverResult' /\ LogWrittenLast'
    BY <2>1 DEF dvars, DriverResult, LogWrittenLast
  <2>3. CASE Prepare
    <3>1. ppc = "start" /\ result = "none" /\ cpc = "none" /\ cpc' = "none"
      BY <2>3 DEF Prepare, CS!Prepare, AInv
    <3>2. UpdateBinaryCommand(pkg) \in {"OK", "CORRUPT", "ERROR"}
      BY CommandValues
    <3>3. ppc' \in {"built", "done"}
      BY <2>3 DEF Prepare, CS!Prepare
    <3>4. ppc' = "done" => result' \in {"CORRUPT", "ERROR"}
      BY <2>3, <3>1, <3>2 DEF Prepare, CS!Prepare
    <3>5. QED
      BY <1>0, <2>2, <3>1, <3>3, <3>4
         DEF ForkedAfterBuild, SupervisorResult, A!Outcomes
  <2>4. CASE CS!Fork
    <3>1. cpc = "none"
      BY <2>4 DEF CS!Fork, ForkedAfterBuild
    <3>2. QED
      BY <1>0, <2>2, <2>4, <3>1 DEF CS!Fork, ForkedAfterBuild, SupervisorResult, A!Outcomes
  <2>5. CASE CS!ParentSetup \/ CS!ReadLine \/ CS!ReadMalformed \/ CS!ReadEof
    BY <1>0, <2>2, <2>5 DEF CS!ParentSetup, CS!ReadLine, CS!ReadMalformed, CS!ReadEof,
                            ForkedAfterBuild, SupervisorResult
  <2>6. CASE CS!Reap
    <3>1. cpc' = "reaped" /\ ppc' = "done" /\ ppc = "eof"
      BY <2>6 DEF CS!Reap
    <3>2. result' \in {"SUCCESS", "RETRY", "ERROR"}
      BY <2>6 DEF CS!Reap, CS!Outcome
    <3>3. QED
      BY <1>0, <2>2, <3>1, <3>2 DEF ForkedAfterBuild, SupervisorResult, A!Outcomes
  <2>7. QED
    BY <1>9, <2>3, <2>4, <2>5, <2>6 DEF Supervise
<1>10. CASE Applier
  <2>1. /\ cpc # "none" /\ cpc' # "none"
        /\ UNCHANGED <<ppc, result, dvars>>
    BY <1>10, ApplierStep
  <2>2. cpc \in {"forked", "running"}
    BY <1>10, ApplierChild
  <2>3. QED
    BY <1>0, <2>1, <2>2 DEF dvars, ForkedAfterBuild, SupervisorResult, DriverResult,
                            LogWrittenLast
<1>11. CASE Stopped \/ UNCHANGED vars
  BY <1>0, <1>11 DEF Stopped, vars, csvars, dvars, ForkedAfterBuild, SupervisorResult,
                     DriverResult, LogWrittenLast
<1>12. QED
  BY <1>2, <1>3, <1>4, <1>5, <1>6, <1>7, <1>8, <1>9, <1>10, <1>11
     DEF Next, Driver

\* Every step of the installer is a step of InstallAbstract or leaves its
\* image unchanged.
\* The supervisor's constants satisfy its assumption, in either instance.
LEMMA SupervisorAssumption == CSP!ConstantsAssumption
BY InstallerAssumption DEF CS!ConstantsAssumption, CSP!ConstantsAssumption,
   CS!Chunk, CSP!Chunk, CS!Words, CSP!Words, CS!Status, CSP!Status

\* The driver's own steps leave the supervisor's invariant alone.
LEMMA IInvUnchanged ==
    ASSUME CSP!IInv,
           UNCHANGED <<ppc, cpc, fds, chan, rd, wipe_cache, retry_update, status, result>>
    PROVE  CSP!IInv'
BY DEF CSP!IInv, CSP!ProcTypeOK, CSP!ChunksFirst, CSP!NoChildBeforeFork, CSP!ForkedAfterBuild,
         CSP!BuiltHoldsPipe, CSP!ChildHoldsWrite, CSP!NothingReadBeforeSetup,
         CSP!RetryTracksReads, CSP!DrainedAfterEof, CSP!ReapedOutcome

LEMMA InitLInv == Init => LInv
<1> SUFFICES ASSUME Init PROVE LInv
  OBVIOUS
<1>1. RInv
  BY InitRInv
<1>2. CSP!ProcTypeOK
  <2>1. chan \in Seq(CSP!Chunk) /\ Len(chan) <= MaxChan /\ rd \in 0..Len(chan)
    BY SupervisorAssumption DEF Init, CSP!ConstantsAssumption
  <2>2. status \in CSP!Status
    BY DEF Init, CS!NoStatus, CSP!Status
  <2>3. fds \in [CSP!Procs -> SUBSET {"r", "w"}]
    BY DEF Init, CS!Procs, CSP!Procs
  <2>4. QED
    BY <2>1, <2>2, <2>3 DEF Init, CSP!ProcTypeOK, CSP!PPCs, CSP!CPCs, CSP!Results
<1>3. CSP!IInv
  BY <1>2 DEF Init, CSP!IInv, CSP!ChunksFirst, CSP!NoChildBeforeFork, CSP!ForkedAfterBuild,
         CSP!BuiltHoldsPipe, CSP!ChildHoldsWrite, CSP!NothingReadBeforeSetup,
         CSP!RetryTracksReads, CSP!DrainedAfterEof, CSP!ReapedOutcome
<1>4. QED
  BY <1>1, <1>3 DEF Init, LInv, HandedOver, LogRecordsResult

LEMMA NextLInv ==
    ASSUME CSP!ShortLines, LInv, [Next]_vars
    PROVE  LInv'
<1> USE DEF LInv
<1>1. RInv'
  BY NextRInv
<1>2. CSP!IInv'
  <2>1. CASE Supervise
    <3>1. CSP!Parent
      BY <2>1, SameSupervisor DEF Supervise, Prepare, CSP!Parent
    <3>2. QED
      BY <3>1, CSP!StepIInv, SupervisorAssumption
  <2>2. CASE Applier
    BY <2>2, SameSupervisor, CSP!StepIInv, SupervisorAssumption DEF Applier
  <2>3. CASE Driver \/ Stopped \/ UNCHANGED vars
    BY <2>3, IInvUnchanged DEF Driver, SetupMounts, MapFile, VerifyPackage, OpenArchive,
                               Finish, AppendUncrypt, WriteLog, Stopped, vars, csvars
  <2>4. QED
    BY <2>1, <2>2, <2>3 DEF Next
<1>3. HandedOver'
  <2>1. CASE Finish
    BY <2>1 DEF Finish, HandedOver
  <2>2. CASE SetupMounts \/ MapFile \/ VerifyPackage \/ OpenArchive
    <3>1. ppc = "start" /\ ppc' = ppc
      BY <2>2 DEF RInv, AInv, SetupMounts, MapFile, VerifyPackage, OpenArchive, csvars
    <3>2. QED
      BY <3>1 DEF HandedOver
  <2>3. CASE AppendUncrypt \/ WriteLog \/ Stopped \/ UNCHANGED vars
    BY <2>3 DEF AppendUncrypt, WriteLog, Stopped, vars, csvars, dvars, HandedOver
  <2>5. CASE Supervise
    BY <2>5 DEF Supervise, dvars, HandedOver
  <2>6. CASE Applier
    <3>1. UNCHANGED <<ppc, result, dpc, dresult>>
      BY <2>6 DEF Applier, dvars, CS!Child, CS!ChildExec, CS!ChildWrite, CS!ChildExit
    <3>2. QED
      BY <3>1 DEF HandedOver
  <2>4. QED
    BY <2>1, <2>2, <2>3, <2>5, <2>6 DEF Next, Driver
<1>4. LogRecordsResult'
  <2>1. CASE WriteLog
    <3>1. ~logfile.written /\ dresult' = dresult
      BY <2>1 DEF WriteLog, RInv, LogWrittenLast
    <3>2. PICK ok \in BOOLEAN :
            logfile' = IF ok THEN [written |-> TRUE, success |-> dresult = "SUCCESS",
                                   body |-> log_buffer]
                       ELSE logfile
      BY <2>1 DEF WriteLog
    <3>3. QED
      BY <3>1, <3>2 DEF LogRecordsResult
  <2>2. CASE SetupMounts \/ MapFile \/ VerifyPackage \/ OpenArchive \/ Finish
    <3>1. ~logfile.written /\ logfile' = logfile
      BY <2>2 DEF RInv, LogWrittenLast, SetupMounts, MapFile, VerifyPackage, OpenArchive,
                  Finish
    <3>2. QED
      BY <3>1 DEF LogRecordsResult
  <2>3. CASE AppendUncrypt \/ Supervise \/ Applier \/ Stopped \/ UNCHANGED vars
    <3>1. UNCHANGED <<logfile, dresult>>
      BY <2>3 DEF AppendUncrypt, Supervise, Applier, Stopped, vars, dvars
    <3>2. QED
      BY <3>1 DEF LogRecordsResult
  <2>4. QED
    BY <2>1, <2>2, <2>3 DEF Next, Driver
<1>5. QED
  BY <1>1, <1>2, <1>3, <1>4

\* LogSuccessFaithful follows from LInv: a written log is the driver's last
\* step; "1" stands for INSTALL_SUCCESS; that result comes only from the
\* supervisor with a reaped child, where it is the child's expected result.
LEMMA LInvLogSuccessFaithful == LInv => LogSuccessFaithful
<1> SUFFICES ASSUME LInv, logfile.written
             PROVE  logfile.success <=> cpc = "reaped" /\ CS!ExpectedResult = "SUCCESS"
  BY DEF LogSuccessFaithful
<1>1. dpc = "done" /\ (logfile.success <=> dresult = "SUCCESS")
  BY DEF LInv, RInv, LogWrittenLast, LogRecordsResult
<1>2. CASE cpc = "reaped"
  <2>1. ppc = "done"
    BY <1>2 DEF LInv, CSP!IInv, CSP!ReapedOutcome
  <2>2. dresult = result
    BY <1>1, <2>1 DEF LInv, HandedOver
  <2>3. result = CSP!ExpectedResult
    BY <1>2, <2>1, CSP!IInvResultFaithful, SupervisorAssumption DEF LInv, CSP!ResultFaithful
  <2>4. QED
    BY <1>1, <1>2, <2>2, <2>3, SameSupervisor
<1>3. CASE cpc # "reaped"
  <2>1. cpc = "none"
    BY <1>1, <1>3 DEF LInv, HandedOver, RInv, AInv, SupervisorResult
  <2>2. dresult \in {"ERROR", "CORRUPT"}
    BY <1>1, <2>1 DEF LInv, RInv, DriverResult, A!Outcomes
  <2>3. QED
    BY <1>1, <1>3, <2>2
<1>4. QED
  BY <1>2, <1>3

\* When every status line of the applier fits the fgets() buffer, the
\* install log's result line is "1" exactly when the applier was forked,
\* asked for no retry and exited normally with 0, for every package set,
\* every device and every bound.
THEOREM LogSuccessFaithfulThm ==
    ASSUME CSP!ShortLines
    PROVE  Spec => []LogSuccessFaithful
<1>1. Init => LInv
  BY InitLInv
<1>2. LInv /\ [Next]_vars => LInv'
  BY NextLInv
<1>3. QED
  BY <1>1, <1>2, LInvLogSuccessFaithful, PTL DEF Spec

LEMMA RefinementStep ==
    ASSUME \A q \in Packages : GP!NoPadding(q.meta),
           RInv, [Next]_vars
    PROVE  [A!Next]_A!avars
<1> USE DEF RInv
<1>1. dpc \in {"start", "map", "verify", "open"} => ppc = "start" /\ cpc = "none"
  BY DEF AInv
<1>2. CASE SetupMounts
  BY <1>1, <1>2 DEF SetupMounts, csvars, A!Next, A!Return, A!avars, A!Outcomes
<1>3. CASE MapFile
  BY <1>1, <1>3 DEF MapFile, A!Next, A!Return, A!avars, A!Outcomes
<1>4. CASE VerifyPackage
  BY <1>1, <1>4 DEF VerifyPackage, A!Next, A!Return, A!avars, A!Outcomes
<1>5. CASE OpenArchive
  BY <1>1, <1>5 DEF OpenArchive, A!Next, A!Return, A!avars, A!Outcomes
<1>6. CASE Finish
  <2>1. result \in A!Outcomes(cpc # "none")
    BY <1>6 DEF Finish, SupervisorResult
  <2>2. QED
    BY <1>6, <2>1 DEF Finish, A!Next, A!Return, A!avars
<1>7. CASE AppendUncrypt
  BY <1>7 DEF AppendUncrypt, A!avars
<1>8. CASE WriteLog
  <2>1. dresult # "none" /\ ~logfile.written
    BY <1>8 DEF WriteLog, DriverResult, LogWrittenLast, A!Outcomes
  <2>2. /\ dpc' = "done" /\ UNCHANGED <<csvars, pkg, dresult>>
        /\ \/ logfile' = logfile
           \/ logfile' = [written |-> TRUE, success |-> dresult = "SUCCESS", body |-> log_buffer]
    BY <1>8 DEF WriteLog
  <2>3. CASE logfile' = logfile
    BY <1>8, <2>2, <2>3 DEF WriteLog, csvars, A!avars
  <2>4. CASE logfile' = [written |-> TRUE, success |-> dresult = "SUCCESS", body |-> log_buffer]
    <3>1. logfile'.written /\ (logfile'.success <=> dresult = "SUCCESS")
      BY <2>4
    <3>2. QED
      BY <1>8, <2>1, <2>2, <3>1 DEF WriteLog, csvars, A!Next, A!Log, A!avars
  <2>5. QED
    BY <2>2, <2>3, <2>4
<1>9. CASE Supervise
  <2>1. dpc = "supervise" /\ UNCHANGED dvars
    BY <1>9, SuperviseStep
  <2>2. CASE CS!Fork /\ cpc' = "forked"
    <3>1. ppc = "built" /\ cpc = "none"
      BY <2>2 DEF CS!Fork, ForkedAfterBuild
    <3>2. keys /\ pkg.signed /\ pkg.opens /\ UpdateBinaryCommand(pkg) = "OK"
      BY <3>1 DEF AInv
    <3>3. pkg.props /\ pkg.payload /\ G!SpecGate(pkg.meta, DeviceProps) = "OK"
      BY <3>2, CommandAccepted
    <3>4. QED
      BY <2>1, <2>2, <3>1, <3>2, <3>3 DEF dvars, A!Next, A!Apply, A!avars
  <2>3. CASE ~(CS!Fork /\ cpc' = "forked")
    <3>1. cpc # "none" <=> cpc' # "none"
      BY <1>9, <2>3, SuperviseStep DEF Prepare, CS!Prepare, CS!Fork
    <3>2. QED
      BY <2>1, <3>1 DEF dvars, A!avars
  <2>4. QED
    BY <2>2, <2>3
<1>10. CASE Applier
  BY <1>10, ApplierStep DEF dvars, A!avars
<1>11. CASE Stopped \/ UNCHANGED vars
  BY <1>11 DEF Stopped, vars, csvars, dvars, A!avars
<1>12. QED
  BY <1>2, <1>3, <1>4, <1>5, <1>6, <1>7, <1>8, <1>9, <1>10, <1>11
     DEF Next, Driver

\* When no package's metadata has a padded key or value, install_package()
\* implements InstallAbstract: the applier is started at most once and only
\* for a package that is signed, opens, carries its payload and passes the
\* gate of spec 4.2; the result is SUCCESS or RETRY only if it ran, CORRUPT
\* only if it did not; the log records "1" exactly for SUCCESS.
THEOREM RefinementThm ==
    ASSUME \A q \in Packages : GP!NoPadding(q.meta)
    PROVE  Spec => Refinement
<1>1. Init => A!Init
  BY DEF Init, A!Init
<1>2. RInv /\ [Next]_vars => [A!Next]_A!avars
  BY RefinementStep
<1>3. QED
  BY <1>1, <1>2, InitRInv, NextRInv, PTL DEF Spec, Refinement, A!Spec

=============================================================================
