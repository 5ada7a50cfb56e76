------------------------------ MODULE Installer ------------------------------
(***************************************************************************)
(* The installer driver of src/install.cpp: install_package() and          *)
(* really_install_package(), composed with the child supervisor            *)
(* (try_update_binary(), module ChildSupervisor) and the A/B command       *)
(* builder (update_binary_command() with check_newer_ab_build(), module    *)
(* AbGate).                                                                *)
(*                                                                         *)
(* The driver sets up the mounts, maps the package, verifies its           *)
(* signature, opens it as a zip archive and hands it to the supervisor;    *)
(* afterwards it releases the mapping and the archive, appends the uncrypt *)
(* status and writes the install log.  The supervisor's variables are      *)
(* shared: its Prepare step is constrained to the log entries              *)
(* read_source_target_build() yields for the package and to the outcome    *)
(* update_binary_command() computes for it.                                *)
(***************************************************************************)
EXTENDS Integers, Sequences, FiniteSets

CONSTANTS
    Lines, ExitStatuses, MaxChan, PipeCap,  \* as in ChildSupervisor
    MetaValues, NumText, TsMin, TsMax,      \* as in AbGate
    Packages,       \* the update packages install_package() may be given
    DeviceProps     \* the device's properties, as AbGate's Props

VARIABLES
    ppc, cpc, fds, chan, rd, wipe_cache, retry_update, log_buffer,
    status, result, ui,     \* the supervisor's, see ChildSupervisor
    dpc,            \* driver control point
    pkg,            \* the package at path
    mapping,        \* the MemMapping: "none", "mapped", "released"
    zip,            \* the ZipArchiveHandle: "none", "open", "closed"
    keys,           \* load_keys() succeeded
    dresult,        \* the result install_package() returns
    logfile         \* the install log file; written: it was written

csvars == <<ppc, cpc, fds, chan, rd, wipe_cache, retry_update, log_buffer,
            status, result, ui>>
dvars == <<dpc, pkg, mapping, zip, keys, dresult, logfile>>
vars == <<csvars, dvars>>

CS == INSTANCE ChildSupervisor

G == INSTANCE AbGate WITH Metadatas <- {p.meta : p \in Packages},
                          PropSets <- {DeviceProps},
                          md <- pkg.meta, pr <- DeviceProps, ret <- "none"

\* A package: its metadata; signed: verify_file() accepts its signature;
\* opens: OpenArchiveFromMemory() parses it; props, payload: it holds
\* payload_properties.txt and payload.bin.
Package == [meta : G!Metadata, signed : BOOLEAN, opens : BOOLEAN,
            props : BOOLEAN, payload : BOOLEAN]

\* The packages and the properties are of their types, and the constants
\* the gate and the supervisor use satisfy their assumptions.
ASSUME InstallerAssumption ==
    /\ Packages \subseteq Package
    /\ DeviceProps \in G!Props
    /\ G!ConstantsAssumption
    /\ CS!ConstantsAssumption

\* Entries the driver itself adds to log_buffer.
DriverLog(k) == [src |-> k, line |-> 0]

\* Mutant of UpdateBinaryCommand: payload.bin is not looked up.
UpdateBinaryCommand_NoPayloadCheck(p) ==
    LET gate == G!CheckNewerAbBuild(p.meta, DeviceProps)
    IN  IF gate # "OK" THEN gate
        ELSE IF ~p.props THEN "CORRUPT"
        ELSE "OK"

\* update_binary_command() of the A/B build: the gate, then the payload
\* properties and the payload must be found (and extracted).
UpdateBinaryCommand(p) ==
    LET gate == G!CheckNewerAbBuild(p.meta, DeviceProps)
    IN  IF gate # "OK" THEN gate
        ELSE IF ~p.props THEN "CORRUPT"
        ELSE IF ~p.payload THEN "CORRUPT"
        ELSE "OK"

Init ==
    /\ ppc = "start" /\ cpc = "none" /\ fds = [p \in CS!Procs |-> {}]
    /\ chan = <<>> /\ rd = 0 /\ wipe_cache \in BOOLEAN /\ retry_update = FALSE
    /\ log_buffer = <<>> /\ status = CS!NoStatus /\ result = "none"
    /\ ui = [reboot |-> TRUE, background |-> "none"]
    /\ dpc = "start"
    /\ pkg \in Packages
    /\ mapping = "none" /\ zip = "none" /\ keys = FALSE
    /\ dresult = "none"
    /\ logfile = [written |-> FALSE, success |-> FALSE, body |-> <<>>]

---------------------------------------------------------------------------
(* install_package() and really_install_package() *)

\* setup_install_mounts(): on failure the result is INSTALL_ERROR and the
\* package is never opened.
SetupMounts ==
    /\ dpc = "start"
    /\ \E ok \in BOOLEAN :
          IF ok THEN dpc' = "map" /\ UNCHANGED dresult
                ELSE dpc' = "uncrypt" /\ dresult' = "ERROR"
    /\ UNCHANGED <<csvars, pkg, mapping, zip, keys, logfile>>

\* SetBackground(INSTALLING_UPDATE); ensure_path_mounted(), whose result is
\* ignored; sysMapFile(), whose failure returns INSTALL_CORRUPT.
MapFile ==
    /\ dpc = "map"
    /\ ui' = [ui EXCEPT !.background = "installing"]
    /\ \E ok \in BOOLEAN :
          IF ok THEN dpc' = "verify" /\ mapping' = "mapped" /\ UNCHANGED dresult
                ELSE dpc' = "uncrypt" /\ dresult' = "CORRUPT" /\ UNCHANGED mapping
    /\ UNCHANGED <<ppc, cpc, fds, chan, rd, wipe_cache, retry_update, log_buffer,
                   status, result, pkg, zip, keys, logfile>>

\* Mutant of VerifyPackage: a failure to load the keys is not an error.
VerifyPackage_KeysUnchecked ==
    /\ dpc = "verify"
    /\ \E k \in BOOLEAN :
          /\ keys' = k
          /\ IF pkg.signed
                THEN dpc' = "open" /\ UNCHANGED <<log_buffer, mapping, dresult>>
                ELSE /\ log_buffer' = Append(log_buffer, DriverLog("error_verify"))
                     /\ mapping' = "released"
                     /\ dresult' = "CORRUPT"
                     /\ dpc' = "uncrypt"
    /\ UNCHANGED <<ppc, cpc, fds, chan, rd, wipe_cache, retry_update, status,
                   result, ui, pkg, zip, logfile>>

\* verify_package(): load_keys() and verify_file() must both succeed;
\* otherwise log kZipVerificationFailure, release the map, INSTALL_CORRUPT.
VerifyPackage ==
    /\ dpc = "verify"
    /\ \E k \in BOOLEAN :
          /\ keys' = k
          /\ IF k /\ pkg.signed
                THEN dpc' = "open" /\ UNCHANGED <<log_buffer, mapping, dresult>>
                ELSE /\ log_buffer' = Append(log_buffer, DriverLog("error_verify"))
                     /\ mapping' = "released"
                     /\ dresult' = "CORRUPT"
                     /\ dpc' = "uncrypt"
    /\ UNCHANGED <<ppc, cpc, fds, chan, rd, wipe_cache, retry_update, status,
                   result, ui, pkg, zip, logfile>>

\* Mutant of OpenArchive: the failure path does not close the handle.
OpenArchive_NoClose ==
    /\ dpc = "open"
    /\ zip' = "open"
    /\ IF pkg.opens
          THEN /\ ui' = [ui EXCEPT !.reboot = FALSE]
               /\ dpc' = "supervise"
               /\ UNCHANGED <<log_buffer, mapping, dresult>>
          ELSE /\ log_buffer' = Append(log_buffer, DriverLog("error_open"))
               /\ mapping' = "released"
               /\ dresult' = "CORRUPT"
               /\ dpc' = "uncrypt"
               /\ UNCHANGED ui
    /\ UNCHANGED <<ppc, cpc, fds, chan, rd, wipe_cache, retry_update, status,
                   result, pkg, keys, logfile>>

\* OpenArchiveFromMemory() sets the handle whether it succeeds or not.  On
\* failure: log kZipOpenFailure, release the map, CloseArchive(),
\* INSTALL_CORRUPT.  On success: SetEnableReboot(false), then the
\* supervisor runs.
OpenArchive ==
    /\ dpc = "open"
    /\ IF pkg.opens
          THEN /\ zip' = "open"
               /\ ui' = [ui EXCEPT !.reboot = FALSE]
               /\ dpc' = "supervise"
               /\ UNCHANGED <<log_buffer, mapping, dresult>>
          ELSE /\ zip' = "closed"
               /\ log_buffer' = Append(log_buffer, DriverLog("error_open"))
               /\ mapping' = "released"
               /\ dresult' = "CORRUPT"
               /\ dpc' = "uncrypt"
               /\ UNCHANGED ui
    /\ UNCHANGED <<ppc, cpc, fds, chan, rd, wipe_cache, retry_update, status,
                   result, pkg, keys, logfile>>

\* try_update_binary()'s first step for this package: the build numbers of
\* its metadata go to log_buffer and the command is the one
\* update_binary_command() builds (or its failure).
Prepare ==
    LET cmd == UpdateBinaryCommand(pkg) IN
    /\ CS!Prepare
    /\ log_buffer' = G!ReadSourceTargetBuild(pkg.meta)
    /\ IF cmd = "OK" THEN ppc' = "built" ELSE result' = cmd

\* A step of the parent inside try_update_binary().
Supervise ==
    /\ dpc = "supervise"
    /\ \/ Prepare
       \/ CS!Fork \/ CS!ParentSetup \/ CS!ReadLine \/ CS!ReadMalformed
       \/ CS!ReadEof \/ CS!Reap
    /\ UNCHANGED dvars

\* A step of the forked child or the applier.
Applier == CS!Child /\ UNCHANGED dvars

\* try_update_binary() returned: SetEnableReboot(true), release the map,
\* CloseArchive(), and its result is really_install_package()'s.
Finish ==
    /\ dpc = "supervise"
    /\ ppc = "done"
    /\ ui' = [ui EXCEPT !.reboot = TRUE]
    /\ mapping' = "released"
    /\ zip' = "closed"
    /\ dresult' = result
    /\ dpc' = "uncrypt"
    /\ UNCHANGED <<ppc, cpc, fds, chan, rd, wipe_cache, retry_update, log_buffer,
                   status, result, pkg, keys, logfile>>

\* The uncrypt status: appended, trimmed, when the cache mounts, the file
\* reads and it starts with "uncrypt_"; otherwise only a warning.
AppendUncrypt ==
    /\ dpc = "uncrypt"
    /\ \E found \in BOOLEAN :
          log_buffer' = IF found THEN Append(log_buffer, DriverLog("uncrypt"))
                        ELSE log_buffer
    /\ dpc' = "write"
    /\ UNCHANGED <<ppc, cpc, fds, chan, rd, wipe_cache, retry_update, status,
                   result, ui, pkg, mapping, zip, keys, dresult, logfile>>

\* Mutant of WriteLog: the header's result line is "1" unless the result
\* is INSTALL_ERROR.
WriteLog_NotError ==
    /\ dpc = "write"
    /\ \E ok \in BOOLEAN :
          logfile' = IF ok THEN [written |-> TRUE, success |-> dresult # "ERROR", body |-> log_buffer]
                     ELSE logfile
    /\ dpc' = "done"
    /\ UNCHANGED <<csvars, pkg, mapping, zip, keys, dresult>>

\* The header (path, "1" exactly for INSTALL_SUCCESS, time, retry count)
\* and log_buffer written to install_file; a failed write is only logged.
WriteLog ==
    /\ dpc = "write"
    /\ \E ok \in BOOLEAN :
          logfile' = IF ok THEN [written |-> TRUE, success |-> dresult = "SUCCESS", body |-> log_buffer]
                     ELSE logfile
    /\ dpc' = "done"
    /\ UNCHANGED <<csvars, pkg, mapping, zip, keys, dresult>>

\* install_package() has returned, or the recovery process died.
Stopped ==
    /\ dpc = "done" \/ ppc = "crashed"
    /\ UNCHANGED vars

Driver == SetupMounts \/ MapFile \/ VerifyPackage \/ OpenArchive \/ Finish
          \/ AppendUncrypt \/ WriteLog

Next == Driver \/ Supervise \/ Applier \/ Stopped

\* The recovery process runs the driver and the supervisor; the applier
\* is assumed to terminate.
Fairness == WF_vars(Driver) /\ WF_vars(Supervise) /\ WF_vars(Applier)

Spec == Init /\ [][Next]_vars /\ Fairness

---------------------------------------------------------------------------

\* Once really_install_package() has returned, on every path (map failure,
\* signature failure, open failure, the supervisor's result), the package
\* mapping is released and the archive handle closed.
ResourcesReleased ==
    dpc \in {"uncrypt", "write", "done"} => mapping # "mapped" /\ zip # "open"

\* The applier is forked only for a package whose keys loaded, whose
\* signature verified, that opened as an archive, and for which
\* update_binary_command() succeeded: the device gate passed and the
\* payload entries were found (spec 8: a wrong device fails before the fork).
NoUnverifiedApply ==
    cpc # "none" => keys /\ pkg.signed /\ pkg.opens /\ UpdateBinaryCommand(pkg) = "OK"

\* The install log says "1" exactly when the applier was forked for the
\* package, asked for no retry and exited normally with 0: a failure at any
\* of the driver's steps, a failed fork, a retry or a failed applier all
\* yield "0".
LogSuccessFaithful ==
    logfile.written =>
        (logfile.success <=> cpc = "reaped" /\ CS!ExpectedResult = "SUCCESS")

\* install_package() returns, unless the recovery process dies on a
\* malformed status line of the applier.
Termination == <>(dpc = "done" \/ ppc = "crashed")

\* The driver seen through InstallAbstract: the applier has been started
\* once the child is forked; the result is install_package()'s once
\* really_install_package() (or the mount setup) has returned; the log's
\* result line once the file was written.  The accepted packages are those
\* spec 4.2's gate (AbGate's SpecGate) and the package checks allow.
A == INSTANCE InstallAbstract
        WITH Accepted <- {p \in Packages : p.signed /\ p.opens /\ p.props /\ p.payload
                                           /\ G!SpecGate(p.meta, DeviceProps) = "OK"},
             applied <- cpc # "none",
             aresult <- IF dpc \in {"uncrypt", "write", "done"} THEN dresult ELSE "none",
             alog <- IF ~logfile.written THEN "none"
                     ELSE IF logfile.success THEN "1" ELSE "0"

\* install_package(), with the supervisor and the gate inside it, implements
\* InstallAbstract: every step is an abstract step or a stutter.
Refinement == A!Spec

=============================================================================
