----------------------------- MODULE MCInstaller -----------------------------
(* Instances of Installer for TLC: the device is "A" at build 5 with      *)
(* timestamp 5; the packages cover every way the driver and the command   *)
(* builder can fail, and one that passes every check.                     *)
EXTENDS Installer

MCMetaValues == {"", "A", "B", "AB", "5", "9"}
MCNumText == [t \in {"5", "9"} |-> IF t = "5" THEN 5 ELSE 9]
MCTsMin == -9
MCTsMax == 9

MCDeviceProps == [device |-> "A", serial |-> "", incremental |-> "5",
                  fingerprint |-> "", date |-> "5"]

L(k, v) == [key |-> k, val |-> v, kpad |-> FALSE, vpad |-> FALSE]
\* An accepted A/B package with a source and a target build number, and
\* one for another device.
Good == [readable |-> TRUE,
         lines |-> <<L("pre-device", "A"), L("ota-type", "AB"),
                     L("pre-build-incremental", "5"), L("post-timestamp", "9"),
                     L("post-build-incremental", "9")>>]
OtherDevice == [Good EXCEPT !.lines[1] = L("pre-device", "B")]

Pkg(m, s, o, p, b) == [meta |-> m, signed |-> s, opens |-> o, props |-> p, payload |-> b]
MCPackages == {Pkg(Good, TRUE, TRUE, TRUE, TRUE), Pkg(Good, FALSE, TRUE, TRUE, TRUE),
               Pkg(Good, TRUE, FALSE, TRUE, TRUE), Pkg(OtherDevice, TRUE, TRUE, TRUE, TRUE),
               Pkg(Good, TRUE, TRUE, FALSE, TRUE), Pkg(Good, TRUE, TRUE, TRUE, FALSE)}

Short(c, a) == <<[cmd |-> c, args |-> a, first |-> TRUE]>>
\* A retry request, a log line, a progress line, and a log line without
\* its argument.
MCLines == {Short("retry_update", TRUE), Short("log", TRUE), Short("ui_print", TRUE),
            Short("log", FALSE)}
MCExitStatuses == {[normal |-> TRUE, code |-> 0], [normal |-> TRUE, code |-> 1]}

=============================================================================
