--------------------------- MODULE InstallAbstract ---------------------------
(***************************************************************************)
(* What install_package() promises, stated without its steps: the update   *)
(* applier is started at most once, and only for an accepted package (one *)
(* that is signed, opens, passes the build gate of spec 4.2 and carries    *)
(* its payload); the call returns one install result, SUCCESS or RETRY     *)
(* only if the applier ran and CORRUPT only if it did not; the install log *)
(* records that result, "1" exactly for SUCCESS, or is not written.        *)
(***************************************************************************)
CONSTANTS
    Packages,       \* the packages install_package() may be given
    Accepted        \* the packages the spec allows to be applied

VARIABLES
    pkg,            \* the package
    applied,        \* the update applier has been started
    aresult,        \* the install result once returned, else "none"
    alog            \* the install log's result line: "none", "1" or "0"

avars == <<pkg, applied, aresult, alog>>

Init ==
    /\ pkg \in Packages
    /\ applied = FALSE
    /\ aresult = "none"
    /\ alog = "none"

\* The applier is started for the package.
Apply ==
    /\ aresult = "none"
    /\ ~applied
    /\ pkg \in Accepted
    /\ applied' = TRUE
    /\ UNCHANGED <<pkg, aresult, alog>>

\* The results a call may return: the applier's verdicts once it ran, the
\* refusals of the checks before it otherwise.
Outcomes(ran) == IF ran THEN {"SUCCESS", "RETRY", "ERROR"} ELSE {"ERROR", "CORRUPT"}

\* install_package() decides its result.
Return ==
    /\ aresult = "none"
    /\ aresult' \in Outcomes(applied)
    /\ UNCHANGED <<pkg, applied, alog>>

\* The install log is written with the result.
Log ==
    /\ aresult # "none"
    /\ alog = "none"
    /\ alog' = IF aresult = "SUCCESS" THEN "1" ELSE "0"
    /\ UNCHANGED <<pkg, applied, aresult>>

Next == Apply \/ Return \/ Log

Spec == Init /\ [][Next]_avars

=============================================================================
