------------------------------- MODULE AbGate -------------------------------
(***************************************************************************)
(* The metadata reader and the A/B build gate of src/install.cpp:          *)
(* check_newer_ab_build() decides from the package metadata and the        *)
(* device's properties whether an A/B package may be applied, and          *)
(* read_source_target_build() (with parse_build_number()) extracts the     *)
(* source and target build numbers the install log records.                *)
(*                                                                         *)
(* Text is kept as TLA+ strings.  A metadata line is a key and a value,    *)
(* either of which may carry trailing whitespace (a space, or the "\r" of  *)
(* a CRLF file), which the model writes as Pad.  Numbers are strings too;  *)
(* the constant NumText gives the value of the numeric ones.  The signed  *)
(* 64-bit range is scaled down to TsMin..TsMax.                            *)
(*                                                                         *)
(* The gate is a pure function; the state machine below calls it once on  *)
(* each (metadata, properties) pair so that TLC checks it on all of them.  *)
(***************************************************************************)
EXTENDS Integers, Sequences, FiniteSets

CONSTANTS
    MetaValues,     \* the text values metadata and properties may hold
    NumText,        \* NumText[t]: the integer a numeric text denotes
    TsMin, TsMax,   \* the range of int64_t; TsMax stands for INT64_MAX
    Metadatas,      \* the metadata entries a package may have
    PropSets        \* the device property values the device may have

MetaKeys == {"pre-device", "serialno", "ota-type", "pre-build-incremental",
             "pre-build", "post-timestamp", "ota-downgrade", "post-build-incremental"}

\* One key=value line of META-INF/com/android/metadata; kpad and vpad: the
\* key, or the value, ends in whitespace.
MetaLine == [key : MetaKeys, val : MetaValues, kpad : BOOLEAN, vpad : BOOLEAN]

\* readable: read_metadata_from_package() finds and extracts the entry.
Metadata == [readable : BOOLEAN, lines : Seq(MetaLine)]

Pad(t) == t \o " "

\* The properties property_get() returns ("" when unset); date is
\* ro.build.date.utc, "absent" when unset, and may carry trailing whitespace.
Props == [device : MetaValues, serial : MetaValues, incremental : MetaValues,
          fingerprint : MetaValues,
          date : MetaValues \cup {Pad(t) : t \in MetaValues} \cup {"absent"}]

ASSUME ConstantsAssumption ==
    /\ "" \in MetaValues
    /\ DOMAIN NumText \subseteq MetaValues /\ \A t \in DOMAIN NumText : NumText[t] \in Int
    /\ "" \notin DOMAIN NumText      \* ParseInt() fails on an empty string
    /\ TsMin \in Int /\ TsMax \in Int /\ TsMin < 0 /\ 0 < TsMax
    /\ Metadatas \subseteq Metadata
    /\ PropSets \subseteq Props

\* The key and the value as the code's parse keeps them: split at the
\* first '=', nothing trimmed.
RawKey(l) == IF l.kpad THEN Pad(l.key) ELSE l.key
RawVal(l) == IF l.vpad THEN Pad(l.val) ELSE l.val

\* metadata[k] after the parse loop of check_newer_ab_build(): the value of
\* the last line whose key is k, or the "" operator[] inserts.
Lookup(lines, k) ==
    LET I == {i \in 1..Len(lines) : RawKey(lines[i]) = k}
    IN  IF I = {} THEN "" ELSE RawVal(lines[CHOOSE i \in I : \A j \in I : j <= i])

\* android::base::ParseInt(s, &int64_t): a numeric text within int64_t.
ParsesInt64(t) == t \in DOMAIN NumText /\ NumText[t] \in TsMin..TsMax
\* property_get_int64(ro.build.date.utc, INT64_MAX): strtoimax() reads the
\* leading number and ignores what follows it (here trailing whitespace); a
\* text with no number, or one outside int64_t, gives the default.
BuildTimestamp(pr) ==
    LET N == {t \in DOMAIN NumText : pr.date \in {t, Pad(t)} /\ ParsesInt64(t)}
    IN  IF N = {} THEN TsMax ELSE NumText[CHOOSE t \in N : TRUE]

\* Mutant of CheckNewerAbBuild: a package with an empty serialno is refused.
CheckNewerAbBuild_SerialRequired(md, pr) ==
    LET m(k) == Lookup(md.lines, k)
        post == m("post-timestamp")
        downgrade == post = "" \/ ~ParsesInt64(post) \/ NumText[post] < BuildTimestamp(pr)
    IN  IF ~md.readable THEN "CORRUPT"
        ELSE IF m("pre-device") # pr.device \/ m("pre-device") = "" THEN "ERROR"
        ELSE IF m("serialno") # pr.serial THEN "ERROR"
        ELSE IF m("ota-type") # "AB" THEN "ERROR"
        ELSE IF m("pre-build-incremental") # "" /\ m("pre-build-incremental") # pr.incremental THEN "ERROR"
        ELSE IF m("pre-build") # "" /\ m("pre-build") # pr.fingerprint THEN "ERROR"
        ELSE IF downgrade /\ m("ota-downgrade") # "yes" THEN "ERROR"
        ELSE IF downgrade /\ m("pre-build") = "" THEN "ERROR"
        ELSE "OK"

\* check_newer_ab_build(): the checks in the order of the code, the first
\* failing one deciding; "OK" is the 0 it returns when all pass.
CheckNewerAbBuild(md, pr) ==
    LET m(k) == Lookup(md.lines, k)
        post == m("post-timestamp")
        downgrade == post = "" \/ ~ParsesInt64(post) \/ NumText[post] < BuildTimestamp(pr)
    IN  IF ~md.readable THEN "CORRUPT"
        ELSE IF m("pre-device") # pr.device \/ m("pre-device") = "" THEN "ERROR"
        ELSE IF m("serialno") # "" /\ m("serialno") # pr.serial THEN "ERROR"
        ELSE IF m("ota-type") # "AB" THEN "ERROR"
        ELSE IF m("pre-build-incremental") # "" /\ m("pre-build-incremental") # pr.incremental THEN "ERROR"
        ELSE IF m("pre-build") # "" /\ m("pre-build") # pr.fingerprint THEN "ERROR"
        ELSE IF downgrade /\ m("ota-downgrade") # "yes" THEN "ERROR"
        ELSE IF downgrade /\ m("pre-build") = "" THEN "ERROR"
        ELSE "OK"

\* parse_build_number(): the trimmed text after '=', parsed with minimum 0.
BuildNumberParses(t) == t \in DOMAIN NumText /\ NumText[t] >= 0

\* read_source_target_build(): for each line, trimmed, that starts with
\* pre-build-incremental (post-build-incremental) and whose number parses,
\* one source_build (target_build) entry, in file order.  Trimming makes
\* padding irrelevant here.
BuildLogKind(l) == IF l.key = "pre-build-incremental" THEN "source_build" ELSE "target_build"
ReadSourceTargetBuild(md) ==
    IF ~md.readable THEN <<>>
    ELSE LET sel == SelectSeq(md.lines,
                      LAMBDA l : l.key \in {"pre-build-incremental", "post-build-incremental"}
                                 /\ BuildNumberParses(l.val))
         IN  [i \in 1..Len(sel) |-> [src |-> BuildLogKind(sel[i]), line |-> 0]]

---------------------------------------------------------------------------

VARIABLES md, pr, ret

gvars == <<md, pr, ret>>

GInit ==
    /\ md \in Metadatas
    /\ pr \in PropSets
    /\ ret = "none"

\* update_binary_command() calls check_newer_ab_build(zip).
Check ==
    /\ ret = "none"
    /\ ret' = CheckNewerAbBuild(md, pr)
    /\ UNCHANGED <<md, pr>>

Checked == ret # "none" /\ UNCHANGED gvars

GNext == Check \/ Checked

GSpec == GInit /\ [][GNext]_gvars

---------------------------------------------------------------------------

\* The metadata as spec 3 describes its parse: values trimmed of surrounding
\* whitespace (keys are not), the last occurrence of a key kept.
SpecMeta(f) ==
    [k \in MetaKeys |->
        LET I == {i \in 1..Len(f.lines) : RawKey(f.lines[i]) = k}
        IN  IF I = {} THEN "" ELSE f.lines[CHOOSE i \in I : \A j \in I : j <= i].val]

\* The predicates of spec 4.2, each with the result its failure yields.
SpecPredicates(f, p) ==
    LET m == SpecMeta(f)
        ts == m["post-timestamp"]
        downgrade == ~ParsesInt64(ts) \/ NumText[ts] < BuildTimestamp(p)
    IN  << <<f.readable, "CORRUPT">>,
           <<m["pre-device"] # "" /\ m["pre-device"] = p.device, "ERROR">>,
           <<m["serialno"] \in {"", p.serial}, "ERROR">>,
           <<m["ota-type"] = "AB", "ERROR">>,
           <<m["pre-build-incremental"] \in {"", p.incremental}, "ERROR">>,
           <<m["pre-build"] \in {"", p.fingerprint}, "ERROR">>,
           <<downgrade => (m["ota-downgrade"] = "yes" /\ m["pre-build"] # ""), "ERROR">> >>

\* The gate of spec 4.2: the result of the first failing predicate, or 0.
SpecGate(m, p) ==
    LET P == SpecPredicates(m, p)
        F == {i \in 1..Len(P) : ~P[i][1]}
    IN  IF F = {} THEN "OK" ELSE P[CHOOSE i \in F : \A j \in F : i <= j][2]

\* check_newer_ab_build() accepts and rejects exactly the packages spec 4.2
\* accepts and rejects, with the same result code, whatever the metadata
\* (repeated keys, missing keys, unparsable timestamps) and the properties.
GateMatchesSpec == ret # "none" => ret = SpecGate(md, pr)

\* With ro.build.date.utc unset, every package with a finite post-timestamp
\* is a downgrade (spec 9), so an accepted package must carry ota-downgrade
\* and a pre-build fingerprint.
AbsentDateIsDowngrade ==
    (ret = "OK" /\ pr.date = "absent") =>
        /\ SpecMeta(md)["ota-downgrade"] = "yes"
        /\ SpecMeta(md)["pre-build"] # ""

=============================================================================
