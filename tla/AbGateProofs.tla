------------------------------ MODULE AbGateProofs ------------------------------
(***************************************************************************)
(* Proofs about check_newer_ab_build(), for every metadata file and every  *)
(* set of device properties: when no key or value of the metadata carries  *)
(* trailing whitespace, the gate of the code returns exactly the result    *)
(* of the gate spec 4.2 describes.  The hypothesis is needed: the run      *)
(* ab_gate_trim shows the two differ on padded metadata.                   *)
(*                                                                         *)
(* Both the parse loop (the last line with a key wins) and the spec (the   *)
(* first failing predicate decides) are stated with CHOOSE of an extremum; *)
(* the lemmas below show those extrema exist and compute them.             *)
(***************************************************************************)
EXTENDS AbGate, WellFoundedInduction, TLAPS

\* No value of the file ends in whitespace (spec 3 trims values, the code does not).
NoPadding(f) == \A i \in 1..Len(f.lines) : ~f.lines[i].vpad

\* A nonempty set of line numbers has a last element (the line the parse
\* loop's final assignment to a key comes from).
LEMMA MaxExists ==
    ASSUME NEW n \in Nat, NEW I \in SUBSET (1..n), I # {}
    PROVE  \E i \in I : \A j \in I : j <= i
<1> DEFINE T == {n - i : i \in I}
           Less == {ss \in Nat \X Nat : ss[1] < ss[2]}
<1>1. Less = OpToRel(<, Nat)
  BY DEF OpToRel
<1>2. IsWellFoundedOn(Less, Nat)
  BY <1>1, NatLessThanWellFounded
<1>3. \A i \in I : i \in 1..n /\ n - i \in Nat
  <2> TAKE i \in I
  <2>1. i \in 1..n
    OBVIOUS
  <2>2. QED
    BY <2>1
<1>4. T \subseteq Nat /\ T # {}
  BY <1>3
<1>5. \E x \in T : \A y \in T : ~(<<y, x>> \in Less)
  BY <1>2, <1>4, WFMin
<1>6. PICK x \in T : \A y \in T : ~(<<y, x>> \in Less)
  BY <1>5
<1>7. \A y \in T : x <= y
  <2>1. x \in Nat
    BY <1>4
  <2>2. \A y \in Nat : ~(<<y, x>> \in Less) => x <= y
    BY <2>1
  <2>3. QED
    BY <1>4, <1>6, <2>2
<1>8. PICK i0 \in I : x = n - i0
  OBVIOUS
<1>9. \A j \in I : j <= i0
  BY <1>3, <1>7, <1>8
<1>10. QED
  BY <1>9

\* Without padding, metadata[k] after the parse loop is the value spec 3
\* gives the key.
LEMMA LookupIsSpecMeta ==
    ASSUME NEW f \in Metadata, NoPadding(f), NEW k \in MetaKeys
    PROVE  Lookup(f.lines, k) = SpecMeta(f)[k]
<1> DEFINE L == f.lines
           I == {i \in 1..Len(L) : RawKey(L[i]) = k}
<1>1. L \in Seq(MetaLine)
  BY DEF Metadata
<1>3. CASE I = {}
  BY <1>3 DEF Lookup, SpecMeta
<1>4. CASE I # {}
  <2> DEFINE c == CHOOSE i \in I : \A j \in I : j <= i
  <2>0. \E i \in I : \A j \in I : j <= i
    <3>1. Len(L) \in Nat /\ I \in SUBSET (1..Len(L))
      BY <1>1
    <3>2. QED
      BY <1>4, <3>1, MaxExists
  <2>1. c \in I
    BY <2>0
  <2>2. RawVal(L[c]) = L[c].val
    BY <1>1, <2>1 DEF NoPadding, RawVal
  <2>3. Lookup(L, k) = RawVal(L[c])
    BY <1>4 DEF Lookup
  <2>4. SpecMeta(f)[k] = L[c].val
    BY <1>4 DEF SpecMeta
  <2>5. QED
    BY <2>2, <2>3, <2>4
<1>5. QED
  BY <1>3, <1>4

\* The least element of a set of integers, when it has one, is what the
\* CHOOSE of the spec's first failing predicate denotes.
LEMMA ChooseLeast ==
    ASSUME NEW F \in SUBSET Int, NEW m \in F, \A j \in F : m <= j
    PROVE  (CHOOSE i \in F : \A j \in F : i <= j) = m
<1> DEFINE c == CHOOSE i \in F : \A j \in F : i <= j
<1>1. \E i \in F : \A j \in F : i <= j
  OBVIOUS
<1>2. c \in F /\ \A j \in F : c <= j
  BY <1>1
<1> HIDE DEF c
<1>3. c = m
  BY <1>2
<1>4. QED
  BY <1>3 DEF c

\* When no key or value is padded, check_newer_ab_build() returns the
\* result of the gate of spec 4.2, whatever the keys present, repeated or
\* missing, the post-timestamp and the device's properties.
LEMMA GateIsSpec ==
    ASSUME NEW f \in Metadata, NEW p \in Props, NoPadding(f)
    PROVE  CheckNewerAbBuild(f, p) = SpecGate(f, p)
<1> DEFINE m == SpecMeta(f)
           ts == m["post-timestamp"]
           dg == ~ParsesInt64(ts) \/ NumText[ts] < BuildTimestamp(p)
<1>1. SpecGate(f, p) =
        IF ~f.readable THEN "CORRUPT"
        ELSE IF ~(m["pre-device"] # "" /\ m["pre-device"] = p.device) THEN "ERROR"
        ELSE IF ~(m["serialno"] \in {"", p.serial}) THEN "ERROR"
        ELSE IF ~(m["ota-type"] = "AB") THEN "ERROR"
        ELSE IF ~(m["pre-build-incremental"] \in {"", p.incremental}) THEN "ERROR"
        ELSE IF ~(m["pre-build"] \in {"", p.fingerprint}) THEN "ERROR"
        ELSE IF ~(dg => (m["ota-downgrade"] = "yes" /\ m["pre-build"] # "")) THEN "ERROR"
        ELSE "OK"
  <2> DEFINE b1 == f.readable
             b2 == m["pre-device"] # "" /\ m["pre-device"] = p.device
             b3 == m["serialno"] \in {"", p.serial}
             b4 == m["ota-type"] = "AB"
             b5 == m["pre-build-incremental"] \in {"", p.incremental}
             b6 == m["pre-build"] \in {"", p.fingerprint}
             b7 == dg => (m["ota-downgrade"] = "yes" /\ m["pre-build"] # "")
             P == SpecPredicates(f, p)
             F == {i \in 1..Len(P) : ~P[i][1]}
  <2>1. P = << <<b1, "CORRUPT">>, <<b2, "ERROR">>, <<b3, "ERROR">>, <<b4, "ERROR">>,
               <<b5, "ERROR">>, <<b6, "ERROR">>, <<b7, "ERROR">> >>
    BY DEF SpecPredicates
  <2>2. SpecGate(f, p) = IF F = {} THEN "OK" ELSE P[CHOOSE i \in F : \A j \in F : i <= j][2]
    BY DEF SpecGate
  <2>3. /\ b1 \in BOOLEAN /\ b2 \in BOOLEAN /\ b3 \in BOOLEAN /\ b4 \in BOOLEAN
        /\ b5 \in BOOLEAN /\ b6 \in BOOLEAN /\ b7 \in BOOLEAN
    BY DEF Metadata
  <2>4. F = {i \in 1..Len(P) : ~P[i][1]}
    OBVIOUS
  <2> HIDE DEF b1, b2, b3, b4, b5, b6, b7, P, F
  <2>5. (IF F = {} THEN "OK" ELSE P[CHOOSE i \in F : \A j \in F : i <= j][2])
        = IF ~b1 THEN "CORRUPT" ELSE IF ~b2 THEN "ERROR" ELSE IF ~b3 THEN "ERROR"
          ELSE IF ~b4 THEN "ERROR" ELSE IF ~b5 THEN "ERROR" ELSE IF ~b6 THEN "ERROR"
          ELSE IF ~b7 THEN "ERROR" ELSE "OK"
    <3> DEFINE c == CHOOSE i \in F : \A j \in F : i <= j
    <3>0. /\ P[1][1] = b1 /\ P[2][1] = b2 /\ P[3][1] = b3 /\ P[4][1] = b4
          /\ P[5][1] = b5 /\ P[6][1] = b6 /\ P[7][1] = b7
          /\ P[1][2] = "CORRUPT" /\ P[2][2] = "ERROR" /\ P[3][2] = "ERROR" /\ P[4][2] = "ERROR"
          /\ P[5][2] = "ERROR" /\ P[6][2] = "ERROR" /\ P[7][2] = "ERROR"
      BY <2>1
    <3>1. F = {i \in 1..7 : ~P[i][1]}
      BY <2>1, <2>4
    <3>2. ASSUME NEW k \in 1..7, \A j \in 1..(k-1) : P[j][1], ~P[k][1]
          PROVE  c = k
      <4>1. F \in SUBSET Int /\ k \in F /\ \A j \in F : k <= j
        BY <3>1, <3>2
      <4>2. QED
        BY <4>1, ChooseLeast
    <3> HIDE DEF c
    <3>3. CASE ~b1
      <4>1. c = 1 /\ 1 \in F
        <5>1. \A j \in 1..(1-1) : P[j][1]
          <6>1. 1..(1-1) = {}
            OBVIOUS
          <6>2. \A j \in {} : P[j][1]
            BY <2>3, <3>0, <3>3, Zenon
          <6>3. QED
            BY <6>1, <6>2
        <5>2. ~P[1][1]
          BY <2>3, <3>0, <3>3
        <5>3. c = 1
          BY <5>1, <5>2, <3>2
        <5>4. QED
          BY <3>1, <5>2, <5>3
      <4>2. QED
        BY <3>0, <3>3, <4>1 DEF c
    <3>4. CASE b1 /\ ~b2
      <4>1. c = 2 /\ 2 \in F
        <5>1. \A j \in 1..(2-1) : P[j][1]
          <6>1. 1..(2-1) = {1}
            OBVIOUS
          <6>2. \A j \in {1} : P[j][1]
            BY <2>3, <3>0, <3>4, Zenon
          <6>3. QED
            BY <6>1, <6>2
        <5>2. ~P[2][1]
          BY <2>3, <3>0, <3>4
        <5>3. c = 2
          BY <5>1, <5>2, <3>2
        <5>4. QED
          BY <3>1, <5>2, <5>3
      <4>2. QED
        BY <3>0, <3>4, <4>1 DEF c
    <3>5. CASE b1 /\ b2 /\ ~b3
      <4>1. c = 3 /\ 3 \in F
        <5>1. \A j \in 1..(3-1) : P[j][1]
          <6>1. 1..(3-1) = {1, 2}
            OBVIOUS
          <6>2. \A j \in {1, 2} : P[j][1]
            BY <2>3, <3>0, <3>5, Zenon
          <6>3. QED
            BY <6>1, <6>2
        <5>2. ~P[3][1]
          BY <2>3, <3>0, <3>5
        <5>3. c = 3
          BY <5>1, <5>2, <3>2
        <5>4. QED
          BY <3>1, <5>2, <5>3
      <4>2. QED
        BY <3>0, <3>5, <4>1 DEF c
    <3>6. CASE b1 /\ b2 /\ b3 /\ ~b4
      <4>1. c = 4 /\ 4 \in F
        <5>1. \A j \in 1..(4-1) : P[j][1]
          <6>1. 1..(4-1) = {1, 2, 3}
            OBVIOUS
          <6>2. \A j \in {1, 2, 3} : P[j][1]
            BY <2>3, <3>0, <3>6, Zenon
          <6>3. QED
            BY <6>1, <6>2
        <5>2. ~P[4][1]
          BY <2>3, <3>0, <3>6
        <5>3. c = 4
          BY <5>1, <5>2, <3>2
        <5>4. QED
          BY <3>1, <5>2, <5>3
      <4>2. QED
        BY <3>0, <3>6, <4>1 DEF c
    <3>7. CASE b1 /\ b2 /\ b3 /\ b4 /\ ~b5
      <4>1. c = 5 /\ 5 \in F
        <5>1. \A j \in 1..(5-1) : P[j][1]
          <6>1. 1..(5-1) = {1, 2, 3, 4}
            OBVIOUS
          <6>2. \A j \in {1, 2, 3, 4} : P[j][1]
            BY <2>3, <3>0, <3>7, Zenon
          <6>3. QED
            BY <6>1, <6>2
        <5>2. ~P[5][1]
          BY <2>3, <3>0, <3>7
        <5>3. c = 5
          BY <5>1, <5>2, <3>2
        <5>4. QED
          BY <3>1, <5>2, <5>3
      <4>2. QED
        BY <3>0, <3>7, <4>1 DEF c
    <3>8. CASE b1 /\ b2 /\ b3 /\ b4 /\ b5 /\ ~b6
      <4>1. c = 6 /\ 6 \in F
        <5>1. \A j \in 1..(6-1) : P[j][1]
          <6>1. 1..(6-1) = {1, 2, 3, 4, 5}
            OBVIOUS
          <6>2. \A j \in {1, 2, 3, 4, 5} : P[j][1]
            BY <2>3, <3>0, <3>8, Zenon
          <6>3. QED
            BY <6>1, <6>2
        <5>2. ~P[6][1]
          BY <2>3, <3>0, <3>8
        <5>3. c = 6
          BY <5>1, <5>2, <3>2
        <5>4. QED
          BY <3>1, <5>2, <5>3
      <4>2. QED
        BY <3>0, <3>8, <4>1 DEF c
    <3>9. CASE b1 /\ b2 /\ b3 /\ b4 /\ b5 /\ b6 /\ ~b7
      <4>1. c = 7 /\ 7 \in F
        <5>1. \A j \in 1..(7-1) : P[j][1]
          <6>1. 1..(7-1) = {1, 2, 3, 4, 5, 6}
            OBVIOUS
          <6>2. \A j \in {1, 2, 3, 4, 5, 6} : P[j][1]
            BY <2>3, <3>0, <3>9, Zenon
          <6>3. QED
            BY <6>1, <6>2
        <5>2. ~P[7][1]
          BY <2>3, <3>0, <3>9
        <5>3. c = 7
          BY <5>1, <5>2, <3>2
        <5>4. QED
          BY <3>1, <5>2, <5>3
      <4>2. QED
        BY <3>0, <3>9, <4>1 DEF c
    <3>10. CASE b1 /\ b2 /\ b3 /\ b4 /\ b5 /\ b6 /\ b7
      <4>1. \A i \in 1..7 : P[i][1]
        <5>1. 1..7 = {1, 2, 3, 4, 5, 6, 7}
          OBVIOUS
        <5>2. \A i \in {1, 2, 3, 4, 5, 6, 7} : P[i][1]
          BY <2>3, <3>0, <3>10, Zenon
        <5>3. QED
          BY <5>1, <5>2
      <4>2. F = {}
        BY <3>1, <4>1
      <4>3. QED
        BY <4>2, <3>10
    <3>11. QED
      BY <3>3, <3>4, <3>5, <3>6, <3>7, <3>8, <3>9, <3>10
  <2>6. QED
    BY <2>2, <2>5 DEF b1, b2, b3, b4, b5, b6, b7
<1>2. /\ Lookup(f.lines, "pre-device") = m["pre-device"]
      /\ Lookup(f.lines, "serialno") = m["serialno"]
      /\ Lookup(f.lines, "ota-type") = m["ota-type"]
      /\ Lookup(f.lines, "pre-build-incremental") = m["pre-build-incremental"]
      /\ Lookup(f.lines, "pre-build") = m["pre-build"]
      /\ Lookup(f.lines, "post-timestamp") = ts
      /\ Lookup(f.lines, "ota-downgrade") = m["ota-downgrade"]
  BY LookupIsSpecMeta DEF MetaKeys
<1>3. (ts = "" \/ ~ParsesInt64(ts) \/ NumText[ts] < BuildTimestamp(p)) <=> dg
  BY ConstantsAssumption DEF ParsesInt64
<1>4. QED
  BY <1>1, <1>2, <1>3 DEF CheckNewerAbBuild

\* The state of the gate's harness: the inputs it was given and, once it
\* has run, the result of spec 4.2.
GInv == md \in Metadatas /\ pr \in PropSets /\ GateMatchesSpec

\* For every device and every package whose metadata has no padded key or
\* value, the result update_binary_command() gets from
\* check_newer_ab_build() is the one spec 4.2 gives (run ab_gate on a small
\* instance; run ab_gate_trim shows the hypothesis is needed).
THEOREM GateMatchesSpecThm ==
    ASSUME \A f \in Metadatas : NoPadding(f)
    PROVE  GSpec => []GateMatchesSpec
<1>1. GInit => GInv
  BY DEF GInit, GInv, GateMatchesSpec
<1>2. GInv /\ [GNext]_gvars => GInv'
  <2> SUFFICES ASSUME GInv, [GNext]_gvars PROVE GInv'
    OBVIOUS
  <2>1. CASE Check
    <3>1. md \in Metadata /\ pr \in Props
      BY ConstantsAssumption, Zenon DEF GInv
    <3>2. CheckNewerAbBuild(md, pr) = SpecGate(md, pr)
      BY <3>1, GateIsSpec DEF GInv
    <3>3. QED
      BY <2>1, <3>2 DEF Check, GInv, GateMatchesSpec
  <2>2. CASE Checked \/ UNCHANGED gvars
    BY <2>2 DEF Checked, gvars, GInv, GateMatchesSpec
  <2>3. QED
    BY <2>1, <2>2 DEF GNext
<1>3. GInv => GateMatchesSpec
  BY DEF GInv
<1>4. QED
  BY <1>1, <1>2, <1>3, PTL DEF GSpec

=============================================================================
