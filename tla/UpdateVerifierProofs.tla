------------------------- MODULE UpdateVerifierProofs -------------------------
(***************************************************************************)
(* Proofs about UpdateVerifier: type correctness, and that a slot is only  *)
(* marked successful when every block of its care map is intact, provided *)
(* no range of the care map is long enough to wrap the unsigned byte count *)
(* of read_blocks() (the run update_verifier_long_range shows that without *)
(* this proviso the property fails).                                       *)
(***************************************************************************)
EXTENDS UpdateVerifier, TLAPS

\* The care map's pair being read, and its loop bound in read_blocks().
Cur == care_map.parts[part]

\* The structural facts the type proof needs: the loop indexes of
\* verify_image() and read_blocks() stay within the care map, and the pair
\* being read belongs to a device that opened and whose count token passed.
TInv ==
    /\ TypeOK
    /\ vpc \in {"device", "range"} => part \in 1..Len(care_map.parts)
    /\ vpc = "range" =>
          /\ Cur.dev \in Devices
          /\ CountOK(Cur)
          /\ pair \in 1..(Cur.count \div 2 + 1)

LEMMA PartsArePart ==
    ASSUME NEW m \in CareMaps, NEW i \in 1..Len(m.parts)
    PROVE  m.parts[i] \in Part
<1>1. m \in CareMap
  BY ConstantsAssumption
<1>. QED
  BY <1>1 DEF CareMap

LEMMA OutcomeValues ==
    ASSUME NEW d, NEW s, NEW e
    PROVE  RangeOutcome(d, s, e) \in {"failed", "restarted", "range"}
BY DEF RangeOutcome

\* A successful range read only reads blocks of the device.
LEMMA OutcomeInDevice ==
    ASSUME NEW d, NEW s, NEW e, RangeOutcome(d, s, e) = "range"
    PROVE  BlocksRead(s, e) \subseteq Blocks
BY DEF RangeOutcome

LEMMA InitTInv == Init => TInv
<1>. SUFFICES ASSUME Init PROVE TInv
  OBVIOUS
<1>1. TypeOK
  BY ConstantsAssumption DEF Init, TypeOK, VPCs, BoolResults
<1>. QED
  BY <1>1 DEF Init, TInv

LEMMA NextTInv == TInv /\ [Next]_vars => TInv'
<1>. SUFFICES ASSUME TInv, [Next]_vars PROVE TInv'
  OBVIOUS
<1>. USE DEF TInv, TypeOK, VPCs, Cur
<1>1. CASE Start
  BY <1>1 DEF Start
<1>2. CASE CheckMode
  BY <1>2 DEF CheckMode
<1>3. CASE OpenCareMap
  <2>1. care_map \in CareMap /\ (care_map.lines \in {2, 4} => Len(care_map.parts) = care_map.lines \div 2)
    BY ConstantsAssumption
  <2>2. vpc' \in {"mark", "failed", "device"}
    BY <1>3, <2>1 DEF OpenCareMap, CareMap
  <2>3. vpc' = "device" => 1 \in 1..Len(care_map.parts)
    BY <1>3, <2>1 DEF OpenCareMap, CareMap
  <2>. QED
    BY <1>3, <2>2, <2>3 DEF OpenCareMap
<1>4. CASE OpenDevice
  <2>1. Cur \in Part
    BY <1>4, PartsArePart DEF OpenDevice
  <2>. QED
    BY <1>4, <2>1 DEF OpenDevice, Part, CountOK
<1>5. CASE ReadRange
  <2>. DEFINE s == Cur.vals[2 * pair - 1]
              e == Cur.vals[2 * pair]
  <2>1. Cur \in Part
    BY <1>5, PartsArePart DEF ReadRange
  <2>2. /\ pair <= Cur.count \div 2
        /\ vpc' = RangeOutcome(Cur.dev, s, e)
        /\ read_set' = IF vpc' = "range"
                         THEN read_set \cup {<<Cur.dev, b>> : b \in BlocksRead(s, e)}
                         ELSE read_set
        /\ pair' = pair + 1
        /\ UNCHANGED <<boot, mode, slot, care_map, corrupt, part>>
    BY <1>5 DEF ReadRange
  <2>3. vpc' \in {"failed", "restarted", "range"}
    BY <2>2, OutcomeValues
  <2>4. read_set' \subseteq Devices \X Blocks
    <3>1. CASE vpc' = "range"
      <4>1. BlocksRead(s, e) \subseteq Blocks
        BY <3>1, <2>2, OutcomeInDevice
      <4>2. Cur.dev \in Devices
        BY <1>5 DEF ReadRange
      <4>. QED
        BY <3>1, <2>2, <4>1, <4>2
    <3>2. CASE vpc' # "range"
      BY <3>2, <2>2
    <3>. QED
      BY <3>1, <3>2
  <2>5. vpc' = "range" => pair' \in 1..(Cur.count \div 2 + 1)
    BY <2>1, <2>2 DEF Part
  <2>6. Cur' = Cur
    BY <2>2
  <2>7. vpc' = "range" => Cur.dev \in Devices /\ CountOK(Cur) /\ part \in 1..Len(care_map.parts)
    BY <1>5 DEF ReadRange
  <2>8. pair' \in Nat \ {0}
    BY <2>2, <2>1 DEF Part
  <2>. QED
    BY <2>2, <2>3, <2>4, <2>5, <2>6, <2>7, <2>8
<1>6. CASE FinishDevice
  BY <1>6 DEF FinishDevice
<1>7. CASE Mark
  BY <1>7 DEF Mark, BoolResults
<1>8. CASE Reboot
  BY <1>8, ConstantsAssumption DEF Reboot
<1>9. CASE Halted
  BY <1>9 DEF Halted, vars
<1>10. CASE UNCHANGED vars
  BY <1>10 DEF vars
<1>. QED
  BY <1>1, <1>2, <1>3, <1>4, <1>5, <1>6, <1>7, <1>8, <1>9, <1>10 DEF Next

\* Every state update_verifier reaches has the types of TypeOK: its loop
\* indexes, the boot control's answer and the set of blocks read.
THEOREM TypeCorrect == Spec => []TypeOK
<1>1. TInv => TypeOK
  BY DEF TInv
<1>. QED
  BY InitTInv, NextTInv, <1>1, PTL DEF Spec

---------------------------------------------------------------------------

\* No valid range pair of care map m spans 2^UINT_BITS bytes or more, so the
\* unsigned byte count (range_end - range_start) * BLOCKSIZE does not wrap.
RangeFits(m) ==
    \A i \in 1..Len(m.parts) : \A j \in 1..(Len(m.parts[i].vals) \div 2) :
        LET s == m.parts[i].vals[2 * j - 1]
            e == m.parts[i].vals[2 * j]
        IN  ParsesUint(s) /\ ParsesUint(e) /\ s < e => (e - s) * BLOCKSIZE < UINT_MOD
NoWrap == \A m \in CareMaps : RangeFits(m)

\* A block, as <<device, block>>, that is not corrupted.
Intact(db) == db[2] \notin corrupt[db[1]]

\* The blocks of the first n care-map pairs.
Covered(n) == UNION {PartBlocks(care_map.parts[i]) : i \in 1..n}

\* MarkedOnlyIfIntact is not inductive: marking needs to know that the scan
\* of this boot ran in enforcing mode, that every block it read is intact
\* (dm-verity would have restarted the device otherwise), and that the pairs
\* and ranges it has passed are all among the blocks read.
IInv ==
    /\ TInv
    /\ vpc \in {"care_map", "device", "range", "mark"} => mode = "enforcing"
    /\ \A db \in read_set : Intact(db)
    /\ vpc \in {"device", "range"} => Covered(part - 1) \subseteq read_set
    /\ vpc = "range" => \A j \in 1..(pair - 1) : PairBlocks(Cur, j) \subseteq read_set
    /\ vpc = "mark" => care_map.file = "missing" \/ CareBlocks(care_map) \subseteq read_set
    /\ MarkedOnlyIfIntact

\* A range whose byte count does not wrap is read whole: [start, end).
LEMMA NoWrapRead ==
    ASSUME NEW s \in Int, NEW e \in Int, s < e, (e - s) * BLOCKSIZE < UINT_MOD
    PROVE  BlocksRead(s, e) = s..(e - 1)
<1>1. BLOCKSIZE \in Nat \ {0}
  BY ConstantsAssumption
<1>2. ReadSize(s, e) = (e - s) * BLOCKSIZE
  BY <1>1, ConstantsAssumption DEF ReadSize
<1>3. ((e - s) * BLOCKSIZE) \div BLOCKSIZE = e - s
  BY <1>1
<1>. QED
  BY <1>2, <1>3 DEF BlocksRead

\* A range read that succeeds had a valid pair, and, in enforcing mode, met
\* no corrupted block (dm-verity would have restarted the device).
LEMMA OutcomeValid ==
    ASSUME NEW d, NEW s, NEW e, RangeOutcome(d, s, e) = "range"
    PROVE  ParsesUint(s) /\ ParsesUint(e) /\ s < e
BY ConstantsAssumption DEF RangeOutcome, ParsesUint

LEMMA OutcomeIntact ==
    ASSUME NEW d, NEW s, NEW e, mode = "enforcing", RangeOutcome(d, s, e) = "range"
    PROVE  \A b \in BlocksRead(s, e) : b \notin corrupt[d]
BY DEF RangeOutcome, VerityRestarts, HitsCorruption

\* The blocks of the first n pairs grow by the n-th pair's blocks.
LEMMA CoveredStep ==
    ASSUME NEW n \in Nat \ {0}
    PROVE  Covered(n) = Covered(n - 1) \cup PartBlocks(care_map.parts[n])
<1>1. 1..n = (1..(n - 1)) \cup {n}
  OBVIOUS
<1>. QED
  BY <1>1 DEF Covered

LEMMA CoveredZero == Covered(0) = {}
BY DEF Covered

LEMMA InitIInv == Init => IInv
<1>. SUFFICES ASSUME Init PROVE IInv
  OBVIOUS
<1>. QED
  BY InitTInv DEF Init, IInv, MarkedOnlyIfIntact

\* The blocks of the pair being read, when its range read succeeds, are the
\* blocks read_blocks() adds, and all of them are intact.
LEMMA ReadRangeStep ==
    ASSUME NoWrap, IInv, ReadRange, vpc' = "range"
    PROVE  /\ \A j \in 1..pair : PairBlocks(Cur, j) \subseteq read_set'
           /\ \A db \in read_set' : Intact(db)'
<1>. DEFINE s == Cur.vals[2 * pair - 1]
            e == Cur.vals[2 * pair]
            new == {<<Cur.dev, b>> : b \in BlocksRead(s, e)}
<1>1. /\ pair <= Cur.count \div 2
      /\ vpc' = RangeOutcome(Cur.dev, s, e)
      /\ read_set' = read_set \cup new
      /\ UNCHANGED <<mode, care_map, corrupt, part>>
  BY DEF ReadRange, Cur
<1>2. /\ part \in 1..Len(care_map.parts)
      /\ CountOK(Cur)
      /\ pair \in Nat \ {0}
      /\ mode = "enforcing"
      /\ care_map \in CareMaps
  BY DEF IInv, TInv, TypeOK, ReadRange
<1>20. Cur \in Part
  BY <1>2, PartsArePart DEF Cur
<1>3. pair \in 1..(Len(Cur.vals) \div 2) /\ s \in Int /\ e \in Int
  BY <1>1, <1>2, <1>20 DEF CountOK, Part
<1>4. ParsesUint(s) /\ ParsesUint(e) /\ s < e
  BY <1>1, OutcomeValid
<1>5. (e - s) * BLOCKSIZE < UINT_MOD
  <2>1. RangeFits(care_map)
    BY DEF NoWrap, IInv, TInv, TypeOK
  <2>. QED
    BY <2>1, <1>2, <1>3, <1>4, <1>20 DEF RangeFits, Cur
<1>6. PairBlocks(Cur, pair) = new
  BY <1>3, <1>4, <1>5, NoWrapRead DEF PairBlocks
<1>7. \A b \in BlocksRead(s, e) : b \notin corrupt[Cur.dev]
  BY <1>1, <1>2, OutcomeIntact
<1>8. \A j \in 1..(pair - 1) : PairBlocks(Cur, j) \subseteq read_set
  BY DEF IInv, ReadRange
<1>9. \A db \in read_set : Intact(db)
  BY DEF IInv
<1>10. \A j \in 1..pair : PairBlocks(Cur, j) \subseteq read_set'
  <2>1. 1..pair = (1..(pair - 1)) \cup {pair}
    BY <1>2
  <2>. QED
    BY <1>1, <1>6, <1>8, <2>1
<1>11. \A db \in read_set' : Intact(db)'
  BY <1>1, <1>7, <1>9 DEF Intact
<1>. QED
  BY <1>1, <1>10, <1>11 DEF Cur

\* When the last pair of a device is read, all its blocks were read.
LEMMA DeviceDone ==
    ASSUME IInv, vpc = "range", pair > Cur.count \div 2
    PROVE  Covered(part) \subseteq read_set
<1>0. /\ part \in 1..Len(care_map.parts)
      /\ CountOK(Cur)
      /\ pair \in Nat \ {0}
      /\ care_map \in CareMaps
  BY DEF IInv, TInv, TypeOK
<1>1. Cur \in Part /\ part \in 1..Len(care_map.parts) /\ CountOK(Cur) /\ pair \in Nat \ {0}
  BY <1>0, PartsArePart DEF Cur
<1>2. \A j \in 1..(Len(Cur.vals) \div 2) : PairBlocks(Cur, j) \subseteq read_set
  <2>1. \A j \in 1..(pair - 1) : PairBlocks(Cur, j) \subseteq read_set
    BY DEF IInv
  <2>2. 1..(Len(Cur.vals) \div 2) \subseteq 1..(pair - 1)
    BY <1>1 DEF CountOK, Part
  <2>. QED
    BY <2>1, <2>2
<1>3. PartBlocks(Cur) \subseteq read_set
  BY <1>2 DEF PartBlocks
<1>4. Covered(part - 1) \subseteq read_set
  BY DEF IInv
<1>. QED
  BY <1>1, <1>3, <1>4, CoveredStep DEF Cur

LEMMA NextIInv ==
    ASSUME NoWrap
    PROVE  IInv /\ [Next]_vars => IInv'
<1>. SUFFICES ASSUME IInv, [Next]_vars PROVE IInv'
  OBVIOUS
<1>0. TInv'
  BY NextTInv DEF IInv
<1>. USE DEF IInv
<1>1. CASE Start
  BY <1>0, <1>1 DEF Start, Intact, MarkedOnlyIfIntact
<1>2. CASE CheckMode
  BY <1>0, <1>2 DEF CheckMode, Intact, MarkedOnlyIfIntact
<1>3. CASE OpenCareMap
  <2>1. vpc' \in {"mark", "failed", "device"} /\ (vpc' = "mark" => care_map.file = "missing")
    BY <1>3 DEF OpenCareMap
  <2>2. Covered(part' - 1) = {}
    BY <1>3, CoveredZero DEF OpenCareMap, Covered
  <2>. QED
    BY <1>0, <1>3, <2>1, <2>2 DEF OpenCareMap, Intact, MarkedOnlyIfIntact, Covered
<1>4. CASE OpenDevice
  BY <1>0, <1>4 DEF OpenDevice, Intact, MarkedOnlyIfIntact, Covered
<1>5. CASE ReadRange
  <2>1. UNCHANGED <<mode, slot, care_map, corrupt, part>> /\ pair' = pair + 1 /\ vpc = "range"
    BY <1>5 DEF ReadRange
  <2>2. CASE vpc' = "range"
    <3>1. /\ \A j \in 1..pair : PairBlocks(Cur, j) \subseteq read_set'
          /\ \A db \in read_set' : Intact(db)'
      BY <1>5, <2>2, ReadRangeStep
    <3>2. read_set \subseteq read_set'
      BY <1>5, <2>2 DEF ReadRange
    <3>3. pair \in Nat
      BY DEF TInv, TypeOK
    <3>. QED
      BY <1>0, <2>1, <2>2, <3>1, <3>2, <3>3 DEF Cur, Covered, MarkedOnlyIfIntact
  <2>3. CASE vpc' # "range"
    <3>1. vpc' \in {"failed", "restarted"} /\ read_set' = read_set
      BY <1>5, <2>3, OutcomeValues DEF ReadRange
    <3>. QED
      BY <1>0, <2>1, <3>1 DEF Intact, MarkedOnlyIfIntact
  <2>. QED
    BY <2>2, <2>3
<1>6. CASE FinishDevice
  <2>1. Covered(part) \subseteq read_set
    BY <1>6, DeviceDone DEF FinishDevice, Cur
  <2>2. UNCHANGED <<mode, slot, care_map, corrupt, read_set>> /\ vpc = "range" /\ part \in Nat
    BY <1>6 DEF FinishDevice, TInv, TypeOK
  <2>3. CASE part < Len(care_map.parts)
    <3>1. vpc' = "device" /\ part' = part + 1
      BY <1>6, <2>3 DEF FinishDevice
    <3>. QED
      BY <1>0, <2>1, <2>2, <3>1 DEF Intact, MarkedOnlyIfIntact, Covered
  <2>4. CASE ~(part < Len(care_map.parts))
    <3>1. vpc' = "mark"
      BY <1>6, <2>4 DEF FinishDevice
    <3>2. part = Len(care_map.parts)
      BY <1>6, <2>4 DEF FinishDevice, TInv
    <3>3. CareBlocks(care_map) \subseteq read_set
      BY <2>1, <3>2 DEF CareBlocks, Covered
    <3>. QED
      BY <1>0, <2>2, <3>1, <3>3 DEF Intact, MarkedOnlyIfIntact
  <2>. QED
    BY <2>3, <2>4
<1>7. CASE Mark
  <2>1. vpc = "mark" /\ UNCHANGED <<care_map, corrupt, read_set>>
    BY <1>7 DEF Mark
  <2>2. slot' = "TRUE" => (care_map.file = "missing" \/ CareBlocks(care_map) \subseteq read_set)
    BY <1>7, <2>1 DEF Mark, MarkedOnlyIfIntact
  <2>3. vpc' \in {"ok", "failed"}
    BY <1>7 DEF Mark
  <2>4. slot' = "TRUE" => MarkedOnlyIfIntact'
    BY <2>1, <2>2 DEF Intact, MarkedOnlyIfIntact, Healthy
  <2>5. slot' # "TRUE" => MarkedOnlyIfIntact'
    BY DEF MarkedOnlyIfIntact
  <2>. QED
    BY <1>0, <2>1, <2>3, <2>4, <2>5 DEF Intact
<1>8. CASE Reboot
  BY <1>0, <1>8 DEF Reboot, Intact, MarkedOnlyIfIntact
<1>9. CASE Halted
  BY <1>0, <1>9 DEF Halted, vars, Intact, MarkedOnlyIfIntact, Covered, Cur
<1>10. CASE UNCHANGED vars
  BY <1>0, <1>10 DEF vars, Intact, MarkedOnlyIfIntact, Covered, Cur
<1>. QED
  BY <1>1, <1>2, <1>3, <1>4, <1>5, <1>6, <1>7, <1>8, <1>9, <1>10 DEF Next

\* Under NoWrap, update_verifier marks a slot successful only if no block
\* of its care map is corrupted (or there is no care map): main() checks the
\* verity mode before the scan, read_blocks() reads every listed range whole,
\* and dm-verity restarts the device on any corrupted block it reads.
THEOREM NoWrapMarkedOnlyIfIntact ==
    ASSUME NoWrap
    PROVE  Spec => []MarkedOnlyIfIntact
<1>1. IInv => MarkedOnlyIfIntact
  BY DEF IInv
<1>. QED
  BY InitIInv, NextIInv, <1>1, PTL DEF Spec

=============================================================================
