--------------------------- MODULE UpdateVerifier ---------------------------
(***************************************************************************)
(* update_verifier (src/update_verifier/update_verifier.cpp): on each boot *)
(* of a slot not yet marked successful it checks that dm-verity enforces,  *)
(* reads every block range of the care map, and then asks the boot control *)
(* to mark the slot successful.  In enforcing mode dm-verity restarts the  *)
(* device on a read of a corrupted block, so reaching the end of the scan  *)
(* is what proves the listed blocks intact.                                *)
(*                                                                         *)
(* The model spans boots: the slot's mark, the care map and the blocks'    *)
(* corruption persist, the verity mode is chosen anew by each boot.        *)
(***************************************************************************)
EXTENDS Integers, Sequences, FiniteSets

CONSTANTS
    CareMaps,       \* the care_map.txt files the device may hold
    Corruptions,    \* the sets of corrupted blocks the partitions may have
    VerityModes,    \* the values ro.boot.veritymode may take at a boot
    DevBlocks,      \* size of each partition, in blocks
    BLOCKSIZE,      \* bytes per block
    UINT_BITS,      \* width of unsigned int
    MaxBoots        \* bound on the number of boots

Devices == {"system", "vendor"}
Blocks == 0..(DevBlocks - 1)
UINT_MOD == 2 ^ UINT_BITS

\* One (block device, range string) pair of the care map.  dev "absent" is a
\* device that cannot be opened.  The range string "count,v1,...,vn" is the
\* count token (-1 when it does not parse) and the values.
Part == [dev : Devices \cup {"absent"}, count : Int, vals : Seq(Int)]

\* A care map: its file state, the number of lines Split(Trim(content))
\* yields, and the (device, ranges) pairs those lines form.
CareMap == [file : {"missing", "unreadable", "present"}, lines : Nat, parts : Seq(Part)]

ASSUME ConstantsAssumption ==
    /\ CareMaps \subseteq CareMap
    /\ \A m \in CareMaps : m.lines \in {2, 4} => Len(m.parts) = m.lines \div 2
    /\ Corruptions \subseteq [Devices -> SUBSET Blocks]
    /\ DevBlocks \in Nat \ {0}
    /\ BLOCKSIZE \in Nat \ {0}
    /\ UINT_BITS \in Nat \ {0}
    /\ UINT_MOD \in Nat \ {0}
    /\ UINT_MOD % BLOCKSIZE = 0
    /\ MaxBoots \in Nat \ {0}

BoolResults == {"TRUE", "FALSE", "INVALID"}

VARIABLES
    vpc,        \* control point of the verifier in this boot
    boot,       \* number of the current boot
    mode,       \* ro.boot.veritymode in this boot
    slot,       \* isSlotMarkedSuccessful(current slot), kept by the boot control
    care_map,   \* /data/ota_package/care_map.txt
    corrupt,    \* corrupt[d]: the blocks of partition d that are corrupted
    part,       \* index of the care-map pair being read
    pair,       \* index of the range pair being read
    read_set    \* the blocks read in this boot, as <<device, block>>

vars == <<vpc, boot, mode, slot, care_map, corrupt, part, pair, read_set>>

VPCs == {"start", "mode", "care_map", "device", "range", "mark",
         "ok", "failed", "restarted"}

\* ParseUint() into an unsigned int.
ParsesUint(v) == v \in 0..(UINT_MOD - 1)

\* The check of the count token in read_blocks().
CountOK(p) == p.count > 0 /\ p.count % 2 = 0 /\ p.count = Len(p.vals)

\* The byte count ReadFully() is given: (range_end - range_start) * BLOCKSIZE
\* evaluated in unsigned int, and the blocks it covers from range_start.
ReadSize(s, e) == ((e - s) * BLOCKSIZE) % UINT_MOD
BlocksRead(s, e) == s..(s + ReadSize(s, e) \div BLOCKSIZE - 1)

Init ==
    /\ vpc = "start"
    /\ boot = 1
    /\ mode \in VerityModes
    /\ slot \in {"FALSE", "INVALID"}    \* first boot after the slot switch
    /\ care_map \in CareMaps
    /\ corrupt \in Corruptions
    /\ part = 1
    /\ pair = 1
    /\ read_set = {}

---------------------------------------------------------------------------

\* main(): get the boot control; only a slot whose status is FALSE is
\* verified, TRUE and INVALID leave with 0.
Start ==
    /\ vpc = "start"
    /\ \/ vpc' = "failed"                    \* getService() returned nullptr
       \/ vpc' = IF slot = "FALSE" THEN "mode" ELSE "ok"
    /\ UNCHANGED <<boot, mode, slot, care_map, corrupt, part, pair, read_set>>

\* Mutant of CheckMode: only eio is refused, other modes pass.
CheckMode_OnlyEio ==
    /\ vpc = "mode"
    /\ vpc' = IF mode \in {"eio", "EIO"} THEN "failed" ELSE "care_map"
    /\ UNCHANGED <<boot, mode, slot, care_map, corrupt, part, pair, read_set>>

\* The verity mode: "eio" in any case fails, so does anything but "enforcing".
CheckMode ==
    /\ vpc = "mode"
    /\ vpc' = IF mode = "enforcing" THEN "care_map" ELSE "failed"
    /\ UNCHANGED <<boot, mode, slot, care_map, corrupt, part, pair, read_set>>

\* verify_image(): a missing care map skips the scan; an unreadable one or
\* one with other than 2 or 4 lines fails it.
OpenCareMap ==
    /\ vpc = "care_map"
    /\ vpc' = CASE care_map.file = "missing"    -> "mark"
                [] care_map.file = "unreadable" -> "failed"
                [] care_map.file = "present" /\ care_map.lines \notin {2, 4} -> "failed"
                [] OTHER -> "device"
    /\ part' = 1
    /\ UNCHANGED <<boot, mode, slot, care_map, corrupt, pair, read_set>>

\* read_blocks(): open the slot's block device and check the count token.
OpenDevice ==
    /\ vpc = "device"
    /\ LET p == care_map.parts[part] IN
         vpc' = IF p.dev \in Devices /\ CountOK(p) THEN "range" ELSE "failed"
    /\ pair' = 1
    /\ UNCHANGED <<boot, mode, slot, care_map, corrupt, part, read_set>>

\* dm-verity on a read of corrupted blocks: enforcing restarts the device,
\* eio fails the read, any other mode (logging) lets it succeed.
HitsCorruption(d, bs) == \E b \in bs : b \in corrupt[d]
VerityRestarts(d, bs) == HitsCorruption(d, bs) /\ mode = "enforcing"
VerityFailsRead(d, bs) == HitsCorruption(d, bs) /\ mode \in {"eio", "EIO"}

\* What one range pair of read_blocks() comes to, in the order the code and
\* the kernel meet the cases: an invalid pair returns false; ReadFully then
\* reads the blocks in order, so a corrupted block (inside the device) is met
\* before the end of the device: dm-verity restarts the device (enforcing) or
\* fails the read (eio); otherwise a read past the end fails.
RangeOutcome(d, s, e) ==
    IF ~ParsesUint(s) \/ ~ParsesUint(e) \/ s >= e THEN "failed"
    ELSE IF VerityRestarts(d, BlocksRead(s, e)) THEN "restarted"
    ELSE IF VerityFailsRead(d, BlocksRead(s, e)) THEN "failed"
    ELSE IF \E b \in BlocksRead(s, e) : b \notin Blocks THEN "failed"
    ELSE "range"

\* Mutant of ReadRange: the blocks read recorded by their byte offsets.
ReadRange_ByteOffsets ==
    /\ vpc = "range"
    /\ LET p == care_map.parts[part]
           s == p.vals[2 * pair - 1]
           e == p.vals[2 * pair]
       IN  /\ pair <= p.count \div 2
           /\ vpc' = RangeOutcome(p.dev, s, e)
           /\ read_set' = IF vpc' = "range"
                            THEN read_set \cup
                                 {<<p.dev, b * BLOCKSIZE>> : b \in BlocksRead(s, e)}
                            ELSE read_set
    /\ pair' = pair + 1
    /\ UNCHANGED <<boot, mode, slot, care_map, corrupt, part>>

\* One range pair: parse and check it, lseek, ReadFully of ReadSize bytes;
\* the blocks are read when the read succeeds.
ReadRange ==
    /\ vpc = "range"
    /\ LET p == care_map.parts[part]
           s == p.vals[2 * pair - 1]
           e == p.vals[2 * pair]
       IN  /\ pair <= p.count \div 2
           /\ vpc' = RangeOutcome(p.dev, s, e)
           /\ read_set' = IF vpc' = "range"
                            THEN read_set \cup {<<p.dev, b>> : b \in BlocksRead(s, e)}
                            ELSE read_set
    /\ pair' = pair + 1
    /\ UNCHANGED <<boot, mode, slot, care_map, corrupt, part>>

\* The last pair of a device is read: go on to the next care-map pair, or
\* to marking once all are read.
FinishDevice ==
    /\ vpc = "range"
    /\ pair > care_map.parts[part].count \div 2
    /\ IF part < Len(care_map.parts)
          THEN vpc' = "device" /\ part' = part + 1
          ELSE vpc' = "mark" /\ UNCHANGED part
    /\ UNCHANGED <<boot, mode, slot, care_map, corrupt, pair, read_set>>

\* markBootSuccessful(): the boot control may report failure.
Mark ==
    /\ vpc = "mark"
    /\ \/ vpc' = "ok" /\ slot' = "TRUE"
       \/ vpc' = "failed" /\ UNCHANGED slot
    /\ UNCHANGED <<boot, mode, care_map, corrupt, part, pair, read_set>>

\* The device boots again, after the verifier has exited or dm-verity has
\* restarted it; the bootloader sets the verity mode of the new boot.
Reboot ==
    /\ vpc \in {"ok", "failed", "restarted"}
    /\ boot < MaxBoots
    /\ boot' = boot + 1
    /\ mode' \in VerityModes
    /\ vpc' = "start"
    /\ part' = 1
    /\ pair' = 1
    /\ read_set' = {}
    /\ UNCHANGED <<slot, care_map, corrupt>>

\* No more boots within the bound.
Halted ==
    /\ vpc \in {"ok", "failed", "restarted"}
    /\ boot = MaxBoots
    /\ UNCHANGED vars

Next == Start \/ CheckMode \/ OpenCareMap \/ OpenDevice \/ ReadRange
        \/ FinishDevice \/ Mark \/ Reboot \/ Halted

Spec == Init /\ [][Next]_vars

---------------------------------------------------------------------------

TypeOK ==
    /\ vpc \in VPCs
    /\ boot \in 1..MaxBoots
    /\ mode \in VerityModes
    /\ slot \in BoolResults
    /\ care_map \in CareMaps
    /\ corrupt \in Corruptions
    /\ part \in Nat \ {0}
    /\ pair \in Nat \ {0}
    /\ read_set \subseteq Devices \X Blocks

\* The blocks a care map lists: the union of [start, end) over its pairs.
PairBlocks(p, j) == {<<p.dev, b>> : b \in p.vals[2 * j - 1]..(p.vals[2 * j] - 1)}
PartBlocks(p) == UNION {PairBlocks(p, j) : j \in 1..(Len(p.vals) \div 2)}
CareBlocks(m) == UNION {PartBlocks(m.parts[i]) : i \in 1..Len(m.parts)}

\* The care map m lists no block that corruption c corrupts, or is missing.
Healthy(m, c) ==
    \/ m.file = "missing"
    \/ \A db \in CareBlocks(m) : db[2] \notin c[db[1]]

\* A slot is marked successful only if no block the care map lists is
\* corrupted, unless there is no care map at all: the verity-mode check, the
\* full scan of read_blocks() and dm-verity's restart together guarantee it.
MarkedOnlyIfIntact == slot = "TRUE" => Healthy(care_map, corrupt)

\* The verifier exits with success only for a slot the boot control reports
\* as marked successful: one already TRUE, or one it has just marked after
\* the scan.  Spec 4.8 says INVALID either proceeds to the checks like FALSE
\* or is an error; main() compares the status with FALSE only.
SuccessOnlyIfMarked == vpc = "ok" => slot = "TRUE"

=============================================================================
