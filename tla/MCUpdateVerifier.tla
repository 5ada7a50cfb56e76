------------------------- MODULE MCUpdateVerifier -------------------------
(* Instances of UpdateVerifier for TLC: 6-block partitions, 8-byte blocks *)
(* and a 5-bit unsigned int, so that a range of 4 blocks or more wraps    *)
(* the byte count as a range of 2^20 blocks or more does on the device.   *)
EXTENDS UpdateVerifier

Sys(c, v) == [dev |-> "system", count |-> c, vals |-> v]
Ven(c, v) == [dev |-> "vendor", count |-> c, vals |-> v]
Present(parts) == [file |-> "present", lines |-> 2 * Len(parts), parts |-> parts]

\* Well-formed care maps, and the malformed ones read_blocks() rejects.
GoodMaps ==
    { [file |-> "missing", lines |-> 0, parts |-> <<>>],
      Present(<<Sys(4, <<0, 2, 4, 6>>)>>),
      Present(<<Sys(2, <<1, 4>>), Ven(2, <<0, 3>>)>>) }
BadMaps ==
    { [file |-> "unreadable", lines |-> 0, parts |-> <<>>],
      [file |-> "present", lines |-> 3, parts |-> <<>>],
      Present(<<Sys(3, <<0, 1, 2>>)>>),           \* odd count
      Present(<<Sys(4, <<0, 1>>)>>),              \* count # number of values
      Present(<<Sys(-1, <<0, 1>>)>>),             \* count does not parse
      Present(<<Sys(2, <<3, 3>>)>>),              \* empty range
      Present(<<Sys(2, <<0, 40>>)>>),             \* value beyond unsigned int
      Present(<<Sys(2, <<4, 8>>)>>),              \* past the end of the device
      Present(<<Sys(2, <<0, 1>>), [dev |-> "absent", count |-> 2, vals |-> <<0, 1>>]>>) }
\* A range of 5 blocks: its byte count wraps to one block.
LongRangeMaps == { Present(<<Sys(2, <<0, 5>>)>>) }

MCCorruptions ==
    { [d \in Devices |-> {}],
      [d \in Devices |-> IF d = "system" THEN {1} ELSE {}],
      [d \in Devices |-> IF d = "system" THEN {3} ELSE {}],
      [d \in Devices |-> IF d = "vendor" THEN {2} ELSE {}] }

MCCareMaps == GoodMaps \cup BadMaps
MCCareMapsLong == MCCareMaps \cup LongRangeMaps

=============================================================================
