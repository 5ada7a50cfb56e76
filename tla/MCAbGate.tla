------------------------------ MODULE MCAbGate ------------------------------
(* Instances of AbGate for TLC.  int64_t is scaled to -9..9; "10" is a    *)
(* numeric text beyond it and "x" a text that is not a number.  The       *)
(* metadata are every combination of present or absent keys with a few   *)
(* values each, plus files with repeated keys and an unreadable one.      *)
EXTENDS AbGate

MCTsMin == -9
MCTsMax == 9

MCMetaValues == {"", "A", "B", "S", "T", "F", "G", "AB", "yes", "x", "0", "5", "9", "10"}
MCNumText == [t \in {"0", "5", "9", "10"} |-> CASE t = "0" -> 0 [] t = "5" -> 5
                                                 [] t = "9" -> 9 [] OTHER -> 10]

\* The keys in file order; "-" marks a key absent from the file.
Order == <<"pre-device", "serialno", "ota-type", "pre-build-incremental",
           "pre-build", "post-timestamp", "ota-downgrade", "post-build-incremental">>
Choices == {"-", "A", "B"} \X {"-", "S", "T", ""} \X {"-", "AB"} \X {"-", "5", "0"}
           \X {"-", "F", "G"} \X {"-", "0", "5", "9", "10", "x"} \X {"-", "yes"} \X {"-", "5"}

Line(k, v, kp, vp) == [key |-> k, val |-> v, kpad |-> kp, vpad |-> vp]
FileOf(t) == SelectSeq([i \in 1..Len(Order) |-> Line(Order[i], t[i], FALSE, FALSE)],
                       LAMBDA l : l.val # "-")

\* Repeated keys: the last occurrence counts.
Repeated ==
    { <<Line("pre-device", "B", FALSE, FALSE), Line("pre-device", "A", FALSE, FALSE),
        Line("ota-type", "AB", FALSE, FALSE), Line("post-timestamp", "9", FALSE, FALSE)>>,
      <<Line("pre-device", "A", FALSE, FALSE), Line("ota-type", "AB", FALSE, FALSE),
        Line("post-timestamp", "9", FALSE, FALSE), Line("post-timestamp", "0", FALSE, FALSE)>> }

\* Lines whose key or value ends in whitespace.
Padded ==
    { <<Line("pre-device", "A", FALSE, FALSE), Line("ota-type", "AB", FALSE, TRUE),
        Line("post-timestamp", "9", FALSE, FALSE)>>,
      <<Line("pre-device", "A", TRUE, FALSE), Line("ota-type", "AB", FALSE, FALSE),
        Line("post-timestamp", "9", FALSE, FALSE)>> }

Readable(ls) == [readable |-> TRUE, lines |-> ls]
MCMetadatas == {Readable(FileOf(t)) : t \in Choices} \cup {Readable(ls) : ls \in Repeated}
               \cup {[readable |-> FALSE, lines |-> <<>>]}
MCMetadatasPadded == MCMetadatas \cup {Readable(ls) : ls \in Padded}

MCPropSets == {[device |-> "A", serial |-> "S", incremental |-> "5",
                fingerprint |-> "F", date |-> d] : d \in {"absent", "5", Pad("5"), "x"}}

=============================================================================
