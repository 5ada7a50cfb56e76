------------------------- MODULE MCChildSupervisor -------------------------
(* Instances of ChildSupervisor for TLC. *)
EXTENDS ChildSupervisor

\* A line shorter than the 1024-byte fgets() buffer: a single chunk.
Short(c, a) == <<[cmd |-> c, args |-> a, first |-> TRUE]>>

\* Every command with its arguments, and the blank line.
WellFormedLines == {Short(c, TRUE) : c \in Words \ {""}} \cup {Short("", FALSE)}

\* A ui_print whose text is longer than the buffer: the text past byte 1023
\* reaches the parent as a chunk of its own, here one beginning with a word
\* the parent recognises.
LongLines ==
    {<<[cmd |-> "ui_print", args |-> TRUE, first |-> TRUE],
       [cmd |-> w, args |-> FALSE, first |-> FALSE]>> : w \in {"retry_update"}}

\* progress, set_progress and log written without their arguments.
MalformedLines == {Short(c, FALSE) : c \in {"progress", "log"}}

\* Exit 0, exit 1, and killed by a signal.
MCExitStatuses == {[normal |-> TRUE, code |-> 0], [normal |-> TRUE, code |-> 1],
                   [normal |-> FALSE, code |-> 0]}

MCLinesWellFormed == WellFormedLines
MCLinesLong == WellFormedLines \cup LongLines
MCLinesMalformed == WellFormedLines \cup MalformedLines

=============================================================================
