--------------------------- MODULE MCWorkSettlement ---------------------------
(* Small Works: a note of three pages alone, or with a copy. *)
EXTENDS WorkSettlement

CONSTANTS note, copy

full(c) == [action |-> "commit", delivered |-> Units[c], force |-> FALSE, trusted |-> FALSE,
            cancelled |-> FALSE]
partial == [action |-> "commit", delivered |-> 1, force |-> FALSE, trusted |-> FALSE,
            cancelled |-> FALSE]
failed == [action |-> "refund", delivered |-> 0, force |-> TRUE, trusted |-> FALSE,
            cancelled |-> FALSE]
holdExpired == [failed EXCEPT !.cancelled = TRUE]
trusted == [partial EXCEPT !.trusted = TRUE]

NoteUnits == [c \in Carriers |-> IF c = note THEN 3 ELSE 1]
NotePrice == [c \in Carriers |-> IF c = note THEN 3 ELSE 2]
CheapPrice == [c \in Carriers |-> 1]
AllRefundable == [c \in Carriers |-> TRUE]

WholeOutcomes == [c \in Carriers |-> {full(c), failed}]
PartialOutcomes == [c \in Carriers |-> IF c = note THEN {partial, full(c), failed}
                                   ELSE {full(c), failed}]
PackageOutcomes == [c \in Carriers |-> IF c = note THEN {partial, full(c), failed}
                                   ELSE {full(c), holdExpired}]
CancelledOutcomes == [c \in Carriers |-> {holdExpired}]
TrustedOutcomes == [c \in Carriers |-> IF c = note THEN {trusted} ELSE {full(c)}]
=============================================================================
