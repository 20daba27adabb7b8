---------------------------- MODULE MCSubmission ----------------------------
(* Instances of Submission for TLC. *)
EXTENDS Submission

CONSTANTS f1, f2

TwoFlags   == {f1, f2}
First      == {f1}
NoOperation == {}
NoPark == Operations \ {"park"}
NoReconsider == Operations \ {"reconsider"}
OnlyPause == {"pause"}
OnlyRetry == {"retry"}
DocumentedRows == {"UNKNOWN", "RATE_LIMITED"}
AnyRow == SubmissionStatus \ {"NONE"}
=============================================================================
