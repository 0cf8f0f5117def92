---------------------------- MODULE MCEvidenceStore ----------------------------
(* EvidenceStore for TLC: an event an older version left behind, and a         *)
(* completion of this one.                                                    *)
EXTENDS EvidenceStore

CONSTANTS e, c

TheKinds == [i \in Items |-> IF i = e THEN "event" ELSE "completion"]
================================================================================
