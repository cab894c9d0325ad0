----------------------------- MODULE MCBDASpace -----------------------------
(* Instances of BDASpace for model checking. *)
EXTENDS BDASpace

CONSTANTS s1, s2, s3, s4, s5, s6, s7

Five == {s1, s2, s3, s4, s5}
Seven == Five \cup {s6, s7}
None_ == {}
One == {1}
OneOrTwoSegments == {1, 4}
Segment == {3}

(* Stop at the end of the last full collection; leave out young ones. *)
UpToLastGC == ~ scavenge /\ (gcs < MaxGCs \/ gc.phase # "idle")
=============================================================================
