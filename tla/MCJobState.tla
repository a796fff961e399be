----------------------------- MODULE MCJobState -----------------------------
(***************************************************************************)
(* Two keys set twice each and two readers; both keys have a state under   *)
(* the format that was once the one to save, whose name comes before the   *)
(* saved one for the first key and after it for the second.                *)
(***************************************************************************)
EXTENDS JobState, TLC

CONSTANTS k1, k2, a, b, raw, sha256

MCKey == {k1, k2}
MCReader == {a, b}
MCFormats == [k \in MCKey |-> IF k = k1 THEN <<raw, sha256>> ELSE <<sha256, raw>>]
MCFormer == [k \in MCKey |-> {raw}]
=============================================================================
