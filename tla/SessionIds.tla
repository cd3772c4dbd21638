----------------------------- MODULE SessionIds -----------------------------
(* The session ids that the lure, the bridge and the dashboard share. *)

CONSTANT Session    \* bridge UUIDs, or the lure's placeholder UUIDs
=============================================================================
