---------------------------- MODULE LogicalDisk ----------------------------
(***************************************************************************)
(* What an SSD promises the host, whatever its translation layer does:     *)
(* until the device fails, a logical page holds the data last written to   *)
(* it until it is written again or trimmed.  A write may be refused, and   *)
(* is then without effect.  A device that has failed promises nothing.     *)
(***************************************************************************)
CONSTANTS LogicalPages, Data,
          Uninit,  \* a logical page never written, or trimmed
          Lost     \* what may be read from a failed device

VARIABLES disk, failed

Init ==
    /\ disk = [l \in LogicalPages |-> Uninit]
    /\ failed = FALSE

Write(l, v) == disk' = [disk EXCEPT ![l] = v] /\ UNCHANGED failed

Trim(l) == disk' = [disk EXCEPT ![l] = Uninit] /\ UNCHANGED failed

(* The moment of failure harms no page yet. *)
Fail == ~failed /\ failed' = TRUE /\ UNCHANGED disk

Decay ==
    /\ failed
    /\ UNCHANGED failed
    /\ disk' \in [LogicalPages -> Data \cup {Uninit, Lost}]

Next ==
    \/ \E l \in LogicalPages : Trim(l) \/ \E v \in Data : Write(l, v)
    \/ Fail
    \/ Decay

Spec == Init /\ [][Next]_<<disk, failed>>
=============================================================================
