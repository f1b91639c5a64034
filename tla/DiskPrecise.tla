---------------------------- MODULE DiskPrecise ----------------------------
(***************************************************************************)
(* ostep/homework/file-disks/disk-precise.py, the copy of disk.py that     *)
(* computes with decimals.  It differs in the fairness window, which it    *)
(* cuts to the length of the queue, and in one line where it takes a float *)
(* from a decimal, which Python refuses.                                   *)
(***************************************************************************)
EXTENDS Integers, Sequences, FiniteSets

CONSTANTS Options, Workloads, MaxKeys

VARIABLE disk

(* What the copies share word for word, up to decimals. *)
D == INSTANCE Disk WITH Precise <- TRUE

blockToAngleMap(o, b) == D!blockToAngleMap(o, b)
Init == D!Init
Estimate(d, i) == D!Estimate(d, i)
DoSATF(d, indices) == D!DoSATF(d, indices)
DoSSTF(d, indices) == D!DoSSTF(d, indices)
PlanSeek(d, i) == D!PlanSeek(d, i)

GetWindow(d) == D!GetWindow(d)
MixesTypes(d, i) == D!MixesTypes(d, i)
GetNextIO(d) == D!GetNextIO(d)

Go == D!Go
Animate == D!Callback
Start == D!Start
Pause == D!Pause
Still == D!Still

Next == Go \/ Animate \/ Start \/ Pause \/ Still

-----------------------------------------------------------------------------
(* The promises of disk.py hold, but that late requests can arrive behind a
   window that was cut: then the assertion that there is something to serve
   fails, in fairness mode only.  Requests of the outer track, where the head
   starts, never mix types. *)
DiskSound ==
    /\ D!Sound(disk)
    /\ "assert" \in disk.raised => disk.late # <<>> /\ disk.opt.policy = "BSATF" /\ disk.opt.window > 1
    /\ "TypeError" \in disk.raised =>
         \E i \in DOMAIN disk.requestQueue : ~D!Unknown(disk, i) /\ D!TrackAt(disk, i) # 0
=============================================================================
