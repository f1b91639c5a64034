-------------------------------- MODULE Disk --------------------------------
(***************************************************************************)
(* The disk of ostep/homework/file-disks/disk.py: a head over three        *)
(* turning tracks serves a queue of block requests in the order of a       *)
(* scheduling policy.  With -G the program is driven by keys and timer     *)
(* callbacks, without it by a loop.                                        *)
(*                                                                         *)
(* Speeds are whole numbers, the rotation speed one that floating point    *)
(* divides by exactly where estimates are compared.  Drawing and totals    *)
(* are left out.                                                           *)
(*                                                                         *)
(* A definition whose name ends in Faulty is a plausible mistake in the    *)
(* definition that follows it; no specification uses it.                   *)
(***************************************************************************)
EXTENDS Integers, Sequences, SequencesExt, FiniteSets, FiniteSetsExt

CONSTANTS Options,      \* policy, window, skew, zoning, seekSpeed, rotateSpeed, graphics
          Workloads,    \* requests and late requests
          MaxKeys,      \* keys pressed
          Precise       \* is it the copy with decimals, disk-precise.py?

VARIABLE disk

trackWidth == 40
Tracks == 0 .. 2
NotABlock == -1         \* a block number that is text
Abs(n) == IF n < 0 THEN -n ELSE n

-----------------------------------------------------------------------------
(* InitBlockLayout: blocks are numbered from the outer track inwards, each
   track is turned by the skew against the one outside it. *)
angleOffset(o, t) == o.zoning[t + 1] \div 2
BlocksOn(o, t) == (360 + 2 * angleOffset(o, t) - 1) \div (2 * angleOffset(o, t))
FirstOn(o, t) == MapThenSumSet(LAMBDA u : BlocksOn(o, u), 0 .. t - 1)
LastOn(o, t) == FirstOn(o, t + 1) - 1
Blocks(o) == 0 .. LastOn(o, 2)
blockToTrackMap(o, b) == CHOOSE t \in Tracks : b \in FirstOn(o, t) .. LastOn(o, t)
blockToAngleMap(o, b) ==
    LET t == blockToTrackMap(o, b) IN
    ((b - FirstOn(o, t)) * 2 * angleOffset(o, t) + 2 * angleOffset(o, t) * t * o.skew + 180) % 360

(* MakeRequests: late numbers that are listed (-l) stay text, others not. *)
Init ==
    \E o \in Options, w \in Workloads :
        disk = [opt          |-> o,
                late         |-> w.late,
                requestQueue |-> w.requests,
                requestState |-> [i \in DOMAIN w.requests |-> "null"],
                requestCount |-> 0,
                lateCount    |-> 0,
                currWindow   |-> o.window,
                currentIndex |-> 0,
                state        |-> "null",
                angle        |-> 0,
                armTrack     |-> 0,
                armX         |-> 0,     \* distance from the outer track
                armTarget    |-> 0,
                elapsed      |-> 0,     \* timer - seekBegin, while an access is under way
                totalEst     |-> 0,     \* times rotateSpeed
                onTheSpot    |-> FALSE, \* the first access, and its block begins where the head is
                slip         |-> 0,     \* of the last access: its time less the estimate,
                missed       |-> FALSE, \* and whether it began on the spot
                keys         |-> 0,
                starts       |-> 0,
                chains       |-> 0,     \* pending callbacks
                doAnimate    |-> o.graphics,
                phase        |-> "run",
                raised       |-> {}]    \* the exceptions so far

-----------------------------------------------------------------------------
BlockAt(d, i) == d.requestQueue[i]
TrackAt(d, i) == blockToTrackMap(d.opt, BlockAt(d, i))
Distance(d, i) == Abs(d.armTrack - TrackAt(d, i))
Undone(d, indices) == {i \in indices : d.requestState[i] # "done"}

(* Estimates in DoSATF, times rotateSpeed. *)
seekEst(d, i) == (trackWidth \div d.opt.seekSpeed) * Distance(d, i) * d.opt.rotateSpeed
rotDist(d, i) ==
    ((blockToAngleMap(d.opt, BlockAt(d, i)) - angleOffset(d.opt, TrackAt(d, i)))
        - (d.angle + seekEst(d, i))) % 360
Estimate(d, i) == seekEst(d, i) + rotDist(d, i) + 2 * angleOffset(d.opt, TrackAt(d, i))

DoSATF(d, indices) ==
    CHOOSE i \in indices : \A j \in indices :
        Estimate(d, i) < Estimate(d, j) \/ (Estimate(d, i) = Estimate(d, j) /\ i <= j)

(* The requests on the nearest track. *)
DoSSTF(d, indices) == {i \in indices : \A j \in indices : Distance(d, i) <= Distance(d, j)}

SwitchState(d, new) == [d EXCEPT !.state = new, !.requestState[d.currentIndex] = new]

PlanSeek(d, i) ==
    [SwitchState([d EXCEPT !.currentIndex = i],
                 IF TrackAt(d, i) = d.armTrack THEN "rotate" ELSE "seek") EXCEPT
        !.elapsed = 0,
        !.armTarget = TrackAt(d, i),
        !.totalEst = Estimate(d, i),
        !.onTheSpot = d.state = "null" /\ Distance(d, i) = 0 /\ rotDist(d, i) = 0]

AddLate(d) ==
    IF d.lateCount = Len(d.late) THEN d
    ELSE [d EXCEPT !.requestQueue = Append(@, d.late[d.lateCount + 1]),
                   !.requestState = Append(@, "null"),
                   !.lateCount = @ + 1]

fairWindow(d) == IF d.opt.policy = "BSATF" THEN d.opt.window ELSE -1

UpdateWindow(d) ==
    IF fairWindow(d) = -1 /\ d.currWindow > 0 /\ d.currWindow < Len(d.requestQueue)
    THEN [d EXCEPT !.currWindow = @ + 1] ELSE d

(* GetWindow, which may move the window on; the copy with decimals cuts it to
   the length of the queue. *)
BatchDone(d) == fairWindow(d) # -1 /\ d.requestCount > 0 /\ d.requestCount % fairWindow(d) = 0
GetWindow(d) ==
    LET moved == d.currWindow + fairWindow(d) IN
    IF ~BatchDone(d) THEN d
    ELSE [d EXCEPT !.currWindow = IF Precise THEN Min({moved, Len(d.requestQueue)}) ELSE moved]

Windowed(d) ==
    Undone(d, {i \in DOMAIN d.requestQueue : d.currWindow = -1 \/ i <= d.currWindow})

(* An assertion fails when the window holds nothing to do, and the maps know
   no block that is text.  The copy with decimals takes a float from a decimal,
   which Python refuses, when the seek would end more than a turn from where
   angles begin. *)
Raise(d, what) == [d EXCEPT !.phase = "raised", !.raised = @ \cup {what}]
Unknown(d, i) == BlockAt(d, i) \notin Blocks(d.opt)

MixesTypes(d, i) == Precise /\ d.angle + seekEst(d, i) > 360

GetNextIO(d) ==
    LET policy == d.opt.policy
        first == d.requestCount + 1
        e == IF policy = "FIFO" THEN [d EXCEPT !.currentIndex = first] ELSE GetWindow(d)
        seen == IF policy = "FIFO" THEN {first} ELSE Windowed(e)
        near == IF policy = "SSTF" THEN DoSSTF(d, seen) ELSE seen
    IN
    IF d.requestCount = Len(d.requestQueue) THEN [d EXCEPT !.phase = "done", !.doAnimate = FALSE]
    ELSE IF seen = {} THEN Raise(e, "assert")
    ELSE IF \E i \in seen : Unknown(d, i) THEN Raise(e, "KeyError")
    ELSE IF \E i \in near : MixesTypes(d, i) THEN Raise(e, "TypeError")
    ELSE AddLate(PlanSeek(e, DoSATF(d, near)))

-----------------------------------------------------------------------------
RadiallyCloseTo(d, angle) == Abs(d.angle - angle) < d.opt.rotateSpeed
EdgeOf(d, side) ==
    (blockToAngleMap(d.opt, BlockAt(d, d.currentIndex)) + side * angleOffset(d.opt, d.armTrack)) % 360

UnderWay(d) == d.state \in {"seek", "rotate", "xfer"}
Turned(d) ==
    LET a == d.angle + d.opt.rotateSpeed IN
    [d EXCEPT !.elapsed = IF UnderWay(d) THEN @ + 1 ELSE @, !.angle = IF a >= 360 THEN 0 ELSE a]

Seek(d) ==
    LET outwards == d.armTarget < d.armTrack
        x == d.armX + (IF outwards THEN -d.opt.seekSpeed ELSE d.opt.seekSpeed)
        goal == d.armTarget * trackWidth
        moved == [d EXCEPT !.armX = x]
    IN
    IF d.state # "seek" THEN d
    ELSE IF (outwards /\ x <= goal) \/ (~outwards /\ x >= goal)
         THEN [SwitchState(moved, "rotate") EXCEPT !.armTrack = d.armTarget]
         ELSE moved

Rotate(d) ==
    IF d.state = "rotate" /\ RadiallyCloseTo(d, EdgeOf(d, -1)) THEN SwitchState(d, "xfer") ELSE d

(* The next block of the track follows without a pause. *)
Follows(d, b, c) ==
    /\ blockToTrackMap(d.opt, b) = blockToTrackMap(d.opt, c)
    /\ \/ b = LastOn(d.opt, d.armTrack) /\ c = FirstOn(d.opt, d.armTrack)
       \/ b + 1 = c
StayOnFaulty(before, d) == d
StayOn(before, d) ==
    IF d.phase # "raised" /\ Follows(d, BlockAt(before, before.currentIndex), BlockAt(d, d.currentIndex))
    THEN SwitchState(d, "xfer") ELSE d

Transfer(d) ==
    LET served == [SwitchState(d, "done") EXCEPT
                     !.requestCount = @ + 1,
                     !.slip = d.elapsed * d.opt.rotateSpeed - d.totalEst,
                     !.missed = d.onTheSpot]
    IN
    IF d.state = "xfer" /\ RadiallyCloseTo(d, EdgeOf(d, 1))
    THEN StayOn(d, GetNextIO(UpdateWindow(served))) ELSE d

Animate(d) == Transfer(Rotate(Seek(Turned(d))))

-----------------------------------------------------------------------------
Running == disk.phase = "run"

Go ==
    /\ Running /\ ~disk.opt.graphics
    /\ disk' = IF disk.starts = 0 THEN [GetNextIO(disk) EXCEPT !.starts = 1] ELSE Animate(disk)

(* With -G an exception ends a callback, which then does not set the timer
   again; the program lives on. *)
Settled(d) == IF d.phase = "raised" THEN [d EXCEPT !.phase = "run"] ELSE [d EXCEPT !.chains = @ + 1]

Callback ==
    /\ Running /\ disk.chains > 0 /\ disk.doAnimate
    /\ disk' = Settled(Animate([disk EXCEPT !.chains = @ - 1]))

Key == Running /\ disk.opt.graphics /\ disk.keys < MaxKeys

Start ==
    /\ Key
    /\ LET begun == [GetNextIO(disk) EXCEPT !.keys = @ + 1, !.starts = @ + 1] IN
       disk' = Settled(IF begun.phase = "run" THEN Animate([begun EXCEPT !.doAnimate = TRUE])
                       ELSE begun)

Pause == Key /\ disk' = [disk EXCEPT !.doAnimate = ~@, !.keys = @ + 1]

(* Over, or nothing but a key can go on.  After the end only the picture
   turns. *)
Still ==
    /\ ~Running \/ (disk.opt.graphics /\ (disk.chains = 0 \/ ~disk.doAnimate))
    /\ UNCHANGED disk

Next == Go \/ Callback \/ Start \/ Pause \/ Still

-----------------------------------------------------------------------------
Done(d) == {i \in DOMAIN d.requestQueue : d.requestState[i] = "done"}

(* Every request is served once, and when the program ends without an error
   all are: late ones too, unless nothing was there to begin with. *)
ServedOnce(d) ==
    /\ d.requestCount = Cardinality(Done(d))
    /\ d.phase = "done" =>
         /\ Done(d) = DOMAIN d.requestQueue
         /\ d.requestQueue # <<>> => d.lateCount = Len(d.late)

(* No access takes more than the longest seek, two turns and a transfer: the
   comparison of angles, which knows nothing of 360 being 0, misses no block. *)
NoEndlessTurn(d) ==
    UnderWay(d) =>
        d.elapsed * d.opt.rotateSpeed <=
            ((2 * trackWidth) \div d.opt.seekSpeed) * d.opt.rotateSpeed
              + 2 * (360 + d.opt.rotateSpeed) + 2 * Max({angleOffset(d.opt, t) : t \in Tracks})

(* When the angles are multiples of the speed, the estimate the policies
   decide by is the time the access takes, but when the first block begins
   where the head stands: it is missed and costs a turn (the INTERNAL ERROR
   of the comment at disk.py:690). *)
Exact(o) ==
    /\ 180 % o.rotateSpeed = 0
    /\ \A t \in Tracks : angleOffset(o, t) % o.rotateSpeed = 0
EstimateHolds(d) ==
    Exact(d.opt) /\ d.starts <= 1 => d.slip = IF d.missed THEN 360 ELSE 0

(* With a fairness window no request is served before those of the batches
   ahead of it. *)
BatchesInOrder(d) ==
    fairWindow(d) # -1 /\ d.starts <= 1 =>
        \A i \in Done(d), j \in DOMAIN d.requestQueue :
            (j - 1) \div fairWindow(d) < (i - 1) \div fairWindow(d) => j \in Done(d)

Sound(d) == ServedOnce(d) /\ NoEndlessTurn(d) /\ EstimateHolds(d) /\ BatchesInOrder(d)

(* Nor does the scheduling window ever run out of requests while some wait. *)
DiskSound == Sound(disk) /\ disk.raised \subseteq {"KeyError"}
=============================================================================
