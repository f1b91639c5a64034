---------------------------- MODULE RaidGraphics ----------------------------
(***************************************************************************)
(* ostep/homework/file-raid/raid-graphics.py: four disks serve one queue   *)
(* of requests at the same time.  A request is one or two I/Os, or for a   *)
(* parity write two reads and two writes, and every disk takes the first   *)
(* request of the queue that has something to do for it.                   *)
(*                                                                         *)
(* Head positions are counted from the first block.  Times and drawing are *)
(* left out.  What the simulator only pretends to move, the blocks'        *)
(* contents, is kept in content, got: a block holds the request that wrote *)
(* it last, a parity block the set of those it is the sum of.              *)
(*                                                                         *)
(* A definition whose name ends in Faulty is a plausible mistake in the    *)
(* definition that follows it; no specification uses it.                   *)
(***************************************************************************)
EXTENDS Integers, Sequences, SequencesExt, FiniteSets, FiniteSetsExt

CONSTANTS Setups,       \* mapping, seek_speed, window
          Queues,       \* sequences of requests: logical address and op_type
          MaxKeys       \* keys pressed

VARIABLE sim

Disks == 0 .. 3
BlockHeight == 20
NoRequest == 0

-----------------------------------------------------------------------------
(* Where a request goes: its disk, and the mirror or the parity disk. *)
Column(mapping, logical) == IF mapping = 1 THEN 2 * (logical % 2)
                            ELSE IF mapping = 0 THEN logical % 4 ELSE logical % 3
offset(mapping, logical) == IF mapping = 1 THEN logical \div 2
                            ELSE IF mapping = 0 THEN logical \div 4 ELSE logical \div 3

parity_disk(mapping, off) == IF mapping = 4 THEN 3 ELSE 3 - (off % 4)

PhysicalDisks(mapping, logical) ==
    LET c == Column(mapping, logical)
        p == parity_disk(mapping, offset(mapping, logical))
    IN  CASE mapping = 0 -> <<c>>
          [] mapping = 1 -> <<c, c + 1>>
          [] mapping = 4 -> <<c, p>>
          [] mapping = 5 -> <<IF c >= p THEN c + 1 ELSE c, p>>

(* RAID-4 only: three requests in a row, beginning at every third, are taken
   for a full-stripe write when their addresses follow each other. *)
Stripe(queue, i) == LET k == i - ((i - 1) % 3) IN k .. k + 2
full_stripe_write(mapping, queue, i) ==
    LET k == i - ((i - 1) % 3) IN
    /\ mapping = 4 /\ k + 2 <= Len(queue)
    /\ queue[k + 1].logical = queue[k].logical + 1
    /\ queue[k + 2].logical = queue[k].logical + 2
FullStripes(mapping, queue) ==
    {i \in DOMAIN queue : i % 3 = 1 /\ full_stripe_write(mapping, queue, i)}

request_count_needed(mapping, queue) ==
    LET writes == Cardinality({i \in DOMAIN queue : queue[i].op = "write"})
    IN  Len(queue) + writes * (CASE mapping = 0 -> 0 [] mapping = 1 -> 1 [] OTHER -> 3)
            - 8 * Cardinality(FullStripes(mapping, queue))

-----------------------------------------------------------------------------
Idle == [state |-> "null", head |-> 0, delta |-> 0, target |-> NoRequest, last |-> NoRequest,
         op |-> "read", transfer |-> -1]

Init ==
    \E s \in Setups, q \in Queues :
        sim = [mapping  |-> s.mapping,
               speed    |-> s.seek_speed,
               window   |-> s.window,
               oneByOne |-> s.window = 1,
               queue    |-> q,
               status   |-> [i \in DOMAIN q |->
                               [k \in DOMAIN PhysicalDisks(s.mapping, q[i].logical) |-> "not started"]],
               disk     |-> [d \in Disks |-> Idle],
               needed   |-> request_count_needed(s.mapping, q),
               count    |-> 0,
               logical_requests |-> 0,
               do_animate |-> TRUE,
               is_done  |-> FALSE,
               chains   |-> 0,      \* pending calls of Animate
               raised   |-> FALSE,  \* an exception ends the current event
               keys     |-> 0,
               content  |-> [p \in Disks \X {offset(s.mapping, q[i].logical) : i \in DOMAIN q} |-> {}],
               got      |-> [i \in DOMAIN q |-> {}]]    \* sum of what a parity write read

Where(s, i) == PhysicalDisks(s.mapping, s.queue[i].logical)
Off(s, i) == offset(s.mapping, s.queue[i].logical)
Serves(s, disk, i) == \E k \in DOMAIN Where(s, i) : Where(s, i)[k] = disk
IndexOf(s, disk, i) == CHOOSE k \in DOMAIN Where(s, i) : Where(s, i)[k] = disk
FullStripe(s, i) == full_stripe_write(s.mapping, s.queue, i)

-----------------------------------------------------------------------------
(* SetStatus, StartRead or StartWrite: the disk seeks its target. *)
StartRequest(s, disk, i, k, op) ==
    [s EXCEPT !.status[i][k] = op,
              !.disk[disk].op = op,
              !.disk[disk].state = "seek",
              !.disk[disk].delta = IF s.disk[disk].head < BlockHeight * Off(s, i)
                                   THEN s.speed ELSE -s.speed,
              !.disk[disk].last = s.disk[disk].target,
              !.disk[disk].target = i]

DoStripeScheduling(s, disk, i) ==
    IF s.status[i][1] = "not started" /\ Serves(s, disk, i)
    THEN StartRequest(s, disk, i, 1, s.queue[i].op) ELSE s

(* Either disk may serve a read; the other then need not. *)
DoMirrorScheduling(s, disk, i) ==
    LET k == IndexOf(s, disk, i) IN
    IF ~Serves(s, disk, i) THEN s
    ELSE IF s.status[i][k] # "not started" THEN s
    ELSE IF s.queue[i].op = "read"
         THEN StartRequest([s EXCEPT !.status[i][3 - k] = "done"], disk, i, k, "read")
         ELSE StartRequest(s, disk, i, k, "write")

(* A read of the data disk; a write that reads, then writes, both disks. *)
DoRaid5Scheduling(s, disk, i) ==
    LET k == IndexOf(s, disk, i) IN
    IF ~Serves(s, disk, i) THEN s
    ELSE IF s.status[i][k] = "not started" /\ (s.queue[i].op = "write" \/ k = 1)
         THEN StartRequest(s, disk, i, k, "read")
    ELSE IF s.status[i][k] = "write phase" THEN StartRequest(s, disk, i, k, "write")
    ELSE s

(* In a full stripe nothing is read, and only the last request writes the
   parity. *)
DoRaid4Scheduling(s, disk, i) ==
    LET k == IndexOf(s, disk, i)
        do_parity == i % 3 = 0
    IN
    IF ~(s.queue[i].op = "write" /\ FullStripe(s, i)) THEN DoRaid5Scheduling(s, disk, i)
    ELSE IF ~Serves(s, disk, i) THEN s
    ELSE IF s.status[i][k] # "not started" THEN s
    ELSE StartRequest(IF do_parity THEN s ELSE [s EXCEPT !.status[i][3 - k] = "done"],
                      disk, i, k, "write")

Schedule(s, disk, i) ==
    CASE s.disk[disk].state # "null" -> s
      [] s.disk[disk].state = "null" /\ s.mapping = 0 -> DoStripeScheduling(s, disk, i)
      [] s.disk[disk].state = "null" /\ s.mapping = 1 -> DoMirrorScheduling(s, disk, i)
      [] s.disk[disk].state = "null" /\ s.mapping = 4 -> DoRaid4Scheduling(s, disk, i)
      [] s.disk[disk].state = "null" /\ s.mapping = 5 -> DoRaid5Scheduling(s, disk, i)

(* The end, or new work for every idle disk.  Printing the average latency
   divides by the number of requests served. *)
DiskOrder == <<0, 1, 2, 3>>
GetNextIOs(s) ==
    LET seen == IF s.window = -1 \/ s.window > Len(s.queue) THEN Len(s.queue) ELSE s.window
        Serve(t, disk) == FoldLeft(LAMBDA u, i : Schedule(u, disk, i), t, [i \in 1 .. seen |-> i])
    IN
    IF s.count = s.needed
    THEN IF s.logical_requests = 0 THEN [s EXCEPT !.raised = TRUE]
         ELSE [s EXCEPT !.do_animate = FALSE, !.is_done = TRUE]
    ELSE FoldLeft(Serve, s, DiskOrder)

-----------------------------------------------------------------------------
(* What an I/O does to the blocks: a parity write adds what it read, the old
   block and the old parity, to the new block. *)
Moved(s, disk, i) ==
    LET place == <<disk, Off(s, i)>>
        parity == s.mapping \in {4, 5} /\ disk = Where(s, i)[2]
    IN
    IF s.disk[disk].op = "read" THEN [s EXCEPT !.got[i] = SymDiff(@, s.content[place])]
    ELSE [s EXCEPT !.content[place] =
            IF ~parity THEN {i}
            ELSE IF FullStripe(s, i) THEN Stripe(s.queue, i) ELSE SymDiff(s.got[i], {i})]

(* The statuses after an I/O.  A parity write enters its second phase when
   both disks have read. *)
RequestLevel4DoneFaulty(status, k, op) ==
    IF op = "read" THEN status
    ELSE IF status[k] = "write" THEN [status EXCEPT ![k] = "done"]
    ELSE <<"write phase", "write phase">>
RequestLevel4Done(status, k, op) ==
    IF op = "read" THEN status
    ELSE IF status[k] = "write" THEN [status EXCEPT ![k] = "done"]
    ELSE IF status[k] = "read" /\ status[3 - k] = "read done" THEN <<"write phase", "write phase">>
    ELSE IF status[k] = "read" THEN [status EXCEPT ![k] = "read done"]
    ELSE status

StatusDone(s, i, k) ==
    IF s.mapping \in {4, 5} THEN RequestLevel4Done(s.status[i], k, s.queue[i].op)
    ELSE [s.status[i] EXCEPT ![k] = "done"]

(* Whether the request is served. *)
Served(s, i, status) ==
    \/ s.mapping = 0
    \/ s.queue[i].op = "read"
    \/ \A k \in DOMAIN status : status[k] = "done"

MarkDone(s, disk) ==
    LET i == s.disk[disk].target
        status == StatusDone(s, i, IndexOf(s, disk, i))
        done == Served(s, i, status)
    IN  [Moved(s, disk, i) EXCEPT
            !.status[i] = status,
            !.logical_requests = IF done THEN @ + 1 ELSE @,
            !.window = IF done /\ @ > 0 THEN @ + 1 ELSE @]

StartTransfer(s, disk) ==
    LET d == s.disk[disk]
        offset_last == IF d.last = NoRequest THEN -1 ELSE Off(s, d.last)
    IN  [s EXCEPT !.disk[disk].state = "xfer",
                  !.disk[disk].transfer = IF Off(s, d.target) = offset_last + 1 THEN 1 ELSE 10]

Seek(s, disk) ==
    LET d == s.disk[disk] IN
    IF d.state # "seek" THEN s
    ELSE IF d.head = BlockHeight * Off(s, d.target) THEN StartTransfer(s, disk)
    ELSE [s EXCEPT !.disk[disk].head = @ + d.delta]

Transfer(s, disk) ==
    LET t == [s EXCEPT !.disk[disk].transfer = @ - 1] IN
    IF s.disk[disk].state # "xfer" THEN s
    ELSE IF t.disk[disk].transfer # 0 THEN t
    ELSE GetNextIOs([MarkDone(t, disk) EXCEPT !.count = @ + 1, !.disk[disk].state = "null"])

(* One tick of every disk in turn; the timer is set again at the end. *)
Tick(s) ==
    FoldLeft(LAMBDA t, disk : IF t.raised THEN t ELSE Transfer(Seek(t, disk), disk), s, DiskOrder)
Animate(s) ==
    LET t == IF s.do_animate THEN Tick(s) ELSE s IN
    IF t.raised THEN t ELSE [t EXCEPT !.chains = @ + 1]

-----------------------------------------------------------------------------
Settled(s) == [s EXCEPT !.raised = FALSE]

Callback ==
    /\ sim.chains > 0
    /\ sim' = Settled(Animate([sim EXCEPT !.chains = @ - 1]))

Start ==
    /\ sim.keys < MaxKeys
    /\ LET begun == GetNextIOs([sim EXCEPT !.keys = @ + 1]) IN
       sim' = Settled(IF begun.raised THEN begun ELSE Animate(begun))

Pause ==
    /\ sim.keys < MaxKeys
    /\ sim' = [sim EXCEPT !.do_animate = ~@, !.keys = @ + 1]

(* Every key that the bound allows was pressed, and no callback is pending. *)
Waiting == sim.chains = 0 /\ sim.keys = MaxKeys /\ UNCHANGED sim

Next == Callback \/ Start \/ Pause \/ Waiting

-----------------------------------------------------------------------------
Requests == DOMAIN sim.queue
Writes == {i \in Requests : sim.queue[i].op = "write"}

(* The full stripes are what they are taken for: writes of one stripe. *)
WellMarked ==
    \A i \in FullStripes(sim.mapping, sim.queue) :
        /\ sim.queue[i].logical % 3 = 0
        /\ i .. i + 2 \subseteq Writes

(* The simulation is over exactly when the count says so: it never waits for
   I/Os that no disk will do, and stops with no I/O left.  A triple of reads
   that looks like a full stripe makes the count wrong. *)
EndsWhenServed ==
    WellMarked =>
        /\ sim.chains > 0 /\ ~sim.is_done => \E d \in Disks : sim.disk[d].state # "null"
        /\ sim.is_done =>
             /\ \A d \in Disks : sim.disk[d].state = "null"
             /\ sim.logical_requests = Len(sim.queue)

(* At the end every written block, both mirrors included, holds the last
   write to it, though disks do not serve the queue in step.  In a full stripe the
   parity disk, free before the data disk, can take a request that was for
   the data disk only, and the data are never written. *)
LastWriteStays ==
    sim.is_done /\ WellMarked /\ (sim.oneByOne \/ FullStripes(sim.mapping, sim.queue) = {}) =>
        \A i \in Writes :
            LET same == {j \in Writes : sim.queue[j].logical = sim.queue[i].logical}
                copies == IF sim.mapping = 1 THEN {1, 2} ELSE {1}
            IN  \A k \in copies : sim.content[<<Where(sim, i)[k], Off(sim, i)>>] = {Max(same)}

(* One request at a time, the parity is that of the data.  With several two
   writes of a stripe can read the same old parity, and one is lost. *)
ParityOfData ==
    sim.is_done /\ WellMarked /\ sim.oneByOne /\ sim.mapping \in {4, 5} =>
        \A i \in Writes :
            LET off == Off(sim, i)
                p == parity_disk(sim.mapping, off)
            IN  sim.content[<<p, off>>] = UNION {sim.content[<<d, off>>] : d \in Disks \ {p}}

RaidSound == EndsWhenServed /\ LastWriteStays /\ ParityOfData
=============================================================================
