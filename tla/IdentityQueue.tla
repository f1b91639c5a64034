---------------------------- MODULE IdentityQueue ----------------------------
(***************************************************************************)
(* The kernel module of eudyptula/18-identity-queue/identity_queue.c:      *)
(* writers put identities on a list, a kernel thread that waits on a wait  *)
(* queue takes them off, and unloading the module stops the thread and     *)
(* frees what is left.                                                     *)
(*                                                                         *)
(* An open device holds the module, so that it is unloaded only when no    *)
(* write is going on.  Names are left out.  A definition whose name ends   *)
(* in Faulty is a plausible mistake in the definition that follows it; no  *)
(* specification uses it.                                                  *)
(***************************************************************************)
EXTENDS Integers, Sequences, FiniteSets

CONSTANTS Writers,
          MaxWrites     \* of each writer

ASSUME WritersAssumption == IsFiniteSet(Writers)

VARIABLE mod

QueueInit ==
    mod = [list    |-> <<>>,      \* identity_list, as ids
           next_id |-> 0,
           mutex   |-> FALSE,     \* identity_mutex is held
           wpc     |-> [w \in Writers |-> "idle"],
           id      |-> [w \in Writers |-> 0],
           writes  |-> [w \in Writers |-> 0],
           tpc     |-> "test",    \* the kernel thread
           woken   |-> FALSE,
           stop    |-> FALSE,     \* kthread_should_stop
           upc     |-> "loaded",  \* misc_end
           made    |-> 0,         \* identities allocated, freed, and lost to a signal
           freed   |-> 0,
           leaked  |-> 0,
           overlap |-> FALSE,     \* two writers have been in misc_write at once
           ids     |-> {},        \* <<id, number of the allocation>> of all identities listed
           bad     |-> FALSE]     \* an entry was deleted from an empty list

-----------------------------------------------------------------------------
Writing(w) == mod.wpc[w] # "idle"
Overlap(w) == mod.overlap \/ \E u \in Writers \ {w} : Writing(u)

(* misc_write up to the call of identity_create, which reads next_id. *)
misc_write(w) ==
    /\ mod.upc = "loaded"
    /\ mod.wpc[w] = "idle"
    /\ mod.writes[w] < MaxWrites
    /\ mod' = [mod EXCEPT !.wpc[w] = "alloc",
                          !.id[w] = mod.next_id,
                          !.writes[w] = @ + 1,
                          !.overlap = Overlap(w)]

(* kmalloc may fail. *)
Kmalloc(w) ==
    /\ mod.wpc[w] = "alloc"
    /\ mod' \in {[mod EXCEPT !.wpc[w] = "lock", !.made = @ + 1], [mod EXCEPT !.wpc[w] = "idle"]}

LockList(w) ==
    /\ mod.wpc[w] = "lock"
    /\ ~mod.mutex
    /\ mod' = [mod EXCEPT !.wpc[w] = "list_add", !.mutex = TRUE]

(* A signal while the mutex is waited for: the new identity is not freed. *)
Interrupted(w) ==
    /\ mod.wpc[w] = "lock"
    /\ mod.mutex
    /\ mod' = [mod EXCEPT !.wpc[w] = "idle", !.leaked = @ + 1]

ListAdd(w) ==
    /\ mod.wpc[w] = "list_add"
    /\ mod' = [mod EXCEPT !.wpc[w] = "increment",
                          !.list = <<mod.id[w]>> \o @,
                          !.ids = @ \cup {<<mod.id[w], Cardinality(@)>>},
                          !.mutex = FALSE]

(* next_id++ is a load and a store. *)
LoadNextId(w) ==
    /\ mod.wpc[w] = "increment"
    /\ mod' = [mod EXCEPT !.wpc[w] = "store", !.id[w] = mod.next_id]
StoreNextId(w) ==
    /\ mod.wpc[w] = "store"
    /\ mod' = [mod EXCEPT !.wpc[w] = "wake", !.next_id = mod.id[w] + 1]

wake_up(w) ==
    /\ mod.wpc[w] = "wake"
    /\ mod' = [mod EXCEPT !.wpc[w] = "idle", !.woken = @ \/ mod.tpc \in {"prepared", "asleep"}]

-----------------------------------------------------------------------------
(* wait_event_interruptible: the condition is tested, and again once the
   thread is on the wait queue, before it sleeps; a wake-up from then on is
   kept.  identity_get looks at the list before it takes the mutex. *)
Test ==
    /\ mod.tpc \in {"test", "prepared"}
    /\ mod' = [mod EXCEPT !.tpc = IF mod.list # <<>> THEN "get"
                                  ELSE IF mod.stop THEN "found"
                                  ELSE IF mod.tpc = "test" THEN "prepared" ELSE "asleep",
                          !.woken = @ /\ mod.tpc = "prepared"]

Wake ==
    /\ mod.tpc = "asleep"
    /\ mod.woken
    /\ mod' = [mod EXCEPT !.tpc = "test", !.woken = FALSE]

(* The rest of identity_get, for the thread and for misc_end. *)
TakeFirst(m) ==
    IF m.list = <<>> THEN [m EXCEPT !.bad = TRUE] ELSE [m EXCEPT !.list = Tail(@), !.freed = @ + 1]

ThreadGet ==
    /\ mod.tpc = "get"
    /\ ~mod.mutex
    /\ mod' = [TakeFirst(mod) EXCEPT !.tpc = "found"]

(* The wait is over, and the identity, if there was one, printed and freed. *)
Repeat ==
    /\ mod.tpc = "found"
    /\ mod' = [mod EXCEPT !.tpc = IF mod.stop THEN "exited" ELSE "test"]

(* misc_end: deregister, stop the thread and wait for it, clean up. *)
misc_end ==
    /\ mod.upc = "loaded"
    /\ \A w \in Writers : ~Writing(w)
    /\ mod' = [mod EXCEPT !.upc = "stopping", !.stop = TRUE, !.woken = TRUE]

StoppedFaulty == mod.upc = "stopping"
Stopped == mod.upc = "stopping" /\ mod.tpc = "exited"

CleanUp ==
    /\ Stopped
    /\ mod.list # <<>>
    /\ mod' = [mod EXCEPT !.upc = "get"]
CleanUpGet ==
    /\ mod.upc = "get"
    /\ ~mod.mutex
    /\ mod' = [TakeFirst(mod) EXCEPT !.upc = "stopping"]

Unloaded ==
    /\ Stopped
    /\ mod.list = <<>>
    /\ UNCHANGED mod

Write(w) ==
    \/ misc_write(w) \/ Kmalloc(w) \/ LockList(w) \/ Interrupted(w)
    \/ ListAdd(w) \/ LoadNextId(w) \/ StoreNextId(w) \/ wake_up(w)

QueueNext ==
    \/ \E w \in Writers : Write(w)
    \/ Test \/ Wake \/ ThreadGet \/ Repeat
    \/ misc_end \/ CleanUp \/ CleanUpGet \/ Unloaded

QueueSpec == QueueInit /\ [][QueueNext]_mod

-----------------------------------------------------------------------------
QueueTypeOK ==
    /\ mod.tpc \in {"test", "prepared", "asleep", "get", "found", "exited"}
    /\ mod.upc \in {"loaded", "stopping", "get"}
    /\ mod.mutex \in BOOLEAN

(* No wake-up is lost: while the thread sleeps and nobody is about to wake it,
   the list is empty. *)
NoLostWakeUp ==
    mod.tpc = "asleep" /\ ~mod.woken /\ mod.list # <<>> =>
        \E w \in Writers : mod.wpc[w] \in {"increment", "store", "wake"}

(* The test of list_empty outside the mutex is safe because the list has one
   consumer at a time, and every identity is freed, or leaked by a signal. *)
NoBadDelete ==
    /\ ~mod.bad
    /\ mod.made = mod.freed + mod.leaked + Len(mod.list)
                    + Cardinality({w \in Writers : mod.wpc[w] \in {"lock", "list_add"}})

(* Identities share an id only when writers overlapped: next_id is read, used
   and incremented without the mutex. *)
UniqueUnlessOverlap ==
    mod.overlap \/ \A x, y \in mod.ids : x[1] = y[1] => x = y

QueueSound == QueueTypeOK /\ NoLostWakeUp /\ NoBadDelete /\ UniqueUnlessOverlap
=============================================================================
