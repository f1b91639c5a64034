-------------------------------- MODULE AFS --------------------------------
(***************************************************************************)
(* The AFS simulator, ostep/homework/dist-afs/afs.py: clients with a       *)
(* whole-file cache, a server that keeps the contents and, for every       *)
(* client, the list of files it has promised to call back about, and the   *)
(* main loop that lets one client take one micro-operation at a time.      *)
(*                                                                         *)
(* The server's put() runs the callbacks of the other clients before it    *)
(* returns, so one micro-operation is one atomic step; what interleaves    *)
(* are the micro-operations of different clients.  A client's trace (the   *)
(* acts list, random or given with -A) is any sequence of operations in    *)
(* which a descriptor is opened once, used, and closed; overlap says       *)
(* whether a client may open a file it already has open.                   *)
(*                                                                         *)
(* A definition whose name ends in Faulty is a plausible mistake in the    *)
(* definition that follows it; no specification uses it.                   *)
(***************************************************************************)
EXTENDS Integers, FiniteSets

CONSTANTS Clients,     \* the names c0, c1, ...
          NumFiles,    \* files are named by their index 0 .. NumFiles-1
          FDs,         \* descriptors a client's trace may open
          MaxActs,     \* bound on the length of a client's trace
          NotCached    \* "the file is not a key of the cache dictionary"

Files == 0 .. NumFiles - 1

(* One value of the client's cache dictionary. *)
Entry == [data : Nat, dirty : BOOLEAN, refcnt : Int, valid : BOOLEAN]

ASSUME AFSAssumption ==
    /\ IsFiniteSet(Clients)
    /\ NumFiles \in Nat \ {0}
    /\ MaxActs \in Nat
    /\ NotCached \notin Entry

VARIABLES contents,    \* server.contents
          callbacks,   \* server.cache: client -> files it must be told about
          cache,       \* client.cache.cache
          value,       \* files.value, the next value getvalue() returns
          sess,        \* where a client's trace is with each descriptor
          acnt,        \* client.acnt
          done,        \* client.done
          numrunning,  \* the main loop's count of unfinished clients
          status,      \* "running", "exited", or "aborted" by an assert
          seen,        \* the contents a client last saw printed by read/write
          overlap      \* do the traces open a file twice at a time?

vars == <<contents, callbacks, cache, value, sess, acnt, done, numrunning,
          status, seen, overlap>>

(***************************************************************************)
(* sess[c][d] is Unused before the open of d, the file while d is open,    *)
(* and Closed afterwards: alloc() refuses a descriptor used twice and      *)
(* free() is never called.                                                 *)
(***************************************************************************)
Unused == -1
Closed == -2
IsOpen(c, d) == sess[c][d] \in Files
OpenFDs(c, f) == {d \in FDs : sess[c][d] = f}

Init ==
    /\ contents = [f \in Files |-> f]
    /\ value = NumFiles
    /\ callbacks = [c \in Clients |-> {}]
    /\ cache = [c \in Clients |-> [f \in Files |-> NotCached]]
    /\ sess = [c \in Clients |-> [d \in FDs |-> Unused]]
    /\ acnt = [c \in Clients |-> 0]
    /\ done = [c \in Clients |-> FALSE]
    /\ numrunning = Cardinality(Clients)
    /\ status = "running"
    /\ seen = [c \in Clients |-> 0]
    /\ overlap \in BOOLEAN

-----------------------------------------------------------------------------
(* client.step enters an operation: the loop is running, the client is not
   done and its trace goes on. *)
Stepping(c) ==
    /\ status = "running"
    /\ ~done[c]
    /\ acnt[c] < MaxActs
    /\ acnt' = [acnt EXCEPT ![c] = @ + 1]
    /\ UNCHANGED <<done, numrunning, overlap>>

(* cache.checkget followed by the validity test of client.getfile. *)
LocalCopyFaulty(c, f) == cache[c][f] # NotCached
LocalCopy(c, f) == cache[c][f] # NotCached /\ cache[c][f].valid

(* The entry client.getfile leaves: the local copy, or the server's contents
   put with refcnt 0, then incref. *)
Fetched(c, f) ==
    IF LocalCopy(c, f)
    THEN [cache[c][f] EXCEPT !.refcnt = @ + 1]
    ELSE [data |-> contents[f], dirty |-> FALSE, refcnt |-> 1, valid |-> TRUE]

(* server.get registers the file for a callback when the client fetches it. *)
PromisedFaulty(c, f) == callbacks[c]
Promised(c, f) ==
    IF LocalCopy(c, f) THEN callbacks[c] ELSE callbacks[c] \cup {f}

Open(c, d, f) ==
    /\ Stepping(c)
    /\ sess[c][d] = Unused
    /\ overlap \/ OpenFDs(c, f) = {}
    /\ sess' = [sess EXCEPT ![c][d] = f]
    /\ cache' = [cache EXCEPT ![c][f] = Fetched(c, f)]
    /\ callbacks' = [callbacks EXCEPT ![c] = Promised(c, f)]
    /\ UNCHANGED <<contents, value, status, seen>>

Read(c, d) ==
    /\ Stepping(c)
    /\ IsOpen(c, d)
    /\ cache[c][sess[c][d]] # NotCached
    /\ seen' = [seen EXCEPT ![c] = cache[c][sess[c][d]].data]
    /\ UNCHANGED <<contents, callbacks, cache, value, sess, status>>

Write(c, d) ==
    LET f == sess[c][d] IN
    /\ Stepping(c)
    /\ IsOpen(c, d)
    /\ cache[c][f] # NotCached
    /\ value' = value + 1
    /\ cache' = [cache EXCEPT
                   ![c][f] = [@ EXCEPT !.data = value, !.dirty = TRUE]]
    /\ seen' = [seen EXCEPT ![c] = cache[c][f].data]
    /\ UNCHANGED <<contents, callbacks, sess, status>>

(* server.put's callback to client k, and cache.invalidate there. *)
InvalidatedFaulty(k, f) ==
    IF f \in callbacks[k] /\ cache[k][f] # NotCached
    THEN [data |-> cache[k][f].data, dirty |-> cache[k][f].dirty, valid |-> FALSE]
    ELSE cache[k][f]
Invalidated(k, f) ==
    IF f \in callbacks[k] /\ cache[k][f] # NotCached
    THEN [cache[k][f] EXCEPT !.valid = FALSE]
    ELSE cache[k][f]

(* server.put keeps every callback promise: the remove is commented out. *)
PromisesAfterPutFaulty(c, f) ==
    [k \in Clients |-> IF k = c THEN callbacks[k] ELSE callbacks[k] \ {f}]
PromisesAfterPut(c, f) == callbacks

(* putfile's setclean and setvalid when the copy was dirty, then decref. *)
ReleasedFaulty(e) ==
    [data |-> e.data, dirty |-> FALSE, valid |-> e.dirty \/ e.valid,
     refcnt |-> IF e.dirty THEN e.refcnt ELSE e.refcnt - 1]
Released(e) ==
    [data |-> e.data, dirty |-> FALSE, valid |-> e.dirty \/ e.valid,
     refcnt |-> e.refcnt - 1]

(* cache.checkvalid drops an invalid copy nobody has open. *)
Kept(e) == IF ~e.valid /\ e.refcnt = 0 THEN NotCached ELSE e

Close(c, d) ==
    LET f == sess[c][d]
        e == cache[c][f]
    IN
    /\ Stepping(c)
    /\ IsOpen(c, d)
    /\ e # NotCached
    /\ sess' = [sess EXCEPT ![c][d] = Closed]
    /\ contents' = [contents EXCEPT ![f] = IF e.dirty THEN e.data ELSE @]
    /\ cache' = [k \in Clients |->
                   IF k = c THEN [cache[c] EXCEPT ![f] = Kept(Released(e))]
                   ELSE IF e.dirty THEN [cache[k] EXCEPT ![f] = Invalidated(k, f)]
                   ELSE cache[k]]
    /\ callbacks' = IF e.dirty THEN PromisesAfterPut(c, f) ELSE callbacks
    /\ UNCHANGED <<value, status, seen>>

(* assert(fname in self.cache) in cache.get: read, write and close of an open
   descriptor end the program when the entry is gone. *)
Abort(c, d) ==
    /\ Stepping(c)
    /\ IsOpen(c, d)
    /\ cache[c][sess[c][d]] = NotCached
    /\ status' = "aborted"
    /\ UNCHANGED <<contents, callbacks, cache, value, sess, seen>>

(* The trace of c is used up: step returns 0 and the main loop counts down.
   A later step of c returns -1 and changes nothing. *)
FinishFaulty(c) ==
    /\ status = "running"
    /\ done' = [done EXCEPT ![c] = TRUE]
    /\ numrunning' = numrunning - 1
    /\ status' = IF numrunning = 1 THEN "exited" ELSE status
    /\ UNCHANGED <<contents, callbacks, cache, value, sess, acnt, seen, overlap>>
Finish(c) ==
    /\ status = "running"
    /\ ~done[c]
    /\ done' = [done EXCEPT ![c] = TRUE]
    /\ numrunning' = numrunning - 1
    /\ status' = IF numrunning = 1 THEN "exited" ELSE status
    /\ UNCHANGED <<contents, callbacks, cache, value, sess, acnt, seen, overlap>>

Step(c) ==
    \/ \E d \in FDs, f \in Files : Open(c, d, f)
    \/ \E d \in FDs : Read(c, d) \/ Write(c, d) \/ Close(c, d) \/ Abort(c, d)
    \/ Finish(c)

(* The program has ended. *)
Ended == status # "running" /\ UNCHANGED vars

Next == (\E c \in Clients : Step(c)) \/ Ended

Spec == Init /\ [][Next]_vars

-----------------------------------------------------------------------------
TypeOK ==
    /\ contents \in [Files -> Nat]
    /\ callbacks \in [Clients -> SUBSET Files]
    /\ cache \in [Clients -> [Files -> Entry \cup {NotCached}]]
    /\ value \in Nat
    /\ sess \in [Clients -> [FDs -> Files \cup {Unused, Closed}]]
    /\ acnt \in [Clients -> 0 .. MaxActs]
    /\ done \in [Clients -> BOOLEAN]
    /\ numrunning \in Int
    /\ status \in {"running", "exited", "aborted"}
    /\ seen \in [Clients -> Nat]
    /\ overlap \in BOOLEAN

(* The server never forgets who holds a copy: a cached file, valid or not, is
   on its client's callback list, however opens, callbacks and closes of
   different clients interleave (server.get and server.put). *)
CallbackPromise ==
    \A c \in Clients, f \in Files :
        cache[c][f] # NotCached => f \in callbacks[c]

(* A valid copy that was not written locally is what the server holds: an
   open that finds it in the cache returns the last published contents
   (client.getfile skips the server only for such a copy). *)
ValidIsCurrent ==
    \A c \in Clients, f \in Files :
        LocalCopy(c, f) /\ ~cache[c][f].dirty => cache[c][f].data = contents[f]

(* The reference count is the number of opens not yet closed, as
   dist-afs/README.md:241 says. *)
RefcntCountsOpens ==
    \A c \in Clients, f \in Files :
        IF cache[c][f] = NotCached
        THEN OpenFDs(c, f) = {}
        ELSE cache[c][f].refcnt = Cardinality(OpenFDs(c, f))

(* It is, as long as no client opens a file it has open: callbacks and closes
   of the other clients do not disturb it, and no read, write or close of an
   open descriptor finds the entry gone (the assertion of cache.get). *)
RefcntExact == ~overlap => RefcntCountsOpens /\ status # "aborted"

(* The main loop ends only when every client has used up its trace: step
   answers 0 once per client and -1 from then on. *)
ExitsWhenAllDone == status = "exited" => \A c \in Clients : done[c]

(* The private copy of a session and its dirty bit are those of the cache. *)
View == [c \in Clients |-> [d \in FDs |->
           IF IsOpen(c, d) THEN cache[c][sess[c][d]].data ELSE 0]]
Wrote == [c \in Clients |-> [d \in FDs |->
            IF IsOpen(c, d) THEN cache[c][sess[c][d]].dirty ELSE FALSE]]

(* The caches, callbacks and validity bits implement whole-file sessions: what
   a client reads is the snapshot of its open plus its own writes.  This is
   claimed of traces that do not overlap; the others are mapped to sessions
   that stay as they began. *)
InSessions(now, begun) == IF overlap THEN begun ELSE now
PerFD(v) == [c \in Clients |-> [d \in FDs |-> v]]
Sessions == INSTANCE WholeFileSessions WITH
    contents <- InSessions(contents, [f \in Files |-> f]),
    sess <- InSessions(sess, PerFD(Unused)),
    seen <- InSessions(seen, [c \in Clients |-> 0]),
    view <- InSessions(View, PerFD(0)),
    wrote <- InSessions(Wrote, PerFD(FALSE))

ImplementsSessions == Sessions!Spec
=============================================================================
