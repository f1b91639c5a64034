------------------------- MODULE WholeFileSessions -------------------------
(***************************************************************************)
(* What AFS promises a client (dist-afs/README.md): an open takes a        *)
(* snapshot of the whole file, reads and writes of the session use that    *)
(* private copy whatever other clients do meanwhile, and the close of a    *)
(* session that wrote publishes its copy, last closer wins.  There is no   *)
(* cache, callback or validity here.                                       *)
(***************************************************************************)
EXTENDS Naturals

CONSTANTS Clients, Files, FDs,
          Unused, Closed  \* a descriptor before its open, after its close

VARIABLES contents,  \* the published contents of every file
          sess,      \* per descriptor: Unused, the open file, or Closed
          view,      \* the private copy of an open session
          wrote,     \* did the session write?
          seen       \* what a client last saw

vars == <<contents, sess, view, wrote, seen>>

Init ==
    /\ contents \in [Files -> Nat]
    /\ sess = [c \in Clients |-> [d \in FDs |-> Unused]]
    /\ view = [c \in Clients |-> [d \in FDs |-> 0]]
    /\ wrote = [c \in Clients |-> [d \in FDs |-> FALSE]]
    /\ seen = [c \in Clients |-> 0]

Open(c, d, f) ==
    /\ sess[c][d] = Unused
    /\ sess' = [sess EXCEPT ![c][d] = f]
    /\ view' = [view EXCEPT ![c][d] = contents[f]]
    /\ UNCHANGED <<contents, wrote, seen>>

Read(c, d) ==
    /\ sess[c][d] \in Files
    /\ seen' = [seen EXCEPT ![c] = view[c][d]]
    /\ UNCHANGED <<contents, sess, view, wrote>>

(* The new contents are any value of the client's choosing. *)
Write(c, d) ==
    /\ sess[c][d] \in Files
    /\ view'[c][d] \in Nat
    /\ view' = [view EXCEPT ![c][d] = view'[c][d]]
    /\ wrote' = [wrote EXCEPT ![c][d] = TRUE]
    /\ seen' = [seen EXCEPT ![c] = view[c][d]]
    /\ UNCHANGED <<contents, sess>>

Close(c, d) ==
    /\ sess[c][d] \in Files
    /\ sess' = [sess EXCEPT ![c][d] = Closed]
    /\ contents' = [contents EXCEPT
                      ![sess[c][d]] = IF wrote[c][d] THEN view[c][d] ELSE @]
    /\ view' = [view EXCEPT ![c][d] = 0]
    /\ wrote' = [wrote EXCEPT ![c][d] = FALSE]
    /\ UNCHANGED seen

Next ==
    \E c \in Clients, d \in FDs :
        \/ \E f \in Files : Open(c, d, f)
        \/ Read(c, d)
        \/ Write(c, d)
        \/ Close(c, d)

Spec == Init /\ [][Next]_vars
=============================================================================
