-------------------------------- MODULE Fork --------------------------------
(***************************************************************************)
(* The process trees of ostep/homework/cpu-api/fork.py: processes fork and *)
(* exit, and the children of one that exits get a new parent.              *)
(*                                                                         *)
(* An action is one of a list given with -A or made up at random.  A list  *)
(* that forks a process which is still there is left out; the names of     *)
(* processes that are gone may come back.  Printing is left out.           *)
(*                                                                         *)
(* A definition whose name ends in Faulty is a plausible mistake in the    *)
(* definition that follows it; no specification uses it.                   *)
(***************************************************************************)
EXTENDS Integers, Sequences, SequencesExt, FiniteSets, Functions

CONSTANTS Names,        \* of processes
          root_name,
          MaxActions

VARIABLE forker

Init ==
    \E leaf_only, local_reparent \in BOOLEAN :
        forker = [leaf_only      |-> leaf_only,
                  local_reparent |-> local_reparent,
                  process_list   |-> {root_name},
                  children       |-> [p \in {root_name} |-> <<>>],
                  parents        |-> [p \in {} |-> root_name],
                  actions        |-> 0,
                  phase          |-> "run"]     \* or "exit", after a message

-----------------------------------------------------------------------------
Without(f, p) == Restrict(f, (DOMAIN f) \ {p})
With(f, p, value) == [x \in (DOMAIN f) \cup {p} |-> IF x = p THEN value ELSE f[x]]

do_fork(f, p, c) ==
    [f EXCEPT !.process_list = @ \cup {c},
              !.children = With([@ EXCEPT ![p] = Append(@, c)], c, <<>>),
              !.parents = With(@, c, p)]

(* A process and all below it, each before its children. *)
collect_children(f, p) ==
    LET collect[n \in 0 .. Cardinality(f.process_list)] ==
            [q \in f.process_list |->
                IF n = 0 THEN <<q>>
                ELSE <<q>> \o FlattenSeq([k \in DOMAIN f.children[q] |-> collect[n - 1][f.children[q][k]]])]
    IN  collect[Cardinality(f.process_list)][p]

(* -R: the orphans go to the parent of the process that exits. *)
ReparentToParent(f, p, exit_parent) ==
    [f EXCEPT !.parents = [q \in DOMAIN @ |-> IF q \in ToSet(f.children[p]) THEN exit_parent ELSE @[q]],
              !.children[exit_parent] = @ \o f.children[p]]

(* Otherwise all that are below it become children of the root. *)
ReparentToRootFaulty(f, p) ==
    [f EXCEPT !.parents = [q \in DOMAIN @ |-> IF q \in ToSet(f.children[p]) THEN root_name ELSE @[q]],
              !.children = [q \in DOMAIN @ |-> IF q \in ToSet(f.children[p]) THEN <<>>
                                               ELSE IF q = root_name THEN @[q] \o f.children[p] ELSE @[q]]]
ReparentToRoot(f, p) ==
    LET descendents == Tail(collect_children(f, p)) IN
    [f EXCEPT !.parents = [q \in DOMAIN @ |-> IF q \in ToSet(descendents) THEN root_name ELSE @[q]],
              !.children = [q \in DOMAIN @ |-> IF q \in ToSet(descendents) THEN <<>>
                                               ELSE IF q = root_name THEN @[q] \o descendents ELSE @[q]]]

(* list.remove takes away the first occurrence. *)
do_exit(f, p) ==
    LET exit_parent == f.parents[p]
        moved == IF f.local_reparent THEN ReparentToParent(f, p, exit_parent) ELSE ReparentToRoot(f, p)
    IN  [moved EXCEPT !.process_list = @ \ {p},
                      !.children = Without([@ EXCEPT ![exit_parent] = RemoveFirst(@, p)], p),
                      !.parents = Without(@, p)]

-----------------------------------------------------------------------------
Acting == forker.phase = "run" /\ forker.actions < MaxActions
After(f) == [f EXCEPT !.actions = @ + 1]
bad_action == [forker EXCEPT !.phase = "exit"]

ForkAction(p, c) ==
    /\ Acting
    /\ c \notin forker.process_list
    /\ forker' = IF p \in forker.process_list THEN After(do_fork(forker, p, c)) ELSE bad_action

ExitAction(p) ==
    /\ Acting
    /\ forker' = IF p \notin forker.process_list THEN bad_action
                 ELSE IF forker.leaf_only /\ forker.children[p] # <<>> THEN After(forker)
                 ELSE IF p = root_name THEN bad_action
                 ELSE After(do_exit(forker, p))

Ended == ~Acting /\ UNCHANGED forker

Next ==
    \/ \E p, c \in Names : ForkAction(p, c)
    \/ \E p \in Names : ExitAction(p)
    \/ Ended

-----------------------------------------------------------------------------
(* The two records of who is whose child agree. *)
RecordsAgree ==
    /\ DOMAIN forker.children = forker.process_list
    /\ DOMAIN forker.parents = forker.process_list \ {root_name}
    /\ \A p \in forker.process_list :
         /\ IsInjective(forker.children[p])
         /\ ToSet(forker.children[p]) = {q \in DOMAIN forker.parents : forker.parents[q] = p}

(* The root is in the tree, and print_tree, which walks down from it, shows
   every process there is once. *)
AllShown ==
    LET shown == collect_children(forker, root_name)
    IN  ToSet(shown) = forker.process_list /\ IsInjective(shown)

(* Whatever forks and exits, the records describe one tree. *)
TreeSound == RecordsAgree /\ AllShown
=============================================================================
