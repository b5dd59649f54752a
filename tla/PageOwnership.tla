--------------------------- MODULE PageOwnership ---------------------------
(***************************************************************************)
(* What the shared page pool promises to its users: every page has exactly *)
(* one owner at a time.  A page is available, or in the hand of one        *)
(* thread, or part of the chain of one slot, and it moves only             *)
(*                                                                         *)
(*    available -> hand of an allocator -> chain of its slot               *)
(*              -> hand of a freer      -> available                       *)
(*                                                                         *)
(* PagePool (the Treiber-stack free lists of the superblock together with  *)
(* the slot heads) is shown to implement this specification.               *)
(***************************************************************************)

CONSTANTS
    Page,        \* the 4 KiB pages of the direct window
    Allocator,   \* threads that append pages to their own slot
    Freer        \* threads that return whole slots to the pool

VARIABLES
    avail,       \* pages nobody owns
    held,        \* held[t]: pages in the hand of thread t
    chain        \* chain[s]: pages of the slot written by allocator s

vars == <<avail, held, chain>>

Init ==
    /\ avail = Page
    /\ held = [t \in Allocator \union Freer |-> {}]
    /\ chain = [s \in Allocator |-> {}]

(* Some thread takes one available page.  The trimming host thread takes   *)
(* pages too, so this is open to freers.                                   *)
Take(t) ==
    /\ held[t] = {}
    /\ \E p \in avail :
        /\ avail' = avail \ {p}
        /\ held' = [held EXCEPT ![t] = {p}]
    /\ UNCHANGED chain

Attach(t) ==
    /\ held[t] # {}
    /\ chain' = [chain EXCEPT ![t] = @ \union held[t]]
    /\ held' = [held EXCEPT ![t] = {}]
    /\ UNCHANGED avail

Detach(f, s) ==
    /\ held[f] = {}
    /\ chain[s] # {}
    /\ held' = [held EXCEPT ![f] = chain[s]]
    /\ chain' = [chain EXCEPT ![s] = {}]
    /\ UNCHANGED avail

Return(f) ==
    /\ held[f] # {}
    /\ avail' = avail \union held[f]
    /\ held' = [held EXCEPT ![f] = {}]
    /\ UNCHANGED chain

Next ==
    \/ \E t \in Allocator \union Freer : Take(t)
    \/ \E t \in Allocator : Attach(t)
    \/ \E f \in Freer, s \in Allocator : Detach(f, s)
    \/ \E f \in Freer : Return(f)

Spec == Init /\ [][Next]_vars
=============================================================================
