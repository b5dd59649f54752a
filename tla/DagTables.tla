----------------------------- MODULE DagTables -----------------------------
(***************************************************************************)
(* What run_dag reads off a DAG and its plan before and while it runs it:  *)
(* the kinds of nodes, the nodes of a wave, and the tables that count who  *)
(* is to read a slot.                                                      *)
(*                                                                         *)
(* A node is a record: kind, stages (what it reads and writes, stage by    *)
(* stage), next (whether its stages read one record at the slot's cursor,  *)
(* as read_next_io_record does, or all records), moves (of a routing node, *)
(* from slot to slot) and frees (of FreeSlots).  Slots are pairs           *)
(* <<"stream", k>> and <<"io", k>>.                                        *)
(***************************************************************************)
EXTENDS DagPlan

CONSTANT Slots

Kind(n) == dag.nodes[n].kind
Stages(n) == dag.nodes[n].stages
Ins(n) == UNION {Stages(n)[i].in : i \in DOMAIN Stages(n)}
Outs(n) == UNION {Stages(n)[i].out : i \in DOMAIN Stages(n)}

IsInput(n) == Kind(n) \in {"Input", "Prefetch", "Chunk"}
IsFunc(n) == Kind(n) = "Func"
IsThread(n) == Kind(n) \in {"Send", "Recv"}
IsSerial(n) == ~ IsFunc(n) /\ ~ IsThread(n)

(* Nodes that run as a process or a thread of their own.                   *)
Concurrent(n) == ~ IsSerial(n) \/ Kind(n) = "Prefetch"

(* A mutant: stream receives count as having no consumer.                  *)
HasConsumerIoOnly(n) ==
    Kind(n) = "Recv" /\ Users(n) # {} /\ \A s \in Outs(n) : s[1] = "io"

(* remote_recv_has_consumer                                                *)
HasConsumer(n) == Kind(n) = "Recv" /\ Users(n) # {}

(* node_routed_upstream_slots                                              *)
RoutedUpstream(n) == {dag.nodes[n].moves[k][1] : k \in DOMAIN dag.nodes[n].moves}

(* node_owned_slots                                                        *)
OwnedSlots(n) ==
    CASE Kind(n) = "Output" -> Ins(n)
      [] Kind(n) = "Pipeline" -> Stages(n)[1].in
      [] OTHER -> {}

(* The slots a pipeline frees besides: the outputs of its stages but the   *)
(* first and the last.                                                     *)
InternalSlots(n) ==
    IF Kind(n) # "Pipeline" THEN {}
    ELSE UNION {Stages(n)[i].out : i \in 2..(Len(Stages(n)) - 1)}

(* build_slot_refcounts                                                    *)
SlotRefcounts == [s \in Slots |-> Cardinality({n \in Nodes : s \in OwnedSlots(n)})]

InputDepCounts == [n \in {m \in Nodes : IsInput(m)} |-> Cardinality(Users(n))]

(* remote_recv_dep_counts: receives into I/O slots only.                   *)
RecvDepCounts ==
    [n \in {m \in Nodes : Kind(m) = "Recv" /\ \A s \in Outs(m) : s[1] = "io"} |->
        Cardinality(Users(n))]

(* What the nodes of wave w depend on.                                     *)
Needed(w) == UNION {Deps(n) : n \in Range(waves[w])}

(* The nodes of wave w that are in S, in its order.                        *)
InWave(w, S) ==
    LET at == Ascending({i \in DOMAIN waves[w] : waves[w][i] \in S})
    IN  [k \in DOMAIN at |-> waves[w][at[k]]]
=============================================================================
