----------------------------- MODULE FabricPromise -----------------------------
(***************************************************************************)
(* What a managed partition promises the producers and the consumers of a  *)
(* stream (ADR 0111 as broker.rs carries it out): one log for the whole    *)
(* group of brokers, in which every producer's slots follow one another    *)
(* without a hole or a repeat and its epochs never go back, and an         *)
(* acknowledgement that names the offset its batch is at.                  *)
(***************************************************************************)
EXTENDS Naturals, Sequences

VARIABLES
  log,      \* the batches committed, in offset order
  acked     \* what producers were told: batches with their offsets

vars == <<log, acked>>

\* A batch may follow a log: its slot is the next one of its producer, and no
\* newer epoch of that producer has written.
Follows(batch, batches) ==
  LET own == {i \in 1..Len(batches) : batches[i].pid = batch.pid} IN
  /\ \A i \in own : /\ batches[i].base + batches[i].count =< batch.base
                    /\ batches[i].epoch =< batch.epoch
  /\ \/ batch.base = 0
     \/ \E i \in own : batches[i].base + batches[i].count = batch.base

Init == log = <<>> /\ acked = {}

\* One batch joins the log, at its end.
Commit == /\ Len(log') = Len(log) + 1
          /\ log' = Append(log, log'[Len(log')])
          /\ Follows(log'[Len(log')], log)
          /\ UNCHANGED acked

\* A producer is told an offset, and its batch is what stands there.
Acknowledge == /\ acked \subseteq acked'
               /\ \A ack \in acked' \ acked : /\ ack.offset \in 0..(Len(log) - 1)
                                              /\ log[ack.offset + 1] = ack.batch
               /\ UNCHANGED log

Next == Commit \/ Acknowledge

Spec == Init /\ [][Next]_vars
================================================================================
