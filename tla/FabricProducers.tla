---------------------------- MODULE FabricProducers ----------------------------
(***************************************************************************)
(* What one broker knows of one producer id at one partition (qip-        *)
(* streaming, event_fabric/producer.rs), and how it judges a batch: the    *)
(* fence, the dense sequence, and the window in which a retry is           *)
(* recognised.                                                             *)
(*                                                                         *)
(* The code's last_sequence is kept as the sequence that comes next        *)
(* (`expected' in admit), 0 for a producer never seen; an epoch of 0       *)
(* stands for the code's None.  Epochs and sequences are u64 in the code,  *)
(* and admit, init and restore refuse at the top of that range; the bounds *)
(* of the modules that use these operators stay far below it.              *)
(***************************************************************************)
EXTENDS Naturals, Sequences

CONSTANT WindowSize      \* batches remembered per producer; 5 in the code

ASSUME WindowSizeAssumption == WindowSize \in Nat \ {0}

\* A batch as its producer stamps it.  The payload stands for the hash of the
\* records, which is all the window compares.
Batch(Pids, Payloads) ==
  [pid : Pids, epoch : Nat \ {0}, base : Nat, count : Nat \ {0}, payload : Payloads]

\* The state of a producer that this table has never heard of.
Unheard == [epoch |-> 0, next |-> 0, window |-> <<>>]

MaxEpoch(e, f) == IF e < f THEN f ELSE e

\* Mutant: nothing is dropped.
RememberingAll(window, batch) == Append(window, batch)

\* Push onto the window and drop what no longer fits, the oldest first.
Remembering(window, batch) ==
  Append(IF Len(window) < WindowSize THEN window ELSE Tail(window), batch)

\* The remembered batch of the same epoch at the same slot, if there is one.
InWindow(state, batch) ==
  \E i \in 1..Len(state.window) : /\ state.window[i].epoch = batch.epoch
                                  /\ state.window[i].base = batch.base

\* admit compares the first match: the one with the lowest index.
Matches(state, batch) ==
  \E i \in 1..Len(state.window) :
     LET held == state.window[i] IN
     /\ held.epoch = batch.epoch /\ held.base = batch.base
     /\ \A j \in 1..(i - 1) : \/ state.window[j].epoch # batch.epoch
                              \/ state.window[j].base # batch.base
     /\ held.count = batch.count /\ held.payload = batch.payload

\* The judgement of admit, in the order the code makes it: the fence before
\* the sequence is even read, a hole before a match.
Fenced(state, batch)     == batch.epoch < state.epoch
OutOfOrder(state, batch) == ~Fenced(state, batch) /\ batch.base > state.next
Fresh(state, batch)      == ~Fenced(state, batch) /\ batch.base = state.next
Repeated(state, batch)   == ~Fenced(state, batch) /\ batch.base < state.next
Duplicate(state, batch)  == Repeated(state, batch) /\ Matches(state, batch)
Conflict(state, batch)   ==
  Repeated(state, batch) /\ InWindow(state, batch) /\ ~Matches(state, batch)

\* What admitting a fresh batch leaves behind.
Admitted(state, batch) ==
  [epoch  |-> batch.epoch,
   next   |-> batch.base + batch.count,
   window |-> Remembering(state.window, batch)]

\* Mutant: the sequence is left where it was.
RestoredUncounted(state, batch) ==
  [state EXCEPT !.epoch = MaxEpoch(@, batch.epoch),
                !.window = Remembering(@, batch)]

\* A batch read back from a log, at a restart or while catching up: never
\* refused, and the epoch never goes back.
Restored(state, batch) ==
  [epoch  |-> MaxEpoch(state.epoch, batch.epoch),
   next   |-> batch.base + batch.count,
   window |-> Remembering(state.window, batch)]

\* A new incarnation of the producer id.
Initialised(state) == [state EXCEPT !.epoch = @ + 1]
================================================================================
