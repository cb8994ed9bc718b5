---------------------------- MODULE PeerEndpoint ----------------------------
(***************************************************************************)
(* One node's view of one cycle and what changes it: the frames a peer     *)
(* sends (PeerEndpoint::admit, libs/qip-peer/src/lib.rs) and the node's own*)
(* reservation, FIRE, execution and unwind (Saga, edge/qip-peer-link/src/  *)
(* saga.rs).  All of it is in memory; the fields the saga keeps per cycle  *)
(* (attempted, spread, closed) live exactly as long as the endpoint's.     *)
(* Links are mutual TLS, so a frame's sender is the node it speaks for.    *)
(***************************************************************************)
EXTENDS PeerCycles

CONSTANTS
    NoView,      \* no epoch held
    NoAuthority  \* the cell authorises no leg

ViewType ==
    [held: SUBSET Nodes, declined: SUBSET Nodes, fired: BOOLEAN, sent: BOOLEAN,
     filled: [Nodes -> Quantities \cup {NoTrade}], unwound: [Nodes -> Nat \cup {NoTrade}],
     attempted: BOOLEAN, spread: Nat, closed: BOOLEAN]

FreshView ==
    [held |-> {}, declined |-> {}, fired |-> FALSE, sent |-> FALSE,
     filled |-> [n \in Nodes |-> NoTrade], unwound |-> [n \in Nodes |-> NoTrade],
     attempted |-> FALSE, spread |-> 0, closed |-> FALSE]

\* What the cell's gate last authorised for its book: the largest leg, what
\* the touch shows, and what crossing back out costs per unit.
AuthorityType == [max: Nat, touch: Nat, spread: Nat]

ASSUME ViewAssumption == NoView \notin ViewType /\ NoAuthority \notin AuthorityType

FrameTypes == {"token", "reserved", "declined", "fire", "fill", "unwind"}
FrameType == [type: FrameTypes, opp: Opps, from: Nodes, to: Nodes, amount: Nat]

Other(o, n) == IF n = Coordinator[o] THEN Counterparty[o] ELSE Coordinator[o]
Frame(type, o, n, amount) ==
    [type |-> type, opp |-> o, from |-> n, to |-> Other(o, n), amount |-> amount]
----------------------------------------------------------------------------
(* Frames.  bound[m] is the unwind loss per unit the epoch declares for    *)
(* m's leg.                                                                *)

EveryLegReserved(o, v) == Legs(o) \subseteq v.held

Admits(v, f, bound) ==
    \/ f.type = "reserved" /\ f.from \notin v.declined
    \/ f.type = "declined" /\ ~v.fired
    \/ f.type = "fire" /\ EveryLegReserved(f.opp, v)
    \/ f.type = "fill" /\ v.fired /\ f.amount \in 1..Size
    \/ f.type = "unwind" /\ f.amount <= Size * bound[f.from]

Applied(v, f) ==
    CASE f.type = "reserved" -> [v EXCEPT !.held = @ \cup {f.from}]
      [] f.type = "declined" -> [v EXCEPT !.held = @ \ {f.from}, !.declined = @ \cup {f.from}]
      [] f.type = "fire" -> [v EXCEPT !.fired = TRUE]
      [] f.type = "fill" -> [v EXCEPT !.filled[f.from] = f.amount]
      [] f.type = "unwind" -> [v EXCEPT !.unwound[f.from] = f.amount]
----------------------------------------------------------------------------
(* One pass of the saga over one cycle, in the order of Saga::step.  n is  *)
(* the node, a its authority, clocked whether its peers' clocks are        *)
(* measured and in bound; an expired view is gone before the pass.         *)

\* Mutant: the cost of crossing back out is not asked.
GateOnSize(a, unit) == a # NoAuthority /\ Size <= a.max
\* Saga::gate: the leg's size, and its declared unwind loss against the exit.
Gate(a, unit) == a # NoAuthority /\ Size <= a.max /\ a.spread <= unit

Wants(v) == ~v.attempted /\ ~v.fired

\* Saga::reserve, reserve_own_legs: one attempt per epoch, whole or declined.
AfterReserve(n, v, taken, clocked) ==
    IF ~Wants(v) THEN v
    ELSE IF ~clocked THEN [v EXCEPT !.attempted = TRUE]
    ELSE IF taken THEN [v EXCEPT !.attempted = TRUE, !.held = @ \cup {n}]
    ELSE [v EXCEPT !.attempted = TRUE, !.declined = @ \cup {n}]

\* Mutant: the coordinator waits for its own leg only.
MayFireOnOwnLeg(n, o, v) ==
    n = Coordinator[o] /\ ~v.fired /\ v.declined = {} /\ n \in v.held
\* Saga::fire, declare_fire.  The bound on the worst loss is the sum of the
\* legs' own bounds (Saga::draft), so it is always established.
MayFire(n, o, v) ==
    n = Coordinator[o] /\ ~v.fired /\ v.declined = {} /\ EveryLegReserved(o, v)
AfterFire(n, o, v, clocked) ==
    IF clocked /\ MayFire(n, o, v) THEN [v EXCEPT !.fired = TRUE] ELSE v

\* Mutant: a deeper touch fills more than the leg.
FillTheTouch(a) == a.touch
\* Saga::execute: send_leg through the gate, and the fill the touch allows;
\* a touch of nothing records no fill.
Fill(a) == IF a.touch < Size THEN a.touch ELSE Size
Sends(v, a, unit, clocked) == clocked /\ v.fired /\ ~v.sent /\ Gate(a, unit)
AfterExecute(n, v, a, unit, clocked) ==
    IF Sends(v, a, unit, clocked)
    THEN [v EXCEPT !.sent = TRUE, !.spread = a.spread,
                   !.filled[n] = IF Fill(a) > 0 THEN Fill(a) ELSE @]
    ELSE v

\* Saga::unwind and Saga::close, which wait for the same thing.
EveryFillKnown(o, v) == \A m \in Legs(o) : v.filled[m] # NoTrade
Settles(o, v) == v.fired /\ v.sent /\ ~v.closed /\ EveryFillKnown(o, v)

\* What n filled beyond the other leg.
Excess(n, o, v) ==
    IF v.filled[n] > v.filled[Other(o, n)] THEN v.filled[n] - v.filled[Other(o, n)] ELSE 0
Unwinds(n, o, v, unit) ==
    Settles(o, v) /\ Excess(n, o, v) > 0 /\ Excess(n, o, v) * v.spread <= Size * unit
AfterSettle(n, o, v, unit) ==
    IF Unwinds(n, o, v, unit)
    THEN [v EXCEPT !.closed = TRUE, !.unwound[n] = Excess(n, o, v) * v.spread]
    ELSE [v EXCEPT !.closed = @ \/ Settles(o, v)]

Stepped(n, o, v, a, unit, taken, clocked) ==
    AfterSettle(n, o,
        AfterExecute(n,
            AfterFire(n, o, AfterReserve(n, v, taken, clocked), clocked),
            a, unit, clocked),
        unit)
=============================================================================
