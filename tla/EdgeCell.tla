-------------------------------- MODULE EdgeCell --------------------------------
(***************************************************************************)
(* What a cell may spend (qip-edge, cell.rs; qip-edge-node, pass.rs and    *)
(* scheduler.rs): signed grants and policy payloads set its share of the   *)
(* region's capital, a pass holds capital before an order exists, turns    *)
(* the hold into an order or lets it go, and takes capital back when an    *)
(* order ends with nothing filled.                                         *)
(*                                                                         *)
(* A node's turn is one thread: wires, rollback, mesh and plan, then one   *)
(* pass.  The pass is cut where its error paths differ (phase); nothing of *)
(* the first group happens inside it.                                      *)
(***************************************************************************)
EXTENDS RegionAllocation

CONSTANTS
    Strategies, Cycles,
    Grants,        \* signed envelopes
    Grantee,       \* the strategy each is for
    Gross,         \* and its gross limit
    Perishable,    \* those whose window may end
    Manifests,     \* what a payload's capital_grants slot may name
    NoGrant,
    Costs,         \* notionals an intent or a cycle may need
    Slots,         \* MAX_OPEN_ORDERS ids an order can go by
    MaxSequence    \* bound on payloads

ASSUME CellAssumption ==
    /\ Ids = Strategies \cup Cycles /\ \A s \in Strategies, c \in Cycles : s < c
    /\ Grantee \in [Grants -> Strategies] /\ Gross \in [Grants -> Nat]
    /\ IsFiniteSet(Grants) /\ NoGrant \notin Grants /\ IsFiniteSet(Slots)
    /\ Perishable \subseteq Grants /\ Manifests \subseteq SUBSET Grants
    /\ Costs \subseteq Nat /\ MaxSequence \in Nat
    /\ Ids \subseteq Nat  \* strategies and cycles are taken in their names' order

VARIABLES
    region,      \* the region table
    policy, previous, highest,  \* the payload applied, the one before it, and
                 \* the highest sequence ever applied
    warrant,     \* the manifest region.share came with
    deployed,    \* the grant each strategy runs under
    expired,     \* grants whose window is over
    orders,      \* working: the cell's own orders at the venue, by id
    suspended,   \* cycles whose first leg rests
    spent,       \* capital of orders settled with a fill and of cycles sent
    halt,        \* nothing, a wire (policy, poll, spool) that may let go again,
                 \* or the cell's own kill switch, which nothing here clears
    phase, asked, intents \* the pass: who asked, whose hold waits for an order

authority == <<policy, previous, highest, warrant, deployed, expired>>
book  == <<orders, suspended, spent>>
pass  == <<phase, asked, intents>>
vars  == <<region, authority, book, halt, pass>>

Whole == 2   \* an order's quantity: filled none, in part or whole
Unproduced == {NoGrant}   \* a payload's capital_grants slot with no manifest
NoPolicy == [sequence |-> 0, names |-> Unproduced]
NotResting == [committed |-> 0, position |-> 0]
Payload == [sequence: 0..MaxSequence, names: Manifests \cup {Unproduced}]
Order == [by: SUBSET Ids, capital: Nat, at: 0..Whole, filled: 0..Whole,
          closed: BOOLEAN, rests: BOOLEAN]

TypeOK ==
    /\ region \in RegionType
    /\ policy \in Payload /\ previous \in Payload /\ highest \in 0..MaxSequence
    /\ warrant \subseteq Grants /\ expired \subseteq Grants
    /\ deployed \in [Strategies -> Grants \cup {NoGrant}]
    /\ \A s \in Strategies : deployed[s] = NoGrant \/ Grantee[deployed[s]] = s
    /\ DOMAIN orders \subseteq Slots /\ orders \in [DOMAIN orders -> Order]
    /\ suspended \in [Cycles -> [committed: Nat, position: 0..2]]
    /\ spent \in Nat /\ halt \in {"none", "wire", "own"}
    /\ phase \in {"between", "abandoned", "asking", "netting", "resuming", "cycling"}
    /\ asked \subseteq Ids /\ intents \subseteq Ids

(***************************************************************************)
(* Authority: payloads, grants and the share they amount to.               *)
(***************************************************************************)
GrossOf(gs) == SumOver(Gross, gs)
InForce == {deployed[s] : s \in Strategies} \ {NoGrant}
\* derive_region_share
Share(p, held, over) == GrossOf((held \ over) \cap p.names)

\* Mutant: whatever payload serves re-derives the share.
RederivedUnderAny(r, p, held, over) ==
    IF p.names # Unproduced /\ r.share # NoShare
    THEN Rebound(r, Share(p, held, over), p.sequence) ELSE r
\* rederive_region_share, of the payload that serves.
RederivedUnder(r, p, held, over) ==
    IF p.names = Unproduced THEN r
    ELSE Rederived(r, Share(p, held, over), p.sequence)

Idle == phase \in {"between", "abandoned"}

ApplyPolicy(sequence, names) ==
    /\ Idle /\ sequence > highest
    /\ policy' = [sequence |-> sequence, names |-> names]
    /\ previous' = policy /\ highest' = sequence
    /\ IF names = Unproduced THEN UNCHANGED <<region, warrant>>
       ELSE /\ region' = Rebased(region, Share(policy', InForce, expired), sequence)
            /\ warrant' = names
    /\ UNCHANGED <<deployed, expired, book, halt, pass>>

\* The payload before serves again; the share is left as it is.
RollBackPolicy ==
    /\ Idle /\ previous # NoPolicy /\ halt # "wire"
    /\ policy' = previous /\ previous' = NoPolicy
    /\ UNCHANGED <<region, highest, warrant, deployed, expired, book, halt, pass>>

Holds(s, g, over) ==
    /\ deployed' = [deployed EXCEPT ![s] = g]
    /\ region' = RederivedUnder(region, policy, InForce', over)
    /\ UNCHANGED <<policy, previous, highest, warrant, expired, book, halt, pass>>

\* install, of a strategy the plan names and a grant has arrived for: the
\* share is judged at the instant the grant was verified, when fewer grants
\* may have expired than by now.
Deploy(g, over) ==
    /\ Idle /\ deployed[Grantee[g]] = NoGrant
    /\ over \subseteq expired \ {g}
    /\ Holds(Grantee[g], g, over)
\* renew_capital, of a strategy that runs.
Renew(g) ==
    /\ Idle /\ g \notin expired /\ deployed[Grantee[g]] \notin {NoGrant, g}
    /\ Holds(Grantee[g], g, expired)
\* Refused while an order the strategy contributed to is open.
Withdraw(s) ==
    /\ Idle /\ deployed[s] # NoGrant
    /\ \A o \in DOMAIN orders : s \in orders[o].by => orders[o].closed
    /\ Holds(s, NoGrant, expired)

Expire(g) ==
    /\ Idle /\ g \in Perishable \ expired /\ expired' = expired \cup {g}
    /\ UNCHANGED <<region, policy, previous, highest, warrant, deployed, book, halt, pass>>

Wire ==
    /\ Idle /\ halt # "own" /\ halt' \in {"none", "wire"} \ {halt}
    /\ UNCHANGED <<region, authority, book, pass>>

(***************************************************************************)
(* Orders.                                                                 *)
(***************************************************************************)
Open == {o \in DOMAIN orders : ~orders[o].closed}
Untouched(os) == {o \in os : orders[o].at = 0}
Capital(os) == SumOver([o \in DOMAIN orders |-> orders[o].capital], os)
Resting(c) == {o \in DOMAIN orders : orders[o].rests /\ c \in orders[o].by}
IsSuspended(c) == suspended[c] # NotResting
HasOpenCapacity(n) == Cardinality(DOMAIN orders) + n <= Cardinality(Slots)
Fresh == Slots \ DOMAIN orders
Sent(by, capital, at) ==
    [by |-> by, capital |-> capital, at |-> at, filled |-> 0, closed |-> FALSE, rests |-> FALSE]
Beside(book1, book2) ==
    [o \in DOMAIN book1 \cup DOMAIN book2 |-> IF o \in DOMAIN book2 THEN book2[o] ELSE book1[o]]

\* confirm_execution_reports: what the venue has filled is booked.
Confirmed(book1) ==
    [o \in DOMAIN book1 |->
        [book1[o] EXCEPT !.filled = book1[o].at, !.closed = @ \/ book1[o].at = Whole]]

\* The venue, as the gateway is moved to the turn's instant.
Fill(o) ==
    /\ Idle /\ orders[o].at < Whole /\ ~orders[o].closed
    /\ orders' = [orders EXCEPT ![o].at = @ + 1]
    /\ UNCHANGED <<region, authority, suspended, spent, halt, pass>>

\* Mutant: judged on what the cell had confirmed before it withdrew.
UnfilledAsBooked(os) == {o \in os : orders[o].filled = 0}
\* return_region_capital_for_unfilled: nothing at the venue, nothing booked.
Unfilled(os) == Untouched(os)

\* Orders closed by the cell: the capital of those nothing filled returns.
Ended(os) ==
    [o \in DOMAIN orders |->
        IF o \in os
        THEN [orders[o] EXCEPT !.closed = TRUE, !.capital = IF o \in Unfilled(os) THEN 0 ELSE @]
        ELSE orders[o]]

\* The top of a turn gives each open order its fate.  One held for release may
\* come back without having reached the venue (late, a break); then what is
\* due is withdrawn - all that is open, once halted - unless the message
\* budget puts it off (stands) or the venue refuses (stuck, a break).  A cell
\* that is halted goes no further; an order put off is tried again inside the
\* pass, which a break there does not stop (deferred).
Trips(broken) == halt' = IF broken THEN "own" ELSE halt
Fates == {"stands", "late", "withdrawn", "stuck"}
StartPass(fate, deferred) ==
    LET Met(f) == {o \in Open : fate[o] = f}
        ended  == Met("late") \cup Met("withdrawn")
        returned == Returned(region, Capital(Unfilled(ended)))
        goesOn == halt = "none" /\ Met("late") = {} /\ (Met("stuck") = {} \/ deferred)
    IN  /\ Idle
        /\ Met("late") \subseteq Untouched(Open)
        /\ deferred => Met("stuck") # {}
        /\ \A o \in Met("withdrawn") : orders[o].at < Whole
        /\ orders' = Confirmed(Ended(ended))
        /\ Trips(Met("late") \cup Met("stuck") # {})
        /\ IF goesOn
           THEN region' = Swept(returned) /\ phase' = "asking" /\ asked' = {} /\ intents' = {}
           ELSE region' = returned /\ UNCHANGED pass
        /\ UNCHANGED <<authority, suspended, spent>>

(***************************************************************************)
(* The pass.                                                               *)
(***************************************************************************)
Goes(to) == phase' = to /\ asked' = {} /\ UNCHANGED intents
Stops == phase' = "abandoned" /\ asked' = {} /\ intents' = {}
Dealt(is) == intents' = intents \ is /\ UNCHANGED <<phase, asked>>

\* intent_for, up to its hold, and scan_cycles up to a cycle's.
Ask(i, cost) ==
    /\ phase = "asking" /\ \A j \in asked : j < i
    /\ i \in Strategies =>
         /\ deployed[i] \notin expired \cup {NoGrant} /\ cost <= Gross[deployed[i]]
    /\ MayReserve(region, i, cost)
    /\ region' = Reserved(region, i, cost)
    /\ asked' = asked \cup {i} /\ intents' = intents \cup {i}
    /\ UNCHANGED <<authority, book, halt, phase>>

\* The hold is let go of: its edge does not pay, its size does not fit the
\* venue, the message budget has no room for the cycle.
Withhold(i) ==
    /\ phase = "asking" /\ i \in intents
    /\ region' = Released(region, {i}) /\ Dealt({i})
    /\ UNCHANGED <<authority, book, halt>>

\* An error outside any order: the pass ends where it is, holds and all.
Abandon ==
    /\ phase = "asking" /\ Stops
    /\ UNCHANGED <<region, authority, book, halt>>

\* reconcile: the drop copy holds every fill of the venue, the cell those it
\* confirmed.  A clean comparison settles what is closed, save a leg whose
\* cycle waits for it.
Clean == \A o \in DOMAIN orders : orders[o].at = orders[o].filled
\* Mutant: a closed leg is retired while its cycle waits.
SettledAll(o) == o.closed
Settled(o) == o.closed /\ ~o.rests
Reconciled ==
    IF Clean
    THEN LET settled == {o \in DOMAIN orders : Settled(orders[o])}
         IN  /\ orders' = Restrict(orders, DOMAIN orders \ settled)
             /\ spent' = spent + Capital(settled)
             /\ UNCHANGED halt
    ELSE Trips(TRUE) /\ UNCHANGED <<orders, spent>>

\* No order is formed: a venue has not answered for itself since a restart.
FormNothing ==
    /\ phase = "asking" /\ asked = {} /\ Goes("between") /\ Reconciled
    /\ UNCHANGED <<region, authority, suspended>>

StartNetting ==
    /\ phase = "asking" /\ Goes("netting")
    /\ UNCHANGED <<region, authority, book, halt>>

\* Mutant: a refused net keeps the holds of all but one contributor.
RefusedKeepingRest(n) == Released(region, {CHOOSE i \in n : TRUE})
\* place_net refused or cancelled out: every contributor's hold is released.
Refused(n) == Released(region, n)

Nets(n) == phase = "netting" /\ n # {} /\ n \subseteq intents \cap Strategies

RefuseNet(n) ==
    /\ Nets(n) /\ Dealt(n) /\ region' = Refused(n)
    /\ UNCHANGED <<authority, book, halt>>

\* Refused by a fence or a risk gate: this net's holds go, the pass ends, and
\* the holds of the others stand.
FailNet(n) ==
    /\ Nets(n) /\ Stops /\ region' = Refused(n)
    /\ UNCHANGED <<authority, book, halt>>

PlaceNet(n, o, at) ==
    /\ Nets(n) /\ Dealt(n) /\ HasOpenCapacity(1)
    /\ region' = Committed(region, n)
    /\ orders' = Confirmed(Beside(orders, [k \in {o} |-> Sent(n, HeldBy(region, n), at)]))
    /\ UNCHANGED <<authority, suspended, spent, halt>>

EndNetting ==
    /\ phase = "netting" /\ intents \cap Strategies = {} /\ Goes("resuming")
    /\ UNCHANGED <<region, authority, book, halt>>

(***************************************************************************)
(* Cycles: two legs, sent together, or the slower one first and the other  *)
(* when that has filled.  A leg carries no capital; its cycle does.        *)
(***************************************************************************)
Legs(c, ats) == [k \in DOMAIN ats |-> Sent({c}, 0, ats[k])]
Answers(n) == UNION {[os -> 0..Whole] : os \in kSubset(n, Fresh)}
Woken(c) == [o \in DOMAIN orders |->
                IF o \in Resting(c) THEN [orders[o] EXCEPT !.rests = FALSE] ELSE orders[o]]
FilledAtRest(c) == \E o \in Resting(c) : orders[o].filled > 0

Resumes(c) ==
    /\ phase = "resuming" /\ IsSuspended(c)
    /\ \A o \in Resting(c) : orders[o].closed
    /\ suspended' = [suspended EXCEPT ![c] = NotResting]
    /\ UNCHANGED authority

AbandonCycle(c) ==
    /\ Resumes(c) /\ Resting(c) # {} /\ ~FilledAtRest(c)
    /\ region' = Returned(region, suspended[c].committed)
    /\ orders' = Woken(c)
    /\ UNCHANGED <<spent, halt, pass>>

CompleteCycle(c, ats) ==
    /\ Resumes(c) /\ FilledAtRest(c) /\ HasOpenCapacity(1)
    /\ orders' = Confirmed(Beside(Woken(c), Legs(c, ats)))
    /\ spent' = spent + suspended[c].committed
    /\ UNCHANGED <<region, halt, pass>>

\* break_cycle after the first leg rested and filled, or is nowhere to be
\* found: no room, a price past its time, a refused send, or an answer it
\* cannot use once the second is out.  A refused send is counted by the index
\* of the leg refused, so a cycle whose second leg rested breaks "after no
\* legs" and the cell is not halted.
BreakResumed(c, ats, refused) ==
    /\ Resumes(c)
    /\ FilledAtRest(c) \/ Resting(c) = {}
    /\ DOMAIN ats # {} => HasOpenCapacity(1) /\ ~refused
    /\ orders' = Confirmed(Beside(Woken(c), Legs(c, ats)))
    /\ spent' = spent + suspended[c].committed
    /\ Trips(~refused \/ suspended[c].position = 1)
    /\ Stops /\ UNCHANGED region

EndResuming ==
    /\ phase = "resuming" /\ Goes("cycling")
    /\ \A c \in Cycles : IsSuspended(c) => \E o \in Resting(c) : ~orders[o].closed
    /\ UNCHANGED <<region, authority, book, halt>>

RefuseCycle(c) ==
    /\ phase = "cycling" /\ c \in intents /\ Dealt({c})
    /\ IsSuspended(c) \/ ~HasOpenCapacity(2)
    /\ region' = Released(region, {c})
    /\ UNCHANGED <<authority, book, halt>>

Places(c) ==
    /\ phase = "cycling" /\ c \in intents /\ ~IsSuspended(c) /\ HasOpenCapacity(2)
    /\ UNCHANGED authority

PlaceWhole(c, ats) ==
    /\ Places(c) /\ Dealt({c})
    /\ orders' = Confirmed(Beside(orders, Legs(c, ats)))
    /\ region' = Committed(region, {c}) /\ spent' = spent + region.holds[c]
    /\ UNCHANGED <<suspended, halt>>

\* The leg's own answer is not read before the pass reconciles.
RestLeg(c, position, o, at) ==
    /\ Places(c) /\ Dealt({c})
    /\ orders' = Beside(orders, [k \in {o} |-> [Sent({c}, 0, at) EXCEPT !.rests = TRUE]])
    /\ region' = Committed(region, {c})
    /\ suspended' = [suspended EXCEPT ![c] =
                        [committed |-> region.holds[c], position |-> position]]
    /\ UNCHANGED <<spent, halt>>

\* After none, one or two legs; a second leg refused as the one to rest counts
\* as one.  The hold stands until a later pass sweeps it.
BreakCycle(c, ats, refusedToRest) ==
    /\ Places(c)
    /\ DOMAIN ats # {} => ~refusedToRest
    /\ orders' = Confirmed(Beside(orders, Legs(c, ats)))
    /\ Trips(DOMAIN ats # {} \/ refusedToRest)
    /\ Stops /\ UNCHANGED <<region, suspended, spent>>

EndPass ==
    /\ phase = "cycling" /\ intents = {} /\ Goes("between") /\ Reconciled
    /\ UNCHANGED <<region, authority, suspended>>

(***************************************************************************)
Init ==
    /\ region = Unfunded
    /\ policy = NoPolicy /\ previous = NoPolicy /\ highest = 0 /\ warrant = {}
    /\ deployed = [s \in Strategies |-> NoGrant] /\ expired = {}
    /\ orders = [o \in {} |-> {}] /\ suspended = [c \in Cycles |-> NotResting] /\ spent = 0
    /\ halt = "none"
    /\ phase = "between" /\ asked = {} /\ intents = {}

Mesh ==
    \/ \E n \in 1..MaxSequence, names \in Manifests \cup {Unproduced} : ApplyPolicy(n, names)
    \/ RollBackPolicy
    \/ \E g \in Grants : Renew(g) \/ Expire(g) \/ \E over \in SUBSET expired : Deploy(g, over)
    \/ \E s \in Strategies : Withdraw(s)
    \/ Wire

Confirms == \E fate \in [Open -> Fates], deferred \in BOOLEAN : StartPass(fate, deferred)

Decides ==
    \/ \E i \in Ids : Withhold(i) \/ \E cost \in Costs : Ask(i, cost)
    \/ Abandon \/ FormNothing \/ StartNetting
    \/ \E n \in SUBSET Strategies :
         RefuseNet(n) \/ FailNet(n) \/ \E o \in Fresh, at \in 0..Whole : PlaceNet(n, o, at)
    \/ EndNetting

Cycling ==
    \/ \E c \in Cycles :
         \/ AbandonCycle(c) \/ RefuseCycle(c)
         \/ \E o \in Fresh, k \in 1..2, at \in 0..Whole : RestLeg(c, k, o, at)
         \/ \E ats \in Answers(1) : CompleteCycle(c, ats)
         \/ \E ats \in Answers(2) : PlaceWhole(c, ats)
         \/ \E ats \in Answers(0) \cup Answers(1), refused \in BOOLEAN : BreakResumed(c, ats, refused)
         \/ \E ats \in UNION {Answers(n) : n \in 0..2}, refused \in BOOLEAN : BreakCycle(c, ats, refused)
    \/ EndResuming \/ EndPass

Turn == Confirms \/ Decides \/ Cycling
Next == Mesh \/ (\E o \in DOMAIN orders : Fill(o)) \/ Turn

Spec == Init /\ [][Next]_vars
(***************************************************************************)
(* Properties.                                                             *)
(***************************************************************************)
\* The ledger neither makes capital nor loses it: whatever is renamed,
\* withdrawn or swept, the cell never has more than its operator's ceiling.
WithinCeiling == region.free + SpokenFor(region) <= Ceiling

\* The share is never wider than the manifest it came with: not after a
\* rollback to a wider payload, nor for grants it does not name.
WithinWarrant == region.bound <= GrossOf(warrant)

\* Committed capital is what filled or may still fill: an order that ended
\* gives its capital back whole when the venue filled none of it, and keeps it
\* otherwise; nothing is returned twice or lost between the two books.
CapitalFollowsFills ==
    /\ region.committed =
         spent + Capital(DOMAIN orders) + SumOver([c \in Cycles |-> suspended[c].committed], Cycles)
    /\ \A o \in DOMAIN orders :
         orders[o].closed /\ orders[o].by \subseteq Strategies =>
            (orders[o].capital > 0 <=> orders[o].at > 0)

\* A pass that ran to its end has turned every hold it took into an order or
\* let it go, and returned what an earlier pass that ended in an error left
\* standing.
PassLeavesNoHold == phase = "between" => Held(region) = 0

\* The order a suspended cycle waits for is in the cell's book until the cycle
\* has been resumed, whatever ended it and whenever.
RestedLegIsKept == \A c \in Cycles : IsSuspended(c) => Resting(c) # {}

\* ADR 0039: a cell spends within the share it was last sent, so that cells
\* together never exceed their region's grant; what a pass holds fits the bound
\* beside everything already committed.
SpendsWithinTheShare ==
    phase = "asking" /\ Held(region) > 0 => SpokenFor(region) <= region.bound
=================================================================================
