------------------------------ MODULE PeerSaga ------------------------------
(***************************************************************************)
(* The peer mesh: each cell's session thread turns on its own, reads what  *)
(* its peers sent, and passes over the cycles it holds (Host::run,         *)
(* PeerSession::turn, Saga::step).  Frames are lost - the queues drop when *)
(* full, a peer that is away misses them, nothing is sent twice - or late, *)
(* and may overtake each other when a peer reconnects.  A cell may restart *)
(* with nothing, and every cell reads expiry off its own clock.            *)
(*                                                                         *)
(* One instrument and one book per cell, legs of one size.                 *)
(***************************************************************************)
EXTENDS PeerEndpoint

CONSTANTS
    Authorities, \* what a cell may authorise
    Spreads,     \* what a peer's touch may show of its spread
    Ttl,         \* EPOCH_TTL, in ticks
    MaxOpen,     \* MAX_OPEN_CYCLES
    Skew,        \* Skew[n]: how far n's clock runs ahead
    MaxTime,     \* bound: ticks; no epoch is opened that outlives them
    MaxFaults,   \* bound: frames lost and restarts
    NoEpoch      \* an id not used yet

VARIABLES
    now,    \* real time
    epoch,  \* epoch[o]: what o's token says
    view,   \* view[n][o]: n's endpoint and saga on o
    saga,   \* saga[n]: the rest of n's saga
    net,    \* frames on the wire
    cycle,  \* cycle[o]: what happened of o (PeerContract)
    faults

vars == <<now, epoch, view, saga, net, cycle, faults>>

EpochType == [expires: Nat, bound: [Nodes -> Nat]]

ASSUME AuthoritiesAssumption ==
    Authorities \subseteq AuthorityType /\ Spreads \subseteq Nat
ASSUME TimesAssumption ==
    /\ Ttl \in Nat \ {0} /\ MaxOpen \in Nat /\ MaxTime \in Nat /\ MaxFaults \in Nat
    /\ Skew \in [Nodes -> Nat] /\ NoEpoch \notin EpochType

\* originated and lapsed are what the status cells count, by id.
SagaType ==
    [open: SUBSET Opps, fired: SUBSET Opps, book: SUBSET Opps,
     originated: SUBSET Opps, lapsed: SUBSET Opps]
FreshSaga == [open |-> {}, fired |-> {}, book |-> {}, originated |-> {}, lapsed |-> {}]

Init ==
    /\ now = 0
    /\ epoch = [o \in Opps |-> NoEpoch]
    /\ view = [n \in Nodes |-> [o \in Opps |-> NoView]]
    /\ saga = [n \in Nodes |-> FreshSaga]
    /\ net = {}
    /\ cycle = [o \in Opps |-> NoCycle]
    /\ faults = 0

Clock(n) == now + Skew[n]
Expired(n, o) == Clock(n) >= epoch[o].expires
Holds(n, o) == view[n][o] # NoView
----------------------------------------------------------------------------
Tick == now < MaxTime /\ now' = now + 1 /\ UNCHANGED <<epoch, view, saga, net, cycle, faults>>

\* clock_in_bound_for: the other leg's node is one whose clock n has measured.
Measured(n, o, clocked) == Other(o, n) \in clocked

\* A frame is judged at its arrival; a token opens a view, anything else
\* needs one.  A refused frame changes nothing and is not sent again.
Accepts(n, f, clocked) ==
    /\ ~Expired(n, f.opp)
    /\ IF f.type = "token" THEN Measured(n, f.opp, clocked) /\ ~Holds(n, f.opp)
       ELSE Holds(n, f.opp) /\ Admits(view[n][f.opp], f, epoch[f.opp].bound)

Arrive(f, clocked) ==
    /\ net' = net \ {f}
    /\ view' = IF ~Accepts(f.to, f, clocked) THEN view
               ELSE [view EXCEPT ![f.to][f.opp] =
                        IF f.type = "token" THEN FreshView ELSE Applied(@, f)]
    /\ UNCHANGED <<now, epoch, saga, cycle, faults>>

Lose(f) ==
    /\ faults < MaxFaults
    /\ net' = net \ {f} /\ faults' = faults + 1
    /\ UNCHANGED <<now, epoch, view, saga, cycle>>

Restart(n) ==
    /\ faults < MaxFaults
    /\ view' = [view EXCEPT ![n] = [o \in Opps |-> NoView]]
    /\ saga' = [saga EXCEPT ![n] = FreshSaga]
    /\ faults' = faults + 1
    /\ UNCHANGED <<now, epoch, net, cycle>>
----------------------------------------------------------------------------
(* One turn of n's session.  Its inputs i: the cell's newest authority, the*)
(* peers whose clocks are measured and in bound, the crossings found and   *)
(* the spread their peers show, the cycles whose limit is no worse than    *)
(* the cell's touch, and the reservations the book takes.                  *)

\* Mutant: a cycle that fired is kept until its fills are known.
RememberedOrFired(n) ==
    {o \in Opps : Holds(n, o) /\ (~Expired(n, o) \/ (view[n][o].fired /\ ~view[n][o].closed))}
\* PeerEndpoint::forget_expired.
Remembered(n) == {o \in Opps : Holds(n, o) /\ ~Expired(n, o)}

\* Mutant: the fired cycles are forgotten before the open ones are counted.
LapsedAfterFired(n) == saga[n].open \ Remembered(n)
\* Cycles this node opened that the endpoint let go of without FIRE.
Lapsed(n) == (saga[n].open \ Remembered(n)) \ saga[n].fired

\* Mutant: a grant cut to nothing cancels the holds.
HeldWhileGranted(n, i) ==
    IF i.authority = NoAuthority THEN {} ELSE {o \in saga[n].book : ~Expired(n, o)}
\* ReservationBook::expire; set_grant cancels nothing.
HeldOver(n, i) == {o \in saga[n].book : ~Expired(n, o)}

\* Saga::originate: one open cycle with each peer, on what the touch shows.
StillOpen(n) == saga[n].open \cap Remembered(n)
MayOpen(n, i) ==
    i.opening # {} =>
        /\ i.authority # NoAuthority
        /\ i.authority.max >= Size /\ i.authority.touch >= Size
        /\ Cardinality(StillOpen(n) \cup i.opening) <= MaxOpen
        /\ \A o \in i.opening :
             /\ Coordinator[o] = n /\ Measured(n, o, i.clocked)
             /\ epoch[o] = NoEpoch /\ Clock(n) + Ttl <= MaxTime
             /\ \A p \in (StillOpen(n) \cup i.opening) \ {o} :
                  Counterparty[p] # Counterparty[o]

Opened(n, i, o) ==
    [expires |-> Clock(n) + Ttl,
     bound |-> [m \in Nodes |-> IF m = n THEN i.authority.spread
                                ELSE IF m = Counterparty[o] THEN i.spread ELSE 0]]
EpochsAfter(n, i) ==
    [o \in Opps |-> IF o \in i.opening THEN Opened(n, i, o) ELSE epoch[o]]

\* The cycles and views Saga::reserve starts from.
Working(n, i) == Remembered(n) \cup i.opening
Before(n, i, o) == IF o \in i.opening THEN FreshView ELSE view[n][o]

\* Saga::gate judges a leg priced worse than the touch as one not authorised.
AuthorityFor(i, o) == IF o \in i.priced THEN i.authority ELSE NoAuthority
Unit(n, i, o) == EpochsAfter(n, i)[o].bound[n]
PassesGate(n, i) ==
    {o \in Working(n, i) :
        /\ Wants(Before(n, i, o)) /\ Measured(n, o, i.clocked)
        /\ Gate(AuthorityFor(i, o), Unit(n, i, o))}

\* Mutant: each reservation is held against the grant alone.
TakesEach(n, i) == i.taken = {o \in PassesGate(n, i) : Size <= i.authority.max}
\* ReservationBook::reserve, cycle by cycle while the grant lasts.
Takes(n, i) ==
    LET room(taken) ==
          (Cardinality(HeldOver(n, i)) + Cardinality(taken)) * Size <= i.authority.max
    IN  /\ i.taken \subseteq PassesGate(n, i)
        /\ i.taken # {} => room(i.taken)
        /\ \A o \in PassesGate(n, i) \ i.taken : ~room(i.taken \cup {o})

After(n, i, o) ==
    Stepped(n, o, Before(n, i, o), AuthorityFor(i, o), Unit(n, i, o),
            o \in i.taken, Measured(n, o, i.clocked))

When(p, f) == IF p THEN {f} ELSE {}

\* What n tells the other leg's node of o, from what changed in its view.
Told(n, o, v, w, opens) ==
    When(opens, Frame("token", o, n, 0)) \cup
    When(n \in w.held \ v.held, Frame("reserved", o, n, 0)) \cup
    When(n \in w.declined \ v.declined, Frame("declined", o, n, 0)) \cup
    When(w.fired /\ ~v.fired, Frame("fire", o, n, 0)) \cup
    When(w.filled[n] # v.filled[n], Frame("fill", o, n, w.filled[n])) \cup
    When(w.unwound[n] # v.unwound[n], Frame("unwind", o, n, w.unwound[n]))

\* The same as history; a leg sent in this turn fills what a allows.
Happened(n, o, c, v, w, a) ==
    [c EXCEPT !.promised = @ \cup ((w.held \ v.held) \cap {n}),
              !.refused = @ \cup ((w.declined \ v.declined) \cap {n}),
              !.declared = @ \/ (w.fired /\ ~v.fired),
              !.trade[n] = IF w.sent /\ ~v.sent THEN Fill(a) ELSE @,
              !.recovered[n] = IF w.unwound[n] # v.unwound[n] THEN Excess(n, o, w) ELSE @]

Fires(n, i) == {o \in Working(n, i) : After(n, i, o).fired /\ ~Before(n, i, o).fired}

Turn(n, i) ==
    /\ MayOpen(n, i) /\ Takes(n, i)
    /\ epoch' = EpochsAfter(n, i)
    /\ view' = [view EXCEPT ![n] =
            [o \in Opps |-> IF o \in Working(n, i) THEN After(n, i, o) ELSE NoView]]
    /\ saga' = [saga EXCEPT ![n] =
            [open |-> StillOpen(n) \cup i.opening,
             fired |-> (@.fired \cap Remembered(n)) \cup Fires(n, i),
             book |-> {o \in HeldOver(n, i) \cup i.taken :
                          o \in Working(n, i) => ~After(n, i, o).sent},
             originated |-> @.originated \cup i.opening,
             lapsed |-> @.lapsed \cup Lapsed(n)]]
    /\ net' = net \cup
            UNION {Told(n, o, Before(n, i, o), After(n, i, o), o \in i.opening)
                     : o \in Working(n, i)}
    /\ cycle' = [o \in Opps |->
            IF o \in Working(n, i)
            THEN Happened(n, o, cycle[o], Before(n, i, o), After(n, i, o), AuthorityFor(i, o))
            ELSE cycle[o]]
    /\ UNCHANGED <<now, faults>>

Unused(n) == {o \in Opps : Coordinator[o] = n /\ epoch[o] = NoEpoch}
Turns(n) ==
    \E a \in Authorities \cup {NoAuthority}, clocked \in SUBSET (Nodes \ {n}),
       spread \in Spreads, opening \in SUBSET Unused(n) :
        \E priced \in SUBSET (Remembered(n) \cup opening) :
            \E taken \in SUBSET priced :
                /\ opening \subseteq priced
                /\ Turn(n, [authority |-> a, clocked |-> clocked, spread |-> spread,
                            opening |-> opening, priced |-> priced, taken |-> taken])

Next ==
    \/ Tick
    \/ \E f \in net : Lose(f) \/ \E clocked \in SUBSET {f.from} : Arrive(f, clocked)
    \/ \E n \in Nodes : Restart(n) \/ Turns(n)

Spec == Init /\ [][Next]_vars

\* Time passes, and a session that keeps a cycle past its expiry turns again;
\* no frame need arrive.
Overdue(n) == \E o \in Opps : Holds(n, o) /\ Expired(n, o)
FairSpec == Spec /\ WF_vars(Tick) /\ \A n \in Nodes : WF_vars(Overdue(n) /\ Turns(n))
----------------------------------------------------------------------------
TypeOK ==
    /\ now \in 0..MaxTime /\ faults \in 0..MaxFaults
    /\ epoch \in [Opps -> EpochType \cup {NoEpoch}]
    /\ view \in [Nodes -> [Opps -> ViewType \cup {NoView}]]
    /\ saga \in [Nodes -> SagaType]
    /\ net \subseteq FrameType
    /\ cycle \in [Opps -> CycleType]

\* The mesh keeps the promises of PeerContract whatever is lost, delayed,
\* restarted or expired: no leg trades before FIRE, no FIRE without both
\* promises, and nothing is given back but the true excess over the other leg.
Contract == INSTANCE PeerContract
ImplementsContract == Contract!ContractSpec

\* What n keeps of its fill once it has given back the excess.
Kept(n, o) ==
    (IF Traded(cycle[o], n) THEN cycle[o].trade[n] ELSE 0) - cycle[o].recovered[n]

\* A node that has closed a cycle keeps exactly the lesser of the two fills:
\* the unwind is never refused as over the loss declared before FIRE, however
\* the spread moved between pricing, reservation and execution (Saga::unwind).
ClosedLeavesTheLeast ==
    \A n \in Nodes, o \in Opps : Holds(n, o) /\ view[n][o].closed =>
        /\ \A m \in Legs(o) : Traded(cycle[o], m) /\ Kept(n, o) <= cycle[o].trade[m]
        /\ \E m \in Legs(o) : Kept(n, o) = cycle[o].trade[m]

\* A node that knows its cycle fired has either sent its leg or still holds
\* the size for it: no expiry, narrower authority or other cycle takes a
\* committed leg's hold (ReservationBook, Saga::authorise).
FiredLegIsHeld ==
    \A n \in Nodes, o \in Opps :
        Holds(n, o) /\ view[n][o].fired /\ ~view[n][o].sent => o \in saga[n].book

\* All a cell holds at once fits inside one authority (ReservationBook).
BookWithinGrant ==
    \A n \in Nodes : saga[n].book # {} =>
        \E a \in Authorities : Cardinality(saga[n].book) * Size <= a.max

\* Each cycle a cell opened is open, counted as lapsed, or fired, and one
\* counted as lapsed never traded anywhere (Saga::forget_gone).
CyclesAccountedFor ==
    \A n \in Nodes :
        /\ saga[n].open \cap saga[n].lapsed = {}
        /\ saga[n].open \cup saga[n].lapsed \subseteq saga[n].originated
        /\ \A o \in saga[n].originated :
             o \in saga[n].lapsed \/ o \in saga[n].open \/ cycle[o].declared
        /\ \A o \in saga[n].lapsed, m \in Nodes : ~Traded(cycle[o], m)

\* Whatever is lost, no cell waits for ever: every view, open cycle and hold
\* is let go of (PeerEndpoint::forget_expired, ReservationBook::expire).
NothingLingers ==
    \A n \in Nodes, o \in Opps :
        Holds(n, o) ~> ~Holds(n, o) /\ o \notin saga[n].open \cup saga[n].book

\* "A leg vetoed after FIRE is a failed leg for recovery" (libs/qip-peer/src/
\* lib.rs): once both nodes have let go of a cycle they keep equal fills.
NoLegIsStranded ==
    \A o \in Opps :
        (\A n \in Legs(o) : ~Holds(n, o)) => Kept(Coordinator[o], o) = Kept(Counterparty[o], o)
=============================================================================
