---------------------------- MODULE LedgerEvents ---------------------------
(***************************************************************************)
(* What the ledger is asked to book: P1 records of the cells' journals and *)
(* non-fill operations, and the fold of one event into the balances.       *)
(* (apps/qip-ledgerd/src/store.rs, libs/qip-contracts/src/ledger.rs.)      *)
(*                                                                         *)
(* A record's digest stands for the hash of the whole history up to it: an *)
(* outcome chains onto a digest d iff it was sealed on d (prev = d).       *)
(***************************************************************************)
EXTENDS Integers, FiniteSets

CONSTANTS
    Cells,            \* edge cells, each with its own hash chain
    Partitions,       \* broker partitions of the P1 stream
    Accounts,         \* ledger accounts
    QuantityAccounts, \* those whose balance may not go below zero
    OpIds,            \* ids of non-fill ledger operations
    Lots,             \* tax lots an operation may open
    Digests,          \* digests of journal entries and of operations
    Genesis,          \* the digest a session's first entry is sealed on
    MaxSession,       \* bound: the highest session counter
    MaxSequence,      \* bound: the last representable sequence (u64::MAX)
    MaxBalance,       \* bound: the largest representable balance
    Records,          \* the P1 records cells may put on the stream
    Operations,       \* the operations that may be put on the stream
    NoRow, NoLot      \* no record at a position, no lot opened

Sessions == 0..MaxSession
Sequences == 0..MaxSequence

\* What a record carries: a continuity span, an outcome that is not a fill,
\* a simulated fill, a simulated fill that cannot be posted, a live fill.
Bodies == {"span", "note", "paper", "unpostable", "live"}

\* store.rs P1Record; OutcomeRecord has first = last and a sealed-on digest.
\* debit, credit and amount are the posting of a fill; copy tells two
\* encodings (two record hashes) of one journal entry apart.
RecordType ==
    [cell: Cells, session: Sessions, first: Sequences, last: Sequences,
     digest: Digests, prev: Digests, body: Bodies,
     debit: Accounts, credit: Accounts, amount: Nat, copy: Nat]

OperationType ==
    [op: OpIds, digest: Digests, lot: Lots \cup {NoLot},
     debit: Accounts, credit: Accounts, amount: Nat]

Items == Records \cup Operations

ASSUME BoundsAssumption ==
    /\ MaxSession \in Nat /\ MaxSequence \in Nat /\ MaxBalance \in Nat
ASSUME ItemsAssumption ==
    /\ Records \subseteq RecordType
    /\ Operations \subseteq OperationType
    /\ Records \cap Operations = {}
    /\ NoRow \notin Items /\ NoLot \notin Lots
    /\ Genesis \in Digests /\ QuantityAccounts \subseteq Accounts
----------------------------------------------------------------------------
(* LedgerStore::fold: the balances one event leaves, and whether the       *)
(* ledger refuses it (an overflow, or a quantity below zero).              *)

\* One account after the other: a fold that debits and credits one account
\* leaves it as it was.
Moved(bal, e) ==
    [[bal EXCEPT ![e.debit] = @ + e.amount] EXCEPT ![e.credit] = @ - e.amount]

\* Mutant: the floor under quantity-holding accounts left out.
FoldableWithoutFloor(bal, e) ==
    \A a \in {e.debit, e.credit} : Moved(bal, e)[a] \in -MaxBalance..MaxBalance

Foldable(bal, e) ==
    \A a \in {e.debit, e.credit} :
        /\ Moved(bal, e)[a] \in -MaxBalance..MaxBalance
        /\ a \in QuantityAccounts => Moved(bal, e)[a] >= 0

\* What an applied record does to the balances: only a paper fill posts.
AfterRecord(bal, r) == IF r.body = "paper" THEN Moved(bal, r) ELSE bal
=============================================================================
