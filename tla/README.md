# A TLA+ model of akash-lease-core

`akash-lease-core` is a Python library of pure decision functions for services that
lease compute on the Akash chain. It performs no I/O: every function takes the state and
the evidence it decides on as arguments and returns the next state, a proposal or a
verdict. The concurrency is around it. Several workers call these functions on copies of
a persisted state, a broker or store accepts results by compare-and-swap, processes crash
and come back, and evidence about the chain arrives late, twice, out of order or for
something else. The docstrings and `src/README.md` state what the library guarantees to
such callers. This project models the functions together with those callers, checks the
guarantees with TLC and proves part of them with TLAPS.

Paths below are relative to `src/src/akash_lease_core/` unless they begin with `src/`.

## 1. The system

### 1.1 Components, their state and their operations

| Component | State | Operations | Hard behaviour |
|---|---|---|---|
| Creation admission (`creation_admission.py`) | `AdmissionState`: revision, budgets per scope with limits and census, one reservation per operation | `reserve_capacity`, `confirm_persisted_reservation`, `redeem_create_permit`, `confirm_redeemed_permit`, `transition_reservation` | racing workers on one revision, permits that age, policies and censuses that are replaced, crashes between a swap and its use, evidence out of order |
| Create journal (`create_journal.py`) | a sequence of `JournalEntry`, one payload type per state of an operation | `CreateJournal.append` (also as `append_transition`), which validates the whole history; `decode_create_journal` of the recovery codec | writers with copies of different age, evidence about other transactions or deployments, restart and revalidation |
| Operation exposure (`operation_exposure.py`) | `FinancialOperationState`: one lifetime maximum, a sequence of effects, each an intent with observations | `propose_operation_maximum`, `propose_financial_effect`, `propose_financial_observation` | racing services, one-shot authority to sign and to send, revocation epochs, debits known late |
| Auction (`auction.py`) | bids by key with first arrival, profiles by group | `observe`, `observe_many`, `snapshot`, `restore`, `evaluate` | repeated polls, profiles that come after bids, crash resume, two deadlines, several orders in a round |
| Leaked-order sweep (`orders.py`) | none in the library; the sweeper's progress is the caller's | `evaluate_order`, `select_batch`, `confirm_close`, `page_is_last` | what was read changes before it is acted on, instruments that lie or fail, batch caps |
| Recovery and financial codecs (`recovery_codec.py`, `financial_codec.py`) | none | encoding and decoding with full revalidation | restart |
| Close policy (`close_policy.py`) | none; single-use close authorizations and the registry of used ones are the caller's | `evaluate_close` over one record of claims and readings, with its stages for population, candidate, producer, chain and authority | readings of different ages, about different things, missing or mistaken; two closers with one authorization; a gate that an admin can pass |
| Workload identity (`workload_identity.py`) | none | `parse_identity`, `format_identity`, `classify_groups`, naming of an SDL's groups | names that say more than is true |
| Capacity (`capacity.py`) | none | `from_provider_status`, `from_totals`, `fit` with its exact placement search, `available_fraction_for` | a depth-first search with a limit of states; nodes that cannot be read; totals and nodes of different moments |
| Funding runway and wallets (`funding.py`, `wallets.py`), qualification (`qualification.py`), lease recovery (`lease_recovery.py`) | none | pure classification and arithmetic | boundaries |
| Chain identity, frame codec, URL builders | none | parsing and formatting | none that needs a model |
| `src/tools/` | files | builds and verifies release bundles | none that needs a model |

### 1.2 How they interact

There are no calls between the stateful components; their callers connect them.
Admission decides whether an operation may create a deployment at all, and its receipt
is the authority to send. The journal records what became of that create and is the
evidence admission's transitions are made of: a commit, a proven non-commit, a closure,
a settlement. Operation exposure bounds what the operation may spend; its create effect
must be confirmed before deposits are signed. An auction chooses the bid that the
created deployment leases, and asks capacity which providers the workload fits and how
free they are. The sweep closes deployments that were created and never leased. Every
other retirement is the close policy's to allow: it reads the identity that the names of
a deployment's groups carry, takes the journal's attribution of the deployment to an
operation, and adds what chain, producer and authority say. A failed handoff recorded in
the journal is what permits a creator's rollback. `CreateOutcome` and the close evidence are types that both the journal and
admission refer to.

### 1.3 What makes each of them correct

* **Admission.** A create is sent at most once and by its one holder of authority. No
  interleaving takes a scope, owner or leaf, over a ceiling. Capacity is not released
  before the chain frees it, and once released it is never taken again. Every reservation
  rests on evidence that names its own create and proves the state it is in.
* **Journal.** Append-only under races; operations and deployments are bound one to one;
  an operation declared safe to retry elsewhere has no deployment; evidence is about the
  recorded submission and the bound deployment.
* **Operation exposure.** What has been, or may still be, debited stays within the
  maximum; nothing is signed or sent twice, crashes included; a revoked epoch gives nobody
  new authority once what was observed of it has run out.
* **Auction.** Arrival times survive polls and restarts; the order of observation does
  not matter; decisions follow arrival and preference; orders of one round spread; every
  auction ends.
* **Sweep.** No workload is closed, whoever leases in between; no listed deployment is
  skipped; leaked orders are closed in the end.
* **Close policy.** What is allowed was due when its evidence was read, is put down to
  the producer and operation whose it is, uses a production authorization once, and was
  released by a human approver. Leaving evidence out turns a refusal into a permit for a
  creator's rollback only: the code holds it on a bad view of the chain or a bad
  attestation and allows it without (`close_policy.py:1472`, `:1680`), and then only for
  the operation that created the deployment and whose handoff failed.
* **Capacity.** A fit can be placed, an insufficiency is proven, a ranking is by the share
  that is really free, and the search ends.

`PROJECT.json` lists under "hazards" each place in the code where one of these could
fail, and the properties that would show it.

## 2. Modules

Pure functions are in modules without variables. A system module runs them in an
environment. An abstract module states the promise alone. An MC module gives TLC an
instance. A proof module holds theorems.

| Pure functions | System | Abstract | Instance | Proofs |
|---|---|---|---|---|
| `CreationAdmission` | `AdmissionBroker` | `ContainmentLedger` | `MCAdmissionBroker` | `AdmissionBrokerProofs` |
| `CreateJournal` | `JournalStore` | `BindingRegistry` | `MCJournalStore` | `JournalStoreProofs` |
| `Liabilities`, `OperationExposure` | `FundingActors` | `SpendingEscrow` | `MCFundingActors` | `FundingActorsProofs` |
| `Auction` | `Auctioneer` | | `MCAuctioneer` | `AuctioneerProofs` |
| (in the system module) | `OrderSweep` | | `MCOrderSweep` | `OrderSweepProofs` |
| `WorkloadIdentity`, `ClosePolicy` | `CloseActors` | | `MCCloseActors` | `CloseActorsProofs` |
| `Capacity` | `PlacementSearch` | | `MCPlacementSearch` | `PlacementSearchProofs` |

`Induction` has the facts about finite sets, numbers and sums that several proofs need.

Conventions that hold throughout:

* **Digests are the values they are digests of.** The code compares SHA-256 digests of
  canonical encodings; the model compares the values. A "previous state digest" is a
  comparison with the previous state.
* **An optional value is a set**, empty for `None`, where an operation needs to tell.
* **Exceptions and refusals** are disabled actions when nothing is changed by them.
* **Audiences, key identities and versions** that are constant in a deployment are left
  out; a subject, a broker, a principal and a backend that can differ are kept.
* **Validity windows** are kept where two of them can disagree, with the comparison
  (strict or not) of the code.
* Operators named in a comment `Mutant:` are deviations that the properties must detect.
  No specification uses them.

### 2.1 Admission

`db` is the persisted `AdmissionState`. `job[w]` is what worker `w` holds in memory: a
proposal (`reserve`, `redeem`, `transition`), a receipt (`reserved`, `redeemed`) or the
authority to send (`authorized`). Each public function is split where the caller must
persist in between: `Reserve` is `reserve_capacity` on a snapshot,
`PersistReservation` the broker's swap, `ConfirmReservation` is
`confirm_persisted_reservation` and issues the permit. `Redeem`, `PersistRedemption` and
`ConfirmRedemption` do the same for permits. `Transition` and `PersistTransition` are
`transition_reservation` with its swap. `expected` is the present
revision or an older one that the worker may have seen. `GiveUp` is a worker whose swap
lost or whose receipt is refused; `Crash` forgets `job[w]`.

The environment is what the code leaves to others, and is marked external in the map:
`Submit` and `RejectBeforeSend`, the chain (`CreateDecided`, `DeploymentEnds`),
`InstallBudget` (the broker replaces limits and census, with a census that may lag
behind), `Revoke` and `Tick`. Evidence is truthful about the chain and available for
ever, so it can come late, twice and in any order. Truth is about the create that it
names: an outcome of another prepared create, of which nothing is assumed, and a closure
or settlement of another operation's deployment may be presented as well. `BackendOf` and
`GroupsOf` are what an outcome shows of the create it is about, and `Reservation` is what
the constructor of `CapacityReservation` accepts. An abandoned authority (its holder crashed) is eventually decided
by the chain as "never committed".

`ContainmentLedger` is the promise: an atomic ledger without revisions, permits or
workers, where `Admit` requires room in every scope, `Send` happens once while an
attempt is held, and holdings shrink in one direction. `AdmissionBroker` maps a
reservation's state to what it holds (`HoldingOf`) and a budget to a quota (`Quota`).

### 2.2 Create journal

`stored` is the durable journal, `copy[w]` what a writer decoded and the length it was
loaded with. `AppendTransition` is `append_transition` with all checks of the payload's
kind; `Persist` is the store's compare-and-swap; `Forget` is a crash or a lost swap.
`Load` succeeds only if the whole history validates, as `decode_create_journal` demands,
and fits the decoder's limits of size and nodes, which are a number of entries here
(`DecoderLimit`). `append` never asks that, so a store may outgrow its decoder.
The evidence on offer is a constant, so every payload is available at every step, also
when it is about something else.

`BindingRegistry` is the promise: each operation is absent, open, void, bound, closed or
settled, and bindings are one to one.

### 2.3 Operation exposure

`db` is empty or the one committed `FinancialOperationState`. A worker loads it
(`Load`), is acknowledged with its view of the principal (`Acknowledge`), proposes
(`ProposeEffect`, `ProposeObservation`), has the broker swap (`Persist`), and only then
may use the one authority that the swap gave it (`Sign`, `Send`). `wire` is what really
became of each transaction and `uses` counts signatures and broadcasts. Amounts are
vectors over denominations (`Liabilities`). `Revoke` and `Reinstate` move a principal to
a new epoch. Observations may be presented for any retained effect, with earlier times.

`SpendingEscrow` is the promise: one ceiling, what is held for each effect and why, and
each effect's transaction. `Reserve` holds the most that the effect may debit, if that
fits and, but for the create, if the create of its subject is confirmed. `Sign` and
`Send` happen once, on what is held. `Settle` keeps the charge that the chain made, under
the outcome it gave; `Void` gives everything back, of a transaction that is unsigned and
stays so. There are no proposals, swaps, grants, times, principals or crashes.
`FundingActors` maps the ceiling to the committed maximum, each plan's charge to the
state and charged debit of its retained record (`ChargeOf`), and transactions to `wire`.
A swap that records SIGNED or a broadcast claim, and every step in a worker's memory,
leaves the escrow as it is.

### 2.4 Auction

`Auction` holds `observe`, `snapshot`, `restore` and `evaluate` as functions on a record
of policy, start, bids in order of arrival and profiles by group. How a capacity fits a
profile (`FitOf`) and which free fraction it proves (`ScoreOf`) are parameters: they are
`capacity.py`'s. In `Auctioneer` an adapter polls (`Poll` is one observation, so that
any prefix of a poll can be recorded), saves, crashes, restores from the snapshot that
the lookup hands back, possibly another order's, and decides. `first` remembers when a
bid was really sighted first; it is a history variable that the adapter cannot read.
Every auction starts at 0 of its own clock, as `snapshot` demands, with `anchor` as the
wall-clock time beside the snapshot. Left out: the JSON codecs and field-set checks of a
snapshot, `required_proofs` (reported, never decisive) and the reasons of rejected bids.

### 2.5 Sweep

`fate` is what is true of each deployment, `Readings(d)` everything an instrument may
show: fields missing, unknown group states, and a Console list whose lease count may be
anything. A sweep pages (`FetchPage`), classifies (`Inspect`), selects, reads again
(`Confirm`), and closes (`Close`), each in a step of its own, while tenants and
providers act. Orders can be leased during one bid window after they open.
`parse_escrow_open`, the parsing of one nested value, is not modelled.

### 2.6 Workload identity and close policy

`WorkloadIdentity` has names as the fields they encode. `WellFormed` is what
`format_identity` demands and `parse_identity` accepts, `ClassifyGroups` what a population
of groups says together, and `NamedGroups` the names that an SDL's groups are given.

`ClosePolicy` is `evaluate_close`: a query is a record of subject, intent, population,
candidates, chain, producer and authority, and each stage of the code is an operator that
answers with the code's reason or `Passed`. `Else` is "the first reason that applies", so
the order of the stages is the code's. `Allows` is the disposition ALLOW; `HoldReasons`
and `DenyReasons` tell the other two apart.

In `CloseActors` a closer gathers a query in the order in which it can be known:
`Attribute` (names and journal), `Witness` (chain and producer), `ReadAuthority` or
`ReadProduction`, and `Decide`. Between the steps `fact` moves on: CI attempts end and get
new consumers, releases are retired and kept after all, handoffs fail and succeed on
retry, deployments close (`Turn`); gates are opened by an approver or past it
(`OpenGate`). Every good reading is true when it is made and carries the interval it is
good for. Each reader also offers bad ones: about another deployment or attempt,
incomplete, unknown, absent, or an unfinalized or disputed view of the chain that is
wrong. `claimed` is the registry of used authorizations, which notes one when it is first
asked about it. What is external to the code (sources, registry, gates) is marked so in
the map.

### 2.7 Capacity and placement

`Capacity` turns a status report or totals into a snapshot (`FromProviderStatus`,
`FromTotals`), finds contradictions between totals and nodes, decides what needs no search
(`FitBeforePlacement`, `FitAfterPlacement`) and computes the fraction by which a provider
is ranked (`AvailableFractionFor`). `PlacementSearch` runs the search for a distribution
of the replicas with one action per iteration of its loop: `pending` is the stack, `seen`
the states that were met, and `StateLimit` the limit after which the answer is
UNSUPPORTED; `rounds` counts the iterations and decides nothing. Sorting in descending
order, equal entries as they come, is `Ranked`; the loops that keep some of their entries
are `Chosen`. `MaxExact` is the first amount that a float cannot tell from its neighbours
(2^53): `ExactTotals`, `ExactNodes` and `Contradicts` are what the code does about one.
`Done` is all that can happen after a verdict. The provider has real free amounts; its snapshot may lack cells, contain
impossible ones, or have totals of another moment. Exact fractions are compared by cross
multiplication.

## 3. What is checked

Every property has a mutant in `PROJECT.json`: a deviation of one mapped definition
under which the same run reports the property violated.

| Run | Question | Bounds |
|---|---|---|
| `admission_static` | Races under fixed budgets: `ReservationsProven`, `SubmittedOnce`, `AuthorityExclusive`, `ChainCovered`, `CeilingsHold` | 2 workers, 2 operations of two leaves under one owner with room for one unresolved create, 3 requests (one conflicting), times 1..2, one crash |
| `admission_dynamic` | The same while budgets, policies and censuses change and permits are revoked: `RevisionIdentifiesState`, `AdmittedWithinCeilings`, `ReleaseIsFinal`, `SubmissionUnderPermit`, `ImplementsLedger` | as above, time 1, budgets installed up to revision 3, three replacements |
| `admission_liveness` | Progress with a crash: `SubmissionResolved`, `SettlementReleases` | room for one active deployment |
| `admission_replay` | What `src/README.md` says of replays: violated, see section 5 | as `admission_dynamic` |
| `journal` | Two writers with copies of different age: `BindingOneToOne`, `FallbackExcludesDeployment`, `EvidenceOfOwnSubmission`, `LaterEvidenceAboutBound`, `ImplementsRegistry` | 2 operations, 2 deployments, 6 entries, one entry time, a decoder that takes 5 of them, evidence about either operation, deployment, transaction and backend |
| `funding_race` | Two processes: `SpendWithinMaximum`, `UsedOnce`, `ImplementsEscrow` | a maximum that covers the create and one deposit, a second deposit that fits only in what is freed; one crash |
| `funding_life` | Two processes over time: `FundsConfirmedCreate`, `RevokedGainsNothing` | times 1..2, observations good for their own second, one revocation and reinstatement, five plans, among them a rival create, a deposit for another deployment and one ahead of the create |
| `auction_bids` | One order: `ObservationsCommute`, `RestoreExact`, `AuctionEnds` | 3 bids, 2 profiles that may conflict, a window and a fallback of one unit each, time to 3, one crash |
| `auction_orders` | A round of two: `ArrivalKept`, `DecisionsByArrival`, `OrdersSpread` | an EMPTIEST and a CHEAPEST order, two providers, two currencies, time to 3, one crash |
| `sweep` | `NeverClosesWorkload`, `ScanComplete`, `LeaksReclaimed` | 3 deployments of which any 2 are listed, one protected, pages and batches of one, time to 2, one crash |
| `close` | Closers whose evidence ages: `AllowedWhenDue`, `AllowedForProducer`, `AuthorizationUsedOnce`, `ReleasedByApprover`, `OmissionExcused` | nine plans (cleanup after either attempt or of a deployment that closes, two kinds of copied names, rollback, staging retirement, a mismatched intent, production gates, two closers on one production deployment), one or two bad readings for each query, evidence good for one unit |
| `placement` | `FitIsPlaceable`, `InsufficientIsProven`, `RankedByBindingShare`, `RoundsBounded` | providers of two nodes with up to three units of two dimensions or more of one than can be added exactly, six groups of up to four replicas, six patterns of unreadable or impossible cells, totals off by one either way, a limit of five states |

### 3.1 Why the bounds are enough

The races are between two actors that hold results of one snapshot; a third adds no kind
of conflict, because a swap compares with the last stored state only. Two operations
under one owner are the least that can overrun a shared ceiling, and the ceilings are
chosen so that each fits and both do not. One crash can hit every step; it is bounded
because forgetting twice leaves nothing new. Times distinguish "before", "at" and
"after" a limit. Six journal entries let both operations be prepared, submitted and
bound, or one of them be settled next to the other's start; the theorems of the journal
cover longer histories and entries of different times. The second deposit of the funding
plans makes freed amounts matter. An auction's three units of time put bids in the
window, at its end, in the fallback period and after it. Pages and batches of one are the
hardest case of the cap and give a full last page followed by an empty one. A closer's
evidence is good for one unit of time and plans end at three, so that it can expire
between any two of its steps. Two bad readings are enough for two checks that would each
hide the other's absence. The placement groups include ones that fit in one order of
replicas and nodes only, and four replicas on two nodes meet the limit of states. The
theorems of section 4 do not depend on these bounds.

An amount of `MaxExact` on one node makes the totals, the node or both inexact.

Constants that bound counters are `MaxTime`, `MaxCrashes`, `MaxRevision`, `MaxEntries`,
`MaxEpoch`, `MaxListed` and `MaxTries`; each is a guard of the action that counts.
Deadlock is not checked where bounded clocks and finite work let the system stop, nor for
the journal, which stops for good when it is longer than its decoder takes and no writer
holds a copy (the storage adapter is to shard it before). The placement run stops with a
verdict only. It has no fairness and no liveness property: with a bound on
the rounds and no deadlock every search ends.

Symmetry of workers and writers is used in safety runs only: all of them have the same
subject and nothing orders them.

### 3.2 Fairness

* `AdmissionBroker.Fairness`: the broker answers a pending swap and confirms a receipt;
  a worker that does not crash sends or reports a rejection, and starts over after a
  lost swap; the chain decides what was sent, or what nobody can send any more; and some
  worker keeps bringing evidence that settles something (`Evidence`). This is what
  `src/README.md` asks of callers (reconcile until an outcome is known). Nothing is
  assumed of crashes, clocks, budgets or new requests. Weak fairness suffices: evidence,
  once true, stays true, and another worker's swap delays it a bounded number of times.
* `Auctioneer.FairSpec`: time passes, an adapter restores what it stored and decides
  what can be decided. Polling and saving are nobody's duty. The promise is
  conditional on bids of one denomination: with two in the pool `evaluate` raises every
  time, as documented.
* `OrderSweep.Fairness`: sweeps are repeated, readings are made, time passes and from
  some time on the chain can be read (`Settle`). The last is needed: while one
  deployment's groups can be read at the scan and never at the confirmation, it takes a
  batch slot each time and a small batch starves what is behind it (a hazard without a
  property). Nothing is assumed of tenants and providers.

## 4. What is proved

The theorems hold for every value of the constants that satisfies the named assumptions
(`ConstantsAssumption`, `BrokerAssumption`, `JournalConstants`, `StoreAssumption`,
`ExposureConstants`, `FundingAssumption`, `SweepAssumption`, `CloseAssumption`,
`NamingAssumption`, `AuctionAssumption`, `AuctioneerAssumption`, `SearchAssumption`): these
fix types, and a few facts that the model of the surroundings needs and that are named
below. TLC evaluates them in every run.

**`AdmissionBrokerProofs`.** `TypeCorrect` is inductive by itself. The safety theorems
need `AdmissionBroker!Inv`, because what they say is not inductive: that an operation is
sent at most once follows only if the authority to send has one holder, which follows
only if a redemption moves a reservation out of RESERVED, which follows only if the swap
replaced the very state the proposal was made from. The parts of `Inv` follow that
chain:

1. `RevisionIdentifiesState`: a pending proposal whose base has the current revision has
   the current state as its base. It is kept because every swap raises the revision by
   one (`SwapAdvances`, `RevisionAdvances`).
2. `ProposalsDerived`: a pending proposal is the function's result on its base, and its
   guards held there; evidence that was truthful stays so (`TruthLasts`).
3. `PermitsBound`: permits, and what leads to or comes of one, belong to a reservation
   and expire no later than its exposure evidence.
4. `AuthorityHeld`: one holder, nothing sent yet, outcome still open.
5. `ReservationsFollowChain`: how far a reservation may be, given the chain.
6. `AuthorizedInTime`: authority was issued within the validity of its reservation.

`ReservationMoves`, `JobMoves`, `PermitsMoves`, `ChainMoves` and `SendsMove` reduce a
step to what it may do to one operation, worker or permit, so that each part of the
invariant is proved over a handful of cases. From `Invariance` follow
`RevisionsIdentify`, `AtMostOneSubmission`, `ExclusiveAuthority` and `CoversTheChain`,
and the action properties `ReleaseFinal` and `SubmissionPermitted`. That a permit is
redeemed before it expires is the theorem's alone: `admission_dynamic` has one time.
`ReservationsAreProven` adds to the invariant what each kind of evidence proves, and that
it stays true of the chain.

The second part of the module is what the ceilings promise, from the same invariant and
from the cardinality of what a scope holds. `JoinsUsage` says what a reservation adds to each
of the three usages of its scopes (one slot, one slot, and as many units as its maximum
exposure), `UsageShrinks` that a step that admits nothing adds nothing. With
`Reserving`, by which the checks that a proposal passed were made on the very state that
the swap replaces, `AdmissionsCovered` follows for any change of budgets, and
`CeilingsKept` under the assumption it states, that nobody replaces a budget.
`LedgerImplemented` is the refinement of `ContainmentLedger`: `View` gives the ledger's
variables as functions of the persisted state and of what was sent, `LedgerUsage` shows
that the ledger counts what the code counts, and there is one lemma per kind of step.

**`JournalStoreProofs`.** `JournalStore!Inv` says that the store and every copy are
sound and valid, and that a copy agrees with the store up to the length it was loaded
with. `Sound` collects the properties of one journal (`BoundOneToOne`,
`FateOfOwnSubmission`, `AboutBound`, `SettledInOrder`, `PreparedUnique`) and `Ordered`,
which says what may follow a state at any distance. `Ordered` is the strengthening that
matters: the code looks at an operation's last entry only, and the properties relate
entries that may be far apart. The main lemma is that an accepted append keeps a journal
sound; the rest is that a swap stores such a copy. `OneToOne`, `FallbackExclusive`,
`OwnSubmission`, `AboutTheBound`, `SettlementAdvancesOnly`, `UniqueAllocations`,
and `AppendOnly` follow.

Three of them, that settlement never goes back, that an allocation is prepared once and
`AppendOnly`, are proved only: no run lists them. The mutants
of the other properties are what shows that the model is not empty.

`JournalRefines` is the refinement of the journal: the
fate of an operation and the set of bindings, as functions of the stored sequence, move
as `BindingRegistry` allows. It needs one invariant more, `OneAhead`: a copy holds at
most one entry that is not stored, so that a swap is one step of the registry and not
several. `HistoryAllows` says which fates are possible when an accepted entry of each
kind arrives, `EntryMoves` and `EntryBinds` what the entry does to fates and bindings.

**`FundingActorsProofs`.** `FundingActors!Inv` is, in the order in which its parts rest
on each other: `Typed`; `LapsesBound` (no acknowledgement outlives the lapse of its
epoch); `StatesSound`, for every state that anybody holds (its effects are valid,
attributed to a plan, timely and in force); `ProposalsDerived` (a pending proposal is
what the function returned on its base); `BasesCommitted` (a base is a state that was
committed, and nothing else has its revision); `RecordsTrue` (observations that were
recorded are true of the wire); `GrantsUnique` (one holder of the authority to sign or
to send a plan, who has not used it, and none for what is recorded as unsigned or
unsent); `DebitsAllowed` (what a transaction debited is one of the debits it can make,
which are within the plan's maximum and at least its fee). Then `NeverUsedTwice`, `OutcomesTrue` and
`CreateConfirmed` are consequences. `RevocationEnds` says of each step that it gives
nobody a proposal or grant under an epoch whose last observation has run out: a proposal
needs an observation that is in force (`ReservedInTime`, `ClaimedInTime`), and a swap
gives its proposer what the proposal was for and nobody else anything (`SwapRetains`,
`SwapWields`). It does not say that nothing is signed or sent under a revoked epoch: what
was proposed in time may be, at any later time, and `src/docs/operation-exposure.md`
leaves that to the instrument that signs. `SpendBounded` is proved without induction over
sums: each unit of what was or may be debited is a unit of a charge that is retained, by
an injection from a finite set of units into another, and cardinalities do the rest
(`DueCovered`). `OutcomesAttributed`, which `OutcomesTrue` proves, is in no run: the
escrow's `Settle` and `Void` say it step by step.

`EscrowImplemented` is the refinement of `SpendingEscrow`. `Swapped` collects what the
invariant says of a swap, and there is one lemma for each of its three kinds:
`OpenStep`; `ReserveStep`, where the new record's plan was charged nothing before
(`ReserveCharges`), is in turn because the whole new state was validated
(`ReserveInTurn`), and all charges together fit the ceiling because the charges of
records do (`ChargesCovered`); and `ObserveStep`, where at most one charge changes
(`Recharged`) and `RecordsTrue`, which holds of a proposal as long as its base is the
committed state, makes it the charge of what the chain did. Signing and sending find the
charge still held by `GrantsUnique` and `RecordsTrue` (`SignableHeld`, `SendableHeld`):
nobody can have voided or settled it while the grant was in another worker's memory.
Assumed of the surroundings: different plans make different intents, an actor's
registration does not change, and a debit is within what the plan signed.

**`OrderSweepProofs`.** The invariant is `Typed`, `Scanned` (decisions and what is left
of the page are a prefix of the listing, and after the last page they cover what was
listed when the scan began) and `Granted`: the head of the batch that is about to be
closed is `Leaseless`, that is neither protected nor excluded and either ended, closed
or open for longer than a bid window. Once true, this stays true, whoever acts, and that
is why a close may come any time after the second reading. The size of `MinAge` enters
there. `NoWorkloadClosed` and `NothingSkipped` follow, for any page and batch size.

**`CloseActorsProofs`.** `Permits` unfolds an ALLOW into what must have held of the
query; `ProducerHolds` and `ProductionHolds` say what an accepted producer and an
accepted production authorization show. The invariant says of each query in the making
that it is about its own subject and attributed by the journal (`Attributed`), that its
producer evidence is a statement about a real creation (`Authentic`), that its authority
is what a gate showed (`Genuine`); that what two closers hold as unique is not the same
authorization and is in the registry (`Registry`); and how gates are opened (`Gates`).
`RetiredForItsProducer`, `NeverReplayed` and `ReleasedByHuman` follow.

`OmissionsAreExcused` rests on the part `Readings`: a query in the making was put together
by the readers, so each of its parts is absent or one of the readings that reader can
give. `Passes` says what an ALLOW has demanded of every part. With it `OnlyUnwitnessed`
shows that a query which passes with a piece of evidence left out, whatever the piece and
whatever the intent, is a rollback that lacks the chain, the producer or both;
`OmissionShows` says of each piece what its absence looks like to the code. `RollbackNow`
then shows, without the two, what the journal's attribution and the capability alone
guarantee: the operation is the one that created the deployment, and its handoff had
failed within the capability's interval.

`RetiredWhenDue` rests on `Timely`: evidence in a query that says that a fact permits a
retirement was observed at a time when it did (`Was`: it still does, or its end is noted
at that time or later; `Shows` and its companions say so of each kind of evidence). No
step of the surroundings undoes this (`Remembered`), because an end is noted with the
time of the clock, which is no earlier than any observation. Evidence whose interval
still contains the clock therefore shows a fact that was due within that interval
(`WithinInterval`), and `DueNow` finds such evidence in an allowed query for each fact
that its intent needs.

Assumed of the surroundings: one operation creates one deployment, a mode and an intent
are ones the code knows, there is nothing to bypass in an external approval, and whoever
names a deployment for a repository as its own names the attempt or release it serves
(`NamingAssumption`). Names that are copied to another repository's deployment are not
restricted.

**`AuctioneerProofs`.** The invariant says that the running auction of an order has
each bid once, with the profile that its group is bound to (`Coherent`), and has exactly
the bids that were sighted, each at the time of its first sighting (`Dated`); and that
every stored snapshot is the snapshot of such an auction, of the order it is kept for
(`Pictured` rebuilds that auction from it). `ArrivalIsKept` is `Dated` with coherence.
`DecisionsFollowArrival` also needs that the code's comparison of ranks is a strict total
order (`LexTotal`, `LexTransitive`, `LexAsymmetric`), so that what `Best` chooses exists
and is unique, and `OrdersAreSpread` that a provider already taken in the round ranks
behind the others. `ObservationsDoCommute` compares two observations in either order:
the two auctions may differ in the order of their bids and in nothing else (`SameBindings`,
`BidsAfterTwo`). `RestoresExactly` is the longest: `restore` observes the bids of a
snapshot one at a time, and `Rebuilt` says, by induction over the prefixes, what has been
put back so far; `RebasedDecides` adds that an auction moved in time decides alike.

**`PlacementSearchProofs`.** The invariant `IInv` has four parts. `Provider`: what a report
or totals tell is true of the real provider where it tells anything (`ReportTells`,
`SnapshotTells`), which is all that `RankedByWhatIsFree` needs (`TotalsAreReal`).
`Searching`, for a search under way:

1. Every state that was seen is what some distribution of the replicas placed so far
   leaves of real nodes, in some order of the nodes (`Reached`). A state with all replicas
   placed is therefore a place for the group (`FitPlaces`), and `FitHasAPlace` follows.
2. `Closed`: a state that was seen is pending or has all its children among the seen ones.
3. `Kept`: if all nodes were readable and the group has a place, some state that was seen
   can be completed (`Viable`). The search starts from such a state (`StartViable`).

`ViableChild` is the step that matters: a state that can be completed has a child that can
be. The child on the very node of that completion may have been skipped, because an
earlier node had as much left; then the two nodes exchange what the completion puts on
them. When nothing is pending, `Closed` and `Kept` give an unending chain of viable
states, each with one more replica placed, unless the group had no place
(`Exhausted`), and `InsufficientHasNoPlace` follows. `Progressing` adds that the rounds
and the pending states together are as many as the states seen, which gives
`SearchIsBounded`; `Concluded` keeps what a verdict says. The lemmas beneath are about
`Ranked` and `Chosen` (`RankedPicks`, `ChosenPicks`: each yields every entry, or every
chosen entry, exactly once) and about sums: what is on a node does not depend on the
order in which replicas were put there.

`SearchAssumption` says that nodes are numbered from one, that quantities are natural
numbers (the model's unit is the finest fraction in use), that the limit is positive, and
that every replica asks for something, which `ReplicaProfile` and `ResourceProfile`
enforce. How the code orders replicas and nodes is not needed: the theorems hold for any
order, so the order can only matter to how soon a search ends, and whether within its
limit.

**`Induction`.** The library's induction theorems take an operator as their parameter and
cannot be instantiated here. This module derives what replaces them from the
well-foundedness of strict inclusion on the subsets of a finite set: what is to be shown
is a set with 0 and with the successor of its members (`NatInductive`,
`BoundedInductive`), or a family of subsets closed under adding an element
(`FiniteInduction`); a total order on a finite set has a first element (`FirstElement`).
The sum of a function over a finite set, which the community modules fold by choosing one
element after the other, takes the elements in any order and splits over disjoint parts
(the lemmas after `SumFound`).

**Out of the prover's reach:** liveness under fairness and ENABLED
(`SubmissionResolved`, `SettlementReleases`, `AuctionEnds`, `LeaksReclaimed`), that the
placement search has no deadlock, and what an operator yields that is defined by recursion outside the
project. No module uses RECURSIVE operators.

## 5. Divergences between document and code

`src/README.md:434` says that every replay of an existing operation returns `RECONCILE`.
`reserve_capacity` checks budgets, the census binding and the exposure policy before it
looks the operation up (`creation_admission.py:899`). After the broker has installed a
new exposure policy revision or a census that does not match the population, a replay is
answered `HOLD`. `admission_replay` shows it. Nothing unsafe follows: `HOLD` carries no
proposal and no permit.

Two more were met while `ClosePolicy` was translated. They are about the choice between
two refusals, which no run tells apart:

* `src/README.md:485` says that out-of-window evidence is held. A production
  authorization or a rollback capability out of its window is denied as invalid
  (`close_policy.py:1036`, `:935`, `:946`).
* `src/README.md:469` says that unknown or automated actors deny. An unknown actor or an
  unknown use of a bypass is held as incomplete evidence (`close_policy.py:1087`, `:1096`).

Limits of the design that no property covers, because nothing in the code promises
anything about them:

* A RESERVED reservation whose permit expired, was revoked or was lost in a crash has no
  transition out (`creation_admission.py:1211`); it holds its capacity until its owner
  redeems.
* An operation that goes from PREPARED to CREATE_OUTCOME_UNKNOWN can no longer record
  SUBMITTED (`create_journal.py:830`), so a late transaction hash is not in its history.
* Two operations that use one signing wallet each choose the account sequence by
  themselves (`operation_exposure.py:540`); the check spans one operation.
* What is proposed under a principal's epoch before that is revoked may be committed,
  signed and sent at any later time; no function looks at the clock again.
* A closer that withholds a bad view of the chain, or a bad attestation, gets a rollback
  allowed that the policy would hold (`close_policy.py:1472`, `:1680`); what remains of
  the checks is `OmissionExcused`.
* A journal may outgrow what `decode_create_journal` takes (`recovery_codec.py:141`).
* An intent that was signed but not claimed before its epoch was revoked keeps its charge
  (`operation_exposure.py:492`).
* A poll of several bids raises at a bad one; the bids before it are recorded and the ones
  after it come with the next poll (`auction.py:633`).

## 6. What is not modelled, and why

* **Funding runway, wallets, qualification, lease recovery**: pure functions of one
  argument record each, with boundaries that the repository's unit tests enumerate. They
  keep no state and nothing in the library that is modelled here calls them.
* **Text**: canonical JSON, digests, frame and URL encoding, addresses, the
  spelling of names and the rewriting of an SDL document. No property depends on it;
  where a name's content matters it is a record of its fields.
* **The codecs of recovery and financial records, and of auction snapshots**: shapes and
  types of JSON fields. What decoding revalidates is modelled (`Load`), and the limits of
  size of a journal. The same limits apply to an `AdmissionState`, which the model takes
  to be small enough.
* **Parts of capacity**: integers and decimals, which are exact at any size (a report's
  floats are modelled, exact below `MaxExact`), sums that overflow, the fractions of dimensions that no group asks for, and
  `NodeCapacity.fit`, which the modelled functions do not call.
* **Rounding**: the model's fractions and times are exact. The rounding of the fraction
  that ranks a provider (`capacity.py:373`) and of a rebased arrival time
  (`auction.py:784`) is not modelled, so `RankedByBindingShare` and `RestoreExact` say
  nothing of differences in the last digit.
* **`parse_escrow_open`**, the parsing of one nested value, and the reasons and reported
  proofs of an auction's result.
* **Release tooling** in `src/tools/`: file I/O.
* **Account sequences across operations**: one financial state is one operation's, and
  nothing in the code relates two.

## 7. Plan

In place: admission, journal, operation exposure, sweep, auction, close policy and
workload identity, capacity and placement, with the proofs of section 4. What is left, in
order of worth:

1. A lifecycle module that composes journal and admission: transitions of a reservation
   made from journal entries instead of from the chain, so that the two ledgers are
   shown to agree across crashes between them.
2. An abstract specification of the sweep (a set of deployments that may be closed, and a
   close that takes from it only), shown to be implemented by `OrderSweep`.
3. `FitOf` and `ScoreOf` of the auction taken from `Capacity`.
4. Operators for qualification, funding runway and lease recovery, checked against
   reference definitions.
