# Offline bearer protocol: TLA+ models and proofs

This directory models the offline bearer protocol: coins are minted against a
vault, change hands offline as a hash chain of ownership states, and are checked
in on chain with a bond, a challenge window and at most two competing submissions
per coin. The on-chain program `programs/obp-core`, the TypeScript SDK that drives
it, and the scripts that exercise both are translated from their source; where a
document says something else, the model follows the source and a run shows the
difference.

## The system

| Part | State | Operations | Talks to |
|---|---|---|---|
| Vault and mint (`init.rs`, `vault.rs`, `mint.rs`) | `Config` (rates, window, `total_unspent_supply`), the coin vault, the fee sink, one `MintRegistry` per serial | `init`, `fund_vault`, `withdraw_vault`, `mint_coin` | token program; the check-in code reads `Config` and the registry and pays out of the vault |
| Allowance (`allowance.rs`) | one `Allowance` per wallet: cap, committed | `set_allowance`; created and raised by `mint_coin`, lowered by a payout | mint, check-in |
| Check-in (`checkin.rs`, `state.rs`) | per coin two `Submission`s (status, checker, chain of up to 4 states) with a bond escrow each, one `HeadRegistry` (the provisional winner and the slot it was set) | `start_check_in`, `append_links`, `finalize_check_in`, `settle`, `verify_sig_commit` | registry, vault, allowance, fee sink, clock |
| PQ data, admin (`pq.rs`, `admin.rs`) | a data account; none | `pq_write_data`, `pq_benchmark`; `close_instance` | the benchmark scripts; nothing |
| SDK check-in (`orchestrate.ts`, `client.ts`) | none of its own: every step is decided on re-read chain state | `runCheckIn`: top up, start, append, finalize, wait, settle; `send` with simulation, confirmation and retries | all check-in instructions |
| SDK plumbing (`instructions.ts`, `accounts.ts`, `readers.ts`, `precompile.ts`) | none | account lists and data of each instruction, addresses, account parsers, records for the Ed25519 precompile | the program's `Accounts` structs, account layouts and data |
| SDK coins (`coin.ts`, `chain.ts`, `pq.ts`, `coinfile.ts`, `wrapper.ts`) | a coin: states and signatures; a file | build a link, verify a chain, encode, decode, encrypt, open | the program's chain checks |
| Scripts (`sdk/scripts`, `smoke-m1-idempotent.ts`) | balances noted, records | a fixed list of steps, each skipped when the chain says it is done | the SDK and the program |

A transaction is atomic: it lands whole or it aborts and changes nothing. What
is hard is therefore *between* transactions: anybody may send any instruction at
any time, two parties dispute one coin, the second finalize decides on what the
first recorded, links keep arriving after the coin is decided, settle races with
a late contender, a caller may leave optional accounts out, and the SDK decides on
what it read some transactions ago, dies between two of them, or sends one again
that lands late. The bookkeeping
(supply, committed, the contents of escrows) is spread over six handlers and has
to agree after every order of them. `PROJECT.json` lists these hazards with the
line where each bites and the property that watches it.

What makes each part correct:

* vault and mint: the vault covers the coins that can still be redeemed, the
  counter says how much that is, tokens are neither created nor lost, a serial is
  minted once;
* allowance: what a wallet has open is committed and within its cap;
* check-in: stored chains are anchored in the genesis of their coin; the head
  describes a live submission; the longest chain wins whatever the order; a coin
  is paid once, and only when due; bonds are in escrow exactly while a
  submission is open; nothing gets stuck;
* client: a check-in that is interrupted, repeated or overtaken by its own late
  transactions opens one submission, settles no earlier than the program allows,
  returns only when the coin is paid, and gets it paid in the end;
* coins: what a receiver verifies was signed by every owner in turn and is taken by
  the program as far as a submission has room; a fork names the owner who signed twice; a file that is
  damaged is refused;
* plumbing: offsets and account positions agree with the program's;
* scripts: they can be killed and started again.

## The modules

| Module | Models |
|---|---|
| `ObpState` | `state.rs` and the pure helpers of `checkin.rs`: states, hashes, link checks, `verify_full_chain`, `bond_amount`, the win rule of `fin_resolve` |
| `ObpCore` | the program: one variable per kind of account, one action per instruction (one per branch of `finalize_check_in`), its properties |
| `BearerCoin` | what the program promises: a coin is minted, claimed, and redeemed once, to the first claim or to a strictly longer one |
| `ObpRefinesCoin` | the mapping from `ObpCore` to `BearerCoin` and the refinement property |
| `CheckInClient` | `runCheckIn` and `ObpClient.send` as a process per client, composed with `ObpCore`: read, decide, simulate, send, confirm; crashes, refusals for the rate limit, expired and late transactions; rivals |
| `ScriptRun` | the E2E matrix, the PQ acceptance run and the smoke test as lists of steps against `ObpCore`, killed and started again |
| `CoinChain` | coins handed on offline, signatures of both schemes, `verifyStructure`, `verifyCoinChain`, holders who spend twice and tamper |
| `CoinFile` | the coin file and its encrypted wrapper: lengths, checks, damage |
| `AccountReader` | account layouts of the program and the parsers' offsets; the fetch with retries |
| `Instructions` | the account list of every instruction builder against the program's `Accounts` structs and checks |
| `SignedAppend` | the transaction of precompile and `append_links`, the offsets in its records, the stored commitments, `verify_sig_commit` |
| `PqUpload` | the chunked upload of the benchmark scripts, `pq_write_data`, `pq_benchmark` |
| `MCObpCore`, `MCRefine`, `MCCheckInClient`, `MCScriptRun`, `MCSdk` | instances for TLC: chains, balances, coins of clients and scripts; `MCSdk` extends the parts of the SDK, which share no state, a behaviour is one of one part |
| `ObpCore_proofs` | lemmas about the helpers; type correctness; what each instruction does to the fields the invariants speak of; the dispute; then sums over finite sets, the vault, the allowances, conservation, that claims can be paid |
| `ObpRefinesCoin_proofs` | the refinement of `BearerCoin`, instruction by instruction |
| `CheckInClient_proofs` | the program's invariants carried over to the composition; the client's own |
| `Coins_proofs` | a coin outside the program: what verification shows, for any owners and any circulation of copies; what damage can do to its file, and what reading one gives |
| `SignedAppend_proofs` | the offsets of the precompile's records, for batches of any length |
| `Accounts_proofs` | the accounts as the SDK and the scripts see them: the builders' account lists, for any set of parties, the parsers' offsets, and the upload of post-quantum data, for any size of data and chunks |
| `ScriptSteps_proofs` | the steps of the scripts as tables, the chains they build, and the states in which each step finds and leaves the coins |
| `ScriptRun_proofs` | what the scripts rely on: the balances at each step, that what they send is accepted, that their records are PASS |

`ObpCore` uses `ObpState`; `ObpRefinesCoin` composes `ObpCore` with an instance of
`BearerCoin`; `CheckInClient` and `ScriptRun` extend `ObpCore`; `CoinChain`,
`CoinFile`, `SignedAppend` and `Instructions` extend `ObpState`, whose coins, hashes and
chain checks they share with the program. Definitions keep the names of the source in CamelCase.

### Variables and accounts

`supply` is `Config.total_unspent_supply`; `vault`, `fees`, `wallet` and `escrow`
are SPL balances; `registry`, `head`, `sub` and `allowance` are the accounts of
the same name. The rest of `Config` does not change after `init` and is a set of
constants, under the `require`s of `init` as assumptions. Status codes are
strings (`SUBMITTED` and `DISPUTED` are never assigned by the source), and
`NONE` stands for an account that does not exist.

### Abstractions

* *Hashes.* The hash of a state is its history, the sequence of (serial, value,
  owner) up to it: sha256 without collisions. The zero hash is `<<>>`.
* *Time.* The source compares the clock with one stored slot, the one at which
  the head was set. `head[sn].age` is the number of slots since then, saturated
  at `Window + 1`; `Tick` is a slot. `started_slot`, `finalized_slot` and
  `mint_slot` are never read and left out.
* *Accounts.* One escrow per submission and one vault; a transaction that names a
  missing or a wrong account aborts, which is no step. The accounts a caller may
  really leave out, the other submission and the allowance in `settle`, are the
  parameters `withOther` and `withAllowance`. Token transfers made outside the
  program are not modelled.
* *Signatures* are their maker, their scheme and the hash they are over; nobody
  makes one without the key. `append_links` reads none: in `ObpCore` which links
  arrive is the constant `LinkBatches`, so its theorems hold for signed and unsigned
  links alike. `SignedAppend` models the precompile that the SDK puts in front, and
  the program without it.
* *Bytes.* In `AccountReader` a byte is a label (field, contents, position), in
  `SignedAppend` and `Instructions` data and accounts are named parts at their
  offsets and positions, in `CoinFile` a file is its fields and its length; a checksum, a tag or a
  ciphertext that is damaged is of nothing, for nobody finds the contents that
  would fit it.
* *The network.* A transaction is in flight, lands (executed or failed) and is
  confirmed; its caller may give up waiting, and it then lands later or never.
  A refusal for the rate limit may come before or after it has landed.
* *Numbers* are naturals; the places where a u64 could overflow are guards
  (`overflow-checks = true` in `Cargo.toml` makes an overflow an abort).
* *withdraw_vault* is `CanWithdraw`, not an action: the vault account belongs to
  the vault PDA and the transfer is signed by the mint authority, so it aborts in
  every state. `close_instance` aborts too (a system transfer out of accounts with
  data) and touches nothing that is modelled.

Operators whose name starts with `Mut` are deliberate mistakes, each a
plausible bug at that place of the source; with one of them in the place of the
definition that follows it, the corresponding property fails.

## What TLC checks

| Run | Instance | Shows |
|---|---|---|
| `dispute` (`MCDispute`) | 1 coin, 2 wallets, chains of 2 to 5 states over both owners in any contiguous batches of up to 2 links, ill-formed links, window 2; 34 284 states | `TypeOK`, `BondsHeldWhileOpen`, `HeadIsLive`, `ChainsAnchored`, `LongestClaimStands`, `WinRuleIsLongest`, `ClaimsAreFinal`, `PaidOnlyWhenDue` |
| `ledger` (`MCLedger`) | 2 coins with values 1 and 2 sharing the vault and an allowance, chains of 2, caps 2 and 3, window 1; 310 939 states | `VaultBacksOpenCoins`, `TokensConserved`, `SpentHasOneWinner`, `ClaimsPayable`, `AllowanceCoversOpenCoins` |
| `live` (`MCLive`) | 1 coin, chains of up to 3, window 2, with fairness; 15 236 states | `PendingGetsPaid`, and `CoinSpec`: the program implements `BearerCoin` |
| `client_faults` (`MCClientFaults`) | 1 client with a chain of 3, 3 faults, 7 runs, with fairness; 44 077 states | `ClientTypeOK`, `OneBondPerCoin`, `ReturnedMeansPaid`, `BondCovered`, `ClientGetsPaid` |
| `client_rivals` (`MCClientRivals`) | 1 client with a chain of 2, 1 fault, 2 runs, a rival with every instruction; 482 198 states | `SettleNotEarly` |
| `sdk` (`MCSdk`) | 3 wallets with up to 4 copies of a coin of up to 3 states, one of them of up to 5; files of up to 3 states with 2 faults; every account kind with one change; every builder with 2 wallets in every role; batches of 2 links up to 4 states in both schemes, with and without the precompile; an upload of 3 chunks with 2 retries, its account included; 326 677 states | `TypeOK`, `OnlyOwnersMoveCoins`, `VerifiedCoinsCheckIn`, `HandOversVerify`, `ForksNameTheForker`; `LoadedIsSaved`, `IntactOpens`; `ReadsWhatIsWritten`; `FreshInstructionsFit`; `PairsAreSigned`, `SignedBatchesLand`, `CommitsResolve`; `MeasuresWhatItSays` |
| `scripts` (`MCScripts`) | the matrix in 2 runs, the PQ run and the smoke test in 3, the amounts of the scripts, window 2; late transactions in the PQ run; confirmations refused in all runs but the last; 26 967 states | `RecordsHold`, `NothingThrows`, `Completes` |

Five more runs end in a violation; each states what a document, a comment or a
test of the repository says and the code does not do (see *Findings*).

*Why the bounds are enough.* Coins interact only through the vault, the supply
and the allowance of a common recipient: two coins of different values show a
mix-up, one shows everything about its dispute. Two attempts is the source's own
limit. Chains offered in `MCDispute` are one state longer than a submission can
hold, so that the limit is reached and refused, and two owners already give
self-transfers, forks, prefixes and repeated owners. A window of 2 separates "one
slot early", "just over" and "later". Symmetry permutes wallets or coins, only in
runs without liveness, and only where the instance treats them alike.

Three faults reach every pair of a crash and a late transaction of the run before
it, and one more; a client needs a run per fault and one to finish, and a late
transaction can cost it two. The rival of `MCClientRivals` may do anything the
program allows: contend, extend the client's own submission, finalize, settle.
Coin chains of 3 states with 3 wallets give a fork by the middle owner, a
splice of two copies and an altered value; once there are as many copies as `MaxCoins`
allows, one more may grow to 5 states, one more than a submission holds (`RoomToGrow`). The
layouts of `AccountReader`,
`Instructions` and `SignedAppend` have the source's own sizes, so those parts are
exhaustive but for what a field contains. The scripts run with their own amounts;
each step is interrupted before, while and after its transaction is in flight.

*Fairness.* `FairSpec` assumes that slots pass and that somebody settles a head whose
window is over, in the form the SDK builds the call (without the other submission,
with the allowance). The holder of the head has a coin to gain by it, anybody may send
it, and `runCheckIn` sends it as its last step and again in every rerun; nothing is
assumed of mints, starts, appends and finalizes, so that a submission may be left
unfinished for ever. That its bond can be taken out even then is a matter of safety
(`ClaimsPayable`): the finalize is never refused, whether anybody sends it or not. Weak
fairness of settle is enough because no other transaction can disable it without
deciding the same coin.

`ClientFairSpec` assumes that slots pass and that a client's process goes on,
with the landing and confirmation of its transaction as its steps: `send` waits
for each, and every wait ends in one of them or in a fault. Faults are bounded
(`MaxFaults`), and after an error the caller runs the check-in again, as the
comment over `runCheckIn` says it may. `ScriptFairSpec` assumes the same of a
script: slots pass, the process goes on, and it is started again. The last of its runs
is not interrupted and no confirmation of it is refused, a bound like `MaxFaults`; and
`send` never runs out of its tries for the rate limit.

## What is proved

TLAPS checks, for every value of the constants that meets the assumptions:

| Theorem | Says |
|---|---|
| `TypeCorrect` | `Spec => []TypeOK` |
| `BondsAreHeld` | `Spec => []BondsHeldWhileOpen` |
| `HeadsAreLive` | `Spec => []HeadIsLive` |
| `OneWinner` | `Spec => []SpentHasOneWinner` |
| `ChainsAreAnchored` | `Spec => []ChainsAnchored` |
| `LongestWins` | `Spec => []WinRuleIsLongest` |
| `LongestStands` | `Spec => []LongestClaimStands` |
| `PaidWhenDue` | `Spec => PaidOnlyWhenDue` |
| `DecisionsStand` | `Spec => ClaimsAreFinal` |
| `VaultBacksCoins` | `Spec => []VaultBacksOpenCoins` |
| `AllowancesCover` | `Spec => []AllowanceCoversOpenCoins` |
| `TokensAreConserved` | `Spec => []TokensConserved` |
| `ClaimsArePayable` | `Spec => []ClaimsPayable` |
| `ImplementsCoin` | `Spec => CoinSpec`: the program implements `BearerCoin` |
| `ClientTypes` | `ClientSpec => []ClientTypeOK` |
| `ClientHeadsAreLive`, `ClientBondsAreHeld`, `ClientClaims` | `HeadIsLive`, `BondsHeldWhileOpen` and `ClaimsPayable` under `ClientSpec` |
| `SettlesOnTime` | `ClientSpec => []SettleNotEarly` |
| `OneBond` | `ClientSpec => []OneBondPerCoin` |
| `ReturnsPaid` | `ClientSpec => []ReturnedMeansPaid` where `Alone` |
| `BondsAreCovered` | `ClientSpec => []BondCovered` where `Apart` |
| `ChainTypes` | `[]TypeOK` of `CoinChain` |
| `OwnersMoveCoins` | `[]OnlyOwnersMoveCoins` |
| `ForkersAreNamed` | `[]ForksNameTheForker` |
| `VerifiedCoinsPass` | `[]VerifiedCoinsCheckIn`: in any batches, up to the states a submission holds and no further |
| `HandOversAreGood` | `[]HandOversVerify` |
| `FilesGiveBackCoins` | `[]LoadedIsSaved` of `CoinFile` for Ed25519 coins |
| `FilesGiveBackWhatTheyKeep` | the same for either scheme, up to the cut to 64 bytes |
| `IntactFilesOpen` | `[]IntactOpens` |
| `OnlySignedPairs`, `CommitmentsResolve`, `SignedBatchesAlwaysLand` | `[]PairsAreSigned`, `[]CommitsResolve`, `[]SignedBatchesLand` of `SignedAppend` |
| `UploadMeasures` | `[]MeasuresWhatItSays` of `PqUpload` |
| `FreshInstructionsAreFit` | `[]FreshInstructionsFit` of `Instructions` |
| `FieldsAreReadWhole` | `[]ReadsWhatIsWritten` of `AccountReader`, for the kinds of account written today and up to 4 states |
| `ScriptsFit` | `ScriptSpec => []ScriptInv` where `Configured`: at every step the coins are where the script expects them, and balances, vault and cap have room for the steps that follow |
| `RecordsAllPass`, `NoRunThrows` | `ScriptSpec => []RecordsHold` and `ScriptSpec => []NothingThrows` where `Configured` |

*The argument.* `TypeOK` says, besides the types, that a coin or submission that
exists has its fields written; that part makes it inductive (a chain of 1 to 4
states is what gives `LastState` a value). `BondsHeldWhileOpen` is inductive with
`TypeOK`: the guards on escrows in the handlers never matter. `HeadIsLive` is
inductive with `TypeOK` and is the heart of the dispute: it says which of the two
submissions the head may name in each status of the coin. `OneWinner` follows
from it. `ChainsAnchored` is inductive with the lemma that a batch extends a full
chain to a full chain (`BatchExtendsChain`).

`LongestWins` needs both. In an anchored chain a state carries its own position,
because its `prev_state_hash` determines its history (`DepthIsPosition`). The
head's state can therefore occur in a contender's chain only at the head's own
length, and the three cases of `fin_resolve` reduce to a comparison of lengths
(`LongerWins`). With it, `LongestStands` and `PaidWhenDue` follow step by step: a
submission that lost keeps its chain, and so does the one it lost to, because
`append_links` needs `RECEIVING` and `HeadIsLive` says the other one is pending
or has won.

*The ledger.* The sums over coins and accounts are folds of the community modules.
`ObpCore_proofs` first gives a sum another face: a balance of n is n units, pairs
of an account and a number up to n, and the sum over a finite set is the number of
units (`SumIsUnits`: the count satisfies the equation of the fold, and there is no
smallest set where the two differ). From there a changed balance, an element more
and an element less are facts about cardinalities. `FiniteAssumption`, finitely many
serials and wallets, is what a sum needs. `LedgerStep` then says what an instruction
does to the ledger: it keeps the coins, mints one or redeems one; with it
`VaultBacksOpenCoins` is inductive, and so is `AllowanceCoversOpenCoins` once it also
says that an account the next mint will create has nothing committed
(`AllowanceRight`). `TokensConserved` has a lemma for each instruction that moves
tokens. `ClaimsPayable` follows from all of them together: `ClaimsInv` (the vault, the
allowances, the escrows, the bond's arithmetic, the head, the chains) says that each
amount a payout takes is there and each counter it lowers is high enough, and that a
submission left receiving on a spent coin meets the guard of `FinRejectSpent`
(`CanBeRejected`).

*The refinement.* `ImplementsCoin` has one lemma per instruction, in two parts: what
it does to the coins that `BearerCoin` sees, and what it does to the wealth of a
wallet, which is its balance and the bonds it has in escrow. Wealth is a sum over
all coins; each lemma reduces it to the shares that this instruction moves from one
owner to another. A start, an append, a slot and `set_allowance` change nothing
that the abstract coin sees: a bond in escrow still counts as its owner's.
The invariant used is `TypeOK`, `ClaimsInv` and that the final owner of a
submission is the owner of its last state.

*The client.* A step of `CheckInClient` is, on the program's variables, a step of
`ObpCore`, a top-up of a wallet, or nothing; the invariants above speak of no
wallet, so they carry over. `SettlesOnTime` needs the client's memory related to
the head (`OnTimeAt`): what it waits for has been finalized, and while it is
pending the age of the head and the slots still to wait add up to the window.
`OneBond` rests on two facts: a start that is in flight or late names attempt 0
(`StartsFirst`), and a coin counts a check-in once attempt 0 has one
(`CountedAt`).

`ReturnsPaid` is about what a client believes between its transactions. Its
strengthening `PaidInv` says, for every client, that attempt 1 of its coin was never
started and attempt 0 holds a beginning of the client's chain, the whole of it once
it is finalized; for every place in the run, what the client may conclude of that
submission there; and for every transaction, in flight or late, what has become of
the submission since it was made. A transaction the caller gave up on then finds
the submission where it left it, or further, and is refused or repeats nothing.
That a settle is never refused for lack of funds is `ClaimsPayable`, which is why
`ClientClaims` comes first. `Alone` is the hypothesis: there are no rivals, and two
clients with one coin hold the same chain. Without it the property is false, as
`MCReturned` shows: `send` takes a failed settle for a settled one.

`BondsAreCovered` follows a client from the balance it reads over its `mintTo` to its
start: nothing else takes from that account, and what a `mintTo` of a dead run brings in
between only adds to it. `Apart` is the hypothesis: no rivals, no two coins with one
recipient, and the recipient is not the authority that funds the vault. `runCheckIn`
tops up to the bond of one coin, so for two coins of one recipient the second start
may find the account empty.

`Simulates` says what `simulateTransaction` answers by the guard of the instruction
(`CanStart`, `BatchFits`, `CanReject`, `CanSetHead`, `CanResolve`, `CanPayOut`),
which the actions of `ObpCore` use as well, rather than by ENABLED. `ScriptRun` does
the same for the instructions of the scripts.

*The coin.* `CoinChain` is inductive with `TypeOK`, `Signed` (every signature in
circulation was made by its signer for the hash it is over) and `Aligned` (every
state but the first comes with a signature). With injective hashes a state that
verifies determines the whole chain before it, so that the signatures of a verified
chain are hand-overs by its owners, and two verified chains part at an owner who made
two.

*The file.* A fault can spoil a checksum, a tag or a ciphertext; it cannot make one
that fits other contents. `FileInv` says so: the checksum on the medium is that of
the saved coin or none, so a core that passes the check is the core that was
written, in every field the checksum covers. `FilesGiveBackWhatTheyKeep` says what
is read is `Kept(saved)`, the coin with each signature cut to its slot, and for
Ed25519 that is the coin. Version 1 of the file runs only that scheme
(coinfile-spec-v1.md, section 3: the others need a size for their signatures first);
hence the hypothesis that the schemes in use are `{0}`. `RefusedAssumption` says that an error
is not a coin.

*The precompile.* The chunks of a batch in the data of `append_links` do not
overlap, so that a read at an offset finds one chunk (`Chunks`, `ReadsOne`), and the record
of link i reads the owner of the state before it, the hash of the state and the
signature of the link (`PrecompileSigned`). This holds for batches of any length.
`PairsAreSigned` then needs that a batch writes `sig_commits` at the indices behind those
of the states that are stored, so that no batch, with or without a precompile, touches
the commitment of an earlier state. The chains that `SignedBatchesLand` and the callers build are recursive functions over an
interval, whose existence is a lemma of its own (`HandedExists`, `ChainedExists`, by
`IntervalInduction`). `NoSignature` says
that `Unread`, what the bytes at a wrong offset are in the model, is not the field of
a signature; it is unbounded, so that TLC cannot evaluate it.

*The upload.* Nothing is written before the account is there, and it is there once
anything has been measured as data. A chunk puts into a cell what belongs there, whenever it lands and however
often, so that cells once right stay right; what the script has confirmed has landed,
so that everything in front of its offset is right (`Progress`). The one write that
is not a chunk, the patch of the signature, is sent by the script that never tries
again, so that nothing late can undo it (`LateWrites`). `UploadSizes` is what the
script's constants satisfy: a chunk has at least one byte and is no larger than what
`pq_write_data` accepts. TLC evaluates both in `MCSdk`.

*The accounts.* `FreshInstructionsAreFit` keeps two facts: the roles of every coin, in the
chain and in what the caller has read of it, are parties (`RolesOk`), and the instruction
was built from the roles that were read (`BuiltAlone`, `BuiltForCoin`), which those of
the chain need not be any more. Where they are the same, every position of every list
is compared with the account the program asks for there. `FieldsAreReadWhole` first
says what a list of fields is as bytes: byte j of field i lies at the sum of the widths
before it (`FlattenPlaces`). A cut at a parser's offset is then the field's own bytes
(`CutReads`), layout by layout; the states and commitments of a submission take their
number from the account itself. `KindsToday` leaves out the submissions of before the
commitments, for which the property is false, as `MCOldSubmission` shows, and
`MaxStored \in 1..4` is the room the program reserves.

*The scripts.* The records of a script depend on everything it did before, in this run
and in those that were killed: which transactions got through, what the wallets have
left, how much of the cap is used. `ScriptInv` says it step by step. For each of the 76
steps and each coin, `Views` is the set of states the coin may be in when the run is
there. It holds more than one state where a killed run has been further: `Rows` says the
coins are in them, and a run that has ended early counts as the next one at its first
step (`Pos`, `Round`), which is what makes a crash a step that changes nothing.
`HoldsChain` says that a submission holds a beginning of the chain the script builds, so
that `appendTo`, which sends what is missing, sends a batch the program accepts.
`LateOnes` bounds the transactions dead runs left behind: one for each run, and none but
in the PQ run. `ScriptSteps_proofs` shows that each transaction, when it lands, takes its
coin from `Views` of its step to `Views` of the next, and leaves the others.

The balances follow in `ScriptRun_proofs`. `Left` is how many coins the run still mints;
what is owed, those and the late ones, fits the supply, the cap and, from the third step
on, the vault (`Room`, `CapFits`; `M1Fits` for the smoke test). Every start finds the bond
(`Bonds`), what the matrix noted differs from the balances by what it expects
(`Snaps`), and a settle that is to succeed is sent after the window (`Waited`). With
these, a transaction that is not to be refused meets the guard of its instruction
(`AllWorks`), so `Fails` never throws; one that is to be refused fails the check whose
code the script asks for, and no earlier one; and a record compares what the invariant
gives (`CheckHolds`).

A transaction whose confirmation was refused is sent once more (`Repeating`). What it was
to bring about is there (`Landed`), so the program refuses it the second time, or takes it
and changes nothing (`TakenAgain`): `set_allowance`, `verify_sig_commit`. The one that
changes something is `fund_vault` of the smoke test, which moves the same tokens twice
when the mint authority still has them; the vault has then more than it needs (`FundAgain`).

The hypothesis `Configured` is the configuration the scripts run against: a bond rate
of 100 %, values that do not overflow the bond, batches of at least two links, holders
with different wallets. Only the PQ run leaves transactions behind, in at most seven
runs, whose mints are covered by the 700 that the vault is topped up by; for the
matrix the property is false then, as `MCMatrixDeltas` shows. The caps have room for the
coins of all runs: after enough runs the default cap of a coin's recipient is used up
and a mint fails, which is how the program means it. `MCScriptRun` has TLC evaluate
`Configured` on the instance of the run. `ScriptInv` was model-checked on that
instance before it was proved.

*Assumptions.* `DataAssumption` (values fit a u64), `ConfigAssumption` (the
requires of `init`), `AccountAssumption` (balances are naturals, no wallet is the
null key, nobody signs for the vault PDA), `FiniteAssumption` (serials and keys
are 32 bytes), `InputAssumption` (batches are sequences of states),
`ClientAssumption` (a client's coin starts with the genesis state of its mint, and
its links may be sent), `ScriptAssumption`, `SerialsAssumption`, `AmountsAssumption` and
`LinksAssumption` (what the scripts send is among the serials, amounts, caps and
batches of the model),
`ChainAssumption` (two schemes), and the hypotheses named
above, which stand in the statements of their theorems. The model's abstraction of
sha256 and of signatures is part of the definitions.

*Model-checked only.* Liveness (`PendingGetsPaid`, `ClientGetsPaid`,
`Completes`), which the provers do not handle. `MCScripts` still runs the very scripts
that `RecordsAllPass` is about, since only a run shows that they get to their end.

## Findings

With a run of their own:

1. **Late contenders win** (`MCLateContender`). `finalize_check_in` does not look
   at the window; SPEC 5.7 and R-D say a contender has to be inside it.
2. **A bond stays behind** (`MCEscrowAfterSpent`). `settle` without the other
   submission, the only form the SDK builds, leaves the bond of a receiving
   submission in escrow on a spent coin; SPEC I6 excludes that. Finalizing that
   submission still releases it, which is never refused (`ClaimsPayable`), but nobody
   has to send it: `runCheckIn` stops at a spent coin.
3. **A coin of two batches cannot be checked in** (`MCMultiBatch`). `runCheckIn`
   gives every batch the hash of the coin's last state, so the program refuses the
   first one.
4. **The value may go elsewhere** (`MCValueOwner`). `runCheckIn` compares the final
   owner on a read made before it sends finalize; links appended in between change
   who is paid.
5. **Unsigned links are stored** (`MCUnsigned`). `append_links` neither reads the
   signatures nor asks for the Ed25519 precompile in its transaction; SPEC 5.5 has it
   check every link (`BadSignature`), STATUS.md puts the check into the precompile the
   client sends along. What the SDK's pair gives is `PairsAreSigned`; a chain that was
   appended by others is structurally sound (`ChainsAnchored`) and no more.

Further instances show smaller differences; their properties are in the modules
and TLC finds each violated:

| Instance | Module | Shows |
|---|---|---|
| `MCCommittedExact` | `MCObpCore` | `settle` without the allowance never corrects `committed`; SPEC I5 says it is the value of the open coins. What holds is `AllowanceCoversOpenCoins` |
| `MCCapRaised` | `MCObpCore` | a wallet may lower its cap down to what is committed; `allowance.rs` and SPEC 5.9 say it is only raised |
| `MCWithdraw` | `MCObpCore` | the transfer of `withdraw_vault` is not signed by the owner of the vault, so the reserve cannot be withdrawn |
| `MCFreeChecker` | `MCCheckInClient` | a checker who is not the recipient cannot start: `startCheckInIx` makes the recipient the signer, `runCheckIn` signs with the checker, which orchestrate.ts:83 calls a free role |
| `MCReturned` | `MCCheckInClient` | the result of `confirmTransaction` is not looked at, so with a rival at work a run returns although its settle failed and the coin is not paid to its chain |
| `MCTopUpAgain` | `MCCheckInClient` | a rerun tops up for a bond that is in escrow already |
| `MCOldSubmission` | `AccountReader` | parts of the states of an account of 543 bytes are read as commitments; readers.ts:92 says `[]` on old accounts |
| `MCMatrixDeltas` | `MCScriptRun` | a transaction of a killed run that lands between a snapshot and its comparison makes a balance record fail |

Differences read in the source and not run: SPEC 11 leaves the length of a coin open
(1000 transfers, SPEC.md:420), a submission holds four states and refuses the fifth
(`StatesFull`, scenario E7b; `VerifiedCoinsCheckIn` draws the line there); a settle
of E8a that comes after the window and whose confirmation is refused is sent again
and recorded as a FAIL, though the program is right (`RecordsHold`); SPEC 5.5 and
5.10 reject a submission with an ill-formed link and take its bond, the code aborts
the transaction; SPEC R-C counts the window from `started_slot`, the code from the
slot the head was set; a coin whose value times the bond rate exceeds a u64 can be
minted and never checked in; the smoke test, which says it goes on after a crash,
finalizes again after its settle and ends with an error (`NothingThrows` allows it
just there); the comment at instructions.ts:99-101 gives another offset for
`lastHash` than the code at :122.

## Not modelled

* `close_instance`: a system transfer out of accounts with data that the program
  owns, which the runtime refuses; no script, test or builder calls it. `ping`
  changes nothing; its account list is in `Instructions`.
* The set-up of a cluster by the scripts (keys, mint, `init`): `Init` of `ObpCore`
  is the state after it. The `init` call of the smoke test lacks `sig_scheme`, so
  its model starts with a config that exists. It also sleeps 25 seconds where the
  matrix waits for the window; that this is long enough is assumed.
* Of the scripts: the records of what a script computes alone (E6, too large to be
  serialized, P1, P2), refusals for the rate limit before anything has landed, tries
  that run out, tokens that `mintTo` mints twice.
* `smoke-m1-run.ts`: its `init` lacks `sig_scheme` and its `append_links` lacks
  `head_owner` and `last_hash`, so the program refuses both and no behaviour of it
  goes on from there. `fetch-fixture.ts` is input and output only.
* Derivation of addresses beyond "different seeds, different addresses", the fixed
  keys, encodings of numbers; AES-GCM, Ed25519, ML-DSA and sha256 themselves;
  compute units and transaction sizes; wording and logging.

What could be added: more than one client per coin in `MCClientRivals`;
`OneBondPerCoin` with rivals, counted by checker; the smoke test with transactions of
dead runs.
