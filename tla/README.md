# A verification project for the mining pool server

The server (`src/src`) runs an ORE mining pool: it hands out ranges of nonces for
the pool's current challenge to connected miners, sends the best solution it
gets to the chain, shares the reward of the round among those who took part, and
pays out what they have earned when they ask for it. It is one process of tokio
tasks that share memory behind locks, a MySQL database, and an RPC node of the
Solana chain.

The project models the parts that move value or decide who may take part: the
payout of claims (`Claims`), a mining round (`MiningRound`), the booking of its
reward (`MineSuccess`), the ranges of nonces clients search (`NonceRanges`),
starting the server and signing up (`Startup`), and the clients' connections
(`Connections`). Two of them are shown to implement an abstract specification of
what they promise (`Payout`, `Ledger`). What is left out is in the inventory
and under "Not modelled".

Run it from this directory: `tlc -workers 2 -config ClaimsLive.cfg MCClaims`,
`tlapm Claims_proofs.tla`, and so on for the other runs and proof modules.

## Inventory

| Component | State | Operations | Talks to |
|---|---|---|---|
| claim handlers (`main.rs` 1896-2372) | `ClaimsQueue.queue`, `.claim_cooldown` | check queue, cool-down, minimum, balance (and last claim in v2), then insert into both maps | claim_system through the queue; database |
| `claim_system` (`systems/claim_system.rs`) | spawned tasks | take up to 10 claims, spawn `process_claim` for each, join them; check, build, send, poll, debit, book, dequeue | chain; database |
| `pool_submission_system` | `app_proof`, `EpochHashes`, `SubmissionWindow`, `app_last_challenge`, nonce counter and ranges | every round: close window, pick best solution, up to 10 attempts (send, resend, poll), reward task, move on to the new challenge | every component that mines |
| `client_submissions_handler` | `EpochHashes` | check window, range, socket, challenge; insert | main loop through the hashes |
| `proof_tracking_system` | `app_proof` | websocket update of the proof account | main loop through the proof |
| `handle_ready_clients_system` | nonce counter, `client_nonce_ranges`, ready set | give every ready client challenge, cut-off and range | sockets; submissions handler |
| connections (`ws_handler`, `handle_socket`, `process_message`, `ping_check_system`, `pong_tracking_system`, `client_message_handler_system`) | `AppState.sockets`, `LastPong`, ready set | connect, decode messages, ping, drop silent clients | all of the above by messages |
| `pool_mine_success_system` | database | shares, submission rows, reward batches, pool and challenge totals | reward task through a channel |
| signup (`post_signup`, `post_signup_v2`) | database | look the miner up, insert miner and rewards row in one transaction | startup, which signs up the commission's receiver |
| startup (`serve`), `proof_migration` | accounts, database, everything in memory | check and create what is missing, move the funds of an old proof, start the systems | chain; database |
| pause (`post_pause`) | a flag | set | ready loop |
| unstake and migrate handlers for boosts | none | one request, one transaction each | chain |
| caches, metrics, read-only routes, scripts | caches | periodic refresh, queries | |

What makes it hard, component by component, and what must be true of it:

- *Claims.* Four handlers check and then act on two maps with a database query in
  between; the queue is in memory while money moves on chain and is booked in
  three database updates that are no transaction; every remote call may fail or
  fail to answer; the server may restart anywhere. A payout must be debited, a
  debit must be backed by a payout, no claim may be paid twice, and an accepted
  claim must be settled.
- *Rounds.* Three tasks may notice that the chain moved on (the main loop, the
  task that resends the transaction, the websocket), each writes proof, last
  challenge, epoch hashes, window and challenge row under separate locks and in
  an order of its own, and solutions arrive all the time. The reward must go to
  the round that earned it, once, shared among a list that holds its best
  solution, and the pool must go on to the next challenge.
- *Ready clients.* Ranges are handed out before they are registered, by a task
  that reads and writes the map under two locks, and the counter starts anew
  several times in one round. Solutions of two miners must not be accepted for the
  same nonces, and a registered range must survive until the map is reset.
- *Rewards.* Shares are rounded down, written in batches of 400 by relative
  updates that are retried on any error. Nothing may be credited twice or beyond
  what the round earned.
- *Connections.* Four tasks enter and remove sockets by address, and one holds
  the map's lock while it sends. A client that does not read or that reconnects
  must not keep others from the map, and one that answers must stay in it.
- *Startup and signup.* Failed queries count as missing rows, transactions
  reported as failed may be executed later, and a migration is two transactions
  of which only the first may land. Every start must leave behind what the next
  one can go on from; a miner must have one row, with its rewards.

`PROJECT.json` lists the hazards line by line, and the status of each component.

## Modules

| Module | Content |
|---|---|
| `Claims` | handlers, queue, claim_system, process_claim, database rows, chain; implements `Payout` |
| `Payout` | abstract specification: a claim is paid in one step out of what is owed, or refused |
| `MCClaims` | small instances of Claims for TLC |
| `Claims_proofs` | type correctness; debits are backed, covered and follow their transaction; nothing is overpaid; cool-down and queue when requests of one user do not overlap; the pool's total |
| `Payout_proofs` | Claims implements Payout when nothing fails |
| `MiningRound` | submissions handler, main loop, resending tasks, reward task, websocket, chain |
| `MCMiningRound` | its small instances, symmetry and view |
| `MiningRound_proofs` | type correctness, best solution and snapshot, proof and last challenge, rewards and landed solutions, the epoch's challenge |
| `MineSuccess` | reward task from the mine event on, `pool_mine_success_system`, the rows they write; implements `Ledger` |
| `Ledger` | abstract specification: a round is booked in one step, within what it earned |
| `MCMineSuccess` | its small instance |
| `MineSuccess_proofs` | type correctness, nobody is credited twice, winners and rewards of challenges; MineSuccess implements `Ledger` |
| `NonceRanges`, `MCNonceRanges` | ready clients, nonce counter, range map, range check, resets |
| `NonceRanges_proofs` | type correctness, ranges in the map do not overlap, where old ranges come from, the range check, registered ranges stay |
| `Startup`, `MCStartup` | `serve()`, `proof_migration`, the signup handlers and their transaction |
| `Startup_proofs` | type correctness, one pool row, miners and their rewards rows, what a server that serves has, the migration |
| `Connections`, `MCConnections` | sockets, pings, pongs, the lock held across a send |
| `Connections_proofs` | type correctness, entries are owned, clients that answer stay |
| `SumTheorems` | facts about sums over a set, for balances, totals and shares |

The modules meet at narrow places. `MiningRound` ends where `MineSuccess` begins:
its `Announce` is the whole reward task, of which `MineSuccess` starts with the
landed transaction (`Land`), any number of them at once. `Claims` takes what
`MineSuccess` credits as `Earn`. `NonceRanges` refines the two places of
`MiningRound` where nonce and ranges are reset and the range check of its
handler, and abstracts the rest of a round to when the resets happen; whether a
client is connected, which it chooses, is decided in `Connections`. A restart is
`Restart` or `Crash` in Claims, MiningRound and MineSuccess, and what happens in
between is `Startup`.

### Claims

`queue[k]` is the amount queued under the key (pubkey, mint or none), `cooldown`
whether the user has an entry younger than 48 hours, `request[r]` a handler at
work, `worker[k]` the `process_claim` task of a key, `joining` that
`claim_system` waits for its tasks. `balance` is `rewards.balance` for a miner
and `stake_accounts.rewards_balance` for a staker; `poolClaimed` and
`recentClaim` stand for `pools.claimed_rewards` and the last row of `claims`.
`treasury`, `ata` and `tx` are the chain. `payout`, `debited`, `accepted` and
`mishap` (a lost database answer, a restart, once it has happened) are history,
read by properties only.

Every await that gives way to another task ends an action. A handler is Arrive,
CheckCooldown, CheckBalance, (CheckLastClaim), Enqueue, Stamp; a task is
RecheckBalance, BuildTx, SendOk / SendUnanswered / GiveUpSending, PollFinalized /
PollExpired / Resend, LookupAccounts, DecreaseReward, UpdatePoolClaimed,
AddNewClaim, RemoveProcessed. `Faults` names what may go wrong: `rpc` (an RPC
request fails or its answer is lost), `db_read`, `db_write` (an update is applied
but reported as failed), `crash` (a restart loses what is in memory).

Abstractions: the receiver of a claim is the user; the v2 handler checks minimum
before cool-down, the others after, which only changes the error message; the
`txns` table is left out; a transaction orphaned by a restart or given up is
resolved before another one is built for the same key (its blockhash lives about
a minute, a new claim takes longer); `Earn` credits at once what mining earns.
u64 subtraction wraps at `MaxU64`; other amounts stay far below it
(`TreasuryFits`). There is one pool: with several, the staker's balance would be
checked in a row found by miner and mint alone and debited in one found by pool as
well.

`Payout` is what all this amounts to when nothing fails. The mapping counts a
claim as paid when its transaction lands: from then on its amount is off what is
owed (`StillOwed`), and it no longer waits (`Waiting`), although it leaves
balance and queue only several steps later. A claim that another request
replaces in the queue by then is gone with it.

### MiningRound

A challenge is its number, a solution is (challenge, difficulty). `proof`,
`lastChallenge`, `epochChallenge`, `best`, `submissions`, `closed` are the shared
values; `handler`, `main`, `resender[s]`, `tracker` are the tasks with the local
variables they carry across an await, `rewarding` the reward tasks; `challenges`
is the table; `chain`, `tx`, `orphans`, `notices` are the outside. `rewarded`
counts the reward tasks that were started for a challenge.

The locks are the code's: EpochHashes is reset under one lock (`ResetEpoch`),
everything else is a step of its own, in the order of the branch taken: when RPC
tells of the new proof, the resending task writes proof and then last challenge,
hashes, window, database; when the websocket was first it writes last challenge,
database, hashes, window. The main loop never writes the last challenge, and in
one of its two branches adds the wrong one to the table (see below). A
resending task looks at its stop signal only at the top of its loop, so tasks of
two attempts overlap. A reply of the RPC node is stored in the step that asks for
it, with no other step of the server between the two.

Abstractions: the cut-off may come at any time; a solution that is out of range
is never looked at, and the resets of nonce and ranges are in `NonceRanges`; a
websocket notice of a new challenge arrives before the chain moves again (a
minute) unless `late_notice` is among the faults, which also allows notices of a
mere balance change; an insert that fails as a duplicate is an insert of what is
there.

### MineSuccess

`round[c]` is what the reward task of a round holds and how far it is: `event`
(asking for the transaction), `lookup`, `insert`, `commission`, `send`, `queued`,
and then `booked` or `lost`. `inbox` is the unbounded channel, `job` the message
`pool_mine_success_system` is at work on, with the order its loop took the
submissions in and the chunk that comes next. `balance` is `rewards.balance` of
the miners and the commission's row, and `pools.total_rewards`; `rows[n]` are the
rows of `submissions_2` with nonce n by their id, `known` the challenges with a
row, `earned` and `winner` their `rewards_earned` and `submission_id`. `times`
is history: how often an account was credited for a round.

Each query is an action: LookupChallenge, InsertChallenge and CreditCommission
of the reward task; AddSubmissions and UpdateRewards once per chunk,
UpdatePoolRewards, FindSubmission and UpdateChallenge of the other. All but the
last two are repeated until they are reported as done. A query is done, `failed`
without having had an effect, or `unclear`: reported as failed and applied all the
same. `exact`, chosen in the initial state, says whether the database is one that
never leaves that unclear; so one run and one set of theorems cover both, and
`CreditedOnce` is promised for the first kind only. Commission, hashpower and
share are computed as the code does, with their integer divisions, at the code's
constants.

Abstractions: miners have their row of `rewards` (the signup inserts both), and
the commission's miner does not mine; a lookup that fails and a row that is
missing look the same to the code and are told apart only by what they lead to;
the look whether a challenge exists that follows a failed insert answers rightly
(when it fails, the insert is repeated, as after any failed insert); the amounts
stay far below 2^64; messages to clients and metrics are left out.

`Ledger` is what all this amounts to. A round has landed, is booked in one step or
is lost; booking brings the pool the reward, and the rows of `rewards` no more than
that and no less but for the rounding. The mapping takes off the balances what
rounds still at work have brought so far (`Pending`).

### NonceRanges

`ready` is the set of addresses that asked for work, `nonce` the common counter,
`ranges` the map the range check looks into, by miner. `ready_loop` is
`handle_ready_clients_system` with the copies it made at the start of a pass,
`telling` the tasks it spawned, `main` and `resender` the two tasks that reset.
`era` numbers the resets of the counter; a range carries the era it was cut off
in. Eras are not rounds: in one round the counter is reset by the resending task
(`pool_submission_system.rs` 338, 450), the main loop (735, 826) and after failed
attempts (913), so the same nonces of one challenge are told to two clients.
`handed` and `late` are history.

Every lock is taken for one access, so every access is an action: CheckPaused,
CollectClients, ReadCutoff, LookForBest, CheckWindow, ReadChallenge, then HandOut
and RemoveReady per client;
ReadRanges and InsertRange of the task that tells a client its range; TakeMessage,
CheckRange, Refuse, InsertSubmission of the handler; and ResetNonce, ResetRanges,
ResetEpoch, OpenWindow of whichever task resets. What comes before a reset is cut
down to the order of its causes: the cut-off, the closed window, the new proof,
noticed by one task or the other, or the last failed attempt.

What the model shows of the code besides its properties: a second client is told
nonces a first one has searched for the same challenge, which is safe only because
every reset of the counter is followed by one of the map (`RangesDisjoint`); the
challenge is read before the ranges are cut off, so a client can be told an old
challenge with a new range; of two tasks of one miner that read the map before
either writes it, one range is lost, and its solutions are refused (`RangeKept`
has that as its exception); a range of the old round can be entered after the map
was cleared (`OldRangesOnlyLate`); a Ready that comes in between hand-out and
removal is removed with the one before it. The end of a range is its start plus
`NONCE_RANGE_SIZE - 1` and is excluded, so the last nonce a client is told is
refused when it is submitted.

### Startup

`pc` is where `serve()` is, by the name of the step; `token_balance` and
`original_balance` are its locals. `accounts`, `original`, `wallet` and `staked` are
the chain, `orphans` transactions whose sender was told that they failed and that
may still be executed. `pools`, `miners`, `rewards`, `challenge` are rows.
`signing[c]` is the database transaction `signup_user_transaction` of caller c, a
request or `serve()` itself, `request[r]` a signup handler.

`CheckAccount` and `CreateAccount` stand for the three pairs of a look and a
transaction (proof, stake, token account), `SendAndConfirm` for all five
transactions. Any error counts as a missing account; in the database only a
missing connection is told from a missing row. A failed step panics, returns or
goes on just where the code does (registering is left out without a blockhash, the
other two panic). `Crash` may come at any step, `Restart` with or without
`--migrate`. A failure costs one of `MaxFaults`.

What the model shows of the code besides: a failed query at the wrong moment adds
a second pool row, after which every update of the pool's totals affects two rows
and is taken for an error, so that the `while let Err` loops repeat it for ever
(`OnePool` has that as its exception); a transaction of an earlier start that is
executed between the two reads of balances is overlooked until the next
`--migrate` (`Migrated`); the conversion of a balance from a floating point number
may lose one unit; where the first blockhash is asked for again "in 2 secs", the
server sleeps 2000 seconds (`main.rs:492`).

Abstractions: configuration, log files and the spawning of systems are left out;
whether the miner's row is enabled is no part of signup; a restart may find a new
challenge.

### Connections

`conn[c]` is how far `handle_socket` is with a connection, `client[c]` what the other
end does (`silent`: it does not read, and sends to it do not end). `sockets` is
`AppState.sockets`, `pongs` the age of the last pong of an address, `owes` who was
sent a ping and has not answered. `ping` and `tracker` are `ping_check_system` and
`pong_tracking_system`, `sending` the client that `client_submissions_handler`
sends to under its read lock. Locks are fair as tokio's are: a reader waits behind
a waiting writer (`MayRead`, `WriterWaits`).

Time is counted in periods of the ping loop (30 seconds; a pong is too old after
three). `Tick` is possible when whoever is not kept waiting, by a client or by the
lock, is done: a period is long compared with a step. The age of a pong is
computed from the copy when its turn comes; while the tracker waits for the lock,
pongs of its copy may become too old, which `Tick` chooses.

What the model shows of the code besides: one client that does not read stalls the
ping loop, which waits for all its sends, and through the lock everybody who wants
to write the map; others are not pinged any more, their pongs age, and they are
dropped although they answer (`AnsweringStays` excludes this by `stalled`). A
client that never reads again, and that TCP never gives up because its end still
answers probes, blocks every writer of the map for ever once a notice is sent to
it under the lock (`MapMovesOn` has that as its exception). A binary message that
is too short makes the receiving task panic, and the client is taken out although
it is there (`ReceiverPanics`). Sockets and pongs are removed by address, so what
an earlier connection left behind can hit a newer one (`Reused`). The tracker
removes the socket but leaves the connection open: the client goes on sending and
is told nothing. A client that never sent a pong is never dropped by the tracker.

Abstractions: `message_text_all_clients_system` clones the map and sends from tasks
of its own; it holds no lock while it sends and changes nothing. What a message
says is in the other modules.

## What the runs check

| Run | Instance | Shows |
|---|---|---|
| `claims_live` | one user with a miner's and a staker's balance of 3, two requests that overlap, batches of one claim, no faults, fair | TypeOK; NoOverpay: what was paid has been debited or is about to be; DebitCovered: the `while let Err` loop around the unsigned column ends; ImplementsPayout: an accepted claim is paid once out of what its owner is owed, or refused; ClaimServed: a claim is settled unless others are queued for ever anew |
| `claims_faults` | one request at a time, for either balance, two tasks at a time, all four faults | DebitOnlyAfterLanding, whatever fails; DebitBacked, until an answer of the database is lost; PoolClaimedMatches, until that or a restart; CooldownEnforced and AcceptedClaimKept, until a restart |
| `claims_cooldown` | two requests, no faults | **violated**: the 48 hours of `main.rs:1924` |
| `claims_overpay` | one request, `db_read` | **violated**: more is paid than was earned after a panic at `claim_system.rs:420` |
| `round_calm` | one miner, two resending tasks, one attempt for each of two challenges, fair | LandedRewarded: every landed solution is rewarded once, as the round of its challenge; LastChallengeBehind; EpochCurrent: the next round is collected under the chain's challenge, unless a task of the round before has set the epoch back; WindowReopens |
| `round_faults` | one miner, two resending tasks, two attempts, `rpc` and `crash` | TypeOK; RewardedLanded: at most once and only what the chain accepted |
| `round_submissions` | two miners, two difficulties, `late_notice` | BestCoversSubmissions; SnapshotHasBest |
| `round_stale_notice` | one miner, `late_notice` | **violated**: the proof goes back to an old challenge (`proof_tracking_system.rs:69`) |
| `mine_success` | two rounds, two miners, shares in batches of one, up to two faults of `db`, `rpc`, `crash`, fair | TypeOK; ImplementsLedger: every round is booked as a whole, within what it earned, or lost; CreditedOnce; WinnerOfRound: the row found by its nonce alone is of the round; EarnedMeansCredited; RoundSettled: every loop is left |
| `nonce_ranges` | two miners, two Ready messages, the resets after the first round's solutions by main loop and resending task, fair | TypeOK; RangesDisjoint: no two ranges in the map overlap, however often the counter starts anew; OldRangesOnlyLate; SearchedOwnRange: what passes the check was given to that miner; RangeKept: a range is lost to a reset or to the race of two tasks of one miner; ReadyServed |
| `startup` | funds in the old proof and in the wallet, three failures, two signups, fair | TypeOK; ServingReady: whatever was left out, a server that serves has what it needs; Migrated; OnePool; SignedUp: a miner has one row, with its rewards; ComesUp: what a failed start leaves behind does not stop a later one |
| `connections` | three connections, two of one address one after the other, of which one client may stop reading, send a message that is too short, or leave, fair | TypeOK; EntryOwned: an entry has a handler that will remove it; AnsweringStays; MapMovesOn: nothing but a send to a client that never reads again keeps a handler waiting for ever |

Every property has a mutant in `PROJECT.json`, a plausible bug in one definition
that TLC must find; the mutated forms stand beside the originals as "seeded
fault".

Bounds, and why they are enough. *Claims*: two requests suffice for every race
between a check and an act, since a third can only repeat what the second does.
One user, because keys of different users share only the treasury, the pool's
total and the batch, and the two keys of one user share these and the cool-down as
well. Amounts of 2 and 3 with a fee of 3 or 4 make the subtraction wrap, a fee of
1 makes it succeed; `MaxTreasury` (5 to 9) bounds what is ever mined, leaving room
for at least one reward between claims. In `claims_live` a batch is one claim, so
that one of two is left out of it; in `claims_faults` it is both, so that two
tasks are at work together. `claims_faults` has one request at a time, since
requests that overlap break two of its properties without any fault
(`claims_cooldown`). *Rounds*: two miners and two difficulties are the least for
which "best" and "all" differ; two attempts (`round_faults`), or two rounds of one
attempt each (`round_calm`), make two resending tasks overlap, more only repeat;
two challenges let the work of one round reach into the next. `Resenders` bounds
the tasks alive: an attempt that finds none idle waits for one. With two of them
no attempt of `round_calm` waits, for there are two in all. *MineSuccess*: two
rounds make two reward tasks overlap, and one message wait while another is worked
on; their nonces are from the same set, so the best nonce of one is a nonce of the
other; two miners and a batch of one give two chunks of shares; three rosters
(both miners, with either the better one, or one alone) and a reward of 39, which
nothing divides, make every rounding happen; `MaxFaults` 2 lets a retry fail again
and a restart follow a failure. *NonceRanges*: two requests for work are the least
for two ranges to overlap and for two tasks of one miner to race; they may be of
one client or of two. A range of size 2 has one nonce that is accepted and one
that is not. Solutions come in before the first reset (`MaxSol` 1), which is
enough for resets of both tasks to meet ranges cut off before, between and after
them. *Startup*: three failures allow one that leaves something behind, one in the
start that finds it, and one more; 2 in the old proof and 1 in the wallet keep the
unit a conversion loses apart from the amounts; two requests, for two miners or
one, the commission's receiver among them, so that they meet each other and
`serve()`. *Connections*: a connection that ends, one that follows it from the
same address, and one of another client cover who can hit whom; a `Limit` of one
period instead of three makes pongs too old sooner, never otherwise.

`SYMMETRY` is used where no liveness is checked; nothing orders miners or
resending tasks. `VIEW Memory` in `round_submissions` and `round_faults` leaves
out `challenges` and `rewarding`, which no guard and no update of another variable
reads, and local variables of tasks that are past their last use, so states that
differ only in them have the same future for the invariants of these runs. It
keeps `rewarded`, which RewardedLanded reads, and `setBack`. `VIEW WithoutTable`
in `round_calm` leaves out only `challenges` and `rewarding`: no other variable,
no fairness and no property of that run depends on them, so a behaviour and the
same behaviour without them satisfy the same of all of these.

Deadlock is checked in the runs of Claims and MiningRound, where something can
always happen (a request or a solution can arrive, time passes). It is not in
`mine_success` (after the last of its `MaxRound` rounds nothing is left to do),
`nonce_ranges`, `startup` and `connections` (after the last request, failure or
connection). There RoundSettled, ReadyServed, ComesUp and MapMovesOn say that the
tasks do not stop before.

Fairness. `FairSpec` of Claims: the runtime polls every ready task, so
`claim_system` and its tasks take their steps (weak fairness); an RPC node goes on
forwarding, so a transaction that is sent again and again is executed in the end
(strong fairness of Execute), and a blockhash expires. No fairness is assumed of
requests, rewards or the passage of 48 hours, nor of which claims a batch takes:
the order of a hash map is arbitrary, a claim can be passed over for ever if
others keep coming, and ClaimServed says so. `FairSpec` of MiningRound: the main
loop and the resending tasks run, and a transaction lands or expires. None is
assumed of the miners, the websocket or the reward tasks; that the pool moves on
without the websocket is part of what WindowReopens says. `FairSpec` of
MineSuccess: every spawned task and the receiving loop run; the faults of a
behaviour are finitely many (`MaxFaults`), which is to say that the node and the
database answer in the end. Nothing is assumed of rounds landing. `FairSpec` of
NonceRanges: the three loops run. A request is served only after a round that is
due ends, which the main loop sees to by itself; nothing is assumed of clients,
solutions, the chain or the spawned tasks. Solutions are bounded, so a client that
is always kept waiting by the next round's early solution is not among the
behaviours. `FairSpec` of Startup: `serve()` runs, whoever watches over the
process starts it again, its own signup runs, and the chain decides about every
transaction; failures are finitely many. `FairSpec` of Connections: handlers and
ping loop run, and a send to a client that reads ends. Nothing is assumed of
clients that do not read: no send has a timeout, and TCP keeps a peer whose window
is closed as long as it answers. MapMovesOn therefore says which waits can last
for ever.

### What the violations mean

The findings in `PROJECT.json` quote the lines. More observations, which the
models reach but no run is spent on: after a stale notice the round that is
already over can be credited again under its old challenge, so RewardedLanded is
not promised with `late_notice`; a resending task held up in its database loop
can reset the hashes of a later epoch when it continues; and the main loop, when
it is the first to see the new proof, adds the challenge of the old one to the
table (`latest_proof.challenge` at `pool_submission_system.rs:768`), so that the
new one may get its row only from the reward task of its round.

`PayWithinClaim` in Claims is not checked by a run: it fails because
`amount - 2_000_000_000` wraps for a claim between the minimum and that fee,
after which the chain refuses the transaction and the claim is dropped.

## What is proved

All theorems hold for every value of the constants that satisfies the named
assumptions of its module (`ClaimsConstants`, `TreasuryFits`, `RoundConstants`,
`MineSuccessConstants`, `RangeConstants`, `StartupConstants`,
`ConnectionConstants`), by induction over steps, one case per action. These say
what the constants are: that sets are finite where something is added up over
them, that a range has a nonce, that the limit for pongs is a period at least. A
theorem that needs more states it, as ASSUME or as a hypothesis. Between them the
theorems state every safety invariant, every action property and both refinements
that the passing runs check.

`Claims_proofs`
- `TypeCorrect`: `Spec => []TypeOK`. Needs `LessIsNat`: wrapped subtraction
  stays a natural number.
- `DebitsBacked`: until an update that was applied reports an error, `DebitCovered`
  and `DebitBacked` hold, through outages, failed queries and restarts. Neither is
  inductive: that a debit is backed needs to know that the transaction the task is
  polling claims the task's amount and has landed. `DebitInv` adds that, and bounds
  what is debited plus what a task is about to debit by what was paid. After a lost
  answer the statement is false: the retry in `while let Err` debits twice.
  `ClaimsCovered` is what follows where answers are not lost (`db_write` is no
  fault): `[]DebitCovered`.
- `NeverOverpaid`: without faults, `NoOverpay`. `OverpayInv` adds that a
  transaction is in flight only while its task polls it, and that tasks exist only
  while `claim_system` joins.
- `DebitsFollowLanding`: `DebitOnlyAfterLanding`, whatever fails. `LandedInv` is
  the part of `DebitInv` that survives a lost answer.
- `CooldownHolds` and `AcceptedClaimsKept`: `CooldownEnforced` and
  `AcceptedClaimKept`, whatever fails, for any number of requests as long as those
  of one user (`[]UsersApart`) or of one key (`[]KeysApart`) do not overlap. Two that
  do break them, as `claims_cooldown` shows for the first. `CooldownInv` says where
  an accepted claim is remembered between the two maps, `KeptInv` that a handler
  past its check still finds the queue empty.
- `PoolTotalMatches`: `PoolClaimedMatches`. Two sums over all keys; each step changes
  one summand of one or both (`SumChange`). `JoinInv` is for the restart.

`Payout_proofs`
- `PayoutImplemented`: without faults, `Spec => ImplementsPayout`. Initial states map
  to initial states (`InitTyped` gives their types), and `StepRefines` maps each
  step: a handler's last to Accept, an execution to Pay, a task that gives up to
  Refuse, mining to Earn, all others to stutters. This needs both invariants
  above, and `PayoutInv`: a task works for a claim that is in the queue and is not
  zero, its transaction asks for that amount or what the fee leaves of it, and the
  funds are far from the end of u64, so that what wraps is never paid.

`MiningRound_proofs`, the first three with any faults
- `TypeCorrect`: `Spec => []TypeOK`. The strengthening `Ready` says which local
  variables are set at which step of handler, main loop and resending task; that
  the main loop holds a solution when it sends one is part of it.
- `BestCovered`: `BestCoversSubmissions`. Inductive together with `HandlerAhead`,
  which says that the handler about to write found its solution better than the
  one it read; a reset between the read and the write keeps it.
- `SnapshotCovered`: `SnapshotHasBest`, from the former and the check after the
  snapshot.
- `ProofMovesOn`, `LastBehind`, `RewardsLanded`: `ProofNeverReverts`,
  `LastChallengeBehind` and `RewardedLanded`, with RPC failures and restarts, when no
  notice arrives for a challenge that is over (`late_notice` is no fault). With
  it TLC finds all three violated. `CurrentInv` says that what is on its way to
  the server is the chain's challenge; `OldsInv` that no task remembers a challenge
  ahead of the server's and none about to become the last one is current;
  `RewardInv` which rounds can have been rewarded at each step of the main loop.
- `EpochsCurrent`: without faults, `EpochCurrent`. `EpochInv` says where main loop
  and resending tasks are with the resets while the hashes are not yet, or no
  longer, those of the chain's challenge.
- `LandingsRewarded`: without faults, `LandedRewarded`. `CalmInv` adds that the chain
  moves only while the main loop waits for its transaction, `PaidInv` that every
  round but the one in doubt has been rewarded. With a restart or a lost answer
  a landed round may go without, which is why it is not promised then.

`MineSuccess_proofs` (any faults, any batch sizes)
- `MemoryCorrect`: types of everything but the balances, and two facts the others
  rest on. `Queue`: a round in the channel is there once, is not the job, and has
  not been booked; this is what makes rounds whose reward tasks overlap be booked
  one after the other. `BestTaken`: the best nonce of a round is that of one of
  its submissions.
- `TypeCorrect`: `[]TypeOK`. Shares are naturals since the sum of hashpowers that
  divides them is positive where a round has a submission.
- `NobodyCreditedTwice`: `CreditedOnce`. It is not inductive, since a chunk is
  credited without a look at who was credited; `Once` adds who has not been
  credited yet at each step of a round: from the chunk at `job.at` on, nobody.
- `WinnerIsOfRound`: `WinnerOfRound`. `RowsInv` adds that the newest row with the
  nonce of a submission is the job's round's once its chunk is written, which
  holds because no other round writes rows before the job is finished.
- `EarnedIsCredited`: `EarnedMeansCredited`. `CreditedInv` adds that everybody in
  the chunks before `job.at` has been credited, and the commission before the
  message was sent.
- `LedgerImplemented`: `Spec => ImplementsLedger`. A step lands a round, credits
  accounts of one that is at work, books one, or loses some (`StepKinds`). The
  mapped balance (`Net`) is what is left when `Pending` is taken off; landing and
  crediting leave it as it is (`LandKeepsNet`, `CreditKeepsNet`), settling releases
  exactly what the rounds brought (`SettleReleases`). What remains is arithmetic:
  quotients rounded down add up to no more than the whole and to less than one per
  miner below it (`QuotientsAddUp`, `DuesAddUp`), and what all earners gain from
  several rounds is what the rounds give to all earners (`SumSwap`). `LedgerInv`
  puts the invariants above together: the bounds hold because everybody was
  credited, and once.

`NonceRanges_proofs`
- `TypeCorrect`.
- `MapDisjoint`: `RangesDisjoint`. What was handed out between two resets of the
  counter is disjoint (`HandedDisjoint`), because it lies below the counter
  (`HandedBelow`); with the next two, whatever is in the map and not late was
  handed out since the last reset.
- `OldRangesAreLate`: `OldRangesOnlyLate`, which is inductive as it stands.
- `SolutionsSearched`: `SearchedOwnRange`. `RangesOwned`: the map, and the copies
  tasks made of it, hold for a miner only what was handed to one of its addresses.
- `RangesStay`: `RangeKept`, a fact about single steps of typed states.

`Startup_proofs`
- `TypeCorrect`.
- `PoolIsOne`: `OnePool`. `PoolInv`: the row is about to be inserted only where none
  is, unless a query was misread.
- `MinersSignedUp`: `SignedUp`. `SignupInv`: a row that is inserted and not
  committed keeps the other callers out, in serve() or a handler.
- `ServesWhenReady`: `ServingReady`. `ReadyInv` says what has been seen to from which
  step on; which way around a step was gone makes no difference after it.
- `FundsMigrated`: `Migrated`. `Settled` relates the balances `serve()` remembers to
  those on chain after each step, as long as no transaction of an earlier start was
  undecided when it read them.

`Connections_proofs`
- `TypeCorrect`.
- `EntriesOwned`: `EntryOwned`, with `ClientShape`, how far a handler can be with a
  client that is away, gone or faulty.
- `AnsweringClientStays`: `AnsweringStays`, for any limit. `AnswerInv`: a connection
  that has no excuse is in the map, is not what the tracker is about to remove, and
  its last pong is of this period, or of the one before and the next one is on its
  way. `MetInv` ties pongs to the connections they came from.

`SumTheorems` holds what the sums rest on: `SumFunctionOnSet` of the community
modules adds values up in the order CHOOSE picks them, so that even taking out one
element (`SumRemove`) has to be proved. Its induction over finite sets
(`SetInduction`) takes the set of the subsets that have the property, and uses
that the strict subset order of a finite set is well-founded.

Only model-checked is all liveness (ClaimServed, WindowReopens, RoundSettled, ReadyServed, ComesUp, MapMovesOn), which is beyond the prover here.

## Not modelled

- Boosts: `post_unstake_boost_v2` and `post_migrate_boost_v2` compare a request with
  what it must look like, field by field, sign it and send it as one transaction;
  they keep nothing between two requests. `update_delegate_boost_stake_accounts`
  is never called.
- `process_stakers_rewards` and the bonus code: dead, since the flag that would
  enable them is always sent as `global_boosts_active: true`
  (`pool_submission_system.rs:680`).
- How a mine transaction is composed: priority fee, tip, bus. It decides whether
  a transaction lands, which is a choice here.
- Caches, where each value is written whole under one lock; metrics, which nobody
  in the server reads; read-only routes; models, schema and the encoding of
  messages; instruction builders; scripts. They keep no state the server's steps
  depend on.
- Messages to clients, but for who is told which range and who is pinged.

## Plan

Done: `Claims`, `MiningRound`, `MineSuccess`, `NonceRanges`, `Startup` and
`Connections`, the specifications `Payout` and `Ledger`, and proofs of every safety
property and refinement the passing runs check.

What is left, the most important first:

1. `Payout` with faults: what of it holds when RPC requests fail but no answer of
   the database is lost, so that PayoutImplemented does not need `Faults = {}`.
2. `LandedRewarded` with failed RPC requests: which rounds go without a reward, as
   an exception in the property instead of an assumption.
