# Verification of the KAME key-rotation plugin

TLA+ models of `hermes-kame-api-rotation`, the plugin that gives the Hermes agent
many API keys per model, chooses one for every request, rests a key that was
refused, shares that knowledge between Hermes profiles, races slow streamed
replies, and hands a call over to another model when a pool is exhausted.

Paths below are relative to `src/hermes-kame-api-rotation/`.

- [1. The system](#1-the-system): its parts, their state, how they interact
- [2. Modules](#2-modules): which module models which part, and how
- [3. Runs](#3-runs): what TLC checks, within which bounds
- [4. Fairness](#4-fairness)
- [5. Proofs](#5-proofs)
- [6. Findings](#6-findings): where the code and its own text disagree
- [7. Limits](#7-limits): what is only model-checked, what is left out
- [8. Plan](#8-plan)

## 1. The system

### Parts

| part | state it keeps | operations | what is hard | what makes it correct |
|---|---|---|---|---|
| **Carousel** `core/carousel.py` | per model and key a `KeyState`: hold, two floors, strike counters, request log, retired flag; per key an account hold; per model the last answer | `select`, `mark`, `thaw_server_cooled`, `healthy_count`, `next_recovery_seconds`, `forget`, `reset_pool`, `reset_all` | holds, floors, ladders, a moving dial and a moving clock act on one number; outcomes arrive for any key at any time | a ruled rest is served in full; nothing rests for ever; a retired key is a last resort; the readers agree |
| **Lock file** `core/shared_health.py` | one file next to the pool-health file | acquire (create, stat, unlink, spin), release | several processes, crashes, undeletable files, a wall clock that steps | no update is lost; an attempt ends; an orphan is reclaimed |
| **Pool-health file** `core/shared_health.py` | one row `(until, at)` per credential and scope; a cache per process | `record`, `release_all`, `snapshot` with a cache, pruning | writes land late, out of order or never; two clocks; a full document | a release stands; live rows survive; every reader learns |
| **Carousel over the file** `core/carousel.py` | per key own hold and its moment, a cap on what a sibling wrote | `_model_deadline`, `_account_deadline`, `_bounded_shared`, `_combined_until`, writes from `mark` | local memory and file contradict each other; restarts; profiles with different dials | the newest event wins; a sibling's rest is bounded by the reader's own dial |
| **Pacer** `core/pacing.py` | dispatch log, learned limit and not-before per key or quota group | `ready_at`, `stamp`, `on_minute_429`, `sync_identity_settings` | two clocks; key and group scopes | a key with a used-up limit is passed over |
| **Stream race** `transport.py` | legs with a thread each, one queue, the race's decision | backups, raced models, widening, slow bound, hand-over, reading the winner | threads against the caller; chunks of many legs in one queue; failure of a loser | one voice; each failure judged once; no loser reads on; the race ends |
| **Turn loop** `transport.py` `_drive` | the tried keys, what each refused with, the text shown, held tool calls, continuations, the models left | ask a key, read its stream, continue on the next key, wait, move, give back | retries over keys, models and time, with text already on screen | Hermes sees one reply; a pool is called refused only when it was; continuations end |
| **Fallback ladder** `transport.py` | busy windows and their last look, hand-over memos, walk permits | stand-in, plan, claim, hand-over, circle back, going home | several clocks and several conversations decide where one call goes | one look in a while at a busy model; no ping-pong; the reply knows where it began; the first choice is found again |
| **Hedged calls** `transport.py`, `core/hedging.py` | the legs of each call, the queue of losers, a token bucket, a cool-down | `_hedged_create`, `_burst_create`, `_drain_hedge_losers` | a loser finishes after its call is over, and another conversation judges it | every leg has one judge; the best answer is taken; the budget bounds extra requests |
| **Error reading** `transport.py` `_on_failure`, `core/classify.py`, `core/provider_quirks.py`, `core/quota.py` | none: a pure function of one failure | classify, the table of `core/carousel.py`, the corrections, `is_terminal` | four readers in order, each with its own tables, over text that may say two things | a throttle never ends a turn and rests for what it asks; a refusal of one pairing does not condemn the key |
| **Panel requests** `control.py`, `envfile.py`, `settings.py` | one request file, `.env` and its stamp, each process's environment | poll, unlink, apply, save, report, reread | several processes take one request; files that refuse; restarts | what is called saved is saved; every process follows `.env` |
| **Snapshot** `state.py` | one file with a section per process, a copy in each process | merge, replace, keep the copy | two writers, no lock | the copy is the file; news is shown in the end; the dead leave |

Further parts - latency averages, answer stitching, client facades, key
discovery, the ledger, journal and reports, plugin registration, the desktop
panel's presentation, the bridge and provider packages - are listed in `PROJECT.json` with the reason each is modelled or not.

### How they interact

- **One call.** `_drive` asks `select` for a key, sends the request and hands the
  outcome to `mark`. `select` runs under the carousel's lock; between it and
  `mark` anything may happen: other threads' selects and marks, the owner's
  buttons, the dial, the clock. A call is told EXHAUSTED with the key that
  recovers first, and may wait, go to another model, or give up.
- **Carousel and file.** With pool sharing on, every read of a deadline looks at
  the file's cache, and every `mark` writes its events to it. The carousel's
  lock is one process's; the file's lock is all profiles'.
- **Select, pacer and latency.** `select` ranks the healthy keys with both; the
  transport stamps both when a request is answered.
- **Turn loop and ladder.** `_drive` keeps what belongs to one call; before a
  request, after a failure and when every key rests it asks the ladder where to
  go on. What the ladder knows of a model belongs to all conversations.
- **Hedged call.** A request that does not stream may be asked of two keys, or of
  several at once when a pool runs dry. What its race does not use ends later,
  and the next conversation to start a call, or an attempt, judges it.
- **Race.** A streamed reply opens leg threads that put chunks, an end or a
  failure in one queue. The caller's thread decides the race on the first word,
  passes the losers' failures to the carousel, notes slow models in their busy
  window, and reads the winner through the same queue. At the slow bound the
  reply may instead be handed over to Hermes' fallback.
- **Panel.** Its buttons and settings arrive through the control file, taken by
  whichever process looks first, and end in `reset_pool`, `reset_all`, a
  forgotten busy window or a line of `.env`, which the other processes follow;
  what it shows comes from the snapshot.

## 2. Modules

    KeyMemory ----> Carousel -------> MCCarousel         one key's memory, and
                                                         one process's pools
    KeyMemory ----> FailureReading -> MCReadPool         what a failure is read as
    MCCarousel ---------------------> MCReadPool         (the pool it is told to)
    MCReadPool ---------------------> CarouselProofs
    SharedLock ---------------------> ComponentProofs    the lock file
    SharedHealth --> SharedCarousel > MCSharedCarousel   the file, and several
                         +----------> SharedCarouselProofs    carousels over it
    Pacing -------------------------> ComponentProofs    the pacer
    Reply  - - - > TurnLoop --------> MCTurnLoop         one call, and what it
                      +-------------> TurnLoopProofs     promises Hermes
    FallbackLadder -----------------> MCFallbackLadder   which model is asked
                   +----------------> FallbackLadderProofs
    StreamRace ---------------------> MCStreamRace       a streamed reply's race
                   +----------------> StreamRaceProofs
    HedgedCall ---------------------> MCHedgedCall       requests that do not stream
                   +----------------> HedgedCallProofs
    PanelRequests ------------------> PanelProofs        the panel's changes
    SnapshotFile -------------------> ComponentProofs    what the panel shows

An arrow is EXTENDS, a broken one INSTANCE (an abstract specification). The MC
modules only hold the values of constants. A definition whose comment says
"Mutant of X" is a plausible wrong version of X kept beside it; no
specification uses it, it shows that the property guarding X notices.

### KeyMemory: one key

The record `KeyState` and operators on it: `Answered`, `Recent`, `Counted`,
the rest a refusal earns (`_escalate`, with its branch per kind), and what stays
on record (`Held`). Times are whole seconds; a strike counter saturates where
its doubling has reached the cap, which the assumption `KeyMemoryAssumption`
states. A refusal is a record of what `mark` is told: kind, delay, whether
the provider stated it, whether it names a calendar window, whether it speaks
for the account, whether it is a bare overload. `FailureReading` says how a
failure becomes such a record.

### FailureReading: one failure

`Read(f)` is `_on_failure` of the main channel up to its call of `mark`: either
the turn ends and no key is told, or a refusal is handed to the carousel. A
failure `f` is a status, the code its fields carry, the phrases of its text and
the number it gives to wait, with the form of that number (a Retry-After, a
sentence, a dated reset). A phrase stands for a family of patterns of the code's
tables; each table is the set of phrases and codes it matches.

| TLA+ | code |
|---|---|
| `Classified`, `Catalogued`, `Sized` | `core/classify.py`, with the rows of `core/catalog.py` by family |
| `Decision`, `Window`, `NamesAWait` | the sizing cascade of `core/quota.py` |
| `Tabled`, `IsAuthFailure`, `IsTerminal` | the table of `core/carousel.py`, asked when `classify` declines |
| `QuirkRules`, `Reinterpreted`, `NamesMaintenance` | `core/provider_quirks.py`, the first rule that applies |
| `FromVerdict`, `Outranked`, `Corrected`, `Handed`, `Read` | `_on_failure` |

Left out are the rows `provider_rules.py` keeps for single endpoints, class
names other than a timeout's, `quotaId` fields, the words that widen a throttle
to the account, and the weekly and hourly windows, which take the paths of the
monthly and the per-minute one. The module was compared with the code on 28 000
random failures written out as the payloads they stand for, and on 12 000 around
what ends a turn and what takes a denial back: the two differed on 3 of the
first and on none of the second. In all 3 the phrase "invalid free model" is
followed by the name of the next field, and the code's search for words that
widen the throttle runs on across the boundary.

`MCReadPool` feeds the carousel with what `Read` makes of five failures, and
states what must be true of the reading for every payload of a set (section 3).

### Carousel: one process, sharing off

Every public method holds `self._lock` for its whole body, so a call is one
action. `reset_pool` takes the lock three times and is three actions
(`ResetPoolRead`, `ResetPoolForget`, `ResetPoolRestore`) with anything in
between. `MarkAnswered`
and `MarkRefused` are enabled in every state for every key: any number of
requests is in flight, and an outcome may be late.

| TLA+ | code |
|---|---|
| `Select` | `select` with `_mirror` (a key that no call has offered for the grace time is dropped), its trims, the standing keys, the ranking, the stamps on the chosen key |
| `MarkAnswered`, `MarkRefused` | `mark` with `_escalate`: counters, the rest, the hold with its floors, the account's hold, the learned ceiling and window, retirement |
| `Thaw` | `thaw_server_cooled`, called by the transport after a success |
| `Consult` | `healthy_count`, `next_recovery_seconds` and their trim of what they read |
| `ResetPoolRead`, `ResetPoolForget`, `ResetPoolRestore`, `ResetAll` | the owner's buttons |
| `TurnDial`, `Tick`, `StepBack` | `max_hold_s` from `transport.configure`, the wall clock |

`select` also ranks by the pacer and by latency. Both are asked with the wrong
clock and answer the same for every key (see `Pacing`), so the model omits them,
and breaks the remaining tie arbitrarily: what holds here holds for any order
among equals.

History variables: `owed[m][k]` is the end of the longest *firm* rest ruled
since the key's last success, `owedAccount[k]` the same for account-wide
rests. A firm rest is one that a neighbour's success may not thaw: that of any
refusal except a server outage whose end nobody stated. Nothing is owed to a key
that the owner woke, cleared or removed from the list. `TurnDial` and `StepBack`
reduce what is owed to what the dial allows from then on, because the owner's
ceiling outranks a ruling.

### SharedLock: the lock file

One system call per step: create exclusively, stat, unlink, sleep; read the
document, replace it, delete the lock. No clock: what the code reads from one
are differences, so the lock file has an age and each attempt a wait,
both saturating, and a backward clock step lowers both. A process may crash
anywhere, its write may raise, and processes in `Denied` cannot delete
another's lock file. `release` deletes whatever lock file is there, as the code
does. `robbed` and `overstayed` are history.

### SharedHealth: the document and its caches

A landed write is one step (SharedLock is that step in detail) or is lost. An
event reported by `mark` waits in its process's `outbox`; `Land` is
`_write_locked` with the comparison of moments, the rule for releases, the
pruning horizon and `_prune`. `ReleaseAll` is the button. `Read` follows the
cache: the floor between two looks at the mtime, then the mtime.

### SharedCarousel: carousels over the file

Extends SharedHealth with what several carousels do with one key: own hold and
its moment (`local`), the cap taken when a sibling's longer rest is first read
(`caps`), the verdict of one look (`Consult`), what `mark` keeps and writes,
both clear buttons in their two steps (file, then memory), and a restart that
leaves only the file. The length of a rest is an input. `Lag` is how far the
moment read before the carousel's lock lies behind.

### Pacing: two clocks

The pacer with its monotonic stamps and `select` with its wall clock, which is
`WallAhead` further. The pacer's rounding margins, learned limit, owner's
override and group scope are as in the code. Nothing in it is bounded: what is
said of it is proved and needs no run.

### Reply and TurnLoop: one call

`Reply` is the abstract specification: what Hermes may see of one call. Text
grows, a finish closes the answer, a tool call arrives whole and once or as the
half a broken stream left, the call ends once, and giving the turn to somebody
else is for an empty screen.

`TurnLoop` is `_drive`, one action per step of its loop and per thing a request
can do:

| TLA+ | code |
|---|---|
| `Start` | the start of a call: a background job that may not start, a model known busy |
| `StopAtTop`, `AuxLimit`, `Ask` | the top of the loop: the stop, a background job's budget, the request that goes out, raced when it is fresh |
| `Resting`, `Wake` | every key rests: give up, hand over, move, or `_wait_for_recovery` |
| `Text`, `ToolPart`, `Finish`, `StopAtChunk` | the chunks: words, trimmed to what is new when an answer is continued; parts of a tool call, held back until it is whole |
| `Answered`, `Closed` | the stream ended with or without a finish: the answer, an empty one, half a tool call (`HalfCall`), a cut answer (`CutAnswer`) |
| `Fail` | an exception: `HalfCall`, `FailedMidAnswer` (continue), `FailedAtStart` (count the refusal, move, give back), `Raises` (a failure of the request) |
| `Cancel` | Hermes' stop, at any moment |

What other modules decide is a choice here: which kind a refusal is read as,
whether a key is free, which model a move leads to. `proof` (the last refusal of
each key and the model it came from), `why` and `idle` are history. The
refinement is

    Promise == INSTANCE Reply WITH text <- Grown, closed <- finished /\ ~Nothing

`Grown` is what was shown in earlier attempts and in this one. An empty stream's
finish is passed on and the next key is asked, so it does not close the answer.

### FallbackLadder: which model is asked

The user's list is `Order`; the entries on the main model's provider and endpoint
are `Siblings`, to which a call can move in place. All conversations share the
busy windows, the time of the last look (`asked`), the walk permits (KAME's
table, and the one for Hermes' own walks) and which pools are well; each has its
hand-over memo and its call. A step of `_drive` that
reads shared state and one that changes it are two actions (`Start`/`Plan`,
`Decide`/`Claim`/`HandOver`/`Wrap`), because the code decides without a lock and
only a claimed look is made under one. Clocks are kept as time left or gone by,
saturating where the code stops telling apart, so time is unbounded.
`HandOver` and `Surfaced` contain Hermes: it rebuilds the call on a later model
of its own list (`Ahead`), asks the same one again, or gives up. `HandOver` is
KAME's own error, for which KAME's table is written and the hook returns before
it writes the other (`__init__.py:295-309`); `Surfaced` is a failure that is
passed on, for which `note_host_fallback` writes the other. `seen` is history:
times since claimed looks and circles, and whether a conversation's replies lost
their permit (`stayed`).

### HedgedCall: requests that do not stream

A leg is a request; who looks at it is the caller's race (`mine`), the queue of
losers, or nobody. `Threshold`, `Look`, `Deadline` and `NoWinner` are
`_hedged_create` and `_burst_create`, `Drain` is one step of
`_drain_hedge_losers` - other conversations may drain between two - and
`Return` is `_drive` once it has the result. The bucket is counted in parts, so
that a share of a token is exact. `debt` (backups not yet earned back, as the
longest stretch has it) and `passedOver` are history.

### PanelRequests and SnapshotFile: the panel

`PanelRequests` has one heartbeat thread per process: read the request, unlink
it, apply it, save it, report; then look at the stamp of `.env` and read it
again. Every step is one action, and other processes, the panel, an editor and a
crash come between any two. Constants say which files refuse: a control file
that cannot be deleted, an `.env` that cannot be written, one that cannot be
read. `Prompt` is the one assumption on speed: a poll is over before the panel's
next request is read by somebody else.

`SnapshotFile` is the publication of a section: `Merged` into the document read
or the copy kept, `Replace` of the whole file, `Cache` of the copy with the
identity taken before the file was put in place. Nothing is locked. `Record` is
the outcome of a panel request, written at once; `Age` lets a dead process's
section grow too old.

### StreamRace: one streamed reply

A leg is a thread that puts chunks - `quiet` or `word` - and then an end or a
failure in the queue. Triggers, raced models, widening, the slow bound and the
stop may each come at any moment the code's order allows; whether a budget, a
key or a probe claim is free is open. `Heard` handles one item of the queue,
`Decide` ends the race with everything that follows from it: aborted losers,
judged failures, noted windows. `ReadHeld`, `ReadDone` and `ReadNext` are
`_RaceStream`. `out` is what the reader was given, each chunk with its leg, its
place and whether it has words. Items nobody will read are left out of the queue.

## 3. Runs

Distinct states are those TLC finds; every run explores its whole bounded state
space.

| run | instance | shows | distinct states |
|---|---|---|---|
| `carousel_pool` | 2 keys, 1 model, a spent day, a throttle without and with its end, an outage, a dead key, each as it is read, 4 calls, time from 1 to 4, both spread settings | `FirmRestHonoured`, its inductive form `OwedIsHeld`, `DayRestNeedsSilence`; of the reading `ThrottleHonoured`, `PairingSparesTheKey` | 968 417 |
| `carousel_account` | 1 key on 2 models, two dials, one clock step, 3 calls, time to 7 | `OwedIsHeld`, `ReadersAgree`, `RestsEnd` across models of one account | 685 863 |
| `lock_attempts` | 2 writers, one that cannot delete, a crash, a clock step of 1 | `NoLostUpdate`, `AttemptsEnd`, `OrphanReclaimed` | 62 040 |
| `health_file` | 2 writers, 3 slots, a document for 2 rows, 3 events, one clock step | `ReleaseStands`, `LiveRowsSurvive`, `FreshOnNextRead`, `EveryoneLearns` | 399 544 |
| `share_verdicts` | dials 4 and 2, 1 model and the account, 3 events, lag 1, one clock step | `HonouredOnceRead`, `SuccessFreesEveryone`, `HoldsBounded` | 1 514 369 |
| `stream_race` | primary, 1 backup, 1 raced model, widening by 1, 2 chunks a leg, queue of 2 | `OneVoice`, `JudgedOnce`, `FailsOnlyTogether`, `NotedOnce`, `NoLegReadsOn`, `RaceEnds` | 941 552 |
| `turn_loop` | 2 keys, 2 models, all three channels, streamed and not, 4 families of refusal, 1 word, no limit on continuations | `KeepsPromise` (TurnLoop implements Reply), `OneModelAnswers`, `NoEndlessResume`, `RefusalProved` | 2 197 797 |
| `ladder_reply` | 1 conversation, 3 models of which 2 share a provider, windows of 1 and 2, the main model is busy and its keys rest, any model's failure may be passed on | `OriginKept`, `BestModelIsFound` | 106 572 |
| `ladder_shared` | 2 conversations, 2 models on one provider, looks and circles of the main model timed | `LooksSpaced`, `CirclesSpaced` | 1 553 939 |
| `hedged_call` | 2 conversations, 3 legs, bursts of 2, a bucket of 1 that an answer half refills | `OneJudge`, `BestAnswerWins`, `BackupsBounded` | 2 508 103 |
| `panel_requests` | 2 processes, 2 requests, 1 edit by hand, 1 crash, a control file that cannot be deleted and an `.env` whose write fails at times | `ToldTrue`, `EveryoneFollows` | 315 173 |
| `snapshot_file` | 2 processes, 1 recorded outcome | `CacheTrue`, `NewsComesBack`, `GhostsLeave` | 21 376 |

No run checks a type invariant: those of Carousel, SharedLock, SharedHealth,
SharedCarousel, StreamRace, TurnLoop, FallbackLadder and HedgedCall are proved
(section 5), and of the other modules it follows from nothing more than their
actions.

**Why the bounds are enough for what the runs ask.**

- *Carousel.* The unit of time is coarse: the constants keep the order of the
  code's values (base < backoff cap < daily rest, dial below, between and above
  them) at the smallest numbers that keep them apart. Breaking
  `FirmRestHonoured` takes one firm refusal, one act that could shorten it (a
  softer refusal, a neighbour's thaw, a reset, a move of the dial), and one
  select: three calls, four with a warm-up. The clock goes as far as needed for
  every rest to end: to 4 where no rest must end, and past the last possible
  rest (`Horizon` + dial) in `carousel_account`, where `RestsEnd` is checked.
  `carousel_pool` has no symmetry set, because `Position` tells the keys apart.
- *Reading.* Ten statuses, all fourteen families of codes, every text of at most
  two of 43 phrases, no number or one of two in each of three forms. A text of
  two phrases is the least that can contradict itself, and the readers' order
  decides which is believed; the numbers lie on both sides of the window's own
  default. `ServerBase` is above `ThawBase`, so that a thaw of an outage shows.
- *Lock.* Two writers can take turns at every step of each other; spins of 1 to
  2 polls and a stale age of 1 make a lock stale both before and after the
  deadline. The ages saturate, so time itself is unbounded. For more writers,
  and every age, `NoLostUpdate` is proved.
- *Health file.* Three events are the least that show a rest, a later release
  and a rest landing out of order. Three slots against two rows fill the
  document; `PruneAfter` 1 makes rows old within the clock. `MaxTime` lies far
  enough behind `Horizon` for every floor to pass.
- *Shared carousel.* A rest of 3 lies between the strict dial 2 and the patient
  dial 4, so it is bounded for one reader and not for the other.
- *Stream race.* Four legs of every role at once; two chunks show a held and a
  live one; a queue of two lets an item of one leg wait behind an item of another.
- *Turn loop.* Two keys are what "every key" needs to differ from "this key", two
  models what a move needs; the call may go through any number of attempts. Of
  the refusals one of each way through `_on_failure` is kept: counted as a
  timeout and as busy (`gateway`), a verdict on the whole pool (`spent`), the
  two that raise and may go on (`shape`, `prefill`). Keys are symmetric; models
  are not, because one is Hermes' choice.
- *Ladder.* Three models are the least with a sibling to move to, an outsider to
  be handed to and a way down the list; two conversations the least that can
  want one look. Intervals of 1 and a window that can double once keep all
  orders of the clocks, as every clock is compared with a constant only. In
  `ladder_reply` the main model alone is busy or rests, which is what sends a
  reply down the list; in `ladder_shared` both models are busy and nothing is
  passed on to Hermes (`PassedOn`), whose walks `LooksAreSpaced` and
  `CirclesAreSpaced` cover.
- *Hedged call.* Three legs are a race beside a loser, or a burst; a bucket of 1
  is the smallest in which a second backup must be refused. Conversations are
  symmetric.
- *Panel.* Two processes can take one request and each other's; the second
  request, the edit and the crash are what could undo the first. `ToldTrue` is
  proved for any number of each.
- *Snapshot.* Each process has one section; two show every overlap of one's read
  with the other's replacement.

`CHECK_DEADLOCK FALSE` stands in the cfgs whose bounded system stops: the clock
at `MaxTime`, the calls at their bound, a race or a call when it is over, two
stopped processes. The other runs never stop and are checked for deadlock.

Every property also has a mutant: the same run with one definition replaced by
its "Mutant of" form breaks it. So no property holds merely because the model
leaves out what could break it.

## 4. Fairness

| specification | assumed | why the code gives it |
|---|---|---|
| `Carousel!FairSpec` | `WF(Tick)` | time passes; no call has to be made for a rest to end |
| `SharedHealth!FairSpec` | `WF(Tick)`, `WF(Read(p))` | time passes; every select of every turn reads the file |
| `SharedLock!FairSpec` | `WF(Tick)`, per process `WF(Proceed(p))` and `WF(Begin(p, Patience))` | a thread that has begun an attempt is scheduled; outcomes keep coming while Hermes is used, which `OrphanReclaimed` needs: nothing else looks at an orphan |
| `StreamRace!FairSpec` | `WF(RaceStep)`, `WF(some LegStep)` | the caller's thread goes on; each request ends by its provider or by the client's read timeout (in the model by the bound on its chunks) |
| `FallbackLadder!FairSpec` | `SF(Tick)`, per conversation `WF(Step(c))` | time passes, however often some call is about to arrive; a call's thread is scheduled, its request ends, and the user goes on talking |
| `PanelRequests!FairSpec` | per process `WF(Heartbeat(p))` | the heartbeat is a daemon thread that looks once a second |
| `SnapshotFile!FairSpec` | per process `WF(Heartbeat(p))`, `WF(Age(p))`, `SF(Beat(p))`, `SF(Replace(p))` | the heartbeat runs on and time passes; the slow tick comes again and again between the notes of calls; a reader opens the file for moments, so a replacement does not fail for ever |

No fairness is put on backups, raced models, widening, the slow bound, stops,
crashes, lost writes, clock steps, requests of the panel or edits: none of these
has to happen. TurnLoop and HedgedCall are checked for safety only. `_drive` has
no bound on how long it waits for a key when the user set none, so "every call
ends" would rest on keys that come back, which is `RestsEnd`.

## 5. Proofs

Eight modules hold proofs; each EXTENDS the module it is about. They hold for
every value of the constants that the named assumptions allow.

| theorem | of | statement |
|---|---|---|
| `TypeCorrect` | Carousel | `Spec => []TypeOK` |
| `OwedStaysHeld`, `FirmRestsHonoured` | Carousel | `Spec => []OwedIsHeld`, `Spec => []FirmRestHonoured` |
| `TheReadersAgree` | Carousel | `Spec => []ReadersAgree` |
| `ADayNeedsSilence` | Carousel | `Spec => []DayRestNeedsSilence` |
| `ThrottlesEndNoTurn` | FailureReading | a 429 ends the turn only for a model that is not ready and a text that sizes no rest, for any set of phrases and any wait |
| `ThrottlesRestAsAsked` | FailureReading, Carousel | a 429 read as a throttle or outage rests at least as long as it asks, up to the dial and the hard cap |
| `PairingCondemnsNoKey` | FailureReading | words about one pairing, none about the key or a missing model: no kind that retires a key |
| `ReadingIsARefusal` | FailureReading | what `Read` hands to `mark` is in `Refusal` |
| `ThrottlesAreHonoured`, `PairingSparesEveryKey` | MCReadPool | `Spec => []ThrottleHonoured`, `Spec => []PairingSparesTheKey` |
| `LockTypeCorrect`, `NoUpdateIsLost` | SharedLock | `Spec => []TypeOK`, `Spec => []NoLostUpdate` |
| `FileInvariant`, `NoOldRestReturns`, `ReadsAreFresh` | SharedHealth | `Spec => []FileSound`, `[]ReleaseStands`, `[]FreshOnNextRead` |
| `RowsAreKept` | SharedHealth | `Spec => LiveRowsSurvive /\ []WithinCap` |
| `PoolInvariant`, `NoOldRestReturnsToThePool` | SharedCarousel | `PoolSpec => [](FileSound /\ PoolSound)`, `[]ReleaseStands` |
| `RestsAreHonoured`, `ASuccessFreesEveryone`, `NoHoldOutlastsTheDial` | SharedCarousel | `PoolSpec => []HonouredOnceRead`, `[]SuccessFreesEveryone`, `[]HoldsBounded` |
| `RaceTypeCorrect` | StreamRace | `Spec => []Founded` |
| `OneVoiceIsHeard` | StreamRace | `Spec => []OneVoice` |
| `EachFailureJudgedOnce`, `FailureIsUnanimous` | StreamRace | `Spec => []JudgedOnce`, `[]FailsOnlyTogether` |
| `NoWindowTwice`, `SilentAfterTheRace` | StreamRace | `Spec => []NotedOnce`, `Spec => NoLegReadsOn` |
| `PacerNeverRanks` | Pacing | `Spec => []NeverRanks`, while the wall clock runs a window ahead (`Clocks`) |
| `LoopTypeCorrect` | TurnLoop | `Spec => []TypeOK` |
| `ReplyKept` | TurnLoop | `Spec => KeepsPromise`, when nothing fails after its finish (`~LateDrops`) |
| `OneModelGivesIt`, `ContinuationsEnd`, `RefusalIsProved` | TurnLoop | `Spec => OneModelAnswers`, `[]NoEndlessResume`, `[]RefusalProved` |
| `LadderTypeCorrect`, `LooksAreSpaced`, `CirclesAreSpaced` | FallbackLadder | `Spec => []TypeOK`, `[]LooksSpaced`, `[]CirclesSpaced` |
| `OneConversationKnowsItsStart` | FallbackLadder | `Spec => []OriginKept`, for one conversation, whatever model it picks |
| `ConversationsShareTheStart` | FallbackLadder | `Spec => []OriginKept` while `~seen.stayed`, for any conversations that all pick one model |
| `HedgeTypeCorrect`, `EveryLegIsJudgedOnce`, `AnswersAreTaken`, `BudgetHolds` | HedgedCall | `Spec => []TypeOK`, `[]OneJudge`, `[]BestAnswerWins`, `[]BackupsBounded` |
| `ToldIsTrue` | PanelRequests | `Spec => []ToldTrue` |
| `CacheStaysTrue` | SnapshotFile | `Spec => []CacheTrue` |

**Carousel.** `FirmRestHonoured` speaks only of the last offer, so it is not
inductive: a state in which a rest is owed but recorded nowhere satisfies it and
one `Select` breaks it. The strengthening `OwedIsHeld` says where an owed rest
must be on record:

- in the hold, `owed <= sick_until`, which `select` reads;
- in a floor, `owed <= max(non_server_until, stated_server_until)`, at which a
  thaw by a neighbour's success stops;
- below the ceiling, `owed <= clock + max_hold`, so that the trim every reader
  applies cannot cut into it;
- a key with nothing on record is owed nothing; and the same for the account's
  hold, which is read on every model of the account.

`TypeOK /\ OwedIsHeld /\ FirmRestHonoured` is inductive. The proof has one lemma
per action and invariant (`TypeSelect`, `FirmSelect`, `FirmMarkRefused`,
`FirmThaw`, `FirmReset`, ...). They rest on lemmas on the operators:
`RestBounded` (no rest exceeds the dial), `HeldCovers` (a refusal records what
it rules, in the hold and a floor), `TrimmedCovers` (a trim keeps what is owed),
`MirroredCovers` (the pool as `_mirror` leaves it still covers what is owed), and
`HealthyOwesNothing` (a key whose combined deadline is over is owed nothing),
which closes `FirmSelect`. `TypeStep` and `FirmStep` collect the actions.
`KeyMemoryAssumption` also says that a strike counter saturates only where its
doubling has reached the cap. The code's counters do not saturate; this is what
makes the model's rests the code's. TLC evaluates it in every carousel run.

What a caller is told follows from the offer and the pool together. `OfferAgrees`
says it of the state `select` leaves behind: a refused select names a standing
key that is not healthy and recovers no later than any other; a key handed out
is healthy. `LeastNumber` gives `next_recovery_seconds` its minimum.
`Silence` is what `ADayNeedsSilence` rests on: while a pool's silence is timed, no
key has answered since it began.

**FailureReading.** No variable, so no invariant: a failure goes through readers in
order, and each theorem takes it through them. `RuleTable`, `RuleApplied` and
`SomeRuleDecides` say which rule of `core/provider_quirks.py` decides, `Verdicts`
what `classify` can answer. `StatedNumberKept` is the lemma behind
`ThrottlesRestAsAsked`: on a 429 read as a throttle or an outage no rule, table or
correction replaces the number the provider stated. `ReadersSpareTheKey` and `RulesSpareTheKey`
are its counterparts for words about one pairing. The theorems hold for every
set of phrases and every number; the runs, which enumerate, stop at two
phrases. Assumed of a 429 is that its fields and words are not among
`OtherCodes` and `OtherWords`: the failures that are not about keys at all. Of
the others one ends the turn: Bedrock's 429 of a model that is not ready, when
nothing in it sizes a rest, since no other key would make the model ready
(`transport.py:1790-1794`). Assumed of a refused pairing is that it names no word of
`DenialExcluded`, for which the table takes the denial back (finding 18).
`ReadingIsARefusal` joins the two modules: Carousel's theorems hold for every
set of refusals, and what is read is one.

**SharedLock.** `Guarded`: while no live holder was robbed, whoever is inside
created the lock file that stands, what it read is the document as it still is,
and the document is what was committed. The middle part is what a writer that is
about to replace the document needs.

**SharedHealth.** `FileSound` is the types and three facts. `CacheDated`: no cache
bears a later mtime than the file, and one that bears the file's is the file.
`CacheFresh`: while the clock has not stepped back, a cache looked at since the
last change is the file; both are needed because a look skips the file twice, for
the floor and for the mtime. `ReleasesKept`: a row is at least as new as the release
it remembers, which is what makes `ReleaseStands` inductive: a rest is compared
with the row, not with the release. A release is remembered as long as its
row is (see finding 2). `RowsAreKept` needs no moment of a writer to be right: it
uses that the pruning horizon is bounded by the machine's clock, and the count of
a finite document.

**SharedCarousel.** Each of its actions is a step of the file, of one process's
memory, or both (`NextIsFileStep`), so the file's theorems carry over. `PoolSound`
speaks of memory: `HoldsKnown`, a rest read without a cap ends within this
process's dial from its first reading, and a cap belongs to the event first read
and ends within it too; `HoldsPaced`, while the clock has not stepped back no cap
is below that dial, so that a cap cuts nothing the reader would grant. A verdict
is the newer of own hold and file, bounded by the cap, from which the three
properties of a verdict follow.

**StreamRace.** `Trails` is the heart of `OneVoice`: of a leg that can still be
heard, what was given out, what it holds back and what waits in the queue are
together its chunks 1 to `sent`, in that order. Deciding, handing over and
reading only move the two borders. Before the decision all that was given out is
the primary's and without words; from it on only the winner's is added, which is
how the chunks of one leg come after those of the other and never between.
`Whole` closes it: at the end nothing waits.
`Quiet` relates threads to endings (an end in the queue or noted has no thread
left) and gives `NoLegReadsOn`; `Verdicts` says that nothing is judged while the
race is open, so that one decision judges all; `Notes`, that two legs never race
the same model away from home, and that before the decision only the slow bound
has noted anything.

**Pacing.** No stamp lies ahead of the monotonic clock and no not-before more than
a window ahead (`Past`); the wall clock is further ahead still, so `ready_at`
forgets every stamp it is asked about and no key is told to wait.

**TurnLoop.** Besides the types (`Typed`): `Steady` says what Hermes has at each
place of the loop - between attempts nothing of an attempt, no tool call and no
finish; within one a whole call only behind its finish; without streaming nothing
at all. `EachOnce` bounds the continuations since the text last grew by the keys
marked as adding nothing. `Proven` says that a verdict counted for a key is
the last refusal of that key, on the model the call is on. `ReplyKept` maps the
initial states to `Reply`'s and every step to one of `Say`, `Close`, `End` or a
stutter.

**FallbackLadder.** `Spaced`: the time since the last claim of a look at a model
(`asked`, which is what the lock guards) is never more than the time since the
last look, nor than the time since any circle of a call to it; so a claim that
finds `asked` due finds the look due. A circle may also go to a model that is not
busy and has not been left. `Walked` covers that: within `ProbeEvery` of a circle
the model is the one the call is on, or one it has left, and a left one needs
`asked`.

`OriginKept` is about a conversation's call and the two tables of permits that
all share. `Rooted`: the call knows its start, or arrives on a model that a
live permit of some table covers. `Permitted`: every live permit, in either
table, names that start; this is what makes it indifferent which table is asked
first. `MainFree`: none is for the main model, to which no walk goes. `Blank`:
a call that is not under way knows no start. `WalkTells` says that what a
hand-over or `note_host_fallback` writes names the start, and covers each model
Hermes may go on to; a model whose live permit is kept has one that names it
already. Together they are inductive while no conversation has lost its permit
(`~seen.stayed`). For one conversation that is enough, whatever it picks: a
reply that lost it makes no claim, and its next reply is one only once nothing
that was written misleads. For several it has to be assumed of all of them, and
that all start on one model: finding 12 shows that neither can be dropped.

**HedgedCall.** `Mine` says what each place of a conversation holds (one leg, a
race, the answer), `InQueue` where a leg that was let go is, `Best` what the
legs passed over were; together with the types they give `OneJudge` and
`BestAnswerWins`. `Balanced` says that the debt and the tokens left add up to no
more than a full bucket, an unspent share included; a penalty only lowers the
tokens.

**PanelRequests.** `Orderly`: one number is one request, the panel waits for its
newest, once somebody has taken that one nobody holds an older one, and when it
is reported saved its value is in `.env`. It uses `Prompt`; without it `ToldTrue` fails (section 6).

**SnapshotFile.** `Coherent`: a file that bears a process's stamp is the document
that process wrote last, and is either still to be copied or is the copy.

## 6. Findings

Where the code and its own text disagree. None is stated by a run, since every
run states what holds; each can be reproduced in the model named.

1. **Two writers inside the lock** (SharedLock, `core/shared_health.py:444`).
   A lock file that vanished between the failed create and the stat is given an
   age past the stale time; instead of looking again (442-443), the code unlinks
   whatever lock file is there by then, a third attempt's fresh one. Hence
   `NoLostUpdate` speaks only of runs in which nobody was robbed.
2. **A late release rewinds its row** (SharedHealth, `:770`). A release is
   written whatever its moment and puts its older moment in the row; a rest
   older than an event that had landed is accepted next (756-757). A release is
   also forgotten with its row: when `_prune` (373-413) drops the row, a rest
   older than the release, still waiting in an outbox, is accepted. So
   `ReleaseStands` speaks of the release a row remembers.
3. **A released hold comes back** (SharedCarousel, `core/carousel.py:2050`).
   `mark` takes the maximum with this process's own hold, also when the file's
   newer release had outranked it (`core/shared_health.py:18-20`). A short
   refusal brings the long hold back and writes it for everyone.
4. **Pacing never ranks a key** (Pacing, `core/carousel.py:1793`). `select` asks
   with `time.time()`, the stamps are `time.monotonic()` (`core/pacing.py:15-17`);
   every stamp has left the window, as `PacerNeverRanks` proves. The latency
   tracker is asked the same way.
5. **A failure is dropped at the hand-over** (StreamRace, `transport.py:4013`,
   3844). A leg that failed before the slow bound is judged on no key; its key
   stays healthy. `JudgedOnce` speaks of races that are decided.
6. **A probe doubles its window twice** (StreamRace, `transport.py:4143`,
   3750-3751, 3872). The busy model asked again is noted when its failure is
   drained and once more as a loser. `NotedOnce` leaves the probe out.
7. **An `.env` that cannot be read clears every setting** (PanelRequests with
   `Readable = FALSE`, `settings.py:811-824`). `envfile.py:176-178` promises that
   a refresh which cannot see the file changes nothing; `read_kame` returns no
   lines and `reread_environment` takes every KAME variable away. The stamp is
   already noted, so they stay away until the next edit: `EveryoneFollows` fails.
8. **A finish is not the end** (TurnLoop with `LateDrops = TRUE`). A connection
   that breaks after its finish reason is treated as a cut answer, and the
   finished answer is continued: `KeepsPromise` fails.
9. **A request overtaken by an older one** (PanelRequests without `Prompt`). A
   process that stalls for more than a second between taking a request and saving
   it writes over a newer one that the panel has called saved.
10. **A change between load and first stamp** (PanelRequests). An edit after a
    starting process has loaded `.env` and before its heartbeat notes the stamp is
    missed until the next edit (`__init__.py:681-698`).
11. **A look without a claim** (FallbackLadder, `transport.py:4739-4743`). Going
    home after a refusal of the request's shape, and a call's own start, reach a
    busy model without the claim the comment speaks of. `LooksSpaced` is about
    claimed looks.
12. **A reply forgets its start** (FallbackLadder). A call on a model of a walk
    that lasts longer than the permit's 90 s and then fails is on nobody's walk
    any more: when Hermes asks it again, or walks on by itself, the model counts
    as a start of its own. "A permit that is still
    live is never rewritten: the first writer knows the true origin"
    (`transport.py:850-851`), but here the first writer is wrong, and what it
    wrote stands for the replies that come next. KAME's own hand-over (5428-5429)
    does write over live permits. Then a conversation on the main model is told
    the wrong start. `OriginKept` leaves out such a reply, and those that start
    while what it wrote is live (`seen.stayed`). Even where no permit is
    outlived, two conversations that start on different models do this: a fresh
    reply on a model that another's live permit names is taken for that walk.
    `ladder_reply` and the two theorems state where the start is kept.
13. **A backup paid for and not sent** (HedgedCall, `transport.py:3620-3626`).
    The token is taken before a free key is looked for.
14. **A leg nobody judges** (HedgedCall, `transport.py:3576-3594`). A backup
    still out when the deadline passes is left without a judge.
15. **"Every key was asked"** (TurnLoop, `transport.py:2975`, 3249). The texts say
    so when the keys that were not resting were asked.

16. **A dead key on a 400** (FailureReading, `core/carousel.py:1072-1075`).
    `is_terminal` reads "auth first (a bad key is not a bad request)", from its
    own tables. A 400 or 404 whose words only `classify` knows - "account
    suspended", a denied model, a throttle's bare sentence - was
    read as a refusal of the key or the pairing, and ends the turn all the same
    (`transport.py:1991` protects billing alone). `ThrottleHonoured` is about 429s.
17. **Prose where structure is promised** (FailureReading,
    `core/classify.py:1065-1067`). Of a 400 whose type says nothing more:
    "Retirement requires structured evidence ... never prose alone". `classify`
    declines such a payload, and then the table of `core/carousel.py` searches
    the same text for an invalid key's words and reads it as revoked.
18. **A missing model held against the key** (FailureReading,
    `core/carousel.py:1211-1213`). A denial is taken back when the text also says
    that the model was not found, since "a missing model is about the request"
    (590-593). On a 401 filed under a field such as `invalid_request_error`, which
    `classify` declines, what is left is the status: a bare auth failure, which
    counts towards retiring the key. `PairingSparesTheKey` leaves such texts out.

Seen while modelling, where no text of the repository promises otherwise:

- After a backward clock step a process does not look at the file until its
  clock has caught up with its last look (delayed, as `EveryoneLearns` shows).
- Two profiles shorten each other's rests, since the newest event wins.
- A key in a quota group never learns a limit: the refusal is reported under the
  key and the log kept under the group. An override removed in the panel stays
  until a restart.
- A loser's failure still in the queue when another leg wins is skipped.
- Both legs of a hedged call refill the bucket, so a share `p` allows up to
  `p/(1-p)` of extra requests; a burst leaves out only the first key's group.
- Settings applied but not saved go with the next change of `.env`; with a control
  file that cannot be deleted a restarted process carries out the old request
  again; the panel only reads the section on screen, so a request another
  process took is reported as not picked up; a second request written between
  read and unlink is deleted unread.
- A 403 with a spent day's words and a Retry-After of 29 s rests the daily
  default of 3600 s, marked as stated by the provider; likewise a throttle of
  AWS on a 400 with Retry-After 60 rests 30 s, since the guard that lets a stated
  number outrank a rule (`transport.py:1940`) is for 429s. `stated` says that a
  number was found, not that it is the one handed on.
- The kinds "other" and "timeout" do not read a Retry-After.
- A 429 of type `invalid_request_error` with no number is read as a throttle with
  a rationale that speaks of a malformed request.
- With a wait limit, text on screen and no failure yet, the call ends as a
  connection error (`transport.py:2618-2622`).
- `_wrap_target` allows a call one return at once to a model that is not busy.

## 7. Limits

**Only model-checked.** Liveness: `RestsEnd`, `EveryoneLearns`, `AttemptsEnd`,
`OrphanReclaimed`, `RaceEnds`, `BestModelIsFound`, `EveryoneFollows`,
`NewsComesBack`, `GhostsLeave`. It is outside what TLAPS's backends decide, as are
ENABLED and induction over data. Every other property of a run is stated by a
theorem of section 5. Of these `OriginKept` alone is proved for conversations
that start on one model and not for all, because it does not hold for all. No module uses a
RECURSIVE operator.

**Abstractions to keep in mind.**

- All processes share one wall clock, which may step back. Skew between machines
  does not arise, as the file is local.
- `mark`'s moment is read at its start; in Carousel marks are instantaneous,
  in SharedCarousel `Lag` lets them be late.
- A landed write always changes the mtime; a file system with a coarser one is
  not modelled, nor is a damaged document (the code starts from an empty one).
- StreamRace has no times: it also allows orders that the configured delays make
  unlikely. Its safety properties therefore hold for any delays.
- A queue is bounded by `MaxQueue` in the model and unbounded in the code; a
  leg's put waits in the model where it would succeed in the code, which removes
  no order in which the caller can receive items from different legs beyond
  those with more than two waiting.
- In TurnLoop a race is its outcome: the leg that spoke, and the keys of the legs
  that were refused beside it. In FallbackLadder a request is its outcome.
- HedgedCall has one model; Faster's bucket is another instance of the same.
- One setting stands for all in PanelRequests, "idle" and "busy" for a section in
  SnapshotFile.

- FailureReading knows families of phrases, not patterns: how a pattern matches
  is left out. The runs leave out a text of three phrases, the theorems do not.

**Not modelled.** The rows for single endpoints in `provider_rules.py`, the
texts of `region.py` and `host_text.py`, answer stitching, wire adapters, key
discovery, the meaning of settings, journal and reports, the panel's
presentation and the bridge packages are parsing, formatting or I/O with no
protocol state; `PROJECT.json` gives the reason for each.

## 8. Plan

1. Of the reading of errors, the rows for single endpoints, `quotaId` fields and
   the weekly and hourly windows; the secondary channel's reading.
2. An abstract document, written in one step or not at all, with SharedLock
   shown to implement it while nobody is robbed; the cached document of
   SnapshotFile likewise.
3. The part of `OriginKept` that is open: any conversations with starts of their
   own whose walks share no model.
4. A bounded check of the answer stitcher against a reference definition.
