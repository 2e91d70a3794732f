# Efawin in TLA+

Efawin is a user-space verbs library for the Elastic Fabric Adapter on Windows.
An application loads `efawin.dll` through a small loader, creates queue pairs
(QPs) and completion queues (CQs) with `ibv_...` calls, posts requests straight
into rings the device reads, and polls completions straight out of rings the
device writes. The library has no threads of its own and no tests; what makes it
hard is that the application's threads, the device and the poller share these
rings with no more than a spin lock per queue and a phase bit per entry, that
every object is a struct here and an object in the driver there, either of which
may fail to come or to go, and that a mistake shows long after it is made.

This directory holds TLA+ models of the library, from its loader to its rings,
TLC configurations that check them on small instances, and proofs, checked by
TLAPS, of what they promise whatever the sizes and numbers are. Source lines are given as
`file:line` of this repository (below `src/`); `PROJECT.json` maps every
definition to the lines it stands for.

Run from this directory:

    tlc -workers 2 -config MCEfawin.cfg MCEfawin.tla
    tlapm EfaWridPoolProofs.tla     # and EfaRingProofs, EfaSendQueueProofs,
                                    # EfaSendQueueSteps, EfaRecvQueueProofs,
                                    # EfaCompletionProofs,
                                    # EfaQpLifecycleProofs, EfawinProofs

## The system

| Part | Source | State | Operations | Modelled in |
|---|---|---|---|---|
| Work queue (`struct efa_wq`) | `efawin/verbs.c:247-270, 779-818, 953-964, 1384-1393, 1763-1771`, `include/efa.h:95-116` | `wrid[]`, `wrid_idx_pool[]`, `wrid_idx_pool_next`, `wqe_posted`, `wqe_completed`, `pc`, `phase` | take an index, give one back, advance, roll back, restart | `EfaWq`, `EfaWridPool` |
| Send queue (`struct efa_sq`) | `efawin/verbs.c:1384-1865` | ring, doorbell, `local_queue`, `num_wqe_pending`, `phase_rb`, `wr_session_err`, `wqlock` | `efa_post_send`, `wr_start`/`wr_...`/`wr_complete`/`wr_abort` | `EfaSendQueue` |
| Contents of requests and completions | `efawin/verbs.c:317-414, 523-631, 1318-1760`, `include/efa_io_defs.h` | none (a descriptor in, a descriptor out) | the descriptor builders of both posting APIs, `wc` and `read_...` | `EfaWorkRequest` |
| Receive queue (`struct efa_rq`) | `efawin/verbs.c:1867-1947` | ring of scatter entries, doorbell | `efa_post_recv` | `EfaRecvQueue` |
| Completion queue (`struct efa_cq`) | `efawin/verbs.c:272-521, 634-763` | sub CQs (`consumed_cnt`, `phase`, `ref_cnt`), `next_poll_idx`, `cur_wq`, `cur_cqe`, `lock` | `efa_poll_cq`, `efa_start_poll`, `efa_next_poll`, `efa_end_poll` | `EfaCompletion` |
| QP lifecycle | `efawin/verbs.c:755-763, 966-1172, 1260-1316` | `qp_table`, its lock, `state`, `ref_cnt` | create, modify, destroy | `EfaQpLifecycle` (with threads), `QpDirectory` (its promise), `EfaControl` (with failures); RESET and ERR of the queues in the queue modules |
| QP and CQ sizes and limits | `efawin/verbs.c:883-892, 966-986, 1017-1082`, `util/util.h:90` | none (arithmetic) | `efa_setup_qp`, `efa_check_qp_...`, `roundup_pow_of_two` | `EfaSizing` |
| Device attributes | `efawin/efa_win_cmd.c`, `efawin/verbs.c:60-245` | the cached answer of the driver, its copy in the context | the `query` calls | `EfaAttributes` |
| Device, context, PD, MR, AH, CQ and the command layer | `efawin/efa.c`, `efawin/verbs.c`, `efawin/ibv_win_cmd.c` | structs, locks, driver objects, `qp_table` | list, open, close, allocate, register, create, destroy | `EfaControl` |
| Driver calls | `efawin/efawinif.c` | device handle | `DeviceIoControl` | what the driver has, in `EfaControl` |
| Exported functions | `efawin/efawin.c` | none | forwarders | `Efawin` |
| Loader | `interface/efawin.c` | function table, library handle | load, free, call | `EfawinLoader` |
| Barriers, shims, headers | `util/`, `include/pthread.h`, `interface/infiniband/` | none | | not modelled |

How they interact. A call of the application goes through the table of the
loader to an exported function, from there to a verb, and, for anything but
posting and polling, through the command layer to the driver. An application
thread posts to a work queue holding its `wqlock`; the device fetches descriptors
up to the doorbell, works for them in parallel and writes completions, in any
order, to the sub CQ of the queue; a poller holding the CQ's `lock` consumes an
entry, looks its QP up in `qp_table`, reads `wrid[req_id]` of the queue *without*
`wqlock`, and gives the index back under `wqlock`, at once in `efa_poll_cq` and in
a later call in a poll session. `efa_destroy_qp` removes the QP from the table
holding the locks of the table and of both CQs, and frees it after that.

What is hard, and what would make it correct:

* index pool: out of order completions permute the pool, sessions roll it back,
  counters wrap. No index is given out twice or lost, and a held index keeps its
  `wr_id`.
* send queue: two ways of posting, a lock held across the calls of a session,
  chunks cut by the ring's end and the doorbell batch, errors in the middle of a
  list or session. Nothing is lost, duplicated, reordered, announced too early
  or never announced, and a session is all or nothing.
* contents: the same request can be made in two APIs and with setters in any
  order, each with checks of its own. It becomes the same descriptor or is
  refused by both.
* receive queue: requests are counted but descriptors are written, and a request
  may straddle the ring's end. The ring is never overrun, a refused request leaves
  nothing behind, and those before it are announced.
* completion queue: one phase bit, an entry in use after it was consumed, CQEs of
  QPs that are gone, several sub CQs. Each completion is seen once, its index
  goes back once and to the right queue, and no sub CQ starves.
* QP lifecycle: the table is read without its lock, queues are freed while other
  QPs' completions are polled, two QPs may have the same two CQs in crossed roles.
  Nothing is used after it was freed, a QP can be found as long as the
  application has it, and no call waits for ever.
* objects: a call has up to a dozen steps and each can fail. What a failed call
  took is given back, what it did not make is not used, and the driver has
  exactly the objects the application has.
* sizes and attributes: 16-bit and 32-bit fields, rounding up, limits that are 0
  until somebody asks. Queues fit the rings the driver is told of, and what the
  application is told stays true.
* loader: a table of functions and a handle. Either everything is a dummy or
  everything is the library.

The `hazards` of `PROJECT.json` list all of it line by line, with the properties
that cover each or the reason none does.

## The modules

    EfaWq  <--EXTENDS--  EfaWridPool
      ^                      ^
      |                      |  implements (ImplementsPool)
      +---- EfaSendQueue ----+---- implements (ImplementsWorkQueue) --> WorkQueue
      +---- EfaRecvQueue ----+---- implements (ImplementsWorkQueue) --> WorkQueue
      +---- EfaCompletion

    EfaQpLifecycle -- implements (ImplementsDirectory) --> QpDirectory

    EfaSizing  <--  EfaAttributes  <--  EfaControl  <--+
        ^                                              |
        +---------  EfaWorkRequest  <------------------+--  Efawin
                    EfawinLoader    <------------------+   (EXTENDS)

and the proofs, each module extending what it is about:

    EfaWridPoolProofs      (EfaWridPool)
    EfaRingProofs          (EfaWq)
    EfaSendQueueProofs     (EfaSendQueue, EfaRingProofs; an instance of
       ^                    EfaWridPoolProofs for the queue's own pool)
    EfaSendQueueSteps
    EfaRecvQueueProofs     (EfaRecvQueue, EfaRingProofs; an instance of
                            EfaWridPoolProofs for the queue's own pool)
    EfaCompletionProofs    (EfaCompletion; an instance of EfaRingProofs for
                            the ring of a sub CQ)
    EfaQpLifecycleProofs   (EfaQpLifecycle)
    EfawinProofs           (Efawin)

**EfaWq** is `struct efa_wq` as two records, the pool (`wrid`, `pool`, `next`,
`posted`, `completed`) and the ring position (`pc`, `phase`), and the functions
on it as operators. `U32` and `U16` are the widths of the code's counters, so
that wrapping happens in small instances. `wq->phase` is an `int` that only
grows; its lowest bit is all that reaches a descriptor (`EFA_SET` of a one-bit
field), so it is kept modulo 2.

**EfaWridPool** is the protocol every user of `struct efa_wq` follows: posts, a
session whose requests are built, committed in chunks or rolled back, indexes
that come back in any order, RESET of a drained queue. Its ghosts `owner` and
`building` say which request holds each index.

**WorkQueue** is the abstract promise of a work queue: requests are taken up in
the order posted, finish in any order, and each is reported once, by its name.

**EfaSendQueue** is the send queue with its threads. Each call is cut where other
actors can see a difference: taking the lock, each request of a list, each chunk
of a session, the last doorbell with the unlock, and the `return` after it. The
device's fetching and completing are modelled from how the code uses them
(external). A request is named by its `wr_id`; the descriptor in the ring carries
the index the code chose and, as a ghost, the request it was made for, so that
`wrid[req_id]` can be compared with the truth. The payload is in
`EfaWorkRequest`: of the `wr_set_...` calls only that they can fail the session
remains here (`SessionError`). `state` keeps RESET and RTS: what the posting code
tells apart.

**EfaRecvQueue** is the receive queue: a list posted request by request under the
lock, a descriptor per scatter entry of which only the first carries the index,
a doorbell at the end of every list, accepted or not. `rq_desc_cnt` is `DescCnt`,
and `RqAssumption` gives `WqeCnt` as `efa_setup_qp` computes it, from a
`rq_desc_cnt` that fits its 16 bits. The loop that steps `pc` and `phase` once for each
entry is `AdvanceBy`, in closed form; `AdvanceByIsSteps` proves it the same. The ghosts of a
descriptor say which entry of which request it was written for. `ModifyErr` may
come in the middle of a list, since `efa_modify_qp` takes no lock. A request with
`num_sge` 0, which takes an index and writes no descriptor, is left out.

**EfaCompletion** is the CQ: sub CQs with phase bits, polling calls turn by turn of
the loop in `efa_poll_sub_cqs`, the session calls with the state they share
(`cur_cqe`, `cur_wq`), and the part of `efa_destroy_qp` under the locks. Because
the CQ's lock is held from the beginning of a poll (or poll session) to its end,
one variable `call` says what the holder is doing. The application sizes its CQ
for its queues (`CqAssumption`): an overrun CQ is outside the library's contract. Its
depth is a power of two the 16-bit `consumed_cnt` can tell laps of, since `cq_depth`
has 16 bits in the driver's struct.
Posting and the put are one step each here; `EfaSendQueue` has their parts. The
variable `app` is the kind of application, chosen once: whether it polls in
sessions too, and whether it drains a QP before it destroys it.

**EfaQpLifecycle** is what goes on between threads that create, destroy and poll:
`create_qp` and `efa_destroy_qp` cut where they take a lock, where they leave the
last one and at their driver calls, a poll cut between looking a QP up and using
it. The locks are the table's and those of the CQs, in the order the code takes
them. `mem[p]` says what of a QP is allocated, `driver[p]` what the driver has;
both calls also go their error paths (no memory for a queue, the driver refuses
to destroy). `NumsDrained` is what the driver is trusted with: a slot of
`qp_table` comes back only once the completions of its last owner have been read.

**QpDirectory** is the abstract promise of the table: a QP is listed with its
queues in place, taken out while nobody uses it, and freed after that.

**EfaSizing** is the arithmetic of `create_qp` and `create_cq` with the widths of
its C types (`W16`, `W32` bits), and the tests that refuse a request.

**EfaAttributes** is the way of the device's answer: cached when the device is
opened, copied in parts to the context by opening and by `ibv_query_device`, told
to the application from either.

**EfaControl** is every call that makes or ends an object, as one action with a
parameter for what fails in it. `blocks` has each piece of memory and each
initialised lock (so that a leak and a double free both show), `fields` what the
structs hold, `driver` what the driver has with the numbers it was told, `fault`
the call that broke the process, if one did. Concurrency is left to
`EfaQpLifecycle`: here calls follow each other.

**EfaWorkRequest** has the descriptor `efa_post_send` builds, the one a session
builds call by call, the work completion of `efa_poll_cq` and the answers of the
`read_...` functions, as operators to be compared.

**EfawinLoader** is the loader: loading with each way to fail, freeing, and what
a forwarder finds in the table.

**Efawin** composes the last four: every call of `EfaControl` goes through the
loader's table. Its reference definitions (`Counterpart`, `SameDescriptor`) relate
the application's objects to the driver's, and one API to the other.

The `MC...` modules only hold symmetry sets, the values of structured constants,
and two `VIEW`s. What the `...Proofs` and `...Steps` modules prove is told below.

The lines that begin `\* mutant:` introduce deliberately wrong variants of the
definition that follows. No specification uses them; substituting one for the
definition shows that a property notices (the list is in `PROJECT.json`).

## What is checked

| Run | Question | Bounds | Properties |
|---|---|---|---|
| `wrid_pool` | does the pool keep its invariant, whether counters wrap or not? | 3 indexes, counters modulo 4, 4 requests | `TypeOK`, `PoolInv`, `NextIsFree`, `NoIndexLost`, `HeldWridStable` |
| `send_queue` | poster, session, device, poller and RESET race | 2 slots, counters modulo 4, 3 requests, 1 thread that posts and 2 with sessions, batch 1 | `TypeOK`, `CompletionNamesItsRequest`, `NoSharedIndex`, `SessionsAtomic`, `ImplementsWorkQueue`, `ImplementsPool` |
| `send_queue_batch` | chunks against ring end and doorbell batch | 3 slots, counters modulo 6, batch 2, sessions | `DoorbellExact`, `DoorbellBatch`, `PhaseTellsLaps`, `SessionsAtomic`, `ImplementsWorkQueue` |
| `send_queue_live` | does every request finish? | 2 slots, 2 requests, batch 2, `FairSpec` | `EveryRequestFinishes` |
| `recv_queue` | lists of requests of several entries, refusals, ERR and RESET | 2 indexes, ring of 4, 1 to 3 entries a request with `max_sge` 2, 2 threads, 3 requests | `TypeOK`, `ScatterListsWhole`, `DoorbellExact`, `CompletionNamesItsRequest`, `ImplementsWorkQueue`, `ImplementsPool` |
| `reset_outstanding` | RESET with a request outstanding | 2 slots, 3 requests | `NeverOverlap` (violated) |
| `completion` | both polling APIs with QPs destroyed when drained; `efa_poll_cq` alone with QPs destroyed with completions left | 2 queues of 2 entries, one sub CQ of 4, counters modulo 4 and 8, 4 requests | `TypeOK`, `IndexReturnedOnce`, `WridAwaitsCompletion`, `PhaseShowsPending` |
| `completion_live` | does the round robin starve a sub CQ? | 2 sub CQs, 2 queues of 1 entry, 1 completion a call, `FairSpec` | `EveryCompletionSeen` |
| `orphan_session` | a session meets a completion of a destroyed QP | as `completion` | `IndexReturnedOnce` (violated) |
| `qp_lifecycle` | threads create, destroy and poll; the driver may refuse | 2 threads, 2 CQs of 1 completion, 2 QPs with them in crossed roles and 1 with a single CQ, 2 slots, `FairSpec` | `TypeOK`, `NoUseAfterFree`, `HeldQpIsPolled`, `ImplementsDirectory`, `EveryCallReturns` |
| `stale_completion` | a slot comes back while completions of its last owner are unread | the same, `NumsDrained` FALSE | `NoUseAfterFree` (violated) |
| `control` | loader, objects, attributes and driver with a failure in any step of any call; both APIs | 4-bit and 5-bit words, 1 PD, MR, AH and QP, 2 CQs, 2 driver numbers, 3 CQ sizes, 12 requests for a QP, 3 libraries to load | `TypeOK`, `HeldObjectsWork`, `AnswersHold`, `NothingForgotten`, `RingsFit`, `EitherWayTheSame`, `TableIsWhole` |

Why the bounds are enough. Two requests outstanding at once are what it takes to
complete out of order and to permute the pool; a third request (or a fourth with
three indexes) reuses an index while another is still held. Counters wrap after
four or six posts, so every run goes round them and, since rings have two to four
slots, sees both phases of every slot. Three slots with batches of two put the
chunk boundary before, at and after the ring's end. In `recv_queue` requests of
one and of two entries follow each other in every order, so that one of two
entries also straddles the ring's end, and one of three is refused. In
`completion` the sub CQ has exactly as many entries as the two queues together,
the size at which a prematurely returned index would let the device overwrite an
entry in use, and four requests to fill it. In `qp_lifecycle` a circle of waiting needs
two threads and two locks, and a third QP reuses the slot and counts in a CQ of the other two twice.
In `control` a `uint16_t` has 4 bits and a `uint32_t` 5: 16 is the first size that
does not fit the one and the last that can be rounded in the other, and CQs of 1,
16 and 20 entries and receive rings of 16, of 18 and of fewer lie on, beyond and below
it; there are two driver numbers, and one object of a kind at a time can be
refused, kept by the driver and followed by another of a new number, until the
driver has none left. One QP leaves no other to confuse it with in the table: two
at once are in `qp_lifecycle`. The requests and completions compared in
`EitherWayTheSame` are listed in `MCEfawin`: none to three buffers, none to four
bytes where three fit, inline or not, and an `lkey` too wide for its field.

The runs where any order of names is as good as another use symmetry over the
`wr_id`s; liveness runs use none. The `VIEW`s of `completion` and of `recv_queue`
forget values no later step reads (the comments in `MCEfaCompletion` and
`MCEfaRecvQueue` say which). No run disables the deadlock check: from every state
some call can be made, and a process that broke stutters (`Ended`).

`MaxBatchWr` of `EfaSendQueue` is a parameter because the code takes it from the
device. In this repository the Windows command layer reports no batch
(`ibv_win_cmd.c:43-49`, so `UINT16_MAX`) until `ibv_query_device` sets
`max_tx_batch` to 1 (`efa_win_cmd.c:236`); both a batch of one and larger ones are
checked.

Some calls break the process in the code, and so they do in the model (`Breaks`, with
`fault` naming the call); nothing happens after them. They are: any call with what a
failed `ibv_open_device` returned; `ibv_create_cq` writing to the CQ it did not get; an
AH freed twice when the driver refuses it; a division by a `max_recv_sge` of 0; a rounding
of a CQ or a QP too deep for it, which never ends; a second `ibv_destroy_qp` or
`ibv_destroy_cq` after the driver refused the first, which deletes the locks, and frees the
queues, again (`RetryDestroy`); and a call through the table after the library was freed
and not loaded again. No property excludes them: two are against what the repository says
(see the end of the violated runs), and about the others it says nothing a property could
be measured by. `HeldObjectsWork` says what remains: every object the application holds
can be used and released, whatever failed before.

### Fairness

`EfaSendQueue!FairSpec`: the device goes on fetching and completing (weak fairness
per request); a poller goes on polling and, since a spin lock (a
`CRITICAL_SECTION`) is not fair, gets `wqlock` only under strong fairness; a thread
inside `efa_post_send` reaches its end, and an application completes or aborts the
sessions it starts. Nobody is assumed to post. `EfaCompletion!FairSpec`: the
application polls again and again, as one thread, which is what holding the CQ's
lock makes of any number of pollers. The device is not assumed to do anything.
`EfaQpLifecycle!FairSpec`: a thread inside a call goes on, and one that waits for a
lock released again and again gets it in the end (strong fairness); a poll ends,
since `efa_poll_cq` stops at its `nwc` completions and an application ends its
sessions. Nobody is assumed to begin a call, and the device may do nothing.

### What the violated runs show

* `reset_outstanding`: `efa_modify_qp` to RESET sets `wrid_idx_pool_next` to 0
  (`verbs.c:953-964`) without restoring the pool's contents. If a request was
  outstanding, the pool holds an index twice, and two later requests get it:
  the comment "Will never overlap" (`verbs.c:256`) fails. Drained first, it holds.
* `orphan_session`: `efa_next_poll` that meets a completion of a destroyed QP
  returns `EINVAL` with `cur_cqe` set (`verbs.c:417-425`); `efa_end_poll` then puts
  that entry's index into the pool of the queue of the previous completion.
* `stale_completion`: a poller reads `qp_table` without its lock because, says the
  comment at `verbs.c:419-421`, "CQs will be locked while QPs are removed from the
  table". Those are the CQs of the QP that is removed. When a completion of a
  destroyed QP is unread and its slot has gone to a QP with other CQs, the poller
  finds that QP holding neither of its locks, and uses it while it is freed. When
  slots come back only drained (`qp_lifecycle`), the comment is right.

Three more places where a comment and the code differ can be seen in the steps of
`control` and have no run of their own:

* the dummy functions "let us fail calls gracefully in the event that we are unable to
  load the functions" (`interface/efawin.c:40-43`), but `efa_free_efawin_lib`
  (`interface/efawin.c:249-255`) leaves the table pointing into the library it frees: when
  the next `efa_load_efawin_lib` does not find it, calls go there (`CallNowhere`).
  `TableIsWhole` does not exclude that;
* the repository's `README.md:35` says that the library "will return a failure" with an
  incompatible driver; `ibv_open_device` (`efawin/efawin.c:121`) returns the address of a
  member of the context at NULL, which is not NULL (`OpenDevice`, `UseNullMember`);
* the query "merely reads the cached values" (`efa_win_cmd.c:202-204`), and writes the 0
  that ends the firmware version over the low byte of the cached version of the device
  (line 209, `CutVersion`). `AnswersHold` says that nothing else of the cache is lost.

## What is proved

TLAPS checks 38 theorems about the specifications, each for every value of the
constants that the named assumptions of the modules allow.

### The index pool (`EfaWridPoolProofs`)

For every `WqeCnt`, counter widths and set of `wr_id`s allowed by `WqAssumption`
(at least one entry; counters wide enough to count them):

* `PoolCorrect`: `Spec => []PoolInv`;
* `PoolTypeCorrect`, `NextIsFreeAlways`, `NoIndexLostEver`: `[]TypeOK`,
  `[]NextIsFree`, `[]NoIndexLost`;
* `HeldWridNeverRewritten`: the action property `HeldWridStable`.

The argument. What matters is `NextIsFree`: the index about to be given out is
inside the pool and nobody's. It is not inductive. `PoolInv` strengthens it: the
counters agree with the pool position (`CountersAgree`), so the full test counts
what has been handed out; the positions from `Base` (the pool position less the
requests of an open session) hold pairwise different indexes (`PoolInjective`),
which are exactly the indexes no committed request holds (`Partitioned`); those
between `Base` and `next` are the session's (`SessionHolds`); and a held index
still has its request's `wr_id` (`WridIntact`). One lemma per kind of step
(`TakeLemma`, `PutLemma`, `RollBackLemma`) says what it does to the record, one
lemma per action says it preserves `PoolInv`. RESET needs a pigeonhole argument:
when nothing is held, `wqe_cnt` different indexes sit at the positions from
`next` on, so `next` is 0 already (`DrainedMeansWhole`), which is where the code
relies on the queue having been drained. `NoIndexLost` follows by the same
counting.

### The send queue (`EfaRingProofs`, `EfaSendQueueProofs`, `EfaSendQueueSteps`)

For any number of posting and session threads, any ring, counters, batch limit and
device depth:

* `SendQueueTyped`, `CompletionsNamed`, `IndexesNotShared`, `DoorbellsExact`:
  `[]TypeOK`, `[]CompletionNamesItsRequest`, `[]NoSharedIndex` (with
  `[]NeverOverlap`), `[]DoorbellExact`;
* `DoorbellsBatched`, `LapsTold`, `SessionsAreAtomic`: the action properties
  `DoorbellBatch`, `PhaseTellsLaps` and `SessionsAtomic`;
* `PoolImplemented`, `WorkQueueImplemented`: `EfaSendQueue` implements `EfaWridPool`
  and `WorkQueue`.

All assume `DrainedReset` (`MayReset => DrainBeforeReset`): an
application that resets a queue has drained it. This is what the code relies on
without saying so; without it `reset_outstanding` shows the pool broken.

The argument. The inductive invariant `SqInv` is `PoolInv` of the queue's own pool,
under the refinement mapping of `ImplementsPool`, and what ties that pool to the
ring: every outstanding request is at one place, in the ring before the doorbell
(`InRing`), taken by the device (`Taken`), or still in `local_queue` (`LeftOver`),
and no two have an index or a `wr_id` in common (`PostersApart`, `TakenApart`); the
slots between the device's counter and the queue's hold exactly the descriptors
written there (`WindowFits`, `ContentsFit`); the doorbell lags by what the lock
holder owes (`DoorbellFits`); and who holds the lock is the one who is in the middle
of something (`LockFits`, `SessionFits`). `EfaRingProofs` has the arithmetic this
needs and the provers do not know: counting modulo `U16` and then modulo the ring
size names the same slot as counting on, fewer steps than the ring has slots name
different slots, and differences survive the wrap. Since the pool's part of `SqInv`
is an instance of the theorem above, most lemmas of the send queue only show which
step of the pool theirs is (`PoolMove`). `PhaseTellsLaps` needs `PhaseFits` besides:
the bit of each slot is that of the last lap that wrote it, also when a session
whose phase had turned was rolled back. `SessionsAtomic` needs `SessionKept`: while a
session is copied its requests are in the ring, with the device, or still in `local_queue`,
since whoever takes one away for good needs `wqlock`. For `WorkQueue`, each step is mapped to the
one it is there: most to a stutter, a chunk of a session to posting it, request by
request.

### The receive queue (`EfaRecvQueueProofs`)

For any number of posting threads, any ring and counters, scatter lists of any lengths
and any device depth:

* `RecvQueueTyped`, `RecvCompletionsNamed`, `ListsWhole`, `RecvDoorbellsExact`:
  `[]TypeOK`, `[]CompletionNamesItsRequest`, `[]ScatterListsWhole`,
  `[]DoorbellExact`;
* `RecvPoolImplemented`, `RecvWorkQueueImplemented`: `EfaRecvQueue` implements
  `EfaWridPool` and `WorkQueue`;
* `AdvanceByIsSteps`: `AdvanceBy(n)` is `n` steps of the loop.

The argument. That the ring is not overrun (`Span <= DescCnt` in `RingFits`) cannot be
seen from the descriptors alone, since what the code counts is requests. `RingFits`
relates the two: from any first descriptor on, no more descriptors wait than
`MaxSge` times the requests that begin there. With the pool's `PoolInv`, by which no
more than `WqeCnt` requests are outstanding, and `WqeCnt * MaxSge <= DescCnt`, a request
that passes the full test finds room for all its entries. It is stated for every
position, not for the first only, because the device takes requests away from the
front. `RingWhole` is `ScatterListsWhole` position by position, `DoorbellFits` what
the holder of the lock has yet to announce; `PostersApart` and `TakenApart`, as for the
send queue, say that no two requests have an index or a `wr_id` in common, wherever
they are. For `WorkQueue` the queue is the requests of the ring by the places of their
first descriptors: posting one appends, wherever the ring's end cuts it, and a fetch
takes the head.

### The completion queue (`EfaCompletionProofs`)

For any number of queues, QPs and sub CQs, with any indexes, entries and counters:

* `CompletionTyped`, `IndexesReturned`, `WridsAwait`, `PhasesShow`: `[]TypeOK`,
  `[]IndexReturnedOnce`, `[]WridAwaitsCompletion`, `[]PhaseShowsPending`.

All assume `SessionsDrain`: an application that polls in sessions drains a QP before it
destroys it. One that polls with `efa_poll_cq` only may destroy QPs with completions
left. Every application of the run `completion` is of one of these kinds, and
`orphan_session` shows what becomes of one that is not.

The argument. `CqInv` says of each sub CQ what the device is ahead by (`EntriesOk`), that
entry, index in the works and entry in hand of one queue are never for the same index
(`WorkingOk`, `HandFacts`), and which phase each slot has: from the one at
`consumed_cnt` on the lap's, and the other where nothing new was written
(`PhasesOk`). A pool and the requests that have its indexes agree (`PoolServes`, which
is what `IndexReturnedOnce` and `WridAwaitsCompletion` come from), and a sub CQ's
`ref_cnt` counts the queues of QPs in the table (`RefsOk`). The hard part is the
entry in hand: it is read in place when `consumed_cnt` has passed it already, so that
nothing but the number of requests keeps the device from writing over it. `RoomForAll`
and `RoomForNext` count them: entries unread, the one in hand and the ones in the works
go to different indexes of different queues, and the application's CQ has as many
entries as these have indexes. `NoOrphans` and `CallOk` are for the sessions: that
`efa_next_poll` ends with `cur_cqe` NULL whenever it found nothing, since the sub CQ of
the entry it had before is in use and its loop comes to that again.

### The QP lifecycle (`EfaQpLifecycleProofs`)

For any number of threads, QPs and CQs in any roles:

* `LifecycleTyped`, `HeldQpsArePolled`: `[]TypeOK`, `[]HeldQpIsPolled`;
* `FoundQpsStay`: `[]NoUseAfterFree`, assuming `NumsDrained`;
* `TableIsDirectory`: `EfaQpLifecycle` implements `QpDirectory`, assuming `NumsDrained`.

The argument. A poller that uses a QP holds the lock of one of that QP's CQs
(`PollersHold`), and whoever removes the QP must hold both. That the poller does is
not evident, since it reads the table without its lock: it is so because a completion
in a CQ only leads to a QP that has that CQ (`CompletionsLead`), which is what
`NumsDrained` is for and what `stale_completion` shows to fail without it. The rest
of `LifecycleInv` says what a thread at each place of its call works on and has
locked (`ArgsFit`, `LocksFit`), that one call at a time is about a QP
(`OneCallEach`), how much of the QP there is at each stage (`StagesFit`), that table
and numbers agree (`TableFits`, `NumsApart`), and, by cardinality, that a sub CQ's
`ref_cnt` counts the queues that feed it (`CountsFit`).

### Application, loader and library (`EfawinProofs`)

For any device, any requests, any number of objects and any libraries to be found,
with any call failing at any step:

* `ObjectsWork`, `NothingLost`: `[]HeldObjectsWork`, `[]NothingForgotten`;
* `AnswersKept`: `[]AnswersHold`, if the device's inline buffer size fits the 16 bits
  `struct efa_context` has for it (`EFA_DEVICE_INFO` has 32);
* `TableWhole`: `[]TableIsWhole`;
* `EfawinTyped`: `[]TypeOK`, of finitely many QPs (`TypeOK` bounds the counts of a CQ by
  their number);
* `RingsRoomy`: `[]RingsFit`, if the limits the device reports fit the widths they are
  computed in (`LimitsFit`: at most 2^16 send requests, and
  `max_recv_sge * max_recv_wr` below 2^32). The code does not test that and multiplies in
  32 bits: on a device that reports more, a receive queue can be smaller than was asked;
* `EitherWay`: `[]EitherWayTheSame`, without any assumption;
* `SizesKept` and `TypesKept`, the invariants these rest on.

The argument. `ControlInv` says what the memory consists of, piece by piece
(`BlocksFit`, `ContextFits`), that held objects name held objects (`NamesFit`), that
the driver has what they stand for, each under a number of its own, and what it
refused to destroy (`DriverFits`), that table and counts are those of the held QPs
(`LookupsFit`) and what was told is what the device said (`AnswersFit`). The
properties are not inductive by themselves: that a destroy call names exactly its
own object to the driver, for example, needs the numbers of *refused* objects to be
taken as well. The calls are of three shapes, with one lemma each: those that make
an object (`MadeInv`), those that take one or leave its struct (`TakenInv`) and those
that leave the objects alone (`OuterKeeps`, `NothingDone`, `Broken`). The error labels
of `create_qp` are a lemma of their own (`AllUndone`), `ibv_modify_qp` another.
Two of its assumptions are about the driver: the numbers it gives are 16 bits wide
and no more than the device has QPs, and those of QPs differ in the bits `qp_table`
goes by.

`TypesInv` and `SizesInv` are beside that invariant and not within it, since only the
calls that make or release an object can disturb them. `TypesInv` has the widths: what
`ibv_cmd_create_cq_ex` and `ibv_cmd_create_qp_ex` tell the driver fits 16 bits, since the
one tests the depth and the other has cut it. `SizesInv` says that the `size`, the
operations and the batch of a QP are still those that one request gave it that passed
`efa_check_qp_attr`, `efa_check_qp_limits` and the rounding. `RingsFit` is then
arithmetic: rounding up stays below what it is cut to, or cuts to nothing; a power of two
less 1 is a mask of that many descriptors; and dividing the receive descriptors by
`max_recv_sge` leaves a request for each that was asked for.

`EitherWay` follows a request through its session. Each operation makes a descriptor of
its own (`OpWqe`), the address and the immediate data can be set before the data or after
(`AddressAnyTime`, `ImmAnyTime`), the setters for one buffer and for a list agree where
both suit (`SettersAgree`), and so any session refuses the request or ends with the same
`WholeWqe` (`SessionsAgree`), which is what `efa_post_send` builds (`PostAgrees`) and
which has room for its data (`WholeFits`). For a completion, `ProcessedFields` says field
by field what `efa_process_cqe` leaves of the old work completion.

The provers know nothing of powers of two: `SizingAssumption` states that 2^0 is 1 and
that 2^(k+1) is twice 2^k up to the width of a `uint32_t`. That powers grow and divide one
another is proved from this by taking the least counterexample (`LeastOf`), as is what a
sum over a list of buffers and the bytes of one after the other are: induction itself is
out of the provers' reach.

### Only model-checked

* Liveness (`EveryRequestFinishes`, `EveryCompletionSeen`, `EveryCallReturns`):
  fairness is out of the prover's reach.
* The three violated runs, which are counterexamples of small instances.

Every invariant and every other action property that a passing run checks is also a
theorem. Where a theorem assumes more than the modules do, it is named above with it.

No module declares a RECURSIVE operator, so that each can be proved about.

## Not modelled

* Memory ordering: barriers and write combining (`util/udma_barrier.h`) are taken
  to work, and the steps between them are atomic. A lock is taken to exclude; that
  a `CRITICAL_SECTION` lets its own thread in twice (a thread that polls inside its
  own session) is not used by any modelled call.
* `efa_modify_qp` racing with posters or pollers (but for the move to ERR during
  `efa_post_recv`): it takes no lock, which can only be read as leaving that to the
  application.
* Code nobody reaches: `efa_device_init`, `efa_device_free` and the context list;
  `efa_create_qp_ex` and `efadv_create_driver_qp`, which the library does not
  export; `efa_query_device_ex`, only in an ops table nobody calls through;
  `efa_query_qp`, which always fails.
* Answers of the driver shorter than the struct they are for (`efawinif.c:94`):
  the driver is not in the repository.
* Receive requests without entries and the lengths of receive buffers, about which
  the code says nothing a property could be measured by; requests of QPs whose
  inline or scatter limits exceed the descriptor (`RoomyQp` names them).
* Which error `efa_send_wr_complete` returns when several threads have sessions on one
  QP: it reads `wr_session_err` after the unlock (`verbs.c:1833`), when the next session
  may have reset or set it. Nothing in the repository says whose error it is to be;
  `SessionsAtomic` is about what the session did.
* Loading and freeing the library from several threads at once.
* Access flags and addresses of regions, formatting, logging, and the vendored
  headers, of which only the types are used.

## Plan

The plan this project was built along: the index pool and the send queue, then the
completion and receive queues, the QP lifecycle, and around them the calls, the driver
and the loader; each first checked, then proved. What is left is what the section before
names: most worth adding are a model of `efa_modify_qp` racing with posters and pollers,
once the code says who must exclude whom, and one of several threads loading the library.
