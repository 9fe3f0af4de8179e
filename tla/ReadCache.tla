----------------------------- MODULE ReadCache -----------------------------
(***************************************************************************)
(* The per-thread read cache of bytecask.cppm and db_state.cpp: every read *)
(* claims its thread's slot, serves the state it cached there while        *)
(* publishing_ is 0 and state_gen_ has not moved, and puts the slot back.  *)
(* Two kinds of publication run against it, possibly at once: the writer's *)
(* raw store_state() and refuse_writes()' publish_degraded_if_healthy().   *)
(* Publishing scrapes the slots of idle threads, close() takes every entry *)
(* of its DB, and a new DB may be constructed at a destroyed one's address.*)
(*                                                                         *)
(* Atomics are sequentially consistent here.  A state is told apart by the *)
(* DB's life and by its place in the modification order of state_.         *)
(***************************************************************************)
EXTENDS Naturals, FiniteSets

CONSTANTS
    Readers,      \* threads that read, one slot each
    Dbs,          \* addresses of DB objects
    IdleEpochs,   \* kReadCacheIdleEpochs
    MaxReads,     \* bound: reads of one thread
    MaxWrites,    \* bound: states a DB publishes besides the closing one
    MaxRefusals,  \* bound: calls of publish_degraded_if_healthy()
    MaxLives,     \* bound: DBs constructed after the first ones
    MaxScrapes    \* bound: scrapes

ASSUME ConstantsAssumption ==
    /\ IdleEpochs \in Nat /\ MaxReads \in Nat /\ MaxWrites \in Nat
    /\ MaxRefusals \in Nat /\ MaxLives \in Nat /\ MaxScrapes \in Nat

VARIABLES
    state,       \* state_ of each DB: its life, version and flags
    publishing,  \* publishing_ of each DB
    state_gen,   \* state_gen_ of each DB
    next_gen,    \* the process-wide generation counter
    phase,       \* "open", "closing", "closed", "destroyed": life of the object
    slot,        \* ptr_ of each thread's slot: a sentinel or an entry
    cache,       \* the fields of the entry each thread allocated last
    pc, rd,      \* each reader's position and locals
    wp,          \* each publisher's position
    current,     \* publish_degraded_if_healthy()'s local: the state it degrades
    new_gen,     \* the generation each publisher took and has yet to store
    tp, tl,      \* registry pass of each DB's writer: position and locals
    mu,          \* holder of the registry's mutex
    epoch,       \* the registry's epoch_
    freed,       \* entries deleted
    reads, writes, refusals, lives, scrapes  \* counts, for the bounds

vars == <<state, publishing, state_gen, next_gen, phase, slot, cache, pc, rd,
          wp, current, new_gen, tp, tl, mu, epoch, freed, reads, writes, refusals, lives,
          scrapes>>

dbVars == <<state, publishing, state_gen, next_gen, phase>>
slotVars == <<slot, cache, freed>>
readVars == <<pc, rd, reads>>
pubVars == <<wp, current, new_gen, writes, refusals>>
takeVars == <<tp, tl, mu, epoch, scrapes>>

-----------------------------------------------------------------------------
(* Values. *)

kNoStateGen == 0
NoState == [life |-> 0, ver |-> 0, closed |-> FALSE, degraded |-> FALSE]
Null == [kind |-> "null", id |-> 0]
InUse == [kind |-> "in_use", id |-> 0]
Obsolete == [kind |-> "obsolete", id |-> 0]
Entry(n) == [kind |-> "entry", id |-> n]
NoOne == "none"

States == [life : Nat, ver : Nat, closed : BOOLEAN, degraded : BOOLEAN]
Publishers == {"writer", "refuser"}

NoRead == [db |-> NoOne, busy |-> 0, gen |-> kNoStateGen,
           floor |-> NoState]
NoPass == [why |-> NoOne, now |-> 0, left |-> {}, at |-> Null, of |-> NoOne,
           claimed |-> FALSE, taken |-> {}]
NoEntry == [id |-> 0, owner |-> NoOne, state |-> NoState,
            gen |-> kNoStateGen, used |-> 0]

Init ==
    /\ state = [d \in Dbs |-> NoState]
    /\ publishing = [d \in Dbs |-> 0]
    /\ state_gen = [d \in Dbs |-> kNoStateGen]
    /\ next_gen = 0
    /\ phase = [d \in Dbs |-> "destroyed"]
    /\ slot = [r \in Readers |-> Null]
    /\ cache = [r \in Readers |-> NoEntry]
    /\ pc = [r \in Readers |-> "idle"]
    /\ rd = [r \in Readers |-> NoRead]
    /\ wp = [d \in Dbs |-> [p \in Publishers |-> "idle"]]
    /\ current = [d \in Dbs |-> NoState]
    /\ new_gen = [d \in Dbs |-> [p \in Publishers |-> kNoStateGen]]
    /\ tp = [d \in Dbs |-> "idle"]
    /\ tl = [d \in Dbs |-> NoPass]
    /\ mu = NoOne
    /\ epoch = 1
    /\ freed = {}
    /\ reads = [r \in Readers |-> 0]
    /\ writes = 0
    /\ refusals = 0
    /\ lives = 0
    /\ scrapes = 0

-----------------------------------------------------------------------------
(* A read: load_state_for_read() and the guard it returns. *)

Goto(r, p) == pc' = [pc EXCEPT ![r] = p]
IsEntry(e) == e.kind = "entry"

\* claim(), and the start of a call.  floor is what the read must not miss:
\* the state that is current now.
Claim(r, d) ==
    /\ pc[r] = "idle"
    /\ phase[d] \in {"open", "closing", "closed"}
    /\ reads[r] < MaxReads
    /\ reads' = [reads EXCEPT ![r] = @ + 1]
    /\ rd' = [rd EXCEPT ![r] = [NoRead EXCEPT !.db = d, !.floor = state[d]]]
    /\ slot' = [slot EXCEPT ![r] = InUse]
    /\ Goto(r, IF IsEntry(slot[r]) THEN "own" ELSE "alloc")
    /\ UNCHANGED <<dbVars, cache, freed, pubVars, takeVars, lives>>

\* No entry: a new one.  Another DB's entry: its state is dropped.
Own(r) ==
    /\ pc[r] \in {"own", "alloc"}
    /\ cache' = [cache EXCEPT ![r] =
            IF pc[r] = "alloc"
            THEN [NoEntry EXCEPT !.id = cache[r].id + 1, !.owner = rd[r].db]
            ELSE IF @.owner = rd[r].db THEN @
            ELSE [@ EXCEPT !.owner = rd[r].db, !.state = NoState,
                           !.gen = kNoStateGen]]
    /\ Goto(r, "busy")
    /\ UNCHANGED <<dbVars, slot, freed, rd, reads, pubVars, takeVars, lives>>

LoadBusy(r) ==
    /\ pc[r] = "busy"
    /\ rd' = [rd EXCEPT ![r].busy = publishing[rd[r].db]]
    /\ Goto(r, "gen")
    /\ UNCHANGED <<dbVars, slotVars, reads, pubVars, takeVars, lives>>

LoadGen(r) ==
    /\ pc[r] = "gen"
    /\ rd' = [rd EXCEPT ![r].gen = state_gen[rd[r].db]]
    /\ Goto(r, "state")
    /\ UNCHANGED <<dbVars, slotVars, reads, pubVars, takeVars, lives>>

\* Mutant: the generation alone decides, as if it moved with the state.
Mut_Stale_GenOnly(r) == rd[r].gen # cache[r].gen

Stale(r) == rd[r].busy # 0 \/ rd[r].gen # cache[r].gen

\* The reload when it is needed, and the entry's epoch.  A closed state
\* throws DbClosed, which gives the entry back the same way.
LoadState(r) ==
    /\ pc[r] = "state"
    /\ cache' = [cache EXCEPT ![r].used = epoch,
            ![r].state = IF Stale(r) THEN state[rd[r].db] ELSE @,
            ![r].gen = IF ~Stale(r) THEN @
                       ELSE IF rd[r].busy # 0 THEN kNoStateGen ELSE rd[r].gen]
    /\ Goto(r, "reading")
    /\ UNCHANGED <<dbVars, slot, freed, rd, reads, pubVars, takeVars, lives>>

\* ~ReadStateGuard(), or the release before DbClosed is thrown.
Release(r) ==
    /\ pc[r] = "reading"
    /\ slot' = [slot EXCEPT ![r] = Entry(cache[r].id)]
    /\ rd' = [rd EXCEPT ![r] = NoRead]
    /\ Goto(r, "idle")
    /\ UNCHANGED <<dbVars, cache, freed, reads, pubVars, takeVars, lives>>

\* Mutant: the exiting thread reads its slot without claiming it.
Mut_ExitClaim_NoClaim(r) ==
    /\ pc[r] = "idle"
    /\ Goto(r, IF IsEntry(slot[r]) THEN "exit_free" ELSE "exit")
    /\ UNCHANGED <<dbVars, slotVars, rd, reads, pubVars, takeVars, lives>>

\* ~ReadCacheSlot() at thread exit: claim, leave the registry, free.
ExitClaim(r) ==
    /\ pc[r] = "idle"
    /\ Goto(r, IF IsEntry(slot[r]) THEN "exit_free" ELSE "exit")
    /\ slot' = [slot EXCEPT ![r] = InUse]
    /\ UNCHANGED <<dbVars, cache, freed, rd, reads, pubVars, takeVars, lives>>

ExitRemove(r) ==
    /\ pc[r] \in {"exit", "exit_free"}
    /\ mu = NoOne
    /\ freed' = IF pc[r] = "exit_free" THEN freed \cup {<<r, cache[r].id>>}
                ELSE freed
    /\ Goto(r, "gone")
    /\ UNCHANGED <<dbVars, slot, cache, rd, reads, pubVars, takeVars, lives>>

-----------------------------------------------------------------------------
(* Publications: raw store_state() and publish_degraded_if_healthy(). *)

PubTo(d, p, q) == wp' = [wp EXCEPT ![d][p] = q]

\* publishing_ is raised.  The writer holds what serialises publications, the
\* flush role or the write barrier; close() waits for the others.
Publish(d) ==
    /\ wp[d]["writer"] = "idle" /\ tp[d] = "idle"
    /\ phase[d] = "open"
    /\ writes < MaxWrites
    /\ writes' = writes + 1
    /\ publishing' = [publishing EXCEPT ![d] = @ + 1]
    /\ PubTo(d, "writer", "swap")
    /\ UNCHANGED <<state, state_gen, next_gen, phase, slotVars, readVars,
                   current, new_gen, takeVars, refusals, lives>>

Close(d) ==
    /\ wp[d]["writer"] = "idle" /\ wp[d]["refuser"] = "idle" /\ tp[d] = "idle"
    /\ phase[d] = "open"
    /\ phase' = [phase EXCEPT ![d] = "closing"]
    /\ publishing' = [publishing EXCEPT ![d] = @ + 1]
    /\ PubTo(d, "writer", "swap")
    /\ UNCHANGED <<state, state_gen, next_gen, slotVars, readVars, current,
                   new_gen, takeVars, writes, refusals, lives>>

\* refuse_writes() loads the state to degrade.
Refuse(d) ==
    /\ wp[d]["refuser"] = "idle"
    /\ phase[d] = "open"
    /\ refusals < MaxRefusals
    /\ refusals' = refusals + 1
    /\ current' = [current EXCEPT ![d] = state[d]]
    /\ PubTo(d, "refuser", "check")
    /\ UNCHANGED <<dbVars, slotVars, readVars, takeVars, new_gen, writes, lives>>

\* A state degraded already keeps its own reason.
RefuseDone(d) ==
    /\ wp[d]["refuser"] = "check"
    /\ current[d].degraded
    /\ PubTo(d, "refuser", "idle")
    /\ UNCHANGED <<dbVars, slotVars, readVars, current, new_gen, writes,
                   refusals, takeVars, lives>>

\* Mutant: the refusal does not announce itself before the exchange.
Mut_RefuseRaise_Silent(d) ==
    /\ wp[d]["refuser"] = "check"
    /\ ~current[d].degraded
    /\ PubTo(d, "refuser", "swap")
    /\ UNCHANGED <<dbVars, slotVars, readVars, current, new_gen, writes,
                   refusals, takeVars, lives>>

RefuseRaise(d) ==
    /\ wp[d]["refuser"] = "check"
    /\ ~current[d].degraded
    /\ publishing' = [publishing EXCEPT ![d] = @ + 1]
    /\ PubTo(d, "refuser", "swap")
    /\ UNCHANGED <<state, state_gen, next_gen, phase, slotVars, readVars,
                   current, new_gen, writes, refusals, takeVars, lives>>

NextState(d, closed, degraded) ==
    [state[d] EXCEPT !.ver = @ + 1, !.closed = closed, !.degraded = degraded]

\* store_state()'s exchange: a healthy state, or the closed one, which keeps
\* the flag of the state it copies.
Exchange(d) ==
    /\ wp[d]["writer"] = "swap"
    /\ state' = [state EXCEPT ![d] =
            IF phase[d] = "closing" THEN NextState(d, TRUE, @.degraded)
            ELSE NextState(d, FALSE, FALSE)]
    /\ PubTo(d, "writer", "gen")
    /\ UNCHANGED <<publishing, state_gen, next_gen, phase, slotVars, readVars,
                   current, new_gen, writes, refusals, takeVars, lives>>

\* The refusal's compare-exchange ...
CompareExchange(d) ==
    /\ wp[d]["refuser"] = "swap"
    /\ current[d] = state[d]
    /\ state' = [state EXCEPT ![d] = NextState(d, @.closed, TRUE)]
    /\ PubTo(d, "refuser", "gen")
    /\ UNCHANGED <<publishing, state_gen, next_gen, phase, slotVars, readVars,
                   current, new_gen, writes, refusals, takeVars, lives>>

\* Mutant: the retry compares with the state it loaded first.
Mut_ExchangeFails_KeepsCurrent(d) ==
    /\ wp[d]["refuser"] = "swap"
    /\ current[d] # state[d]
    /\ PubTo(d, "refuser", "retry")
    /\ UNCHANGED <<dbVars, slotVars, readVars, current, new_gen, writes,
                   refusals, takeVars, lives>>

\* ... which takes the newer state over when it fails.
ExchangeFails(d) ==
    /\ wp[d]["refuser"] = "swap"
    /\ current[d] # state[d]
    /\ current' = [current EXCEPT ![d] = state[d]]
    /\ PubTo(d, "refuser", "retry")
    /\ UNCHANGED <<dbVars, slotVars, readVars, new_gen, writes, refusals,
                   takeVars, lives>>

\* next_state_gen(), then the store of what it returned.
NextGen(d, p) ==
    /\ wp[d][p] = "gen"
    /\ next_gen' = next_gen + 1
    /\ new_gen' = [new_gen EXCEPT ![d][p] = next_gen + 1]
    /\ PubTo(d, p, "store")
    /\ UNCHANGED <<state, publishing, state_gen, phase, slotVars, readVars,
                   current, writes, refusals, takeVars, lives>>

StoreGen(d, p) ==
    /\ wp[d][p] = "store"
    /\ state_gen' = [state_gen EXCEPT ![d] = new_gen[d][p]]
    /\ PubTo(d, p, "lower")
    /\ UNCHANGED <<state, publishing, next_gen, phase, slotVars, readVars,
                   current, new_gen, writes, refusals, takeVars, lives>>

\* publishing_ is lowered; the checked store_state() then scrapes, and a
\* refusal whose exchange failed goes round.
Lower(d, p) ==
    /\ wp[d][p] \in {"lower", "retry"}
    /\ publishing' = [publishing EXCEPT ![d] = @ - 1]
    /\ PubTo(d, p, IF wp[d][p] = "retry" THEN "check"
                   ELSE IF p = "writer" THEN "scrape" ELSE "idle")
    /\ UNCHANGED <<state, state_gen, next_gen, phase, slotVars, readVars,
                   current, new_gen, writes, refusals, takeVars, lives>>

-----------------------------------------------------------------------------
(* Passes over the registry: scrape() and release(). *)

PassTo(d, q) == tp' = [tp EXCEPT ![d] = q]
Pass(d, why) == tl' = [tl EXCEPT ![d] = [NoPass EXCEPT !.why = why]]

\* scrape_read_caches() when its period has passed.
ScrapeNow(d) ==
    /\ scrapes < MaxScrapes
    /\ scrapes' = scrapes + 1
    /\ epoch' = epoch + 1
    /\ tl' = [tl EXCEPT ![d] = [NoPass EXCEPT !.why = "scrape", !.now = epoch + 1]]
    /\ PassTo(d, "lock")

\* The scrape of a publication, or, too soon after the last one, none.
PublishScrape(d) ==
    /\ wp[d]["writer"] = "scrape"
    /\ PubTo(d, "writer", "idle")
    /\ \/ ScrapeNow(d)
       \/ /\ IF phase[d] = "closing" THEN PassTo(d, "lock") /\ Pass(d, "release")
             ELSE UNCHANGED <<tp, tl>>
          /\ UNCHANGED <<scrapes, epoch>>
    /\ UNCHANGED <<dbVars, slotVars, readVars, current, new_gen, writes,
                   refusals, mu, lives>>

\* vacuum() and stats() scrape too.
IdleScrape(d) ==
    /\ phase[d] = "open" /\ tp[d] = "idle" /\ wp[d]["writer"] = "idle"
    /\ ScrapeNow(d)
    /\ UNCHANGED <<dbVars, slotVars, readVars, pubVars, mu, lives>>

Registered == {r \in Readers : pc[r] # "gone"}

\* Mutant: a later round of release() frees the first one's entries again.
Mut_PassLock_KeepsTaken(d) ==
    /\ tp[d] = "lock"
    /\ mu = NoOne
    /\ mu' = d
    /\ tl' = [tl EXCEPT ![d].left = Registered, ![d].claimed = FALSE]
    /\ PassTo(d, "load")
    /\ UNCHANGED <<dbVars, slotVars, readVars, pubVars, epoch, scrapes, lives>>


PassLock(d) ==
    /\ tp[d] = "lock"
    /\ mu = NoOne
    /\ mu' = d
    /\ tl' = [tl EXCEPT ![d].left = Registered, ![d].claimed = FALSE,
                        ![d].taken = {}]
    /\ PassTo(d, "load")
    /\ UNCHANGED <<dbVars, slotVars, readVars, pubVars, epoch, scrapes, lives>>

TakeLoad(d, r) ==
    /\ tp[d] = "load"
    /\ r \in tl[d].left
    /\ tl' = [tl EXCEPT ![d].left = @ \ {r}, ![d].of = r, ![d].at = slot[r],
                        ![d].claimed = @ \/ slot[r] = InUse]
    /\ PassTo(d, IF IsEntry(slot[r]) THEN "select" ELSE "load")
    /\ UNCHANGED <<dbVars, slotVars, readVars, pubVars, mu, epoch, scrapes, lives>>

\* Unsigned subtraction: an entry stamped after this pass began is idle too.
Selects(d, e) ==
    IF tl[d].why = "release" THEN e.owner = d
    ELSE tl[d].now < e.used \/ tl[d].now - e.used > IdleEpochs

TakeSelect(d) ==
    /\ tp[d] = "select"
    /\ PassTo(d, IF Selects(d, cache[tl[d].of]) THEN "take" ELSE "load")
    /\ UNCHANGED <<dbVars, slotVars, readVars, pubVars, tl, mu, epoch, scrapes, lives>>

\* The compare-exchange: a claim since the load makes it fail.
TakeSwap(d) ==
    /\ tp[d] = "take"
    /\ LET r == tl[d].of
           wins == slot[r] = tl[d].at
       IN /\ slot' = IF wins THEN [slot EXCEPT ![r] = Obsolete] ELSE slot
          /\ tl' = [tl EXCEPT ![d].claimed = @ \/ ~wins,
                     ![d].taken = IF wins THEN @ \cup {<<r, tl[d].at.id>>} ELSE @]
    /\ PassTo(d, "load")
    /\ UNCHANGED <<dbVars, cache, freed, readVars, pubVars, mu, epoch, scrapes, lives>>

PassUnlock(d) ==
    /\ tp[d] = "load" /\ tl[d].left = {}
    /\ mu' = NoOne
    /\ PassTo(d, "free")
    /\ UNCHANGED <<dbVars, slotVars, readVars, pubVars, tl, epoch, scrapes, lives>>


\* What was taken is freed; release() goes round while a slot was claimed.
PassFree(d) ==
    /\ tp[d] = "free"
    /\ freed' = freed \cup tl[d].taken
    /\ IF tl[d].why = "scrape"
       THEN IF phase[d] = "closing" THEN PassTo(d, "lock") /\ Pass(d, "release")
            ELSE PassTo(d, "idle") /\ UNCHANGED tl
       ELSE PassTo(d, IF tl[d].claimed THEN "lock" ELSE "released") /\ UNCHANGED tl
    /\ UNCHANGED <<dbVars, slot, cache, readVars, pubVars, mu, epoch, scrapes, lives>>

-----------------------------------------------------------------------------
(* The life of a DB object. *)

\* close() returns.
Closed(d) ==
    /\ tp[d] = "released"
    /\ phase[d] \in {"closing", "destroying"}
    /\ phase' = [phase EXCEPT ![d] = IF @ = "closing" THEN "closed" ELSE "destroyed"]
    /\ PassTo(d, "idle")
    /\ UNCHANGED <<state, publishing, state_gen, next_gen, slotVars, readVars,
                   pubVars, tl, mu, epoch, scrapes, lives>>

\* Mutant: ~DB() relies on the pass close() made.
Mut_Destroy_NoPass(d) ==
    /\ phase[d] = "closed"
    /\ \A r \in Readers : rd[r].db # d
    /\ phase' = [phase EXCEPT ![d] = "destroying"]
    /\ PassTo(d, "released") /\ Pass(d, "release")
    /\ UNCHANGED <<state, publishing, state_gen, next_gen, slotVars, readVars,
                   pubVars, mu, epoch, scrapes, lives>>

\* ~DB() once every call on the DB has returned: a second release().
Destroy(d) ==
    /\ phase[d] = "closed"
    /\ \A r \in Readers : rd[r].db # d
    /\ phase' = [phase EXCEPT ![d] = "destroying"]
    /\ PassTo(d, "lock") /\ Pass(d, "release")
    /\ UNCHANGED <<state, publishing, state_gen, next_gen, slotVars, readVars,
                   pubVars, mu, epoch, scrapes, lives>>

\* A DB constructed at the address, its initial state stored.
Open(d) ==
    /\ phase[d] = "destroyed"
    /\ lives < MaxLives
    /\ lives' = lives + 1
    /\ phase' = [phase EXCEPT ![d] = "open"]
    /\ state' = [state EXCEPT ![d] = [NoState EXCEPT !.life = lives + 1, !.ver = 1]]
    /\ publishing' = [publishing EXCEPT ![d] = 0]
    /\ next_gen' = next_gen + 1
    /\ state_gen' = [state_gen EXCEPT ![d] = next_gen + 1]
    /\ UNCHANGED <<slotVars, readVars, pubVars, takeVars>>

-----------------------------------------------------------------------------
ReadStep(r) ==
    \/ Own(r) \/ LoadBusy(r) \/ LoadGen(r) \/ LoadState(r) \/ Release(r)
    \/ ExitRemove(r)

DbStep(d) ==
    \/ RefuseDone(d) \/ RefuseRaise(d)
    \/ Exchange(d) \/ CompareExchange(d) \/ ExchangeFails(d)
    \/ \E p \in Publishers : NextGen(d, p) \/ StoreGen(d, p) \/ Lower(d, p)
    \/ PublishScrape(d)
    \/ PassLock(d) \/ (\E r \in Readers : TakeLoad(d, r)) \/ TakeSelect(d)
    \/ TakeSwap(d) \/ PassUnlock(d) \/ PassFree(d) \/ Closed(d)

\* Every thread has exited and every DB is gone.
Terminated ==
    /\ pc = [r \in Readers |-> "gone"]
    /\ phase = [d \in Dbs |-> "destroyed"]
    /\ UNCHANGED vars

Next ==
    \/ Terminated
    \/ \E r \in Readers :
        ReadStep(r) \/ ExitClaim(r) \/ (\E d \in Dbs : Claim(r, d))
    \/ \E d \in Dbs :
        \/ DbStep(d) \/ Open(d) \/ Publish(d) \/ Refuse(d) \/ IdleScrape(d)
        \/ Close(d) \/ Destroy(d)

Spec == Init /\ [][Next]_vars

\* A thread inside a call keeps running, and one that waits for the registry's
\* mutex gets it if it is freed again and again; no call is bound to start.
FairSpec ==
    /\ Spec
    /\ \A r \in Readers : WF_vars(ReadStep(r)) /\ SF_vars(ExitRemove(r))
    /\ \A d \in Dbs : WF_vars(DbStep(d)) /\ SF_vars(PassLock(d))

-----------------------------------------------------------------------------
(* Properties. *)

ReaderSteps == {"idle", "own", "alloc", "busy", "gen", "state", "reading",
                "exit", "exit_free", "gone"}
PubSteps == {"idle", "check", "swap", "gen", "store", "lower", "retry", "scrape"}
PassSteps == {"idle", "lock", "load", "select", "take", "free", "released"}
Phases == {"open", "closing", "closed", "destroying", "destroyed"}
Slots == [kind : {"null", "in_use", "obsolete", "entry"}, id : Nat]

EntryType == [id : Nat, owner : Dbs \cup {NoOne}, state : States, gen : Nat,
              used : Nat]
ReadType == [db : Dbs \cup {NoOne}, busy : Nat, gen : Nat, floor : States]
PassType == [why : {NoOne, "scrape", "release"}, now : Nat,
             left : SUBSET Readers, at : Slots, of : Readers \cup {NoOne},
             claimed : BOOLEAN, taken : SUBSET (Readers \X Nat)]

\* Every variable keeps the type of the member or local it stands for.
TypeOK ==
    /\ state \in [Dbs -> States]
    /\ publishing \in [Dbs -> Nat]
    /\ state_gen \in [Dbs -> Nat]
    /\ next_gen \in Nat
    /\ phase \in [Dbs -> Phases]
    /\ slot \in [Readers -> Slots]
    /\ cache \in [Readers -> EntryType]
    /\ pc \in [Readers -> ReaderSteps]
    /\ rd \in [Readers -> ReadType]
    /\ wp \in [Dbs -> [Publishers -> PubSteps]]
    /\ current \in [Dbs -> States]
    /\ new_gen \in [Dbs -> [Publishers -> Nat]]
    /\ tp \in [Dbs -> PassSteps]
    /\ tl \in [Dbs -> PassType]
    /\ mu \in Dbs \cup {NoOne}
    /\ epoch \in Nat /\ lives \in Nat

\* A pass that may hold entries it took and has yet to free.
Taking == {"load", "select", "take", "free"}

\* Readers that hold their slot's claim during a call, the entry theirs.
Holds(r) == pc[r] \in {"busy", "gen", "state", "reading"}

\* A read serves the DB it was called on, in this DB's own life, and a state
\* no older than the one that was current when the call began: one published
\* before, or one another thread had already seen (load_state_for_read()).
ReadsFresh ==
    \A r \in Readers : pc[r] = "reading" =>
        /\ cache[r].owner = rd[r].db
        /\ cache[r].state.life = rd[r].floor.life
        /\ cache[r].state.ver >= rd[r].floor.ver
        /\ rd[r].floor.closed => cache[r].state.closed

\* An entry a read holds or a slot offers has not been freed, and a pass only
\* frees what no slot and no read can reach (take(), ~ReadCacheSlot()).
EntryAlive ==
    \A r \in Readers :
        LET e == <<r, cache[r].id>>
            reachable == IsEntry(slot[r]) \/ Holds(r) \/ pc[r] = "own"
        IN reachable =>
            /\ e \notin freed
            /\ \A d \in Dbs : tp[d] \in Taking => e \notin tl[d].taken

\* Nothing is freed twice (take() against a thread's exit and other passes).
FreedOnce ==
    /\ \A d \in Dbs : tp[d] \in Taking =>
        /\ tl[d].taken \cap freed = {}
        /\ \A e \in Dbs \ {d} : tp[e] \in Taking =>
            tl[d].taken \cap tl[e].taken = {}
    /\ \A r \in Readers : pc[r] = "exit_free" =>
        /\ <<r, cache[r].id>> \notin freed
        /\ \A d \in Dbs : tp[d] \in Taking =>
            <<r, cache[r].id>> \notin tl[d].taken

Cached(r) == IsEntry(slot[r]) \/ Holds(r) \/ pc[r] \in {"own", "exit_free"}


\* Once ~DB() has returned, no slot names its address, so a DB constructed
\* there finds no entry of the old one.
DestroyReleases ==
    \A d \in Dbs, r \in Readers :
        phase[d] = "destroyed" /\ IsEntry(slot[r]) => cache[r].owner # d


\* refuse_writes()' retry loop ends.
RefusalReturns == \A d \in Dbs : wp[d]["refuser"] # "idle" ~> wp[d]["refuser"] = "idle"

=============================================================================
