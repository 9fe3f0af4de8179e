-------------------------- MODULE ReadCacheInvariant ------------------------
(***************************************************************************)
(* Reads are fresh for any number of threads, databases and publications.  *)
(*                                                                         *)
(* The argument: an entry whose generation is the DB's current one can be  *)
(* behind the published state only while some publisher has exchanged the  *)
(* state and not yet stored its generation (Match).  Such a publisher      *)
(* keeps publishing_ raised (Counted), so a reader that saw it lowered has *)
(* an entry as new as the state (Ready), and the store of a generation no  *)
(* one has ever seen (Unused) makes every older entry unequal for good.    *)
(***************************************************************************)
EXTENDS ReadCache, TLAPS

Calls == {"own", "alloc", "busy", "gen", "state", "reading"}
Active == {"swap", "gen", "store", "lower", "retry"}
One(d, p) == IF wp[d][p] \in Active THEN 1 ELSE 0

\* The types of the variables the argument is about.
Types ==
    /\ state \in [Dbs -> States]
    /\ publishing \in [Dbs -> Nat]
    /\ state_gen \in [Dbs -> Nat]
    /\ next_gen \in Nat
    /\ phase \in [Dbs -> Phases]
    /\ cache \in [Readers -> EntryType]
    /\ pc \in [Readers -> ReaderSteps]
    /\ rd \in [Readers -> ReadType]
    /\ wp \in [Dbs -> [Publishers -> PubSteps]]
    /\ current \in [Dbs -> States]
    /\ new_gen \in [Dbs -> [Publishers -> Nat]]
    /\ tp \in [Dbs -> PassSteps]
    /\ epoch \in Nat /\ lives \in Nat

\* publishing_ counts the publications in progress.
Counted ==
    \A d \in Dbs : publishing[d] = One(d, "writer") + One(d, "refuser")

\* Who may be publishing in which phase of a DB's life.
Quiet ==
    \A d \in Dbs :
        /\ phase[d] # "open" => wp[d]["refuser"] = "idle"
        /\ phase[d] \notin {"open", "closing"} => wp[d]["writer"] = "idle"
        /\ tp[d] # "idle" => wp[d]["writer"] = "idle"
        /\ phase[d] = "open" => ~state[d].closed

\* Generations come from one counter, and one not stored yet is nobody's.
Drawn ==
    /\ \A d \in Dbs : state_gen[d] <= next_gen
    /\ \A d \in Dbs : phase[d] # "destroyed" => state_gen[d] # kNoStateGen
    /\ \A r \in Readers : cache[r].gen <= next_gen /\ rd[r].gen <= next_gen
    /\ \A d \in Dbs, p \in Publishers : new_gen[d][p] <= next_gen

Unused ==
    \A d \in Dbs, p \in Publishers : wp[d][p] = "store" =>
        /\ new_gen[d][p] # kNoStateGen
        /\ \A r \in Readers : new_gen[d][p] # cache[r].gen /\ new_gen[d][p] # rd[r].gen
        /\ \A e \in Dbs : new_gen[d][p] # state_gen[e]
        /\ \A e \in Dbs, q \in Publishers :
            wp[e][q] = "store" /\ new_gen[e][q] = new_gen[d][p] => e = d /\ q = p

AsNewAs(s, f) == s.life = f.life /\ s.ver >= f.ver /\ (f.closed => s.closed)

\* A call in progress: its DB is alive and has not gone back.
InCall ==
    \A r \in Readers :
        /\ pc[r] \in Calls =>
            /\ rd[r].db \in Dbs
            /\ phase[rd[r].db] \in {"open", "closing", "closed"}
            /\ AsNewAs(state[rd[r].db], rd[r].floor)
        /\ Holds(r) => cache[r].owner = rd[r].db

Pending(d) == \E p \in Publishers : wp[d][p] \in {"gen", "store"}

Match ==
    \A r \in Readers, d \in Dbs :
        cache[r].owner = d /\ cache[r].gen # kNoStateGen
            /\ cache[r].gen = state_gen[d]
        => cache[r].state = state[d] \/ Pending(d)

Ready ==
    \A r \in Readers :
        /\ pc[r] = "gen" /\ rd[r].busy = 0 /\ cache[r].gen = state_gen[rd[r].db]
            => AsNewAs(cache[r].state, rd[r].floor)
        /\ pc[r] = "state" /\ rd[r].busy = 0 /\ cache[r].gen = rd[r].gen
            => AsNewAs(cache[r].state, rd[r].floor)
        /\ pc[r] = "reading" => AsNewAs(cache[r].state, rd[r].floor)

IInv == Types /\ Counted /\ Quiet /\ Drawn /\ Unused /\ InCall /\ Match /\ Ready

\* Each conjunct of the invariant depends on a few variables only.
LEMMA Frame ==
  /\ Counted /\ UNCHANGED <<publishing, wp>> => Counted'
  /\ Quiet /\ UNCHANGED <<phase, wp, tp, state>> => Quiet'
  /\ Drawn /\ UNCHANGED <<state_gen, next_gen, phase, cache, rd, new_gen>> => Drawn'
  /\ Unused /\ UNCHANGED <<state_gen, cache, rd, new_gen, wp>> => Unused'
  /\ InCall /\ UNCHANGED <<pc, rd, phase, state, cache>> => InCall'
  /\ Match /\ UNCHANGED <<cache, state_gen, state, wp>> => Match'
  /\ Ready /\ UNCHANGED <<pc, rd, cache, state_gen>> => Ready'
  <1>1. Counted /\ UNCHANGED <<publishing, wp>> => Counted'
    BY DEF Counted, One
  <1>2. Quiet /\ UNCHANGED <<phase, wp, tp, state>> => Quiet'
    BY DEF Quiet
  <1>3. Drawn /\ UNCHANGED <<state_gen, next_gen, phase, cache, rd, new_gen>> => Drawn'
    BY DEF Drawn
  <1>4. Unused /\ UNCHANGED <<state_gen, cache, rd, new_gen, wp>> => Unused'
    BY DEF Unused
  <1>5. InCall /\ UNCHANGED <<pc, rd, phase, state, cache>> => InCall'
    BY DEF InCall, Holds
  <1>6. Match /\ UNCHANGED <<cache, state_gen, state, wp>> => Match'
    BY DEF Match, Pending
  <1>7. Ready /\ UNCHANGED <<pc, rd, cache, state_gen>> => Ready'
    BY DEF Ready
  <1> QED
    BY <1>1, <1>2, <1>3, <1>4, <1>5, <1>6, <1>7

\* The values a DB and an entry start from have their types.
LEMMA NoValues == NoState \in States /\ NoEntry \in EntryType
  BY DEF NoState, NoEntry, States, EntryType, kNoStateGen

\* What a publisher installs is a state.
LEMMA NextStateType ==
  ASSUME NEW d, state[d] \in States, NEW c \in BOOLEAN, NEW g \in BOOLEAN
  PROVE  NextState(d, c, g) \in States
  <1>1. state[d].ver + 1 \in Nat
    BY DEF States
  <1> QED
    BY <1>1, Zenon DEF States, NextState

\* The invariant holds before any DB is opened.
LEMMA InitIInv == Init => IInv
  <1> SUFFICES ASSUME Init PROVE IInv
    OBVIOUS
  <1>1. Types
    BY DEF Init, Types, NoState, NoEntry, NoRead, NoOne, States, EntryType,
       ReadType, Phases, ReaderSteps, PubSteps, PassSteps, Publishers, kNoStateGen
  <1>2. Counted /\ Quiet /\ Drawn /\ Unused
    BY DEF Init, Counted, Quiet, Drawn, Unused, One, Active, Publishers,
       NoEntry, NoRead, NoState, kNoStateGen
  <1>3. InCall /\ Match /\ Ready
    BY DEF Init, InCall, Match, Ready, Calls, Holds, NoEntry, kNoStateGen
  <1> QED
    BY <1>1, <1>2, <1>3 DEF IInv

\* The invariant gives the property: a read that returns is as new as the
\* state it began with.
LEMMA IInvImplies == IInv => ReadsFresh
  BY DEF IInv, ReadsFresh, Ready, InCall, AsNewAs, Holds, Calls

(* A reader's steps keep the invariant. *)

\* A read begins: its floor is the state that is current (claim()).
LEMMA ClaimKeeps ==
  ASSUME IInv, NEW r \in Readers, NEW d \in Dbs, Claim(r, d)
  PROVE  IInv'
  <1>1. UNCHANGED <<state, publishing, state_gen, next_gen, phase, cache,
     wp, current, new_gen, tp, epoch, lives>>
    BY DEF Claim, dbVars, pubVars, takeVars
  <1>2. Types'
    <2>1. pc' \in [Readers -> ReaderSteps]
      BY DEF IInv, Types, Claim, Goto, NoRead, NoState, kNoStateGen,
         IsEntry, ReaderSteps
    <2>2. rd' \in [Readers -> ReadType]
      BY Zenon DEF IInv, Types, Claim, NoRead, ReadType, NoState, kNoStateGen
    <2> QED
      BY <1>1, <2>1, <2>2 DEF IInv, Types
  <1>3. Counted' /\ Quiet' /\ Match'
    BY <1>1, Frame DEF IInv
  <1>4. Drawn'
    BY <1>1 DEF IInv, Types, Drawn, InCall, Calls, Publishers, kNoStateGen,
       EntryType, ReadType, Claim, Goto, NoRead, NoState, IsEntry
  <1>5. Unused'
    BY <1>1 DEF IInv, Types, Unused, Drawn, InCall, Calls, EntryType,
       ReadType, kNoStateGen, Publishers, Claim, Goto, NoRead, NoState,
       IsEntry
  <1>6. InCall'
    BY <1>1 DEF IInv, Types, InCall, Calls, Holds, AsNewAs, States,
       Claim, Goto, NoRead, NoState, kNoStateGen, IsEntry
  <1>7. Ready'
    BY <1>1 DEF IInv, Types, Ready, InCall, AsNewAs, Calls, Holds,
       EntryType, ReadType, Claim, Goto, NoRead, NoState, kNoStateGen,
       IsEntry
  <1> QED
    BY <1>2, <1>3, <1>4, <1>5, <1>6, <1>7 DEF IInv

\* The entry is made this DB's (its state is dropped if it was another's).
LEMMA OwnKeeps ==
  ASSUME IInv, NEW r \in Readers, Own(r)
  PROVE  IInv'
  <1>1. UNCHANGED <<state, publishing, state_gen, next_gen, phase, rd, wp,
     current, new_gen, tp, epoch, lives>>
    BY DEF Own, dbVars, pubVars, takeVars
  <1>2. Types'
    <2>1. cache' \in [Readers -> EntryType]
      <3>1. rd[r].db \in Dbs
        BY DEF IInv, InCall, Calls, Own
      <3>2. cache[r] \in EntryType
        BY DEF IInv, Types
      <3>3. [NoEntry EXCEPT !.id = cache[r].id + 1, !.owner = rd[r].db] \in EntryType
        <4>1. cache[r].id + 1 \in Nat
          BY <3>2 DEF EntryType
        <4> QED
          BY <3>1, <4>1, NoValues, Zenon DEF EntryType
      <3>4. [cache[r] EXCEPT !.owner = rd[r].db, !.state = NoState,
                             !.gen = kNoStateGen] \in EntryType
        BY <3>1, <3>2, NoValues, Zenon DEF EntryType, kNoStateGen
      <3> QED
        BY <3>2, <3>3, <3>4 DEF IInv, Types, Own
    <2>2. pc' \in [Readers -> ReaderSteps]
      BY DEF IInv, Types, Own, Goto, NoEntry, NoState, kNoStateGen,
         ReaderSteps
    <2> QED
      BY <1>1, <2>1, <2>2 DEF IInv, Types
  <1>3. Counted' /\ Quiet'
    BY <1>1, Frame DEF IInv
  <1>4. Drawn'
    BY <1>1 DEF IInv, Types, Drawn, InCall, Calls, Publishers, kNoStateGen,
       EntryType, ReadType, Own, Goto, NoEntry, NoState
  <1>5. Unused'
    BY <1>1 DEF IInv, Types, Unused, Drawn, InCall, Calls, EntryType,
       ReadType, kNoStateGen, Publishers, Own, Goto, NoEntry, NoState
  <1>6. InCall'
    BY <1>1 DEF IInv, Types, InCall, Calls, Holds, AsNewAs, States,
       Own, Goto, NoEntry, NoState, kNoStateGen
  <1>7. Match'
    <2>1. cache'[r] = cache[r] \/ cache'[r].gen = kNoStateGen
      BY DEF IInv, Types, EntryType, Own, NoEntry, kNoStateGen
    <2>2. \A q \in Readers : q # r => cache'[q] = cache[q]
      BY DEF IInv, Types, Own
    <2>3. state' = state /\ state_gen' = state_gen /\ wp' = wp
      BY DEF Own, dbVars, pubVars
    <2> QED
      BY <2>1, <2>2, <2>3 DEF IInv, Match, Pending
  <1>8. Ready'
    BY <1>1 DEF IInv, Types, Ready, InCall, AsNewAs, Calls, Holds,
       EntryType, ReadType, Own, Goto, NoEntry, NoState, kNoStateGen
  <1> QED
    BY <1>2, <1>3, <1>4, <1>5, <1>6, <1>7, <1>8 DEF IInv

\* The reader loads publishing_: zero means no exchange awaits its generation.
LEMMA LoadBusyKeeps ==
  ASSUME IInv, NEW r \in Readers, LoadBusy(r)
  PROVE  IInv'
  <1>1. UNCHANGED <<state, publishing, state_gen, next_gen, phase, cache,
     wp, current, new_gen, tp, epoch, lives>>
    BY DEF LoadBusy, dbVars, slotVars, pubVars, takeVars
  <1>2. Types'
    <2>1. pc' \in [Readers -> ReaderSteps]
      BY DEF IInv, Types, LoadBusy, Goto, ReaderSteps
    <2>2. rd' \in [Readers -> ReadType]
      <3>1. publishing[rd[r].db] \in Nat /\ rd[r] \in ReadType
        BY DEF IInv, Types, InCall, Calls, LoadBusy
      <3>2. [rd[r] EXCEPT !.busy = publishing[rd[r].db]] \in ReadType
        BY <3>1 DEF ReadType
      <3> QED
        BY <3>2 DEF IInv, Types, LoadBusy
    <2> QED
      BY <1>1, <2>1, <2>2 DEF IInv, Types
  <1>3. Counted' /\ Quiet' /\ Match'
    BY <1>1, Frame DEF IInv
  <1>4. Drawn'
    BY <1>1 DEF IInv, Types, Drawn, InCall, Calls, Publishers,
       kNoStateGen, EntryType, ReadType, LoadBusy, Goto
  <1>5. Unused'
    BY <1>1 DEF IInv, Types, Unused, Drawn, InCall, Calls,
       EntryType, ReadType, kNoStateGen, Publishers, LoadBusy, Goto
  <1>6. InCall'
    BY <1>1 DEF IInv, Types, InCall, Calls, Holds, AsNewAs, States,
       LoadBusy, Goto
  <1>7. Ready'
    <2> DEFINE db == rd[r].db
    <2>1. db \in Dbs /\ phase[db] # "destroyed" /\ cache[r].owner = db
      BY DEF IInv, InCall, Calls, Holds, LoadBusy
    <2>2. AsNewAs(state[db], rd[r].floor)
      BY DEF IInv, InCall, Calls, LoadBusy
    <2>3. ASSUME publishing[db] = 0, cache[r].gen = state_gen[db]
          PROVE  AsNewAs(cache[r].state, rd[r].floor)
      <3>1. ~Pending(db)
        BY <2>1, <2>3 DEF IInv, Counted, One, Active, Pending, Publishers
      <3>2. cache[r].gen # kNoStateGen
        BY <2>1, <2>3 DEF IInv, Drawn
      <3> QED
        BY <2>1, <2>2, <2>3, <3>1, <3>2 DEF IInv, Match
    <2>4. /\ rd'[r].busy = publishing[db]
          /\ rd'[r].floor = rd[r].floor /\ rd'[r].db = db
          /\ pc'[r] = "gen"
      BY DEF IInv, Types, ReadType, LoadBusy, Goto
    <2>5. \A q \in Readers : q # r => rd'[q] = rd[q] /\ pc'[q] = pc[q]
      BY DEF IInv, Types, LoadBusy, Goto
    <2>6. cache' = cache /\ state_gen' = state_gen
      BY DEF LoadBusy, slotVars, dbVars
    <2> QED
      BY <2>3, <2>4, <2>5, <2>6 DEF IInv, Ready
  <1> QED
    BY <1>2, <1>3, <1>4, <1>5, <1>6, <1>7 DEF IInv

\* The reader loads state_gen_.
LEMMA LoadGenKeeps ==
  ASSUME IInv, NEW r \in Readers, LoadGen(r)
  PROVE  IInv'
  <1>1. UNCHANGED <<state, publishing, state_gen, next_gen, phase, cache,
     wp, current, new_gen, tp, epoch, lives>>
    BY DEF LoadGen, dbVars, slotVars, pubVars, takeVars
  <1>2. Types'
    <2>1. pc' \in [Readers -> ReaderSteps]
      BY DEF IInv, Types, LoadGen, Goto, ReaderSteps
    <2>2. rd' \in [Readers -> ReadType]
      <3>1. state_gen[rd[r].db] \in Nat /\ rd[r] \in ReadType
        BY DEF IInv, Types, InCall, Calls, LoadGen
      <3>2. [rd[r] EXCEPT !.gen = state_gen[rd[r].db]] \in ReadType
        BY <3>1 DEF ReadType
      <3> QED
        BY <3>2 DEF IInv, Types, LoadGen
    <2> QED
      BY <1>1, <2>1, <2>2 DEF IInv, Types
  <1>3. Counted' /\ Quiet' /\ Match'
    BY <1>1, Frame DEF IInv
  <1>4. Drawn'
    BY <1>1 DEF IInv, Types, Drawn, InCall, Calls, Publishers,
       kNoStateGen, EntryType, ReadType, LoadGen, Goto
  <1>5. Unused'
    BY <1>1 DEF IInv, Types, Unused, Drawn, InCall, Calls,
       EntryType, ReadType, kNoStateGen, Publishers, LoadGen, Goto
  <1>6. InCall'
    BY <1>1 DEF IInv, Types, InCall, Calls, Holds, AsNewAs, States,
       LoadGen, Goto
  <1>7. Ready'
    BY <1>1 DEF IInv, Types, Ready, InCall, AsNewAs, Calls, Holds,
       EntryType, ReadType, LoadGen, Goto
  <1> QED
    BY <1>2, <1>3, <1>4, <1>5, <1>6, <1>7 DEF IInv

\* The reader reloads the state, or keeps one that Ready says is new enough.
LEMMA LoadStateKeeps ==
  ASSUME IInv, NEW r \in Readers, LoadState(r)
  PROVE  IInv'
  <1>1. UNCHANGED <<state, publishing, state_gen, next_gen, phase, rd, wp,
     current, new_gen, tp, epoch, lives>>
    BY DEF LoadState, dbVars, pubVars, takeVars
  <1>2. Types'
    <2>1. cache' \in [Readers -> EntryType]
      <3>1. /\ cache[r] \in EntryType /\ rd[r] \in ReadType /\ epoch \in Nat
            /\ state[rd[r].db] \in States
        BY DEF IInv, Types, InCall, Calls, LoadState
      <3>2. ASSUME NEW s \in States, NEW g \in Nat
            PROVE  [cache[r] EXCEPT !.used = epoch, !.state = s, !.gen = g] \in EntryType
        BY <3>1, Zenon DEF EntryType
      <3>3. cache[r].state \in States /\ cache[r].gen \in Nat /\ rd[r].gen \in Nat
        BY <3>1 DEF EntryType, ReadType
      <3> QED
        BY <3>1, <3>2, <3>3, Zenon DEF IInv, Types, LoadState, kNoStateGen
    <2>2. pc' \in [Readers -> ReaderSteps]
      BY DEF IInv, Types, LoadState, Goto, Stale, kNoStateGen,
         ReaderSteps
    <2> QED
      BY <1>1, <2>1, <2>2 DEF IInv, Types
  <1>3. Counted' /\ Quiet'
    BY <1>1, Frame DEF IInv
  <1>4. Drawn'
    BY <1>1 DEF IInv, Types, Drawn, InCall, Calls, Publishers, kNoStateGen,
       EntryType, ReadType, LoadState, Goto, Stale
  <1>5. Unused'
    BY <1>1 DEF IInv, Types, Unused, Drawn, InCall, Calls, EntryType,
       ReadType, kNoStateGen, Publishers, LoadState, Goto, Stale
  <1>6. InCall'
    BY <1>1 DEF IInv, Types, InCall, Calls, Holds, AsNewAs, States,
       LoadState, Goto, Stale, kNoStateGen
  <1>7. Match'
    <2> DEFINE db == rd[r].db
    <2>1. /\ cache'[r].owner = cache[r].owner
          /\ \/ Stale(r) /\ cache'[r].state = state[db]
             \/ ~Stale(r) /\ cache'[r].state = cache[r].state
                            /\ cache'[r].gen = cache[r].gen
      BY DEF IInv, Types, EntryType, LoadState
    <2>2. cache[r].owner = db
      BY DEF IInv, InCall, Holds, LoadState
    <2>3. \A q \in Readers : q # r => cache'[q] = cache[q]
      BY DEF IInv, Types, LoadState
    <2>4. state' = state /\ state_gen' = state_gen /\ wp' = wp
      BY DEF LoadState, dbVars, pubVars
    <2> QED
      BY <2>1, <2>2, <2>3, <2>4 DEF IInv, Match, Pending
  <1>8. Ready'
    <2> DEFINE db == rd[r].db
    <2>1. /\ cache'[r].owner = cache[r].owner
          /\ \/ Stale(r) /\ cache'[r].state = state[db]
             \/ ~Stale(r) /\ cache'[r].state = cache[r].state
                            /\ cache'[r].gen = cache[r].gen
      BY DEF IInv, Types, EntryType, LoadState
    <2>2. AsNewAs(state[db], rd[r].floor)
      BY DEF IInv, InCall, Calls, LoadState
    <2>3. ~Stale(r) => AsNewAs(cache[r].state, rd[r].floor)
      BY DEF IInv, Ready, LoadState, Stale
    <2>4. AsNewAs(cache'[r].state, rd[r].floor)
      BY <2>1, <2>2, <2>3
    <2>5. /\ pc'[r] = "reading" /\ rd' = rd /\ state_gen' = state_gen
          /\ \A q \in Readers : q # r => pc'[q] = pc[q] /\ cache'[q] = cache[q]
      BY DEF IInv, Types, LoadState, Goto, dbVars
    <2> QED
      BY <2>4, <2>5 DEF IInv, Ready
  <1> QED
    BY <1>2, <1>3, <1>4, <1>5, <1>6, <1>7, <1>8 DEF IInv

\* The guard gives the entry back.
LEMMA ReleaseKeeps ==
  ASSUME IInv, NEW r \in Readers, Release(r)
  PROVE  IInv'
  <1>1. UNCHANGED <<state, publishing, state_gen, next_gen, phase, cache,
     wp, current, new_gen, tp, epoch, lives>>
    BY DEF Release, dbVars, pubVars, takeVars
  <1>2. Types'
    <2>1. pc' \in [Readers -> ReaderSteps]
      BY DEF IInv, Types, Release, Goto, NoRead, NoState,
         kNoStateGen, ReaderSteps
    <2>2. rd' \in [Readers -> ReadType]
      BY DEF IInv, Types, Release, Goto, NoRead, NoState,
         kNoStateGen, ReadType, States, InCall, Calls
    <2> QED
      BY <1>1, <2>1, <2>2 DEF IInv, Types
  <1>3. Counted' /\ Quiet' /\ Match'
    BY <1>1, Frame DEF IInv
  <1>4. Drawn'
    BY <1>1 DEF IInv, Types, Drawn, InCall, Calls, Publishers, kNoStateGen,
       EntryType, ReadType, Release, Goto, NoRead, NoState
  <1>5. Unused'
    BY <1>1 DEF IInv, Types, Unused, Drawn, InCall, Calls, EntryType,
       ReadType, kNoStateGen, Publishers, Release, Goto, NoRead, NoState
  <1>6. InCall'
    BY <1>1 DEF IInv, Types, InCall, Calls, Holds, AsNewAs, States,
       Release, Goto, NoRead, NoState, kNoStateGen
  <1>7. Ready'
    BY <1>1 DEF IInv, Types, Ready, InCall, AsNewAs, Calls, Holds,
       EntryType, ReadType, Release, Goto, NoRead, NoState, kNoStateGen
  <1> QED
    BY <1>2, <1>3, <1>4, <1>5, <1>6, <1>7 DEF IInv

\* The thread exits: it claims its slot.
LEMMA ExitClaimKeeps ==
  ASSUME IInv, NEW r \in Readers, ExitClaim(r)
  PROVE  IInv'
  <1>1. UNCHANGED <<state, publishing, state_gen, next_gen, phase, cache,
     rd, wp, current, new_gen, tp, epoch, lives>>
    BY DEF ExitClaim, dbVars, pubVars, takeVars
  <1>2. Types'
    <2>1. pc' \in [Readers -> ReaderSteps]
      BY DEF IInv, Types, ExitClaim, Goto, IsEntry, ReaderSteps
    <2> QED
      BY <1>1, <2>1 DEF IInv, Types
  <1>3. Counted' /\ Quiet' /\ Drawn' /\ Unused' /\ Match'
    BY <1>1, Frame DEF IInv
  <1>4. InCall'
    BY <1>1 DEF IInv, Types, InCall, Calls, Holds, AsNewAs, States,
       ExitClaim, Goto, IsEntry
  <1>5. Ready'
    BY <1>1 DEF IInv, Types, Ready, InCall, AsNewAs, Calls, Holds,
       EntryType, ReadType, ExitClaim, Goto, IsEntry
  <1> QED
    BY <1>2, <1>3, <1>4, <1>5 DEF IInv

\* The thread exits: it leaves the registry.
LEMMA ExitRemoveKeeps ==
  ASSUME IInv, NEW r \in Readers, ExitRemove(r)
  PROVE  IInv'
  <1>1. UNCHANGED <<state, publishing, state_gen, next_gen, phase, cache,
     rd, wp, current, new_gen, tp, epoch, lives>>
    BY DEF ExitRemove, dbVars, pubVars, takeVars
  <1>2. Types'
    <2>1. pc' \in [Readers -> ReaderSteps]
      BY DEF IInv, Types, ExitRemove, Goto, ReaderSteps
    <2> QED
      BY <1>1, <2>1 DEF IInv, Types
  <1>3. Counted' /\ Quiet' /\ Drawn' /\ Unused' /\ Match'
    BY <1>1, Frame DEF IInv
  <1>4. InCall'
    BY <1>1 DEF IInv, Types, InCall, Calls, Holds, AsNewAs, States,
       ExitRemove, Goto
  <1>5. Ready'
    BY <1>1 DEF IInv, Types, Ready, InCall, AsNewAs, Calls, Holds,
       EntryType, ReadType, ExitRemove, Goto
  <1> QED
    BY <1>2, <1>3, <1>4, <1>5 DEF IInv

=============================================================================
