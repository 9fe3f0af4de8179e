-------------------------- MODULE ReadCacheProofs --------------------------
(***************************************************************************)
(* Publications, passes over the registry, opening and closing keep the    *)
(* invariant of ReadCacheInvariant, and so every read is fresh.            *)
(***************************************************************************)
EXTENDS ReadCacheInvariant

\* store_state() raises publishing_.
LEMMA PublishKeeps ==
  ASSUME IInv, NEW d \in Dbs, Publish(d)
  PROVE  IInv'
  <1>1. UNCHANGED <<state, state_gen, next_gen, phase, cache, pc, rd,
     current, new_gen, tp, epoch, lives>>
    BY DEF Publish, slotVars, readVars, takeVars
  <1>2. Types'
    <2>1. publishing' \in [Dbs -> Nat]
      BY DEF IInv, Types, Publish, PubTo, Counted, One, Active,
         Publishers
    <2>2. wp' \in [Dbs -> [Publishers -> PubSteps]]
      BY DEF IInv, Types, Publish, PubTo, PubSteps, Publishers
    <2> QED
      BY <1>1, <2>1, <2>2 DEF IInv, Types
  <1>3. Drawn' /\ InCall' /\ Ready'
    BY <1>1, Frame DEF IInv
  <1>4. Counted'
    BY <1>1 DEF IInv, Types, Counted, Quiet, One, Active,
       Publishers, Publish, PubTo
  <1>5. Quiet'
    BY <1>1 DEF IInv, Types, Quiet, Publishers, Publish, PubTo
  <1>6. Unused'
    BY <1>1 DEF IInv, Types, Unused, Drawn, InCall, Calls,
       EntryType, ReadType, kNoStateGen, Publishers, Publish, PubTo
  <1>7. Match'
    <2>1. \A e \in Dbs : Pending(e) => Pending(e)'
      BY DEF IInv, Types, Pending, Publishers, Publish, PubTo
    <2> QED
      BY <1>1, <2>1 DEF IInv, Match
  <1> QED
    BY <1>2, <1>3, <1>4, <1>5, <1>6, <1>7 DEF IInv

\* close() publishes the closed state.
LEMMA CloseKeeps ==
  ASSUME IInv, NEW d \in Dbs, Close(d)
  PROVE  IInv'
  <1>1. UNCHANGED <<state, state_gen, next_gen, cache, pc, rd, current,
     new_gen, tp, epoch, lives>>
    BY DEF Close, slotVars, readVars, takeVars
  <1>2. Types'
    <2>1. publishing' \in [Dbs -> Nat]
      BY DEF IInv, Types, Close, PubTo, Counted, One, Active,
         Publishers
    <2>2. phase' \in [Dbs -> Phases]
      BY DEF IInv, Types, Close, PubTo, Phases
    <2>3. wp' \in [Dbs -> [Publishers -> PubSteps]]
      BY DEF IInv, Types, Close, PubTo, PubSteps, Publishers
    <2> QED
      BY <1>1, <2>1, <2>2, <2>3 DEF IInv, Types
  <1>3. Ready'
    BY <1>1, Frame DEF IInv
  <1>4. Counted'
    BY <1>1 DEF IInv, Types, Counted, Quiet, One, Active,
       Publishers, Close, PubTo
  <1>5. Quiet'
    BY <1>1 DEF IInv, Types, Quiet, Publishers, Close, PubTo
  <1>6. Drawn'
    BY <1>1 DEF IInv, Types, Drawn, InCall, Calls, Publishers,
       kNoStateGen, EntryType, ReadType, Close, PubTo
  <1>7. Unused'
    BY <1>1 DEF IInv, Types, Unused, Drawn, InCall, Calls,
       EntryType, ReadType, kNoStateGen, Publishers, Close, PubTo
  <1>8. InCall'
    BY <1>1 DEF IInv, Types, InCall, Calls, Holds, AsNewAs, States,
       Close, PubTo
  <1>9. Match'
    <2>1. \A e \in Dbs : Pending(e) => Pending(e)'
      BY DEF IInv, Types, Pending, Publishers, Close, PubTo
    <2> QED
      BY <1>1, <2>1 DEF IInv, Match
  <1> QED
    BY <1>2, <1>3, <1>4, <1>5, <1>6, <1>7, <1>8, <1>9 DEF IInv

\* refuse_writes() loads the state to degrade.
LEMMA RefuseKeeps ==
  ASSUME IInv, NEW d \in Dbs, Refuse(d)
  PROVE  IInv'
  <1>1. UNCHANGED <<state, publishing, state_gen, next_gen, phase, cache,
     pc, rd, new_gen, tp, epoch, lives>>
    BY DEF Refuse, dbVars, slotVars, readVars, takeVars
  <1>2. Types'
    <2>1. wp' \in [Dbs -> [Publishers -> PubSteps]]
      BY DEF IInv, Types, Refuse, PubTo, PubSteps, Publishers
    <2>2. current' \in [Dbs -> States]
      BY DEF IInv, Types, Refuse, PubTo
    <2> QED
      BY <1>1, <2>1, <2>2 DEF IInv, Types
  <1>3. Drawn' /\ InCall' /\ Ready'
    BY <1>1, Frame DEF IInv
  <1>4. Counted'
    BY <1>1 DEF IInv, Types, Counted, Quiet, One, Active,
       Publishers, Refuse, PubTo
  <1>5. Quiet'
    BY <1>1 DEF IInv, Types, Quiet, Publishers, Refuse, PubTo
  <1>6. Unused'
    BY <1>1 DEF IInv, Types, Unused, Drawn, InCall, Calls,
       EntryType, ReadType, kNoStateGen, Publishers, Refuse, PubTo
  <1>7. Match'
    <2>1. \A e \in Dbs : Pending(e) => Pending(e)'
      BY DEF IInv, Types, Pending, Publishers, Refuse, PubTo
    <2> QED
      BY <1>1, <2>1 DEF IInv, Match
  <1> QED
    BY <1>2, <1>3, <1>4, <1>5, <1>6, <1>7 DEF IInv

\* A state degraded already is left alone.
LEMMA RefuseDoneKeeps ==
  ASSUME IInv, NEW d \in Dbs, RefuseDone(d)
  PROVE  IInv'
  <1>1. UNCHANGED <<state, publishing, state_gen, next_gen, phase, cache,
     pc, rd, current, new_gen, tp, epoch, lives>>
    BY DEF RefuseDone, dbVars, slotVars, readVars, takeVars
  <1>2. Types'
    <2>1. wp' \in [Dbs -> [Publishers -> PubSteps]]
      BY DEF IInv, Types, RefuseDone, PubTo, PubSteps, Publishers
    <2> QED
      BY <1>1, <2>1 DEF IInv, Types
  <1>3. Drawn' /\ InCall' /\ Ready'
    BY <1>1, Frame DEF IInv
  <1>4. Counted'
    BY <1>1 DEF IInv, Types, Counted, Quiet, One, Active,
       Publishers, RefuseDone, PubTo
  <1>5. Quiet'
    BY <1>1 DEF IInv, Types, Quiet, Publishers, RefuseDone, PubTo
  <1>6. Unused'
    BY <1>1 DEF IInv, Types, Unused, Drawn, InCall, Calls,
       EntryType, ReadType, kNoStateGen, Publishers, RefuseDone, PubTo
  <1>7. Match'
    <2>1. \A e \in Dbs : Pending(e) => Pending(e)'
      BY DEF IInv, Types, Pending, Publishers, RefuseDone, PubTo
    <2> QED
      BY <1>1, <2>1 DEF IInv, Match
  <1> QED
    BY <1>2, <1>3, <1>4, <1>5, <1>6, <1>7 DEF IInv

\* A refusal raises publishing_.
LEMMA RefuseRaiseKeeps ==
  ASSUME IInv, NEW d \in Dbs, RefuseRaise(d)
  PROVE  IInv'
  <1>1. UNCHANGED <<state, state_gen, next_gen, phase, cache, pc, rd,
     current, new_gen, tp, epoch, lives>>
    BY DEF RefuseRaise, slotVars, readVars, takeVars
  <1>2. Types'
    <2>1. publishing' \in [Dbs -> Nat]
      BY DEF IInv, Types, RefuseRaise, PubTo, Counted, One, Active,
         Publishers
    <2>2. wp' \in [Dbs -> [Publishers -> PubSteps]]
      BY DEF IInv, Types, RefuseRaise, PubTo, PubSteps, Publishers
    <2> QED
      BY <1>1, <2>1, <2>2 DEF IInv, Types
  <1>3. Drawn' /\ InCall' /\ Ready'
    BY <1>1, Frame DEF IInv
  <1>4. Counted'
    BY <1>1 DEF IInv, Types, Counted, Quiet, One, Active,
       Publishers, RefuseRaise, PubTo
  <1>5. Quiet'
    BY <1>1 DEF IInv, Types, Quiet, Publishers, RefuseRaise, PubTo
  <1>6. Unused'
    BY <1>1 DEF IInv, Types, Unused, Drawn, InCall, Calls,
       EntryType, ReadType, kNoStateGen, Publishers, RefuseRaise, PubTo
  <1>7. Match'
    <2>1. \A e \in Dbs : Pending(e) => Pending(e)'
      BY DEF IInv, Types, Pending, Publishers, RefuseRaise, PubTo
    <2> QED
      BY <1>1, <2>1 DEF IInv, Match
  <1> QED
    BY <1>2, <1>3, <1>4, <1>5, <1>6, <1>7 DEF IInv

\* store_state() exchanges the state: from here its generation is pending.
LEMMA ExchangeKeeps ==
  ASSUME IInv, NEW d \in Dbs, Exchange(d)
  PROVE  IInv'
  <1>1. UNCHANGED <<publishing, state_gen, next_gen, phase, cache, pc, rd,
     current, new_gen, tp, epoch, lives>>
    BY DEF Exchange, slotVars, readVars, takeVars
  <1>2. Types'
    <2>1. state' \in [Dbs -> States]
      <3>0. state[d] \in States
        BY DEF IInv, Types
      <3>1. NextState(d, TRUE, state[d].degraded) \in States
        BY <3>0, NextStateType, Zenon DEF States
      <3>2. NextState(d, FALSE, FALSE) \in States
        BY <3>0, NextStateType, Zenon DEF States
      <3> QED
        BY Zenon, <3>1, <3>2 DEF IInv, Types, Exchange
    <2>2. wp' \in [Dbs -> [Publishers -> PubSteps]]
      BY DEF IInv, Types, Exchange, PubTo, NextState, PubSteps,
         Publishers
    <2> QED
      BY <1>1, <2>1, <2>2 DEF IInv, Types
  <1>3. Drawn' /\ Ready'
    BY <1>1, Frame DEF IInv
  <1>4. Counted'
    BY <1>1 DEF IInv, Types, Counted, Quiet, One, Active,
       Publishers, Exchange, PubTo, NextState
  <1>5. Quiet'
    BY <1>1 DEF IInv, Types, Quiet, Publishers, Exchange, PubTo,
       NextState
  <1>6. Unused'
    BY <1>1 DEF IInv, Types, Unused, Drawn, InCall, Calls,
       EntryType, ReadType, kNoStateGen, Publishers, Exchange, PubTo,
       NextState
  <1>7. InCall'
    <2>1. AsNewAs(state'[d], state[d])
      BY DEF IInv, Types, States, Quiet, AsNewAs, NextState, Exchange
    <2>2. \A e \in Dbs : e # d => state'[e] = state[e]
      BY DEF IInv, Types, Exchange
    <2>3. pc' = pc /\ rd' = rd /\ phase' = phase /\ cache' = cache
      BY DEF Exchange, readVars, slotVars
    <2>4. \A q \in Readers : pc[q] \in Calls =>
            AsNewAs(state'[rd[q].db], rd[q].floor)
      <3> SUFFICES ASSUME NEW q \in Readers, pc[q] \in Calls
                   PROVE  AsNewAs(state'[rd[q].db], rd[q].floor)
        OBVIOUS
      <3>1. rd[q].db \in Dbs /\ AsNewAs(state[rd[q].db], rd[q].floor)
        BY DEF IInv, InCall
      <3>2. state'[d].ver \in Nat /\ state[d].ver \in Nat /\ rd[q].floor.ver \in Nat
        BY <1>2 DEF IInv, Types, States, ReadType
      <3> QED
        BY <2>1, <2>2, <3>1, <3>2 DEF AsNewAs
    <2> QED
      BY <2>3, <2>4 DEF IInv, InCall, Holds
  <1>8. Match'
    <2>1. Pending(d)'
      BY DEF IInv, Types, Pending, Publishers, Exchange, PubTo
    <2>2. \A e \in Dbs : e # d => state'[e] = state[e] /\ wp'[e] = wp[e]
      BY DEF IInv, Types, Exchange, PubTo
    <2>3. cache' = cache /\ state_gen' = state_gen
      BY DEF Exchange, slotVars
    <2> QED
      BY <2>1, <2>2, <2>3 DEF IInv, Match, Pending
  <1> QED
    BY <1>2, <1>3, <1>4, <1>5, <1>6, <1>7, <1>8 DEF IInv

\* A refusal's compare-exchange succeeds: its generation is pending.
LEMMA CompareExchangeKeeps ==
  ASSUME IInv, NEW d \in Dbs, CompareExchange(d)
  PROVE  IInv'
  <1>1. UNCHANGED <<publishing, state_gen, next_gen, phase, cache, pc, rd,
     current, new_gen, tp, epoch, lives>>
    BY DEF CompareExchange, slotVars, readVars, takeVars
  <1>2. Types'
    <2>1. state' \in [Dbs -> States]
      <3>0. state[d] \in States
        BY DEF IInv, Types
      <3>1. NextState(d, state[d].closed, TRUE) \in States
        BY <3>0, NextStateType, Zenon DEF States
      <3> QED
        BY Zenon, <3>1 DEF IInv, Types, CompareExchange
    <2>2. wp' \in [Dbs -> [Publishers -> PubSteps]]
      BY DEF IInv, Types, CompareExchange, PubTo, NextState,
         PubSteps, Publishers
    <2> QED
      BY <1>1, <2>1, <2>2 DEF IInv, Types
  <1>3. Drawn' /\ Ready'
    BY <1>1, Frame DEF IInv
  <1>4. Counted'
    BY <1>1 DEF IInv, Types, Counted, Quiet, One, Active,
       Publishers, CompareExchange, PubTo, NextState
  <1>5. Quiet'
    BY <1>1 DEF IInv, Types, Quiet, Publishers, CompareExchange,
       PubTo, NextState
  <1>6. Unused'
    BY <1>1 DEF IInv, Types, Unused, Drawn, InCall, Calls,
       EntryType, ReadType, kNoStateGen, Publishers, CompareExchange,
       PubTo, NextState
  <1>7. InCall'
    <2>1. AsNewAs(state'[d], state[d])
      BY DEF IInv, Types, States, Quiet, AsNewAs, NextState, CompareExchange
    <2>2. \A e \in Dbs : e # d => state'[e] = state[e]
      BY DEF IInv, Types, CompareExchange
    <2>3. pc' = pc /\ rd' = rd /\ phase' = phase /\ cache' = cache
      BY DEF CompareExchange, readVars, slotVars
    <2>4. \A q \in Readers : pc[q] \in Calls =>
            AsNewAs(state'[rd[q].db], rd[q].floor)
      <3> SUFFICES ASSUME NEW q \in Readers, pc[q] \in Calls
                   PROVE  AsNewAs(state'[rd[q].db], rd[q].floor)
        OBVIOUS
      <3>1. rd[q].db \in Dbs /\ AsNewAs(state[rd[q].db], rd[q].floor)
        BY DEF IInv, InCall
      <3>2. state'[d].ver \in Nat /\ state[d].ver \in Nat /\ rd[q].floor.ver \in Nat
        BY <1>2 DEF IInv, Types, States, ReadType
      <3> QED
        BY <2>1, <2>2, <3>1, <3>2 DEF AsNewAs
    <2> QED
      BY <2>3, <2>4 DEF IInv, InCall, Holds
  <1>8. Match'
    <2>1. Pending(d)'
      BY DEF IInv, Types, Pending, Publishers, CompareExchange, PubTo
    <2>2. \A e \in Dbs : e # d => state'[e] = state[e] /\ wp'[e] = wp[e]
      BY DEF IInv, Types, CompareExchange, PubTo
    <2>3. cache' = cache /\ state_gen' = state_gen
      BY DEF CompareExchange, slotVars
    <2> QED
      BY <2>1, <2>2, <2>3 DEF IInv, Match, Pending
  <1> QED
    BY <1>2, <1>3, <1>4, <1>5, <1>6, <1>7, <1>8 DEF IInv

\* A refusal's compare-exchange fails.
LEMMA ExchangeFailsKeeps ==
  ASSUME IInv, NEW d \in Dbs, ExchangeFails(d)
  PROVE  IInv'
  <1>1. UNCHANGED <<state, publishing, state_gen, next_gen, phase, cache,
     pc, rd, new_gen, tp, epoch, lives>>
    BY DEF ExchangeFails, dbVars, slotVars, readVars, takeVars
  <1>2. Types'
    <2>1. wp' \in [Dbs -> [Publishers -> PubSteps]]
      BY DEF IInv, Types, ExchangeFails, PubTo, PubSteps, Publishers
    <2>2. current' \in [Dbs -> States]
      BY DEF IInv, Types, ExchangeFails, PubTo
    <2> QED
      BY <1>1, <2>1, <2>2 DEF IInv, Types
  <1>3. Drawn' /\ InCall' /\ Ready'
    BY <1>1, Frame DEF IInv
  <1>4. Counted'
    BY <1>1 DEF IInv, Types, Counted, Quiet, One, Active,
       Publishers, ExchangeFails, PubTo
  <1>5. Quiet'
    BY <1>1 DEF IInv, Types, Quiet, Publishers, ExchangeFails,
       PubTo
  <1>6. Unused'
    BY <1>1 DEF IInv, Types, Unused, Drawn, InCall, Calls,
       EntryType, ReadType, kNoStateGen, Publishers, ExchangeFails, PubTo
  <1>7. Match'
    <2>1. \A e \in Dbs : Pending(e) => Pending(e)'
      BY DEF IInv, Types, Pending, Publishers, ExchangeFails, PubTo
    <2> QED
      BY <1>1, <2>1 DEF IInv, Match
  <1> QED
    BY <1>2, <1>3, <1>4, <1>5, <1>6, <1>7 DEF IInv

\* A publisher draws a generation nobody has seen.
LEMMA NextGenKeeps ==
  ASSUME IInv, NEW d \in Dbs, NEW p \in Publishers, NextGen(d, p)
  PROVE  IInv'
  <1>1. UNCHANGED <<state, publishing, state_gen, phase, cache, pc, rd,
     current, tp, epoch, lives>>
    BY DEF NextGen, slotVars, readVars, takeVars
  <1>2. Types'
    <2>1. next_gen' \in Nat
      BY DEF IInv, Types, NextGen, PubTo
    <2>2. wp' \in [Dbs -> [Publishers -> PubSteps]]
      BY DEF IInv, Types, NextGen, PubTo, PubSteps, Publishers
    <2>3. new_gen' \in [Dbs -> [Publishers -> Nat]]
      BY DEF IInv, Types, NextGen, PubTo
    <2> QED
      BY <1>1, <2>1, <2>2, <2>3 DEF IInv, Types
  <1>3. InCall' /\ Ready'
    BY <1>1, Frame DEF IInv
  <1>4. Counted'
    BY <1>1 DEF IInv, Types, Counted, Quiet, One, Active,
       Publishers, NextGen, PubTo
  <1>5. Quiet'
    BY <1>1 DEF IInv, Types, Quiet, Publishers, NextGen, PubTo
  <1>6. Drawn'
    BY <1>1 DEF IInv, Types, Drawn, InCall, Calls, Publishers,
       kNoStateGen, EntryType, ReadType, NextGen, PubTo
  <1>7. Unused'
    BY <1>1 DEF IInv, Types, Unused, Drawn, InCall, Calls,
       EntryType, ReadType, kNoStateGen, Publishers, NextGen, PubTo
  <1>8. Match'
    <2>1. \A e \in Dbs : Pending(e) => Pending(e)'
      BY DEF IInv, Types, Pending, Publishers, NextGen, PubTo
    <2> QED
      BY <1>1, <2>1 DEF IInv, Match
  <1> QED
    BY <1>2, <1>3, <1>4, <1>5, <1>6, <1>7, <1>8 DEF IInv

\* A publisher stores its generation: no entry can have it.
LEMMA StoreGenKeeps ==
  ASSUME IInv, NEW d \in Dbs, NEW p \in Publishers, StoreGen(d, p)
  PROVE  IInv'
  <1>1. UNCHANGED <<state, publishing, next_gen, phase, cache, pc, rd,
     current, new_gen, tp, epoch, lives>>
    BY DEF StoreGen, slotVars, readVars, takeVars
  <1>2. Types'
    <2>1. state_gen' \in [Dbs -> Nat]
      BY DEF IInv, Types, StoreGen, PubTo
    <2>2. wp' \in [Dbs -> [Publishers -> PubSteps]]
      BY DEF IInv, Types, StoreGen, PubTo, PubSteps, Publishers
    <2> QED
      BY <1>1, <2>1, <2>2 DEF IInv, Types
  <1>3. InCall'
    BY <1>1, Frame DEF IInv
  <1>4. Counted'
    BY <1>1 DEF IInv, Types, Counted, Quiet, One, Active,
       Publishers, StoreGen, PubTo
  <1>5. Quiet'
    BY <1>1 DEF IInv, Types, Quiet, Publishers, StoreGen, PubTo
  <1>6. Drawn'
    <2>1. /\ state_gen'[d] = new_gen[d][p]
          /\ \A e \in Dbs : e # d => state_gen'[e] = state_gen[e]
      BY DEF IInv, Types, StoreGen
    <2>2. /\ new_gen[d][p] # kNoStateGen
          /\ \A r \in Readers : new_gen[d][p] # cache[r].gen
      BY DEF IInv, Unused, StoreGen
    <2>3. /\ next_gen' = next_gen /\ phase' = phase /\ cache' = cache
          /\ rd' = rd /\ new_gen' = new_gen
      BY DEF StoreGen, slotVars, readVars
    <2> QED
      BY <2>1, <2>2, <2>3 DEF IInv, Drawn
  <1>7. Unused'
    BY <1>1 DEF IInv, Types, Unused, Drawn, InCall, Calls,
       EntryType, ReadType, kNoStateGen, Publishers, StoreGen, PubTo
  <1>8. Match'
    <2>1. /\ state_gen'[d] = new_gen[d][p]
          /\ \A e \in Dbs : e # d => state_gen'[e] = state_gen[e]
      BY DEF IInv, Types, StoreGen
    <2>2. /\ new_gen[d][p] # kNoStateGen
          /\ \A r \in Readers : new_gen[d][p] # cache[r].gen
      BY DEF IInv, Unused, StoreGen
    <2>3. \A e \in Dbs : e # d /\ Pending(e) => Pending(e)'
      BY DEF IInv, Types, StoreGen, PubTo, Pending
    <2>4. ASSUME NEW r \in Readers, NEW e \in Dbs,
                 cache[r].gen # kNoStateGen, cache[r].gen = state_gen'[e],
                 cache[r].owner = e
          PROVE  cache[r].state = state[e] \/ Pending(e)'
      <3>1. e # d
        BY <2>1, <2>2, <2>4
      <3> QED
        BY <2>1, <2>3, <2>4, <3>1 DEF IInv, Match
    <2> QED
      BY <1>1, <2>4 DEF Match
  <1>9. Ready'
    <2>1. /\ state_gen'[d] = new_gen[d][p]
          /\ \A e \in Dbs : e # d => state_gen'[e] = state_gen[e]
      BY DEF IInv, Types, StoreGen
    <2>2. /\ new_gen[d][p] # kNoStateGen
          /\ \A r \in Readers : new_gen[d][p] # cache[r].gen
      BY DEF IInv, Unused, StoreGen
    <2>3. cache' = cache /\ pc' = pc /\ rd' = rd
      BY DEF StoreGen, slotVars, readVars
    <2>4. \A r \in Readers : pc[r] = "gen" => rd[r].db \in Dbs
      BY DEF IInv, InCall, Calls
    <2> QED
      BY <2>1, <2>2, <2>3, <2>4 DEF IInv, Ready
  <1> QED
    BY <1>2, <1>3, <1>4, <1>5, <1>6, <1>7, <1>8, <1>9 DEF IInv

\* A publisher lowers publishing_, with nothing pending any more.
LEMMA LowerKeeps ==
  ASSUME IInv, NEW d \in Dbs, NEW p \in Publishers, Lower(d, p)
  PROVE  IInv'
  <1>1. UNCHANGED <<state, state_gen, next_gen, phase, cache, pc, rd,
     current, new_gen, tp, epoch, lives>>
    BY DEF Lower, slotVars, readVars, takeVars
  <1>2. Types'
    <2>1. publishing' \in [Dbs -> Nat]
      BY DEF IInv, Types, Lower, PubTo, Counted, One, Active,
         Publishers
    <2>2. wp' \in [Dbs -> [Publishers -> PubSteps]]
      BY DEF IInv, Types, Lower, PubTo, PubSteps, Publishers
    <2> QED
      BY <1>1, <2>1, <2>2 DEF IInv, Types
  <1>3. Drawn' /\ InCall' /\ Ready'
    BY <1>1, Frame DEF IInv
  <1>4. Counted'
    BY <1>1 DEF IInv, Types, Counted, Quiet, One, Active,
       Publishers, Lower, PubTo
  <1>5. Quiet'
    BY <1>1 DEF IInv, Types, Quiet, Publishers, Lower, PubTo
  <1>6. Unused'
    BY <1>1 DEF IInv, Types, Unused, Drawn, InCall, Calls,
       EntryType, ReadType, kNoStateGen, Publishers, Lower, PubTo
  <1>7. Match'
    <2>1. \A e \in Dbs : Pending(e) => Pending(e)'
      BY DEF IInv, Types, Pending, Publishers, Lower, PubTo
    <2> QED
      BY <1>1, <2>1 DEF IInv, Match
  <1> QED
    BY <1>2, <1>3, <1>4, <1>5, <1>6, <1>7 DEF IInv

\* A publication may end in a scrape.
LEMMA PublishScrapeKeeps ==
  ASSUME IInv, NEW d \in Dbs, PublishScrape(d)
  PROVE  IInv'
  <1>1. UNCHANGED <<state, publishing, state_gen, next_gen, phase, cache,
     pc, rd, current, new_gen, lives>>
    BY DEF PublishScrape, dbVars, slotVars, readVars
  <1>2. Types'
    <2>1. wp' \in [Dbs -> [Publishers -> PubSteps]]
      BY DEF IInv, Types, PublishScrape, PubTo, PassTo, Pass,
         ScrapeNow, PubSteps, Publishers
    <2>2. tp' \in [Dbs -> PassSteps]
      BY DEF IInv, Types, PublishScrape, PubTo, PassTo, Pass,
         ScrapeNow, PassSteps
    <2>3. epoch' \in Nat
      BY DEF IInv, Types, PublishScrape, PubTo, PassTo, Pass,
         ScrapeNow
    <2> QED
      BY <1>1, <2>1, <2>2, <2>3 DEF IInv, Types
  <1>3. Drawn' /\ InCall' /\ Ready'
    BY <1>1, Frame DEF IInv
  <1>4. Counted'
    BY <1>1 DEF IInv, Types, Counted, Quiet, One, Active,
       Publishers, PublishScrape, PubTo, PassTo, Pass, ScrapeNow
  <1>5. Quiet'
    BY <1>1 DEF IInv, Types, Quiet, Publishers, PublishScrape,
       PubTo, PassTo, Pass, ScrapeNow
  <1>6. Unused'
    BY <1>1 DEF IInv, Types, Unused, Drawn, InCall, Calls,
       EntryType, ReadType, kNoStateGen, Publishers, PublishScrape, PubTo,
       PassTo, Pass, ScrapeNow
  <1>7. Match'
    <2>1. \A e \in Dbs : Pending(e) => Pending(e)'
      BY DEF IInv, Types, Pending, Publishers, PublishScrape, PubTo
    <2> QED
      BY <1>1, <2>1 DEF IInv, Match
  <1> QED
    BY <1>2, <1>3, <1>4, <1>5, <1>6, <1>7 DEF IInv

\* close() returns.
LEMMA ClosedKeeps ==
  ASSUME IInv, NEW d \in Dbs, Closed(d)
  PROVE  IInv'
  <1>1. UNCHANGED <<state, publishing, state_gen, next_gen, cache, pc, rd,
     wp, current, new_gen, epoch, lives>>
    BY DEF Closed, slotVars, readVars, pubVars
  <1>2. Types'
    <2>1. phase' \in [Dbs -> Phases]
      BY DEF IInv, Types, Closed, PassTo, Phases
    <2>2. tp' \in [Dbs -> PassSteps]
      BY DEF IInv, Types, Closed, PassTo, PassSteps
    <2> QED
      BY <1>1, <2>1, <2>2 DEF IInv, Types
  <1>3. Counted' /\ Unused' /\ Match' /\ Ready'
    BY <1>1, Frame DEF IInv
  <1>4. Quiet'
    BY <1>1 DEF IInv, Types, Quiet, Publishers, Closed, PassTo
  <1>5. Drawn'
    BY <1>1 DEF IInv, Types, Drawn, InCall, Calls, Publishers,
       kNoStateGen, EntryType, ReadType, Closed, PassTo
  <1>6. InCall'
    BY <1>1 DEF IInv, Types, InCall, Calls, Holds, AsNewAs, States,
       Closed, PassTo
  <1> QED
    BY <1>2, <1>3, <1>4, <1>5, <1>6 DEF IInv

\* The destructor begins its own release.
LEMMA DestroyKeeps ==
  ASSUME IInv, NEW d \in Dbs, Destroy(d)
  PROVE  IInv'
  <1>1. UNCHANGED <<state, publishing, state_gen, next_gen, cache, pc, rd,
     wp, current, new_gen, epoch, lives>>
    BY DEF Destroy, slotVars, readVars, pubVars
  <1>2. Types'
    <2>1. phase' \in [Dbs -> Phases]
      BY DEF IInv, Types, Destroy, PassTo, Phases
    <2>2. tp' \in [Dbs -> PassSteps]
      BY DEF IInv, Types, Destroy, PassTo, PassSteps
    <2> QED
      BY <1>1, <2>1, <2>2 DEF IInv, Types
  <1>3. Counted' /\ Unused' /\ Match' /\ Ready'
    BY <1>1, Frame DEF IInv
  <1>4. Quiet'
    BY <1>1 DEF IInv, Types, Quiet, Publishers, Destroy, PassTo
  <1>5. Drawn'
    BY <1>1 DEF IInv, Types, Drawn, InCall, Calls, Publishers,
       kNoStateGen, EntryType, ReadType, Destroy, PassTo
  <1>6. InCall'
    BY <1>1 DEF IInv, Types, InCall, Calls, Holds, AsNewAs, States,
       Destroy, PassTo
  <1> QED
    BY <1>2, <1>3, <1>4, <1>5, <1>6 DEF IInv

\* A DB opens at this address with a new generation.
LEMMA OpenKeeps ==
  ASSUME IInv, NEW d \in Dbs, Open(d)
  PROVE  IInv'
  <1>1. UNCHANGED <<cache, pc, rd, wp, current, new_gen, tp, epoch>>
    BY DEF Open, slotVars, readVars, pubVars, takeVars
  <1>2. Types'
    <2>1. lives' \in Nat
      BY DEF IInv, Types, Open, NoState
    <2>2. phase' \in [Dbs -> Phases]
      BY DEF IInv, Types, Open, NoState, Phases
    <2>3. state' \in [Dbs -> States]
      <3>1. [NoState EXCEPT !.life = lives + 1, !.ver = 1] \in States
        <4>1. lives + 1 \in Nat
          BY DEF IInv, Types
        <4> QED
          BY <4>1, NoValues, Zenon DEF States
      <3> QED
        BY <3>1 DEF IInv, Types, Open
    <2>4. publishing' \in [Dbs -> Nat]
      BY DEF IInv, Types, Open, NoState, Counted, One, Active,
         Publishers
    <2>5. next_gen' \in Nat
      BY DEF IInv, Types, Open, NoState
    <2>6. state_gen' \in [Dbs -> Nat]
      BY DEF IInv, Types, Open, NoState
    <2> QED
      BY <1>1, <2>1, <2>2, <2>3, <2>4, <2>5, <2>6 DEF IInv, Types
  <1>3. Counted'
    BY <1>1 DEF IInv, Types, Counted, Quiet, One, Active,
       Publishers, Open, NoState
  <1>4. Quiet'
    BY <1>1 DEF IInv, Types, Quiet, Publishers, Open, NoState
  <1>5. Drawn'
    BY <1>1 DEF IInv, Types, Drawn, InCall, Calls, Publishers,
       kNoStateGen, EntryType, ReadType, Open, NoState
  <1>6. Unused'
    BY <1>1 DEF IInv, Types, Unused, Drawn, InCall, Calls,
       EntryType, ReadType, kNoStateGen, Publishers, Open, NoState
  <1>7. InCall'
    BY <1>1 DEF IInv, Types, InCall, Calls, Holds, AsNewAs, States,
       Open, NoState
  <1>8. Match'
    <2>1. /\ state_gen'[d] = next_gen + 1
          /\ \A e \in Dbs : e # d => state_gen'[e] = state_gen[e] /\ state'[e] = state[e]
      BY DEF IInv, Types, Open
    <2>2. \A r \in Readers : cache[r].gen # next_gen + 1
      BY DEF IInv, Types, Drawn, EntryType
    <2>3. cache' = cache /\ wp' = wp
      BY DEF Open, slotVars, pubVars
    <2> QED
      BY <2>1, <2>2, <2>3 DEF IInv, Match, Pending
  <1>9. Ready'
    <2>1. \A r \in Readers : pc[r] \in Calls => rd[r].db # d
      BY DEF IInv, InCall, Open
    <2>2. \A e \in Dbs : e # d => state_gen'[e] = state_gen[e]
      BY DEF IInv, Types, Open
    <2> QED
      BY <1>1, <2>1, <2>2 DEF IInv, Ready, InCall, Calls
  <1> QED
    BY <1>2, <1>3, <1>4, <1>5, <1>6, <1>7, <1>8, <1>9 DEF IInv

\* Passes over the registry touch nothing a read relies on.
LEMMA PassKeeps ==
  ASSUME IInv, NEW d \in Dbs,
         \/ IdleScrape(d) \/ PassLock(d)
         \/ (\E r \in Readers : TakeLoad(d, r))
         \/ TakeSelect(d) \/ TakeSwap(d) \/ PassUnlock(d) \/ PassFree(d)
  PROVE  IInv'
  <1>1. /\ UNCHANGED <<dbVars, cache, readVars, pubVars, lives>>
        /\ epoch' \in Nat
    <2>1. CASE IdleScrape(d)
      BY <2>1 DEF IInv, Types, IdleScrape, ScrapeNow, slotVars
    <2>2. CASE PassLock(d) \/ TakeSelect(d) \/ PassUnlock(d)
      BY <2>2 DEF IInv, Types, PassLock, TakeSelect, PassUnlock, slotVars
    <2>3. CASE \E r \in Readers : TakeLoad(d, r)
      BY <2>3, Zenon DEF IInv, Types, TakeLoad, slotVars
    <2>4. CASE TakeSwap(d)
      BY <2>4 DEF IInv, Types, TakeSwap
    <2>5. CASE PassFree(d)
      BY <2>5 DEF IInv, Types, PassFree
    <2> QED
      BY <2>1, <2>2, <2>3, <2>4, <2>5
  <1>2. /\ tp' \in [Dbs -> PassSteps]
        /\ \A e \in Dbs : tp'[e] # "idle" => wp[e]["writer"] = "idle"
    <2>1. \E q \in PassSteps : PassTo(d, q)
      <3>1. CASE IdleScrape(d) \/ PassLock(d) \/ \E r \in Readers : TakeLoad(d, r)
        BY <3>1, Zenon DEF IdleScrape, ScrapeNow, PassLock, TakeLoad, PassSteps
      <3>2. CASE TakeSelect(d) \/ TakeSwap(d) \/ PassUnlock(d) \/ PassFree(d)
        BY <3>2, Zenon DEF TakeSelect, TakeSwap, PassUnlock, PassFree, PassSteps
      <3> QED
        BY <3>1, <3>2
    <2>2. wp[d]["writer"] = "idle"
      BY Zenon DEF IInv, Quiet, IdleScrape, PassLock, TakeLoad,
         TakeSelect, TakeSwap, PassUnlock, PassFree
    <2> QED
      BY <2>1, <2>2 DEF IInv, Types, Quiet, PassTo
  <1>3. Types' /\ Quiet'
    BY <1>1, <1>2 DEF IInv, Types, Quiet, dbVars, readVars, pubVars
  <1>4. Counted' /\ Drawn' /\ Unused' /\ InCall' /\ Match' /\ Ready'
    BY <1>1, Frame DEF IInv, dbVars, readVars, pubVars
  <1> QED
    BY <1>3, <1>4 DEF IInv

\* A stuttering step changes nothing.
LEMMA StutterKeeps ==
  ASSUME IInv, UNCHANGED vars
  PROVE  IInv'
  <1>1. Types'
    BY DEF vars, IInv, Types, dbVars, slotVars, readVars, pubVars, takeVars
  <1>2. Counted' /\ Quiet' /\ Drawn' /\ Unused' /\ InCall' /\ Match' /\ Ready'
    BY Frame DEF vars, IInv, dbVars, slotVars, readVars, pubVars, takeVars
  <1> QED
    BY <1>1, <1>2 DEF IInv

\* So does the next-state relation.
LEMMA NextIInv == IInv /\ [Next]_vars => IInv'
  <1> SUFFICES ASSUME IInv, [Next]_vars PROVE IInv'
    OBVIOUS
  <1> QED
    BY ClaimKeeps, OwnKeeps, LoadBusyKeeps, LoadGenKeeps, LoadStateKeeps,
       ReleaseKeeps, ExitClaimKeeps, ExitRemoveKeeps, PublishKeeps,
       CloseKeeps, RefuseKeeps, RefuseDoneKeeps, RefuseRaiseKeeps,
       ExchangeKeeps, CompareExchangeKeeps, ExchangeFailsKeeps,
       NextGenKeeps, StoreGenKeeps, LowerKeeps, PublishScrapeKeeps,
       ClosedKeeps, DestroyKeeps, OpenKeeps, PassKeeps, StutterKeeps DEF
       Next, ReadStep, DbStep, Terminated

\* Every read serves its own DB and a state no older than the one current when
\* it began, however publications, refusals, scrapes and closes interleave
\* (load_state_for_read() against store_state()).
THEOREM FreshReads == Spec => []ReadsFresh
  <1>1. Spec => []IInv
    BY InitIInv, NextIInv, PTL DEF Spec
  <1> QED
    BY <1>1, IInvImplies, PTL

=============================================================================
