-------------------------- MODULE AuditChainProofs --------------------------
(***************************************************************************)
(* Proofs about AuditChain for any number of processes, events and losses  *)
(* of power.  The argument: an append writes from a copy of the chain      *)
(* state that may be old; but a copy behind the state names a sequence     *)
(* that is taken, so the append that finds its sequence free holds the     *)
(* current state, and links its event to the last one.  Damage leaves one  *)
(* of three traces, and for the same reason no append covers it: a row     *)
(* that is not authentic keeps its sequence, a gap is behind every copy,   *)
(* and without the state row only a first event could be written.          *)
(***************************************************************************)
EXTENDS AuditChain, FiniteSetTheorems, SequenceTheorems, TLAPS

(* The events 1..n, each linked and authentic, and the state after n. *)
Whole(log, state) ==
    /\ state.last_sequence \in Nat
    /\ DOMAIN log = 1..state.last_sequence
    /\ \A i \in DOMAIN log : RowValid(log, i)
    /\ state = [last_sequence |-> state.last_sequence,
                last_hash |-> IF state.last_sequence = 0 THEN GENESIS_HASH
                              ELSE log[state.last_sequence].event_hash]

(* A copy of the chain state is behind it, or is it. *)
CopiesInv ==
    \A p \in Processes : held[p] # Missing =>
        /\ held[p].last_sequence \in 0..chainState.last_sequence
        /\ held[p].last_sequence = chainState.last_sequence => held[p] = chainState

(* Unless it was overtaken, the verification reads the tables of now. *)
VerifierInv ==
    ~overtaken => /\ verifier = "rows" => rows = events
                  /\ verifier = "done" => valid

(* What the appends write from is typed, and numbered from zero. *)
Numbered(state) == state \in StateType /\ (state # Missing => state.last_sequence >= 0)

TypesInv == AuditTypeOK /\ Numbered(chainState) /\ \A p \in Processes : Numbered(held[p])

(* The three traces that damage leaves for good, also in the rows of a
   verification that began after it: a row that is not authentic at its place; *)
Forged(i) ==
    /\ i \in DOMAIN events
    /\ events[i].event_hash # EventHash(i, events[i].previous_hash, events[i].body)
    /\ verifier = "rows" /\ damagedBefore => i \in DOMAIN rows /\ rows[i] = events[i]

(* a sequence that the writers have left behind them; *)
Gap(i) ==
    /\ i \in 1..chainState.last_sequence /\ i \notin DOMAIN events
    /\ \A p \in Processes : held[p] # Missing => held[p].last_sequence >= i
    /\ verifier = "rows" /\ damagedBefore => i \notin DOMAIN rows

(* no chain state, and no append that could write one, its sequence being taken. *)
StateLost ==
    /\ chainState = Missing /\ 1 \in DOMAIN events
    /\ \A p \in Processes : held[p] \in {Missing, FirstState}

DamageInv ==
    /\ damagedBefore => damaged
    /\ damaged => (\E i \in 1..MaxEvents : Forged(i) \/ Gap(i)) \/ StateLost
    /\ DamageShows

ChainInv ==
    /\ powerLosses \in Nat
    /\ held = [p \in Processes |-> held[p]]
    /\ verifier \in {"idle", "rows", "done"}
    /\ ~damaged => Whole(events, chainState) /\ CopiesInv /\ VerifierInv
-----------------------------------------------------------------------------
(* A whole chain passes the verification. *)
LEMMA WholeVerified ==
    ASSUME NEW log, NEW state, Whole(log, state)
    PROVE  Verified(log, state)
<1> DEFINE n == state.last_sequence
<1>1. n \in Nat /\ DOMAIN log = 1..n
  BY DEF Whole
<1>2. Cardinality(DOMAIN log) = n
  BY <1>1, FS_Interval
<1>3. state # Missing
  BY <1>1 DEF Missing
<1>4. Contiguous(log)
  BY <1>1, <1>2 DEF Contiguous
<1>5. AgreesWithState(log, state)
  BY <1>1, <1>2 DEF Whole, AgreesWithState, StateAfter, FirstState
<1> QED
  BY <1>3, <1>4, <1>5 DEF Whole, Verified

(* What a loss of power leaves of a whole chain is whole. *)
LEMMA PrefixWhole ==
    ASSUME NEW log, NEW state, Whole(log, state), NEW n \in 0..Cardinality(DOMAIN log)
    PROVE  Whole(Prefix(log, n), StateAfter(Prefix(log, n)))
<1> DEFINE short == Prefix(log, n)
<1>1. /\ Cardinality(DOMAIN log) = state.last_sequence
      /\ state.last_sequence \in Nat
      /\ DOMAIN log = 1..state.last_sequence
  <2> DEFINE m == state.last_sequence
  <2>1. m \in Nat /\ DOMAIN log = 1..m
    BY DEF Whole
  <2>2. Cardinality(1..m) = m
    BY <2>1, FS_Interval
  <2> QED
    BY <2>1, <2>2
<1>2. n \in Nat /\ n <= state.last_sequence
  BY <1>1
<1>3. DOMAIN short = 1..n /\ \A i \in 1..n : short[i] = log[i]
  BY DEF Prefix
<1>4. Cardinality(DOMAIN short) = n
  BY <1>2, <1>3, FS_Interval
<1> HIDE DEF short
<1>5. StateAfter(short) = [last_sequence |-> n,
        last_hash |-> IF n = 0 THEN GENESIS_HASH ELSE short[n].event_hash]
  BY <1>4 DEF StateAfter, FirstState
<1>6. \A i \in DOMAIN short : RowValid(short, i)
  <2> SUFFICES ASSUME NEW i \in 1..n PROVE RowValid(short, i)
    BY <1>3
  <2>1. RowValid(log, i)
    BY <1>1, <1>2 DEF Whole
  <2>2. short[i] = log[i] /\ (i # 1 => short[i - 1] = log[i - 1])
    BY <1>2, <1>3
  <2> QED
    BY <2>1, <2>2 DEF RowValid
<1> QED
  BY <1>2, <1>3, <1>5, <1>6 DEF Whole, short

(* Initially the chain is empty and nobody holds a copy. *)
LEMMA InitChainInv == Init => ChainInv
<1> SUFFICES ASSUME Init PROVE ChainInv
  OBVIOUS
<1>1. Whole(events, chainState)
  BY DEF Init, Whole, FirstState
<1> QED
  BY <1>1 DEF Init, ChainInv, CopiesInv, VerifierInv

(* ReadState copies the state of now. *)
LEMMA ReadStateInv ==
    ASSUME ChainInv, NEW p \in Processes, ReadState(p)
    PROVE  ChainInv'
<1>1. /\ UNCHANGED <<events, chainState, powerLosses, damaged>>
      /\ UNCHANGED <<verifier, rows, valid, damagedBefore, overtaken>>
  BY DEF ReadState, tables, verification
<1>2. held' = [q \in Processes |-> held'[q]]
  BY DEF ReadState, ChainInv
<1>3. ASSUME ~damaged PROVE CopiesInv'
  <2> SUFFICES ASSUME NEW q \in Processes, held'[q] # Missing
               PROVE  /\ held'[q].last_sequence \in 0..chainState.last_sequence
                      /\ held'[q].last_sequence = chainState.last_sequence => held'[q] = chainState
    BY <1>1 DEF CopiesInv
  <2>1. Whole(events, chainState) /\ CopiesInv
    BY <1>3 DEF ChainInv
  <2>2. chainState # Missing
    BY <2>1 DEF Whole, Missing
  <2>3. held'[q] = IF q = p THEN chainState ELSE held[q]
    BY <2>2 DEF ReadState, ChainInv
  <2>4. CASE q = p
    BY <2>1, <2>3, <2>4 DEF Whole
  <2>5. CASE q # p
    BY <2>1, <2>3, <2>5 DEF CopiesInv
  <2> QED
    BY <2>4, <2>5
<1>4. ASSUME ~damaged PROVE VerifierInv'
  BY <1>1, <1>4 DEF VerifierInv, ChainInv
<1> QED
  BY <1>1, <1>2, <1>3, <1>4 DEF ChainInv

(* FailAppend only drops a copy. *)
LEMMA FailAppendInv ==
    ASSUME ChainInv, NEW p \in Processes, FailAppend(p)
    PROVE  ChainInv'
<1>1. /\ UNCHANGED <<events, chainState, powerLosses, damaged>>
      /\ UNCHANGED <<verifier, rows, valid, damagedBefore, overtaken>>
  BY DEF FailAppend, tables, verification
<1>2. held' = [q \in Processes |-> held'[q]]
  BY DEF FailAppend, ChainInv
<1>3. \A q \in Processes : held'[q] = IF q = p THEN Missing ELSE held[q]
  BY DEF FailAppend, ChainInv
<1>4. ASSUME ~damaged PROVE CopiesInv' /\ VerifierInv'
  BY <1>1, <1>3, <1>4 DEF ChainInv, CopiesInv, VerifierInv
<1> QED
  BY <1>1, <1>2, <1>4 DEF ChainInv

(* An append that commits held the state of now. *)
LEMMA CommitHoldsState ==
    ASSUME ChainInv, ~damaged, NEW p \in Processes, NEW body, CommitAppend(p, body)
    PROVE  held[p] = chainState
<1>1. /\ held[p] # Missing
      /\ held[p].last_sequence + 1 \notin DOMAIN events
  BY DEF CommitAppend, SequenceFree
<1>2. /\ held[p].last_sequence \in 0..chainState.last_sequence
      /\ held[p].last_sequence = chainState.last_sequence => held[p] = chainState
  BY <1>1 DEF ChainInv, CopiesInv
<1>3. chainState.last_sequence \in Nat /\ DOMAIN events = 1..chainState.last_sequence
  BY DEF ChainInv, Whole
<1> QED
  BY <1>1, <1>2, <1>3

(* CommitAppend extends a whole chain by one linked event. *)
LEMMA CommitAppendInv ==
    ASSUME ChainInv, NEW p \in Processes, NEW body, CommitAppend(p, body)
    PROVE  ChainInv'
<1>1. UNCHANGED <<powerLosses, damaged, verifier, rows, valid>>
  BY DEF CommitAppend
<1>2. /\ held' = [q \in Processes |-> held'[q]]
      /\ \A q \in Processes : held'[q] = IF q = p THEN Missing ELSE held[q]
  BY DEF CommitAppend, ChainInv
<1>3. ASSUME ~damaged PROVE Whole(events', chainState') /\ CopiesInv' /\ VerifierInv'
  <2> DEFINE n == chainState.last_sequence
             row == Row(n + 1, chainState.last_hash, body)
  <2>1. Whole(events, chainState) /\ CopiesInv /\ VerifierInv
    BY <1>3 DEF ChainInv
  <2>2. n \in Nat /\ DOMAIN events = 1..n
    BY <2>1 DEF Whole
  <2>3. held[p] = chainState
    BY <1>3, CommitHoldsState
  <2>4. /\ events' = [i \in DOMAIN events \cup {n + 1} |-> IF i = n + 1 THEN row ELSE events[i]]
        /\ chainState' = [last_sequence |-> n + 1, last_hash |-> row.event_hash]
        /\ overtaken' = (overtaken \/ verifier = "rows")
    BY <2>3 DEF CommitAppend, PreviousHash, NextState
  <2>5. row = [previous_hash |-> chainState.last_hash, body |-> body,
               event_hash |-> EventHash(n + 1, chainState.last_hash, body)]
    BY DEF Row
  <2> HIDE DEF n, row
  <2>6. /\ DOMAIN events' = 1..(n + 1)
        /\ events'[n + 1] = row
        /\ \A i \in 1..n : events'[i] = events[i]
    BY <2>2, <2>4
  <2>7. \A i \in 1..(n + 1) : RowValid(events', i)
    <3> SUFFICES ASSUME NEW i \in 1..(n + 1) PROVE RowValid(events', i)
      OBVIOUS
    <3>1. CASE i = n + 1
      <4>1. chainState.last_hash = IF i = 1 THEN GENESIS_HASH ELSE events[n].event_hash
        BY <2>1, <2>2, <3>1 DEF Whole, n
      <4>2. i # 1 => events'[i - 1] = events[n]
        BY <2>2, <2>6, <3>1
      <4>3. events'[i].previous_hash = IF i = 1 THEN GENESIS_HASH ELSE events'[i - 1].event_hash
        BY <2>5, <2>6, <3>1, <4>1, <4>2
      <4>4. events'[i].event_hash = EventHash(i, events'[i].previous_hash, events'[i].body)
        BY <2>5, <2>6, <3>1
      <4> QED
        BY <4>3, <4>4 DEF RowValid
    <3>2. CASE i \in 1..n
      <4>1. RowValid(events, i)
        BY <2>1, <2>2, <3>2 DEF Whole
      <4>2. events'[i] = events[i] /\ (i # 1 => events'[i - 1] = events[i - 1])
        BY <2>2, <2>6, <3>2
      <4> QED
        BY <4>1, <4>2 DEF RowValid
    <3> QED
      BY <2>2, <3>1, <3>2
  <2>8. Whole(events', chainState')
    <3>1. chainState'.last_sequence = n + 1 /\ chainState'.last_hash = row.event_hash
      BY <2>4
    <3>2. n + 1 \in Nat /\ n + 1 # 0
      BY <2>2
    <3>3. chainState' = [last_sequence |-> n + 1, last_hash |-> events'[n + 1].event_hash]
      BY <2>4, <2>6
    <3> QED
      BY <2>6, <2>7, <3>1, <3>2, <3>3 DEF Whole
  <2>9. CopiesInv'
    <3> SUFFICES ASSUME NEW q \in Processes, held'[q] # Missing
                 PROVE  /\ held'[q].last_sequence \in 0..chainState'.last_sequence
                        /\ held'[q].last_sequence # chainState'.last_sequence
      BY DEF CopiesInv
    <3>1. held'[q] = held[q] /\ held[q] # Missing
      BY <1>2
    <3>2. held[q].last_sequence \in 0..n
      BY <2>1, <3>1 DEF CopiesInv, n
    <3>3. chainState'.last_sequence = n + 1
      BY <2>4
    <3> QED
      BY <2>2, <3>1, <3>2, <3>3
  <2>10. VerifierInv'
    BY <1>1, <2>1, <2>4 DEF VerifierInv
  <2> QED
    BY <2>8, <2>9, <2>10
<1> QED
  BY <1>1, <1>2, <1>3 DEF ChainInv

(* PowerLoss leaves a prefix, no copies and no verification. *)
LEMMA PowerLossInv == ChainInv /\ PowerLoss => ChainInv'
<1> SUFFICES ASSUME ChainInv, PowerLoss PROVE ChainInv'
  OBVIOUS
<1>1. Whole(events, chainState)
  BY DEF ChainInv, PowerLoss
<1>2. PICK n \in 0..Cardinality(DOMAIN events) :
        events' = Prefix(events, n) /\ chainState' = StateAfter(Prefix(events, n))
  BY DEF PowerLoss
<1>3. Whole(events', chainState')
  BY <1>1, <1>2, PrefixWhole
<1>4. \A p \in Processes : held'[p] = Missing
  BY DEF PowerLoss
<1>5. CopiesInv' /\ VerifierInv'
  BY <1>4 DEF PowerLoss, CopiesInv, VerifierInv
<1>6. powerLosses' \in Nat /\ held' = [p \in Processes |-> held'[p]] /\ verifier' = "idle"
  BY DEF PowerLoss, ChainInv
<1> QED
  BY <1>3, <1>5, <1>6 DEF ChainInv

(* The verifier changes neither table; its verdict on a whole chain that it
   read as it is now is positive. *)
LEMMA VerifyInv == ChainInv /\ (ReadRows \/ ReadVerifierState) => ChainInv'
<1> SUFFICES ASSUME ChainInv, ReadRows \/ ReadVerifierState PROVE ChainInv'
  OBVIOUS
<1>1. UNCHANGED <<events, chainState, held, powerLosses, damaged>>
  BY DEF ReadRows, ReadVerifierState, tables
<1>2. verifier' \in {"rows", "done"}
  BY DEF ReadRows, ReadVerifierState
<1>3. ASSUME ~damaged PROVE VerifierInv'
  <2>1. CASE ReadRows
    BY <2>1 DEF ReadRows, tables, VerifierInv
  <2>2. CASE ReadVerifierState
    <3> SUFFICES ASSUME ~overtaken' PROVE valid'
      BY <2>2 DEF ReadVerifierState, VerifierInv
    <3>1. ~overtaken /\ verifier = "rows" /\ valid' = Verified(rows, chainState)
      BY <2>2 DEF ReadVerifierState
    <3>2. rows = events
      BY <1>3, <3>1 DEF ChainInv, VerifierInv
    <3>3. Verified(events, chainState)
      BY <1>3, WholeVerified DEF ChainInv
    <3> QED
      BY <3>1, <3>2, <3>3, Zenon
  <2> QED
    BY <2>1, <2>2
<1>4. ASSUME ~damaged PROVE CopiesInv'
  BY <1>1, <1>4 DEF ChainInv, CopiesInv
<1> QED
  BY <1>1, <1>2, <1>3, <1>4 DEF ChainInv

(* Every step keeps the invariant; Damage only ends what it promises. *)
LEMMA NextChainInv == ChainInv /\ [Next]_vars => ChainInv'
<1> SUFFICES ASSUME ChainInv, [Next]_vars PROVE ChainInv'
  OBVIOUS
<1>1. ASSUME NEW p \in Processes, ReadState(p) PROVE ChainInv'
  BY <1>1, ReadStateInv
<1>2. ASSUME NEW p \in Processes, NEW body \in Bodies, CommitAppend(p, body) PROVE ChainInv'
  BY <1>2, CommitAppendInv
<1>3. ASSUME NEW p \in Processes, FailAppend(p) PROVE ChainInv'
  BY <1>3, FailAppendInv
<1>4. CASE PowerLoss
  BY <1>4, PowerLossInv
<1>5. CASE Damage
  BY <1>5 DEF Damage, ChainInv, verification
<1>6. CASE ReadRows \/ ReadVerifierState
  BY <1>6, VerifyInv
<1>7. CASE UNCHANGED vars
  BY <1>7 DEF vars, tables, verification, ChainInv, CopiesInv, VerifierInv
<1> QED
  BY <1>1, <1>2, <1>3, <1>4, <1>5, <1>6, <1>7 DEF Next
-----------------------------------------------------------------------------
(* The invariant holds in every behaviour of append, verify and their       *)
(* environment.                                                             *)
THEOREM ChainInvariantHolds == Spec => []ChainInv
BY InitChainInv, NextChainInv, PTL DEF Spec

(* append: whatever processes interleave, fail or lose with the power, the *)
(* stored chain passes verify_events as long as nobody else changes it.    *)
THEOREM ChainStaysIntact == Spec => []ChainIntact
<1>1. ChainInv => ChainIntact
  BY WholeVerified DEF ChainInv, ChainIntact
<1> QED
  BY <1>1, ChainInvariantHolds, PTL

(* verify: an undamaged chain never fails a verification that no append    *)
(* overtook.                                                               *)
THEOREM NoAlarmWithoutCause == Spec => []AlarmMeansDamage
<1>1. ChainInv => AlarmMeansDamage
  BY DEF ChainInv, VerifierInv, AlarmMeansDamage
<1> QED
  BY <1>1, ChainInvariantHolds, PTL

(* append inserts and never updates: a committed event stays as it is.     *)
THEOREM CommittedEventsStay == Spec => AppendOnly
<1> DEFINE Kept == \A i \in DOMAIN events : i \in DOMAIN events' /\ events'[i] = events[i]
<1>1. ChainInv /\ [Next]_vars => [powerLosses' = powerLosses /\ damaged' = damaged => Kept]_vars
  <2> SUFFICES ASSUME ChainInv, Next, powerLosses' = powerLosses, damaged' = damaged
               PROVE  Kept
    OBVIOUS
  <2>1. ASSUME NEW p \in Processes, ReadState(p) \/ FailAppend(p) PROVE Kept
    BY <2>1 DEF ReadState, FailAppend, tables
  <2>2. ASSUME NEW p \in Processes, NEW body \in Bodies, CommitAppend(p, body) PROVE Kept
    BY <2>2 DEF CommitAppend, SequenceFree
  <2>3. ~PowerLoss
    BY DEF PowerLoss, ChainInv
  <2>4. ~Damage
    BY DEF Damage
  <2>5. CASE ReadRows \/ ReadVerifierState
    BY <2>5 DEF ReadRows, ReadVerifierState, tables
  <2> QED
    BY <2>1, <2>2, <2>3, <2>4, <2>5 DEF Next
<1> QED
  BY <1>1, ChainInvariantHolds, PTL DEF Spec, AppendOnly
-----------------------------------------------------------------------------
(* Histories, rows and chain states are typed. *)
LEMMA GenesisTyped == GENESIS_HASH \in Links /\ FirstState \in StateType /\ Missing \in StateType
<1>1. GENESIS_HASH \in Links
  BY EmptySeq DEF GENESIS_HASH, Links
<1> QED
  BY <1>1, AuditAssumption DEF FirstState, Missing, StateType

LEMMA EventTyped ==
    ASSUME NEW sequence \in 1..MaxEvents, NEW state \in StateType, NEW body \in Bodies,
           sequence = state.last_sequence + 1
    PROVE  /\ Row(sequence, PreviousHash(state), body) \in RowType
           /\ Numbered(NextState(state, Row(sequence, PreviousHash(state), body)))
<1> DEFINE hash == EventHash(sequence, state.last_hash, body)
<1>1. state.last_hash \in Links
  BY DEF StateType
<1>2. hash \in Links
  BY <1>1, AppendProperties DEF EventHash, Links
<1> HIDE DEF hash
<1>3. Row(sequence, PreviousHash(state), body)
        = [previous_hash |-> state.last_hash, body |-> body, event_hash |-> hash]
  BY DEF Row, PreviousHash, hash
<1>4. NextState(state, Row(sequence, PreviousHash(state), body))
        = [last_sequence |-> sequence, last_hash |-> hash]
  BY <1>3 DEF NextState
<1> QED
  BY <1>1, <1>2, <1>3, <1>4, AuditAssumption DEF RowType, StateType, Numbered, Missing

LEMMA InitTypesInv == Init => TypesInv
<1> SUFFICES ASSUME Init PROVE TypesInv
  OBVIOUS
<1>1. Numbered(FirstState) /\ Numbered(Missing)
  BY GenesisTyped DEF Numbered, FirstState
<1>2. DOMAIN << >> = {}
  OBVIOUS
<1>3. events = << >> /\ rows = << >> /\ held \in [Processes -> StateType]
  BY GenesisTyped DEF Init
<1>4. DOMAIN events = {} /\ DOMAIN rows = {}
  BY <1>2, <1>3
<1>5. {damaged, valid, damagedBefore, overtaken} \subseteq BOOLEAN
  BY Zenon DEF Init
<1>6. chainState \in StateType /\ powerLosses \in 0..MaxPowerLosses /\ verifier = "idle"
  BY GenesisTyped, AuditAssumption DEF Init
<1>7. AuditTypeOK
  BY <1>3, <1>4, <1>5, <1>6 DEF AuditTypeOK
<1> QED
  BY <1>1, <1>7 DEF Init, TypesInv

LEMMA CommitTypesInv ==
    ASSUME TypesInv, NEW p \in Processes, NEW body \in Bodies, CommitAppend(p, body)
    PROVE  TypesInv'
<1> DEFINE sequence == held[p].last_sequence + 1
           row == Row(sequence, PreviousHash(held[p]), body)
<1>1. AuditTypeOK /\ Numbered(held[p]) /\ held[p] # Missing /\ sequence <= MaxEvents
  BY DEF TypesInv, CommitAppend
<1>2. held[p] \in StateType /\ sequence \in 1..MaxEvents
  BY <1>1, AuditAssumption DEF Numbered, StateType
<1>3. row \in RowType /\ Numbered(NextState(held[p], row))
  BY <1>2, EventTyped
<1>4. /\ events' = [i \in DOMAIN events \cup {sequence} |-> IF i = sequence THEN row ELSE events[i]]
      /\ chainState' = NextState(held[p], row)
      /\ held' = [held EXCEPT ![p] = Missing]
      /\ overtaken' = (overtaken \/ verifier = "rows")
      /\ UNCHANGED <<powerLosses, damaged, verifier, rows, valid, damagedBefore>>
  BY DEF CommitAppend
<1> HIDE DEF sequence, row
<1>5. DOMAIN events' \subseteq 1..MaxEvents /\ \A i \in DOMAIN events' : events'[i] \in RowType
  BY <1>1, <1>2, <1>3, <1>4 DEF AuditTypeOK
<1>6. Numbered(chainState')
  BY <1>3, <1>4
<1>7. held' \in [Processes -> StateType] /\ \A q \in Processes : Numbered(held'[q])
  BY <1>1, <1>4, GenesisTyped DEF AuditTypeOK, TypesInv, Numbered
<1>8. overtaken' \in BOOLEAN
  BY <1>1, <1>4 DEF AuditTypeOK
<1>9. AuditTypeOK'
  BY <1>1, <1>4, <1>5, <1>6, <1>7, <1>8 DEF AuditTypeOK, Numbered
<1> QED
  BY <1>6, <1>7, <1>9 DEF TypesInv

LEMMA PowerLossTypesInv == TypesInv /\ ChainInv /\ PowerLoss => TypesInv'
<1> SUFFICES ASSUME TypesInv, ChainInv, PowerLoss PROVE TypesInv'
  OBVIOUS
<1>1. PICK n \in 0..Cardinality(DOMAIN events) :
        events' = Prefix(events, n) /\ chainState' = StateAfter(Prefix(events, n))
  BY DEF PowerLoss
<1>2. Whole(events, chainState) /\ Whole(events', chainState')
  BY <1>1, PrefixWhole DEF ChainInv, PowerLoss
<1>3. DOMAIN events \subseteq 1..MaxEvents /\ \A i \in DOMAIN events : events[i] \in RowType
  BY DEF TypesInv, AuditTypeOK
<1>4. DOMAIN events' \subseteq DOMAIN events /\ \A i \in DOMAIN events' : events'[i] = events[i]
  <2>1. DOMAIN events = 1..chainState.last_sequence /\ chainState.last_sequence \in Nat
    BY <1>2 DEF Whole
  <2>2. Cardinality(DOMAIN events) = chainState.last_sequence
    BY <2>1, FS_Interval
  <2> QED
    BY <1>1, <2>1, <2>2 DEF Prefix
<1>5. DOMAIN events' \subseteq 1..MaxEvents /\ \A i \in DOMAIN events' : events'[i] \in RowType
  BY <1>3, <1>4
<1>6. Numbered(chainState')
  <2> DEFINE m == chainState'.last_sequence
  <2>1. m \in Nat /\ DOMAIN events' = 1..m
    BY <1>2 DEF Whole
  <2>2. m # 0 => m \in DOMAIN events'
    BY <2>1
  <2>3. m \in 0..MaxEvents
    BY <1>5, <2>1, <2>2, AuditAssumption
  <2>4. m # 0 => events'[m].event_hash \in Links
    BY <1>5, <2>2 DEF RowType
  <2>5. chainState' = [last_sequence |-> m, last_hash |-> IF m = 0 THEN GENESIS_HASH
                                                          ELSE events'[m].event_hash]
    BY <1>2 DEF Whole
  <2> HIDE DEF m
  <2> QED
    BY <2>3, <2>4, <2>5, GenesisTyped DEF StateType, Numbered
<1>7. held' \in [Processes -> StateType] /\ \A q \in Processes : Numbered(held'[q])
  BY GenesisTyped DEF PowerLoss, Numbered
<1>8. /\ powerLosses' \in 0..MaxPowerLosses
      /\ verifier' = "idle" /\ rows' = << >> /\ valid' = TRUE /\ overtaken' = FALSE
      /\ UNCHANGED <<damaged, damagedBefore>>
  BY AuditAssumption DEF PowerLoss, TypesInv, AuditTypeOK
<1>9. DOMAIN rows' = {} /\ {damaged', valid', damagedBefore', overtaken'} \subseteq BOOLEAN
  <2>1. DOMAIN << >> = {}
    OBVIOUS
  <2>2. DOMAIN rows' = {}
    BY <1>8, <2>1
  <2>3. {damaged, valid, damagedBefore, overtaken} \subseteq BOOLEAN
    BY DEF AuditTypeOK, TypesInv
  <2>4. {damaged', valid', damagedBefore', overtaken'} \subseteq BOOLEAN
    BY <1>8, <2>3, Zenon
  <2> QED
    BY <2>2, <2>4
<1>10. AuditTypeOK'
  BY <1>5, <1>6, <1>7, <1>8, <1>9 DEF AuditTypeOK, Numbered
<1> QED
  BY <1>6, <1>7, <1>10 DEF TypesInv

LEMMA DamageTypesInv == TypesInv /\ Damage => TypesInv'
<1> SUFFICES ASSUME TypesInv, Damage PROVE TypesInv'
  OBVIOUS
<1>1. AuditTypeOK /\ Numbered(chainState)
  BY DEF TypesInv
<1>2. UNCHANGED <<held, powerLosses, verifier, rows, valid, damagedBefore, overtaken>> /\ damaged' = TRUE
  BY DEF Damage, verification
<1>3. /\ DOMAIN events' \subseteq 1..MaxEvents
      /\ \A i \in DOMAIN events' : events'[i] \in RowType
      /\ Numbered(chainState')
  <2>1. ASSUME NEW i \in DOMAIN events, NEW body \in Bodies \ {events[i].body},
               events' = [events EXCEPT ![i].body = body], UNCHANGED chainState
        PROVE  <1>3!:
    <3>1. [events[i] EXCEPT !.body = body] \in RowType
      BY <1>1 DEF AuditTypeOK, RowType
    <3> QED
      BY <1>1, <2>1, <3>1 DEF AuditTypeOK
  <2>2. ASSUME NEW i \in DOMAIN events, events' = Without(events, i), UNCHANGED chainState
        PROVE  <1>3!:
    BY <1>1, <2>2 DEF AuditTypeOK, Without
  <2>3. ASSUME NEW i \in DOMAIN events, NEW j \in DOMAIN events,
               events' = [events EXCEPT ![i] = events[j], ![j] = events[i]], UNCHANGED chainState
        PROVE  <1>3!:
    BY <1>1, <2>3 DEF AuditTypeOK
  <2>4. ASSUME chainState' = Missing, UNCHANGED events
        PROVE  <1>3!:
    BY <1>1, <2>4, GenesisTyped DEF AuditTypeOK, Numbered
  <2> QED
    BY <2>1, <2>2, <2>3, <2>4 DEF Damage
<1>4. AuditTypeOK'
  BY <1>1, <1>2, <1>3 DEF AuditTypeOK, Numbered
<1> QED
  BY <1>2, <1>3, <1>4 DEF TypesInv

LEMMA NextTypesInv == TypesInv /\ ChainInv /\ [Next]_vars => TypesInv'
<1> SUFFICES ASSUME TypesInv, ChainInv, [Next]_vars PROVE TypesInv'
  OBVIOUS
<1>1. AuditTypeOK /\ Numbered(chainState) /\ \A p \in Processes : Numbered(held[p])
  BY DEF TypesInv
<1>2. Numbered(FirstState) /\ Numbered(Missing)
  BY GenesisTyped DEF Numbered, FirstState
<1>3. ASSUME NEW p \in Processes, ReadState(p) \/ FailAppend(p) PROVE TypesInv'
  <2>1. UNCHANGED <<tables, powerLosses, damaged, verification>>
    BY <1>3 DEF ReadState, FailAppend
  <2>2. held' \in [Processes -> StateType] /\ \A q \in Processes : Numbered(held'[q])
    BY <1>1, <1>2, <1>3, GenesisTyped DEF ReadState, FailAppend, AuditTypeOK, Numbered
  <2> QED
    BY <1>1, <2>1, <2>2 DEF TypesInv, AuditTypeOK, tables, verification
<1>4. ASSUME NEW p \in Processes, NEW body \in Bodies, CommitAppend(p, body) PROVE TypesInv'
  BY <1>4, CommitTypesInv
<1>5. CASE PowerLoss
  BY <1>5, PowerLossTypesInv
<1>6. CASE Damage
  BY <1>6, DamageTypesInv
<1>7. CASE ReadRows \/ ReadVerifierState
  <2>1. /\ UNCHANGED <<events, chainState, held, powerLosses, damaged>>
        /\ verifier' \in {"rows", "done"} /\ rows' \in {rows, events}
        /\ {valid', damagedBefore', overtaken'} \subseteq BOOLEAN
    BY <1>1, <1>7 DEF ReadRows, ReadVerifierState, tables, AuditTypeOK, Verified
  <2> QED
    BY <1>1, <2>1 DEF TypesInv, AuditTypeOK
<1>8. CASE UNCHANGED vars
  BY <1>1, <1>8 DEF vars, tables, verification, TypesInv, AuditTypeOK
<1> QED
  BY <1>3, <1>4, <1>5, <1>6, <1>7, <1>8 DEF Next

(* Type correctness: the histories are sequences of numbered bodies, and   *)
(* the sequences stay within the bound, damage or not.                     *)
THEOREM AuditTypesHold == Spec => [](TypesInv /\ ChainInv)
BY InitTypesInv, NextTypesInv, InitChainInv, NextChainInv, PTL DEF Spec

(* Type correctness, as the run checks it. *)
THEOREM AuditTypeCorrect == Spec => []AuditTypeOK
<1>1. TypesInv /\ ChainInv => AuditTypeOK
  BY DEF TypesInv
<1> QED
  BY <1>1, AuditTypesHold, PTL
-----------------------------------------------------------------------------
(* Two events after the same history have the same hash only if they are   *)
(* the same event at the same place.                                       *)
LEMMA HashesDiffer ==
    ASSUME NEW previous \in Links, NEW i \in 1..MaxEvents, NEW j \in 1..MaxEvents,
           NEW a \in Bodies, NEW b \in Bodies, i # j \/ a # b
    PROVE  EventHash(i, previous, a) # EventHash(j, previous, b)
<1>1. previous \in Seq((1..MaxEvents) \X Bodies)
  BY DEF Links
<1>2. Append(previous, <<i, a>>)[Len(previous) + 1] = <<i, a>>
  BY <1>1, AppendProperties
<1>3. Append(previous, <<j, b>>)[Len(previous) + 1] = <<j, b>>
  BY <1>1, AppendProperties
<1> QED
  BY <1>2, <1>3 DEF EventHash

(* Each of the three traces fails the verification that began after it. *)
LEMMA TraceShows ==
    ASSUME TypesInv, DamageInv, damagedBefore, verifier = "rows"
    PROVE  ~Verified(rows, chainState)
<1>1. ASSUME NEW i \in 1..MaxEvents, Forged(i) PROVE ~Verified(rows, chainState)
  BY <1>1 DEF Forged, Verified, RowValid
<1>2. ASSUME NEW i \in 1..MaxEvents, Gap(i) PROVE ~Verified(rows, chainState)
  <2> SUFFICES ASSUME Contiguous(rows), AgreesWithState(rows, chainState) PROVE FALSE
    BY DEF Verified
  <2> DEFINE n == Cardinality(DOMAIN rows)
  <2>1. IsFiniteSet(DOMAIN rows)
    <3>1. IsFiniteSet(1..MaxEvents) /\ DOMAIN rows \subseteq 1..MaxEvents
      BY FS_Interval, AuditAssumption DEF TypesInv, AuditTypeOK
    <3> QED
      BY <3>1, FS_Subset
  <2>2. n \in Nat
    BY <2>1, FS_CardinalityType
  <2>3. DOMAIN rows = 1..n /\ i \notin DOMAIN rows
    BY <1>2 DEF Contiguous, Gap
  <2>4. chainState.last_sequence = n
    BY DEF AgreesWithState, StateAfter, FirstState
  <2> QED
    BY <1>2, <2>2, <2>3, <2>4 DEF Gap
<1>3. CASE StateLost
  BY <1>3 DEF StateLost, Verified
<1> QED
  BY <1>1, <1>2, <1>3 DEF DamageInv

(* The first trace: what Damage does to a whole chain. *)
LEMMA DamageLeavesTrace ==
    ASSUME TypesInv, ChainInv, DamageInv, Damage
    PROVE  DamageInv'
<1>1. /\ ~damaged /\ damaged' = TRUE /\ DOMAIN events # {}
      /\ \A p \in Processes : held[p] = Missing
      /\ UNCHANGED <<held, verifier, rows, valid, damagedBefore>>
  BY DEF Damage, verification
<1>2. ~damagedBefore'
  BY <1>1 DEF DamageInv
<1> DEFINE n == chainState.last_sequence
<1>3. /\ n \in Nat /\ DOMAIN events = 1..n /\ DOMAIN events \subseteq 1..MaxEvents
      /\ \A i \in DOMAIN events : RowValid(events, i) /\ events[i] \in RowType
  BY <1>1 DEF ChainInv, Whole, TypesInv, AuditTypeOK
<1>4. ASSUME NEW i \in DOMAIN events, NEW body \in Bodies, body # events[i].body,
             events' = [events EXCEPT ![i].body = body]
      PROVE  Forged(i)'
  <2>1. /\ i \in DOMAIN events' /\ events'[i].body = body
        /\ events'[i].previous_hash = events[i].previous_hash
        /\ events'[i].event_hash = events[i].event_hash
    BY <1>3, <1>4 DEF RowType
  <2>2. events[i].event_hash = EventHash(i, events[i].previous_hash, events[i].body)
    BY <1>3 DEF RowValid
  <2>3. events[i].previous_hash \in Links /\ events[i].body \in Bodies /\ i \in 1..MaxEvents
    BY <1>3 DEF RowType
  <2>4. events[i].event_hash # EventHash(i, events[i].previous_hash, body)
    BY <1>4, <2>2, <2>3, HashesDiffer
  <2> QED
    BY <1>2, <2>1, <2>4 DEF Forged
<1>5. ASSUME NEW i \in DOMAIN events, NEW j \in DOMAIN events, i # j,
             events' = [events EXCEPT ![i] = events[j], ![j] = events[i]]
      PROVE  Forged(j)'
  <2>1. j \in DOMAIN events' /\ events'[j] = events[i]
    BY <1>5
  <2>2. events[i].event_hash = EventHash(i, events[i].previous_hash, events[i].body)
    BY <1>3 DEF RowValid
  <2>3. /\ events[i].previous_hash \in Links /\ events[i].body \in Bodies
        /\ i \in 1..MaxEvents /\ j \in 1..MaxEvents
    BY <1>3 DEF RowType
  <2>4. events[i].event_hash # EventHash(j, events[i].previous_hash, events[i].body)
    BY <1>5, <2>2, <2>3, HashesDiffer
  <2> QED
    BY <1>2, <2>1, <2>4 DEF Forged
<1>6. ASSUME NEW i \in DOMAIN events, events' = Without(events, i), UNCHANGED chainState
      PROVE  Gap(i)'
  BY <1>1, <1>2, <1>3, <1>6 DEF Gap, Without
<1>7. ASSUME chainState' = Missing, UNCHANGED events PROVE StateLost'
  BY <1>1, <1>3, <1>7 DEF StateLost
<1>8. (\E i \in 1..MaxEvents : Forged(i) \/ Gap(i))' \/ StateLost'
  <2> HIDE DEF n
  <2> QED
    BY <1>3, <1>4, <1>5, <1>6, <1>7 DEF Damage
<1> QED
  BY <1>1, <1>2, <1>8 DEF DamageInv, DamageShows

(* The writers do not cover a trace. *)
LEMMA TraceStays ==
    ASSUME TypesInv, DamageInv, damaged,
           NEW p \in Processes,
           ReadState(p) \/ FailAppend(p) \/ \E body \in Bodies : CommitAppend(p, body)
    PROVE  DamageInv'
<1>1. held \in [Processes -> StateType] /\ \A q \in Processes : Numbered(held[q])
  BY DEF TypesInv, AuditTypeOK
<1>2. /\ UNCHANGED <<damaged, verifier, rows, valid, damagedBefore>>
      /\ \A q \in Processes : q # p => held'[q] = held[q]
  BY <1>1 DEF ReadState, FailAppend, CommitAppend, verification
<1>3. \A i \in DOMAIN events : i \in DOMAIN events' /\ events'[i] = events[i]
  BY DEF ReadState, FailAppend, CommitAppend, SequenceFree, tables
<1>4. ASSUME NEW i \in 1..MaxEvents, Forged(i) PROVE Forged(i)'
  BY <1>2, <1>3, <1>4 DEF Forged
<1>5. ASSUME NEW i \in 1..MaxEvents, Gap(i) PROVE Gap(i)'
  <2>1. /\ i \in 1..chainState.last_sequence /\ i \notin DOMAIN events
        /\ \A q \in Processes : held[q] # Missing => held[q].last_sequence >= i
    BY <1>5 DEF Gap
  <2>2. chainState # Missing
    BY <2>1 DEF Missing
  <2>3. CASE ReadState(p)
    <3>1. UNCHANGED <<events, chainState>> /\ held'[p] = chainState
      BY <1>1, <2>2, <2>3 DEF ReadState, tables
    <3> QED
      BY <1>2, <1>5, <2>1, <3>1 DEF Gap
  <2>4. CASE FailAppend(p)
    <3>1. UNCHANGED <<events, chainState>> /\ held'[p] = Missing
      BY <1>1, <2>4 DEF FailAppend, tables
    <3> QED
      BY <1>2, <1>5, <2>1, <3>1 DEF Gap
  <2>5. ASSUME NEW body \in Bodies, CommitAppend(p, body) PROVE Gap(i)'
    <3> DEFINE sequence == held[p].last_sequence + 1
    <3>1. /\ held[p] # Missing /\ held'[p] = Missing
          /\ DOMAIN events' = DOMAIN events \cup {sequence}
          /\ chainState'.last_sequence = sequence
      BY <1>1, <2>5 DEF CommitAppend, NextState
    <3>2. held[p].last_sequence \in Int /\ held[p].last_sequence >= i
      BY <1>1, <2>1, <3>1, AuditAssumption DEF StateType
    <3>3. i \in 1..sequence /\ i # sequence
      BY <3>2
    <3> QED
      BY <1>2, <1>5, <2>1, <3>1, <3>3 DEF Gap
  <2> QED
    BY <2>3, <2>4, <2>5
<1>6. ASSUME StateLost PROVE StateLost'
  <2>1. CASE ReadState(p) \/ FailAppend(p)
    <3>1. UNCHANGED <<events, chainState>> /\ held'[p] \in {Missing, FirstState}
      BY <1>1, <1>6, <2>1 DEF ReadState, FailAppend, tables, StateLost
    <3> QED
      BY <1>2, <1>6, <3>1 DEF StateLost
  <2>2. ASSUME NEW body \in Bodies, CommitAppend(p, body) PROVE FALSE
    BY <1>6, <2>2 DEF StateLost, CommitAppend, SequenceFree, FirstState
  <2> QED
    BY <2>1, <2>2
<1> QED
  BY <1>2, <1>4, <1>5, <1>6 DEF DamageInv, DamageShows

LEMMA NextDamageInv == TypesInv /\ ChainInv /\ DamageInv /\ [Next]_vars => DamageInv'
<1> SUFFICES ASSUME TypesInv, ChainInv, DamageInv, [Next]_vars PROVE DamageInv'
  OBVIOUS
<1>1. ASSUME NEW p \in Processes,
             ReadState(p) \/ FailAppend(p) \/ \E body \in Bodies : CommitAppend(p, body)
      PROVE  DamageInv'
  <2>1. CASE damaged
    BY <1>1, <2>1, TraceStays
  <2>2. CASE ~damaged
    BY <1>1, <2>2 DEF ReadState, FailAppend, CommitAppend, verification, DamageInv, DamageShows
  <2> QED
    BY <2>1, <2>2
<1>2. CASE PowerLoss
  BY <1>2 DEF PowerLoss, DamageInv, DamageShows
<1>3. CASE Damage
  BY <1>3, DamageLeavesTrace
<1>4. CASE ReadRows
  <2>1. UNCHANGED <<events, chainState, held, damaged>> /\ verifier' = "rows" /\ rows' = events
        /\ damagedBefore' = damaged
    BY <1>4 DEF ReadRows, tables
  <2> QED
    BY <2>1 DEF DamageInv, DamageShows, Forged, Gap, StateLost
<1>5. CASE ReadVerifierState
  <2>1. /\ UNCHANGED <<events, chainState, held, damaged, rows, damagedBefore>>
        /\ verifier = "rows" /\ verifier' = "done"
        /\ valid' = Verified(rows, chainState)
    BY <1>5 DEF ReadVerifierState, tables
  <2>2. damagedBefore => ~Verified(rows, chainState)
    BY <2>1, TraceShows
  <2>3. DamageShows'
    BY <2>1, <2>2, Zenon DEF DamageShows
  <2> QED
    BY <2>1, <2>3 DEF DamageInv, Forged, Gap, StateLost
<1>6. CASE UNCHANGED vars
  BY <1>6 DEF vars, tables, verification, DamageInv, DamageShows, Forged, Gap, StateLost
<1> QED
  BY <1>1, <1>2, <1>3, <1>4, <1>5, <1>6 DEF Next

(* verify: damage of the stored rows or of the chain state shows in every  *)
(* later verification, whatever the writers append in between.             *)
THEOREM DamageAlwaysShows == Spec => []DamageShows
<1>1. Init => DamageInv
  BY DEF Init, DamageInv, DamageShows
<1>2. DamageInv => DamageShows
  BY DEF DamageInv
<1> QED
  BY <1>1, <1>2, NextDamageInv, AuditTypesHold, PTL DEF Spec
=============================================================================
