----------------------------- MODULE AuditChain -----------------------------
(***************************************************************************)
(* The audit chain: AuditService.append and verify, verify_events, and the *)
(* tables audit_events and audit_chain_state on SQLite.                    *)
(*                                                                         *)
(* A process has one append in flight (_append_lock).  Its SELECT of the   *)
(* chain state opens no SQLite transaction; the INSERT of the event and    *)
(* the UPDATE of the state commit together, and a taken sequence (primary  *)
(* key) fails the append.  verify is another process (bh-dic audit) and    *)
(* reads the two tables with two SELECTs.  With synchronous=NORMAL a loss  *)
(* of power takes away a suffix of the committed transactions.             *)
(*                                                                         *)
(* Data: an HMAC is the history it authenticates, so two hashes are equal  *)
(* exactly when their inputs are; the key and the encoding are abstract.   *)
(***************************************************************************)
EXTENDS Integers, FiniteSets, Sequences

CONSTANTS
    Processes,      \* the processes that append
    Bodies,         \* what an event says besides its place in the chain
    MaxEvents,      \* bound on the sequence
    MaxPowerLosses, \* bound on the losses of power
    Damages         \* whether stored rows may be changed behind the service

ASSUME AuditAssumption ==
    /\ MaxEvents \in Nat /\ MaxPowerLosses \in Nat
    /\ Damages \in BOOLEAN

VARIABLES
    events,         \* audit_events: sequence -> row
    chainState,     \* audit_chain_state: its one row, or Missing
    held,           \* the chain state each append read, or Missing: none in flight
    powerLosses,
    damaged,        \* the tables were changed behind the service
    verifier,       \* "idle", "rows" after the first SELECT, "done"
    rows,           \* what the first SELECT returned
    valid,          \* AuditVerificationResult.valid
    damagedBefore,  \* the tables were damaged when the verification began
    overtaken       \* an append committed between its two SELECTs

tables == <<events, chainState>>
verification == <<verifier, rows, valid, damagedBefore, overtaken>>
vars == <<tables, held, powerLosses, damaged, verification>>

GENESIS_HASH == << >>

Missing == [last_sequence |-> -1, last_hash |-> GENESIS_HASH]

FirstState == [last_sequence |-> 0, last_hash |-> GENESIS_HASH]

UnnumberedHash(sequence, previous, body) == Append(previous, body)
                                       \* fault: the sequence is not authenticated

(* compute_event_hash: the history so far and this event's own material. *)
EventHash(sequence, previous, body) == Append(previous, <<sequence, body>>)

Row(sequence, previous, body) ==
    [previous_hash |-> previous, body |-> body, event_hash |-> EventHash(sequence, previous, body)]

StateAfter(log) ==
    LET n == Cardinality(DOMAIN log) IN
    IF n = 0 THEN FirstState ELSE [last_sequence |-> n, last_hash |-> log[n].event_hash]

Prefix(log, n) == [i \in 1..n |-> log[i]]

Init ==
    /\ events = << >>
    /\ chainState = FirstState
    /\ held = [p \in Processes |-> Missing]
    /\ powerLosses = 0
    /\ damaged = FALSE
    /\ verifier = "idle" /\ rows = << >> /\ valid = TRUE
    /\ damagedBefore = FALSE /\ overtaken = FALSE
-----------------------------------------------------------------------------
(* SELECT ... FOR UPDATE; a missing row is created with the genesis values. *)
ReadState(p) ==
    /\ held[p] = Missing
    /\ held' = [held EXCEPT ![p] = IF chainState = Missing THEN FirstState ELSE chainState]
    /\ UNCHANGED <<tables, powerLosses, damaged, verification>>

AlwaysFree(sequence) == TRUE           \* fault: no primary key on the sequence

SequenceFree(sequence) == sequence \notin DOMAIN events

GenesisEachTime(state) == GENESIS_HASH \* fault: the new event is not linked

PreviousHash(state) == state.last_hash

StaleHash(state, row) == [last_sequence |-> state.last_sequence + 1, last_hash |-> state.last_hash]
                                       \* fault: only the sequence is updated

NextState(state, row) == [last_sequence |-> state.last_sequence + 1, last_hash |-> row.event_hash]

(* The INSERT and the UPDATE commit.  A sequence that is taken, or a state *)
(* row that is no longer there to update, is AuditAppendError (FailAppend).*)
CommitAppend(p, body) ==
    LET sequence == held[p].last_sequence + 1
        row == Row(sequence, PreviousHash(held[p]), body) IN
    /\ held[p] # Missing
    /\ chainState = Missing => held[p] = FirstState
    /\ sequence <= MaxEvents
    /\ SequenceFree(sequence)
    /\ events' = [i \in DOMAIN events \cup {sequence} |-> IF i = sequence THEN row ELSE events[i]]
    /\ chainState' = NextState(held[p], row)
    /\ held' = [held EXCEPT ![p] = Missing]
    /\ overtaken' = (overtaken \/ verifier = "rows")
    /\ UNCHANGED <<powerLosses, damaged, verifier, rows, valid, damagedBefore>>

(* A taken sequence, a database error or the death of the process: rollback. *)
FailAppend(p) ==
    /\ held[p] # Missing
    /\ held' = [held EXCEPT ![p] = Missing]
    /\ UNCHANGED <<tables, powerLosses, damaged, verification>>

(* The machine loses power: a suffix of the transactions, and every process. *)
PowerLoss ==
    /\ ~damaged
    /\ powerLosses < MaxPowerLosses
    /\ powerLosses' = powerLosses + 1
    /\ \E n \in 0..Cardinality(DOMAIN events) :
          /\ events' = Prefix(events, n)
          /\ chainState' = StateAfter(Prefix(events, n))
    /\ held' = [p \in Processes |-> Missing]
    /\ verifier' = "idle" /\ rows' = << >> /\ valid' = TRUE /\ overtaken' = FALSE
    /\ UNCHANGED <<damaged, damagedBefore>>

Without(log, i) == [j \in DOMAIN log \ {i} |-> log[j]]

(* External: one change to the stored rows that AUDIT.md says is detected, *)
(* or the loss of the chain state, while no append is in flight.           *)
Damage ==
    /\ Damages /\ ~damaged
    /\ DOMAIN events # {}
    /\ \A p \in Processes : held[p] = Missing
    /\ damaged' = TRUE
    /\ \/ /\ \E i \in DOMAIN events : \E body \in Bodies \ {events[i].body} :
                events' = [events EXCEPT ![i].body = body]
          /\ UNCHANGED chainState
       \/ \E i \in DOMAIN events : events' = Without(events, i) /\ UNCHANGED chainState
       \/ /\ \E i, j \in DOMAIN events :
                i # j /\ events' = [events EXCEPT ![i] = events[j], ![j] = events[i]]
          /\ UNCHANGED chainState
       \/ chainState' = Missing /\ UNCHANGED events
    /\ UNCHANGED <<held, powerLosses, verification>>
-----------------------------------------------------------------------------
(* verify: the events in the order of their sequence. *)
ReadRows ==
    /\ verifier \in {"idle", "done"}
    /\ verifier' = "rows"
    /\ rows' = events
    /\ valid' = TRUE
    /\ damagedBefore' = damaged /\ overtaken' = FALSE
    /\ UNCHANGED <<tables, held, powerLosses, damaged>>

(* verify_events, one row at its expected place after its predecessor. *)
RowValid(log, i) ==
    /\ log[i].previous_hash = IF i = 1 THEN GENESIS_HASH ELSE log[i - 1].event_hash
    /\ log[i].event_hash = EventHash(i, log[i].previous_hash, log[i].body)

Contiguous(log) == DOMAIN log = 1..Cardinality(DOMAIN log)

IgnoresState(log, state) == TRUE       \* fault: the last row is not compared with the state

AgreesWithState(log, state) == state = StateAfter(log)

Verified(log, state) ==
    /\ state # Missing
    /\ Contiguous(log)
    /\ \A i \in DOMAIN log : RowValid(log, i)
    /\ AgreesWithState(log, state)

ReadVerifierState ==
    /\ verifier = "rows"
    /\ verifier' = "done"
    /\ valid' = Verified(rows, chainState)
    /\ UNCHANGED <<tables, held, powerLosses, damaged, rows, damagedBefore, overtaken>>

Next ==
    \/ \E p \in Processes : \/ ReadState(p)
                            \/ \E body \in Bodies : CommitAppend(p, body)
                            \/ FailAppend(p)
    \/ PowerLoss
    \/ Damage
    \/ ReadRows
    \/ ReadVerifierState

Spec == Init /\ [][Next]_vars
-----------------------------------------------------------------------------
Links == Seq((1..MaxEvents) \X Bodies)
RowType == [previous_hash : Links, body : Bodies, event_hash : Links]
StateType == [last_sequence : -1..MaxEvents, last_hash : Links]

(* Type invariant: both tables, the appends in flight and the verification. *)
AuditTypeOK ==
    /\ DOMAIN events \subseteq 1..MaxEvents
    /\ \A i \in DOMAIN events : events[i] \in RowType
    /\ chainState \in StateType
    /\ held \in [Processes -> StateType]
    /\ powerLosses \in 0..MaxPowerLosses
    /\ verifier \in {"idle", "rows", "done"}
    /\ DOMAIN rows \subseteq 1..MaxEvents
    /\ {damaged, valid, damagedBefore, overtaken} \subseteq BOOLEAN

(* The chain the writers build is whole: whatever they interleave, fail or *)
(* lose with the power, the events are contiguous, each is linked to its   *)
(* predecessor and authentic, and the chain state is that of the last one  *)
(* (append's lock, primary key and single transaction).                    *)
ChainIntact == ~damaged => Verified(events, chainState)

(* A committed event is neither overwritten nor removed by a writer: only  *)
(* a loss of power and damage from outside take events away (append        *)
(* inserts, never updates, and the sequence is a primary key).             *)
AppendOnly ==
    [][powerLosses' = powerLosses /\ damaged' = damaged
          => \A i \in DOMAIN events : i \in DOMAIN events' /\ events'[i] = events[i]]_vars

(* A verification never passes that began after the tables were damaged,   *)
(* however many events were appended since: modified, deleted (the last    *)
(* one too) and reordered rows, and a lost chain state, all show.          *)
DamageShows == verifier = "done" /\ damagedBefore => ~valid

(* A verification that no append overtook fails only on damaged tables:    *)
(* failed appends and an abnormal shutdown never make the chain invalid.   *)
AlarmMeansDamage == verifier = "done" /\ ~valid => damaged \/ overtaken

(* AUDIT.md: an integrity failure is a security incident.  So a verify     *)
(* beside the running bot would fail only on damaged tables.               *)
NoFalseAlarm == verifier = "done" /\ ~valid => damaged
=============================================================================
