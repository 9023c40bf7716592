--------------------------- MODULE OnboardingDrafts ---------------------------
(***************************************************************************)
(* OnboardingDraftStore and the two requests that use it: the personal     *)
(* data read from an employee's documents is kept in memory while the      *)
(* requester fills in, page by page, what the documents did not say.       *)
(*                                                                         *)
(* Every draft has one timer, made with it; every operation of the store   *)
(* also drops what has expired.  The timers are the event loop's: time     *)
(* does not pass a deadline before its timer has fired.                    *)
(*                                                                         *)
(* Data: what is missing is the number of forms still to be filled in.     *)
(***************************************************************************)
EXTENDS Subsequences

CONSTANTS
    Requesters,  \* OnboardingDraftKey: user, guild and channel
    MaxForms,    \* a draft wants at most this many forms
    Documents,   \* at most this many attachments (4 in the code)
    DraftTtl,    \* ttl_seconds
    MaxDrafts,   \* max_drafts
    Onboardings, \* requests that are looked at
    LastHour     \* the clock goes no further

ASSUME OnboardingAssumption ==
    /\ {DraftTtl, MaxDrafts, Documents} \subseteq Nat \ {0}
    /\ {MaxForms, Onboardings, LastHour} \subseteq Nat

VARIABLES
    hour,
    drafts,     \* _items, the least recently used first
    timers,     \* <<draft, deadline>> given to call_later
    onboarding, \* documents still to be read, per requester; 0: no request
    finishing,  \* drafts whose form is stored and whose audit is awaited
    begun       \* requests so far, and the id of the newest draft

onboardingVars == <<hour, drafts, timers, onboarding, finishing, begun>>

OnboardingInit ==
    /\ hour = 0 /\ drafts = <<>> /\ timers = {}
    /\ onboarding = [k \in Requesters |-> 0]
    /\ finishing = {}
    /\ begun = [requests |-> 0, drafts |-> 0]

(* _purge *)
Unexpired == Kept(drafts, {i \in DOMAIN drafts : drafts[i].expires > hour})

Others(id) == Kept(Unexpired, {i \in DOMAIN Unexpired : Unexpired[i].id # id})

TickDraft ==
    /\ hour < LastHour
    /\ \A t \in timers : hour < t[2]
    /\ hour' = hour + 1
    /\ UNCHANGED <<drafts, timers, onboarding, finishing, begun>>

(* _expire_if_current: only the draft this timer was made for. *)
FireTimer(t) ==
    /\ t \in timers /\ t[2] <= hour
    /\ timers' = timers \ {t}
    /\ drafts' = Kept(drafts, {i \in DOMAIN drafts : <<drafts[i].id, drafts[i].expires>> # t})
    /\ UNCHANGED <<hour, onboarding, finishing, begun>>
-----------------------------------------------------------------------------
(* onboard_documents, allowed by the policy. *)
Onboard(k, n) ==
    /\ onboarding[k] = 0 /\ begun.requests < Onboardings
    /\ onboarding' = [onboarding EXCEPT ![k] = n]
    /\ begun' = [begun EXCEPT !.requests = @ + 1]
    /\ UNCHANGED <<hour, drafts, timers, finishing>>

(* create, which leaves the timers of evicted drafts alone. *)
CreateDraft(k, forms, conflicts) ==
    LET id == begun.drafts + 1
        d == [id |-> id, key |-> k, forms |-> forms, conflicts |-> conflicts,
              made |-> hour, expires |-> hour + DraftTtl]
        all == Append(Unexpired, d)
    IN
    /\ drafts' = IF Len(all) > MaxDrafts THEN Tail(all) ELSE all
    /\ timers' = timers \cup {<<id, d.expires>>}
    /\ begun' = [begun EXCEPT !.drafts = id]

(* One document: ingested, audited, claimed and read.  The last one makes the
   draft; a refusal or failure on the way ends the request without one. *)
ReadDocument(k, readable) ==
    /\ onboarding[k] > 0
    /\ onboarding' = [onboarding EXCEPT ![k] = IF readable THEN @ - 1 ELSE 0]
    /\ IF readable /\ onboarding[k] = 1
       THEN \E forms \in 0..MaxForms, conflicts \in BOOLEAN : CreateDraft(k, forms, conflicts)
       ELSE UNCHANGED <<drafts, timers, begun>>
    /\ UNCHANGED <<hour, finishing>>
-----------------------------------------------------------------------------
RenewsExpiry(d) == hour + DraftTtl    \* fault: filling in a form starts the time again

KeepsExpiry(d) == d.expires

(* fill_missing: the form must be the one the draft wants now, so the same
   form sent twice, or an older one, is refused. *)
FillForm(k, id, form) ==
    /\ \E d \in ToSet(Unexpired) :
         /\ d.id = id /\ d.key = k /\ ~d.conflicts /\ d.forms = form
         /\ drafts' = Append(Others(id), [d EXCEPT !.forms = @ - 1, !.expires = KeepsExpiry(d)])
    /\ finishing' = finishing \cup {<<k, id, form - 1>>}
    /\ UNCHANGED <<hour, timers, onboarding, begun>>

(* Refused: get has touched the draft if it is the requester's. *)
RefuseForm(k, id, form) ==
    LET mine == {d \in ToSet(Unexpired) : d.id = id /\ d.key = k} IN
    /\ \A d \in mine : d.conflicts \/ d.forms # form
    /\ \/ mine = {} /\ drafts' = Unexpired
       \/ \E d \in mine : drafts' = Append(Others(id), d)
    /\ UNCHANGED <<hour, timers, onboarding, finishing, begun>>

(* The audit has been awaited.  A complete draft is shown and discarded; if
   the audit fails it stays. *)
FinishForm(f, audited) ==
    /\ f \in finishing
    /\ finishing' = finishing \ {f}
    /\ drafts' = IF audited /\ f[3] = 0 THEN Others(f[2]) ELSE drafts
    /\ UNCHANGED <<hour, timers, onboarding, begun>>

OnboardingNext ==
    \/ TickDraft
    \/ \E t \in timers : FireTimer(t)
    \/ \E k \in Requesters :
         \/ \E n \in 1..Documents : Onboard(k, n)
         \/ \E readable \in BOOLEAN : ReadDocument(k, readable)
         \/ \E id \in 1..begun.drafts, form \in 1..MaxForms : FillForm(k, id, form) \/ RefuseForm(k, id, form)
    \/ \E f \in finishing, audited \in BOOLEAN : FinishForm(f, audited)
-----------------------------------------------------------------------------
OnboardingTypeOK ==
    /\ hour \in 0..LastHour
    /\ Len(drafts) <= MaxDrafts
    /\ \A i \in DOMAIN drafts :
         drafts[i] \in [id : 1..begun.drafts, key : Requesters, forms : 0..MaxForms,
                        conflicts : BOOLEAN, made : 0..hour, expires : Nat]
    /\ \A i, j \in DOMAIN drafts : drafts[i].id = drafts[j].id => i = j
    /\ \A t \in timers : t[1] \in 1..begun.drafts
    /\ onboarding \in [Requesters -> 0..Documents]
    /\ \A f \in finishing : f[1] \in Requesters /\ f[2] \in 1..begun.drafts /\ f[3] < MaxForms

(* "Extracted PII expires without persistence": it is not in the store longer
   than the time to live after it was read from the documents, even if nobody
   asks for it again and however often its forms were filled in. *)
DraftsEndInTime ==
    \A i \in DOMAIN drafts : hour <= drafts[i].made + DraftTtl
=============================================================================
