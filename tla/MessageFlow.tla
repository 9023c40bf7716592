----------------------------- MODULE MessageFlow -----------------------------
(***************************************************************************)
(* One Discord message from the rate limiters to the token footer: the bot *)
(* in channel mode, ask, the usage ledger, the model provider's client and *)
(* the public HR answer.                                                   *)
(*                                                                         *)
(* A message may reach the provider twice: to route the request, and for   *)
(* an answer to a question that is no request to DIC.  Each call has a row *)
(* in the ledger, written before it and completed after it.  Messages are  *)
(* handled concurrently, may be cancelled at any await (shutdown), and the *)
(* database may fail in every transaction.                                 *)
(*                                                                         *)
(* Data: what a local parser decides and what the provider answers is      *)
(* free; of the counters it matters whether usable ones were returned.     *)
(***************************************************************************)
EXTENDS Subsequences

CONSTANTS
    Messages,
    Author,       \* user of each message
    Private,      \* the messages sent as direct messages
    Followed,     \* the messages looked at beyond the limiters
    UserLimit,    \* message_rate_limiter: limit
    ChannelLimit, \* global_message_rate_limiter: limit
    Window,       \* window_seconds of both
    Slots,        \* _public_hr_slots
    LastMinute    \* the clock goes no further

ASSUME FlowAssumption ==
    /\ {UserLimit, ChannelLimit, Window, Slots} \subseteq Nat \ {0} /\ LastMinute \in Nat
    /\ Private \cup Followed \subseteq Messages /\ IsFiniteSet(Messages)
    /\ DOMAIN Author = Messages /\ \A m \in Messages : Author[m] # "channel"

VARIABLES
    minute,
    events,   \* _events: the times still counted, per user and for the channel
    admitted, \* when each message passed the limiters; -1: it did not
    flow,     \* each message: step, purpose of its current call, what follows it
    ledger,   \* status of the rows of model_usage_events
    heard,    \* what came back of each call
    told      \* what the reply says of the tokens used

flowVars == <<minute, events, admitted, flow, ledger, heard, told>>

Purposes == {"intent_route", "public_hr_response"}
Keys == {Author[m] : m \in Messages} \cup {"channel"}
Rows == Messages \X Purposes

FlowInit ==
    /\ minute = 0
    /\ events = [k \in Keys |-> <<>>]
    /\ admitted = [m \in Messages |-> -1]
    /\ flow = [m \in Messages |-> [step |-> "new", purpose |-> "intent_route", then |-> "none"]]
    /\ ledger = [r \in Rows |-> "none"]
    /\ heard = [r \in Rows |-> "none"]
    /\ told = [m \in Messages |-> "nothing"]

Row(m) == <<m, flow[m].purpose>>

Stands(m, step) == flow[m].step = step

Proceed(m, step) == flow' = [flow EXCEPT ![m].step = step]

TickMinute ==
    /\ minute < LastMinute
    /\ minute' = minute + 1
    /\ UNCHANGED <<events, admitted, flow, ledger, heard, told>>
-----------------------------------------------------------------------------
(* SlidingWindowRateLimiter.check *)
ForgetsEarly(e) == e + Window > minute + 1    \* fault: the window is one tick short

Counted(e) == e + Window > minute

Recent(k) == Kept(events[k], {i \in DOMAIN events[k] : Counted(events[k][i])})

Checked(k, limit) ==
    IF Len(Recent(k)) < limit THEN Append(Recent(k), minute) ELSE Recent(k)

Allows(k, limit) == Len(Recent(k)) < limit

(* _dispatch_message, the author being authorized.  A message the channel
   refuses has used up one of its author's. *)
CheckLimits(m) ==
    LET user == Author[m]
        ofUser == Allows(user, UserLimit)
        asksChannel == ofUser /\ m \notin Private
        allowed == ofUser /\ (asksChannel => Allows("channel", ChannelLimit))
    IN
    /\ Stands(m, "new")
    /\ events' = [k \in Keys |-> IF k = user THEN Checked(k, UserLimit)
                                 ELSE IF k = "channel" /\ asksChannel THEN Checked(k, ChannelLimit)
                                 ELSE events[k]]
    /\ admitted' = [admitted EXCEPT ![m] = IF allowed THEN minute ELSE -1]
    /\ Proceed(m, IF allowed THEN "ask" ELSE "refused")
    /\ UNCHANGED <<minute, ledger, heard, told>>
-----------------------------------------------------------------------------
(* ask: the local parsers settle the request, refuse it, or the provider is
   asked to route it. *)
AskLocally(m, step) ==
    /\ m \in Followed /\ Stands(m, "ask")
    /\ Proceed(m, step)
    /\ UNCHANGED <<minute, events, admitted, ledger, heard, told>>

(* ModelUsageService.start.  A transaction that fails or is cancelled may
   have been committed. *)
StartRow(m, ok) ==
    /\ Stands(m, "start")
    /\ \/ ledger' = [ledger EXCEPT ![Row(m)] = "STARTED"]
       \/ ~ok /\ UNCHANGED ledger
    /\ Proceed(m, IF ok THEN "call" ELSE "failed")
    /\ UNCHANGED <<minute, events, admitted, heard, told>>

(* The client sends the request. *)
CallProvider(m) ==
    /\ Stands(m, "call") /\ heard[Row(m)] = "none"
    /\ heard' = [heard EXCEPT ![Row(m)] = "asked"]
    /\ UNCHANGED <<minute, events, admitted, flow, ledger, told>>

(* What the client makes of it: no answer (or a closed client), an answer
   without usable counters (Groq's tool_use_failed is one), one with them;
   whether the answer itself is usable decides how the message goes on.
   "crash" is an exception that is not the client's own. *)
FromRoute == {"footer", "public", "failed"}

Answered(m, answer, then) ==
    /\ Stands(m, "call")
    /\ answer \in {"counted", "uncounted"} => heard[Row(m)] = "asked"
    /\ then \in (CASE answer = "crash" -> {"failed"}
                   [] answer = "silent" -> {"footer"}
                   [] flow[m].purpose = "intent_route" -> FromRoute
                   [] OTHER -> {"footer"})
    /\ heard' = [heard EXCEPT ![Row(m)] =
                   IF @ = "none" THEN "none" ELSE IF answer = "crash" THEN "silent" ELSE answer]
    /\ flow' = [flow EXCEPT ![m].step = "complete", ![m].then = then]
    /\ UNCHANGED <<minute, events, admitted, ledger, told>>

(* ModelUsageService.complete, from response_received and usage. *)
ForgetsResponse(h) == IF h = "counted" THEN "REPORTED" ELSE "UNKNOWN"    \* fault: received only if counted

StatusOf(h) ==
    CASE h = "counted" -> "REPORTED" [] h = "uncounted" -> "UNAVAILABLE" [] OTHER -> "UNKNOWN"

(* UPDATE ... WHERE status = 'STARTED' *)
Completed(m) ==
    ledger' = [ledger EXCEPT ![Row(m)] = IF @ = "STARTED" THEN StatusOf(heard'[Row(m)]) ELSE @]

CompleteRow(m, ok) ==
    /\ Stands(m, "complete")
    /\ UNCHANGED heard
    /\ Completed(m) \/ (~ok /\ UNCHANGED ledger)
    /\ Proceed(m, IF ok THEN flow[m].then ELSE "failed")
    /\ UNCHANGED <<minute, events, admitted, told>>

(* Cancelled while the provider works: the completion is shielded, but may
   fail, and its failure does not replace the cancellation. *)
CancelCall(m) ==
    /\ Stands(m, "call")
    /\ heard' = [heard EXCEPT ![Row(m)] = IF @ = "asked" THEN "silent" ELSE @]
    /\ Completed(m) \/ UNCHANGED ledger
    /\ Proceed(m, "cancelled")
    /\ UNCHANGED <<minute, events, admitted, told>>

(* Cancelled at another await: a transaction under way may be committed. *)
CancelMessage(m) ==
    /\ m \in Followed /\ flow[m].step \in {"ask", "start", "complete", "footer"}
    /\ Proceed(m, "cancelled")
    /\ UNCHANGED heard
    /\ \/ UNCHANGED ledger
       \/ Stands(m, "start") /\ ledger' = [ledger EXCEPT ![Row(m)] = "STARTED"]
       \/ Stands(m, "complete") /\ Completed(m)
    /\ UNCHANGED <<minute, events, admitted, told>>
-----------------------------------------------------------------------------
OnPublicHr == {m \in Messages : /\ flow[m].purpose = "public_hr_response"
                                /\ flow[m].step \notin {"done", "failed", "cancelled"}}

AnySlot == TRUE    \* fault: the semaphore is not looked at

FreeSlot == Cardinality(OnPublicHr) < Slots

(* The fallback to the public answer: refused when all slots are taken, or
   when prepare_public_hr_input rejects the message; that reply's footer is a
   fixed text. *)
PublicHr(m) ==
    /\ Stands(m, "public")
    /\ \/ /\ ~FreeSlot
          /\ Proceed(m, "done")
          /\ UNCHANGED told
       \/ /\ FreeSlot
          /\ told' = [told EXCEPT ![m] = "zero"]
          /\ Proceed(m, "done")
       \/ /\ FreeSlot
          /\ flow' = [flow EXCEPT ![m] = [step |-> "start", purpose |-> "public_hr_response",
                                          then |-> "none"]]
          /\ UNCHANGED told
    /\ UNCHANGED <<minute, events, admitted, ledger, heard>>

(* _format_request_usage of the rows of this message. *)
Totals(m) == {ledger[<<m, p>>] : p \in Purposes} \ {"none"}

Usage(rows) ==
    CASE rows = {} -> "zero"
      [] rows = {"REPORTED"} -> "exact"
      [] "REPORTED" \in rows /\ rows # {"REPORTED"} -> "with gaps"
      [] "REPORTED" \notin rows /\ "UNAVAILABLE" \in rows -> "no counters"
      [] OTHER -> "unknown"

(* The totals are read and the reply is sent. *)
Footer(m, ok) ==
    /\ Stands(m, "footer")
    /\ told' = [told EXCEPT ![m] = IF ok THEN Usage(Totals(m)) ELSE @]
    /\ Proceed(m, IF ok THEN "done" ELSE "failed")
    /\ UNCHANGED <<minute, events, admitted, ledger, heard>>

FlowNext ==
    \/ TickMinute
    \/ \E m \in Messages :
         \/ CheckLimits(m) \/ CallProvider(m) \/ PublicHr(m)
         \/ CancelCall(m) \/ CancelMessage(m)
         \/ \E step \in {"footer", "start", "failed"} : AskLocally(m, step)
         \/ \E ok \in BOOLEAN : StartRow(m, ok) \/ CompleteRow(m, ok) \/ Footer(m, ok)
         \/ \E answer \in {"silent", "uncounted", "counted", "crash"}, then \in FromRoute :
              Answered(m, answer, then)
-----------------------------------------------------------------------------
FlowTypeOK ==
    /\ minute \in 0..LastMinute
    /\ \A k \in Keys : events[k] \in Seq(0..minute)
    /\ admitted \in [Messages -> -1..LastMinute]
    /\ flow \in [Messages -> [step : {"new", "refused", "ask", "start", "call", "complete", "public",
                                      "footer", "done", "failed", "cancelled"},
                              purpose : Purposes, then : FromRoute \cup {"none"}]]
    /\ ledger \in [Rows -> {"none", "STARTED", "REPORTED", "UNAVAILABLE", "UNKNOWN"}]
    /\ heard \in [Rows -> {"none", "asked", "silent", "uncounted", "counted"}]
    /\ told \in [Messages -> {"nothing", "zero", "exact", "with gaps", "no counters", "unknown"}]
    /\ Cardinality(OnPublicHr) <= Slots

(* In no window do more messages of one user, or of the channel, pass than
   the limit allows, whatever the order in which they were checked. *)
NoFlood ==
    \A t \in 0..minute :
        LET In(m) == admitted[m] > t - Window /\ admitted[m] >= 0 /\ admitted[m] <= t IN
        /\ \A u \in Keys : Cardinality({m \in Messages : In(m) /\ Author[m] = u}) <= UserLimit
        /\ Cardinality({m \in Messages : In(m) /\ m \notin Private}) <= ChannelLimit

(* The ledger and the provider agree: no call without a row, counters only
   where the provider returned them, "unavailable" only where it answered
   without, "unknown" only where nothing came back; only an error or a
   cancellation leaves a row STARTED, and a reply that gives plain counters
   counts every call of its message. *)
UsageIsTruthful ==
    /\ \A r \in Rows :
         /\ heard[r] # "none" => ledger[r] # "none"
         /\ ledger[r] = "REPORTED" => heard[r] = "counted"
         /\ ledger[r] = "UNAVAILABLE" => heard[r] = "uncounted"
         /\ ledger[r] = "UNKNOWN" => heard[r] \in {"none", "silent"}
         /\ ledger[r] = "STARTED" => flow[r[1]].step # "done"
    /\ \A m \in Messages : told[m] = "exact" =>
         \A p \in Purposes : heard[<<m, p>>] \in {"none", "counted"}

(* README.md: the reply gives the tokens of its request, "con stato esplicito
   per valori assenti o incerti".  A reply that says no call was made answers
   a message for which none was made. *)
FooterIsTrue ==
    \A m \in Messages : told[m] = "zero" => \A p \in Purposes : heard[<<m, p>>] = "none"
=============================================================================
