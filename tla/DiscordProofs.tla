---------------------------- MODULE DiscordProofs ----------------------------
(***************************************************************************)
(* Proofs about the parts between Discord and DIC, for any messages and    *)
(* settings: who sees an answer (ReplyAudience), what limiters let pass    *)
(* and what the ledger and the footer say of the provider's calls          *)
(* (MessageFlow), how long extracted personal data stays                   *)
(* (OnboardingDrafts), and what a follow-up stands on (Conversation).      *)
(*                                                                         *)
(* ReplyAudience: when a result is about to be sent, the deferral that it  *)
(* would take the place of is public only where publishing was allowed,    *)
(* and is no longer private under an aggregate.  MessageFlow: a row is     *)
(* STARTED exactly while its call is under way or was abandoned, so that   *)
(* what has come back cannot change under a completed row; and a limiter   *)
(* counts a time for every message that has passed it and is still in the  *)
(* window.  OnboardingDrafts: a draft's timer stays as long as the draft.  *)
(* Conversation: the store holds nothing that no menu has shown.           *)
(***************************************************************************)
EXTENDS ReplyAudience, MessageFlow, OnboardingDrafts, Conversation, SubsequenceProofs

Steps == {"idle", "start", "operate", "edit", "send", "parts", "reply"}
Whats == {"aggregate", "sensitive"}

(* The talk, its step and what is known of its result at that step. *)
TalkTypes ==
    /\ talk = [pc |-> talk.pc, origin |-> talk.origin, source |-> talk.source,
               answer |-> talk.answer, what |-> talk.what, control |-> talk.control,
               parts |-> talk.parts]
    /\ talk.pc # "idle" => /\ talk.origin \in Interactions \cup Messaged
                           /\ talk.source \in Audiences \cup {"none"}
    /\ talk.pc \in {"edit", "send", "parts", "reply"} =>
         /\ talk.what \in Whats /\ talk.control \in Components \cup {"none"}
         /\ talk.parts \in BOOLEAN
    /\ talk.pc \in {"edit", "send"} => talk.origin \in Interactions
    /\ talk.pc = "reply" => talk.origin \in Messaged

(* The deferral that waits for the answer. *)
DeferralInv ==
    /\ talk.origin \in Messaged => talk.answer = "none"
    /\ talk.answer = "public" => MayPublish
    /\ talk.pc = "send" /\ talk.what = "aggregate" => talk.answer # "private"
    /\ talk.pc = "parts" => talk.answer = "none"

(* A sensitive answer in the channel has been let through. *)
ChannelInv ==
    talk.pc = "parts" /\ talk.origin = "channel" /\ talk.what = "sensitive" => settings.publish

AudienceInv == AudienceTypeOK /\ TalkTypes /\ DeferralInv /\ ChannelInv /\ AudienceIsRight

AudienceSpec == (\E asked \in BOOLEAN : AudienceInit(asked)) /\ [][AudienceNext]_audienceVars
-----------------------------------------------------------------------------
USE TalksAssumption DEF Interactions, Components, Messaged, Audiences, Steps, Whats

PostType == [what : {"aggregate", "sensitive", "notice"}, seen : Audiences,
             origin : Interactions \cup Messaged, source : Audiences \cup {"none"}]

(* The post may stand: what AudienceIsRight says of one. *)
RightPost(p) ==
    /\ p.what = "sensitive" /\ p.seen = "public" =>
         /\ settings.publish
         /\ p.origin \in {"channel", "menu"} \/ (p.origin = "approval" /\ p.source = "public")
    /\ p.what = "aggregate" /\ p.origin # "dm" => p.seen = "public"

(* A step that adds right posts, and leaves a talk that is well deferred. *)
AudienceStep ==
    /\ settings' = settings
    /\ \A p \in posts' : p \in posts \/ (p \in PostType /\ RightPost(p))
    /\ controls' \subseteq [kind : Components, seen : Audiences]
    /\ talks' \in 0..Talks
    /\ talk'.pc \in Steps /\ talk'.answer \in Audiences \cup {"none"}
    /\ (TalkTypes /\ DeferralInv /\ ChannelInv)'

LEMMA StepKeepsAudience == AudienceInv /\ AudienceStep => AudienceInv'
<1> SUFFICES ASSUME AudienceInv, AudienceStep PROVE AudienceInv'
  OBVIOUS
<1>1. AudienceTypeOK /\ AudienceIsRight
  BY DEF AudienceInv
<1>2. posts' \subseteq PostType
  BY <1>1 DEF AudienceTypeOK, AudienceStep, PostType
<1>3. AudienceTypeOK'
  BY <1>1, <1>2 DEF AudienceTypeOK, AudienceStep, PostType
<1>4. \A p \in posts' : RightPost(p)
  BY <1>1 DEF AudienceStep, AudienceIsRight, RightPost
<1>5. AudienceIsRight'
  BY <1>4 DEF AudienceStep, AudienceIsRight, RightPost
<1> QED
  BY <1>3, <1>5 DEF AudienceInv, AudienceStep

LEMMA IdleTalk == (talk = NoTalk => TalkTypes /\ DeferralInv /\ ChannelInv)
BY DEF NoTalk, TalkTypes, DeferralInv, ChannelInv

LEMMA InitAudienceInv ==
    ASSUME NEW asked \in BOOLEAN, AudienceInit(asked)
    PROVE  AudienceInv
<1>1. AudienceTypeOK /\ AudienceIsRight
  <2>1. settings \in [publish : BOOLEAN, byDm : BOOLEAN]
    <3>1. [publish |-> FALSE, byDm |-> FALSE] \in [publish : BOOLEAN, byDm : BOOLEAN]
      OBVIOUS
    <3> QED
      BY <3>1, Zenon DEF AudienceInit
  <2> QED
    BY <2>1 DEF AudienceInit, AudienceTypeOK, AudienceIsRight, NoTalk
<1> QED
  BY <1>1, IdleTalk DEF AudienceInit, AudienceInv

(* Requests that begin, and talks that end with a notice or without one. *)
LEMMA TalkBegins ==
    ASSUME AudienceInv,
           (\E origin \in Interactions \cup Messaged, source \in Audiences \cup {"none"} :
              StartTalk(origin, source)) \/ RestartBot
    PROVE  AudienceStep
<1>1. AudienceTypeOK /\ TalkTypes /\ DeferralInv /\ ChannelInv
  BY DEF AudienceInv
<1>2. ASSUME NEW origin \in Interactions \cup Messaged, NEW source \in Audiences \cup {"none"},
             StartTalk(origin, source)
      PROVE  AudienceStep
  <2>1. /\ talk' = [NoTalk EXCEPT !.pc = "start", !.origin = origin, !.source = source]
        /\ UNCHANGED <<settings, posts, controls>> /\ talks' \in 0..Talks
    BY <1>1, <1>2 DEF StartTalk, AudienceTypeOK
  <2>2. (TalkTypes /\ DeferralInv /\ ChannelInv)'
    BY <2>1 DEF NoTalk, TalkTypes, DeferralInv, ChannelInv
  <2> QED
    BY <1>1, <2>1, <2>2 DEF AudienceStep, AudienceTypeOK, NoTalk
<1>3. CASE RestartBot
  <2>1. UNCHANGED <<settings, talk, posts, talks>> /\ controls' \subseteq controls
    BY <1>3 DEF RestartBot
  <2>2. (TalkTypes /\ DeferralInv /\ ChannelInv)'
    BY <1>1, <2>1 DEF TalkTypes, DeferralInv, ChannelInv, MayPublish, ComponentMayPublish
  <2> QED
    BY <1>1, <2>1, <2>2 DEF AudienceStep, AudienceTypeOK
<1> QED
  BY <1>2, <1>3

LEMMA NoticeTyped ==
    ASSUME AudienceInv, talk.pc # "idle", NEW audience \in Audiences
    PROVE  Post("notice", audience) \in PostType /\ RightPost(Post("notice", audience))
BY DEF AudienceInv, TalkTypes, Post, PostType, RightPost

LEMMA TalkEnds ==
    ASSUME AudienceInv, RefuseTalk \/ FailTalk
    PROVE  AudienceStep
<1>1. AudienceTypeOK /\ TalkTypes
  BY DEF AudienceInv
<1>2. /\ talk.pc # "idle" /\ talk' = NoTalk /\ UNCHANGED <<settings, controls, talks>>
      /\ \E audience \in Audiences : posts' = posts \cup {Post("notice", audience)}
  BY <1>1 DEF RefuseTalk, FailTalk, EndTalk, Around, FollowUp, AudienceTypeOK
<1>3. (TalkTypes /\ DeferralInv /\ ChannelInv)'
  BY <1>2 DEF NoTalk, TalkTypes, DeferralInv, ChannelInv
<1> QED
  BY <1>1, <1>2, <1>3, NoticeTyped DEF AudienceStep, AudienceTypeOK, NoTalk

(* The deferral and the result. *)
LEMMA TalkProceeds ==
    ASSUME AudienceInv,
           \/ Defer
           \/ \E what \in Whats, control \in Components \cup {"none"}, parts \in BOOLEAN :
                Operation(what, control, parts)
    PROVE  AudienceStep
<1>1. AudienceTypeOK /\ TalkTypes /\ DeferralInv
  BY DEF AudienceInv
<1>2. UNCHANGED <<settings, posts, controls, talks>>
  BY DEF Defer, Operation
<1>3. /\ (TalkTypes /\ DeferralInv /\ ChannelInv)'
      /\ talk'.pc \in Steps /\ talk'.answer \in Audiences \cup {"none"}
  <2>1. CASE Defer
    BY <1>1, <1>2, <2>1
       DEF Defer, TalkTypes, DeferralInv, ChannelInv, MayPublish, ComponentMayPublish
  <2>2. ASSUME NEW what \in Whats, NEW control \in Components \cup {"none"}, NEW parts \in BOOLEAN,
               Operation(what, control, parts)
        PROVE  <1>3!:
    <3> DEFINE next == IF talk.origin \in Messaged THEN "reply" ELSE "edit"
    <3>1. /\ talk' = [talk EXCEPT !.pc = next, !.what = what, !.control = control, !.parts = parts]
          /\ talk.pc = "operate"
      BY <2>2 DEF Operation
    <3>2. /\ talk' = [pc |-> next, origin |-> talk.origin, source |-> talk.source,
                      answer |-> talk.answer, what |-> what, control |-> control, parts |-> parts]
          /\ next \in {"reply", "edit"}
      BY ONLY <1>1, <3>1 DEF TalkTypes
    <3>3. TalkTypes'
      BY <1>1, <3>1, <3>2 DEF TalkTypes
    <3>4. DeferralInv' /\ ChannelInv'
      BY <1>1, <1>2, <3>2 DEF DeferralInv, ChannelInv, MayPublish, ComponentMayPublish
    <3> QED
      BY <1>1, <3>2, <3>3, <3>4 DEF AudienceTypeOK
  <2> QED
    BY <2>1, <2>2
<1> QED
  BY <1>1, <1>2, <1>3 DEF AudienceStep, AudienceTypeOK

(* CompleteDeferral: an aggregate does not take the place of a private
   deferral. *)
LEMMA DeferralCompleted ==
    ASSUME AudienceInv, CompleteDeferral
    PROVE  AudienceStep
<1>1. AudienceTypeOK /\ TalkTypes /\ DeferralInv
  BY DEF AudienceInv
<1>2. talk.pc = "edit" /\ UNCHANGED <<settings, controls, talks>>
  BY DEF CompleteDeferral
<1>3. CASE EditsFirst
  <2>1. /\ posts' = posts \cup {Post("notice", "private")}
        /\ talk' = [talk EXCEPT !.pc = "send", !.answer = "none"]
    BY <1>3 DEF CompleteDeferral
  <2>2. (TalkTypes /\ DeferralInv /\ ChannelInv)'
    BY <1>1, <1>2, <2>1 DEF TalkTypes, DeferralInv, ChannelInv
  <2>3. talk'.pc \in Steps /\ talk'.answer \in Audiences \cup {"none"}
    BY <1>1, <2>1 DEF TalkTypes
  <2> QED
    BY <1>1, <1>2, <2>1, <2>2, <2>3, NoticeTyped DEF AudienceStep, AudienceTypeOK
<1>4. CASE ~EditsFirst
  <2>1. talk' = [talk EXCEPT !.pc = "send"] /\ UNCHANGED posts
    BY <1>4 DEF CompleteDeferral
  <2>2. (TalkTypes /\ DeferralInv /\ ChannelInv)'
    BY <1>1, <1>2, <1>4, <2>1 DEF TalkTypes, DeferralInv, ChannelInv, MayPublish,
                                  ComponentMayPublish, EditsFirst
  <2>3. talk'.pc \in Steps /\ talk'.answer \in Audiences \cup {"none"}
    BY <1>1, <2>1 DEF TalkTypes, AudienceTypeOK
  <2> QED
    BY <1>1, <1>2, <2>1, <2>2, <2>3 DEF AudienceStep, AudienceTypeOK
<1> QED
  BY <1>3, <1>4

(* An answer that is sent to the audience it is due. *)
LEMMA DeliverStep ==
    ASSUME AudienceInv, talk.pc \in {"send", "reply"}, NEW audience \in Audiences,
           Deliver(audience), UNCHANGED <<settings, talks>>,
           RightPost(Post(talk.what, audience)),
           talk.pc = "reply" /\ talk.origin = "channel" /\ talk.what = "sensitive" => settings.publish
    PROVE  AudienceStep
<1>1. AudienceTypeOK /\ TalkTypes /\ DeferralInv
  BY DEF AudienceInv
<1>2. Post(talk.what, audience) \in PostType
  BY <1>1 DEF TalkTypes, Post, PostType
<1>3. controls' \subseteq [kind : Components, seen : Audiences]
  BY <1>1 DEF Deliver, TalkTypes, AudienceTypeOK
<1>4. /\ (TalkTypes /\ DeferralInv /\ ChannelInv)'
      /\ talk'.pc \in Steps /\ talk'.answer \in Audiences \cup {"none"}
  <2>1. CASE talk.parts
    <3>1. talk' = [talk EXCEPT !.pc = "parts", !.answer = "none"]
      BY <2>1 DEF Deliver
    <3> QED
      BY <1>1, <3>1 DEF TalkTypes, DeferralInv, ChannelInv
  <2>2. CASE ~talk.parts
    <3>1. talk' = NoTalk
      BY <2>2 DEF Deliver
    <3> QED
      BY <3>1 DEF NoTalk, TalkTypes, DeferralInv, ChannelInv
  <2> QED
    BY <2>1, <2>2
<1> QED
  BY <1>1, <1>2, <1>3, <1>4 DEF AudienceStep, AudienceTypeOK, Deliver

LEMMA ResultSent ==
    ASSUME AudienceInv, SendResult \/ ReplyToMessage
    PROVE  AudienceStep
<1>1. AudienceTypeOK /\ TalkTypes /\ DeferralInv
  BY DEF AudienceInv
<1>2. CASE SendResult
  <2>1. talk.pc = "send" /\ Deliver(FollowUp(DeliveryEphemeral)) /\ UNCHANGED <<settings, talks>>
    BY <1>2 DEF SendResult
  <2>2. FollowUp(DeliveryEphemeral) \in Audiences
    BY <1>1 DEF FollowUp, AudienceTypeOK
  <2>3. RightPost(Post(talk.what, FollowUp(DeliveryEphemeral)))
    BY <1>1, <2>1 DEF TalkTypes, DeferralInv, RightPost, Post, FollowUp, DeliveryEphemeral,
                      MayPublish, ComponentMayPublish, AudienceTypeOK
  <2> QED
    BY <2>1, <2>2, <2>3, DeliverStep
<1>3. CASE ReplyToMessage
  <2>1. /\ talk.pc = "reply" /\ ~Withheld /\ Deliver(Around) /\ UNCHANGED <<settings, talks>>
        /\ Around \in Audiences
    BY <1>3 DEF ReplyToMessage, Around
  <2>2. talk.origin = "channel" /\ talk.what = "sensitive" => settings.publish
    BY <2>1 DEF Withheld
  <2>3. RightPost(Post(talk.what, Around))
    BY <1>1, <2>1, <2>2 DEF TalkTypes, RightPost, Post, Around
  <2> QED
    BY <2>1, <2>2, <2>3, DeliverStep
<1> QED
  BY <1>2, <1>3

(* The parts of a long answer, and an answer withheld from the channel. *)
LEMMA RestSent ==
    ASSUME AudienceInv, SendParts \/ \E sent \in BOOLEAN : WithholdFromChannel(sent)
    PROVE  AudienceStep
<1>1. AudienceTypeOK /\ TalkTypes /\ DeferralInv /\ ChannelInv
  BY DEF AudienceInv
<1>2. talk' = NoTalk /\ UNCHANGED <<settings, controls, talks>> /\ talk.pc # "idle"
  BY DEF SendParts, WithholdFromChannel, EndTalk
<1>3. \A p \in posts' : p \in posts \/ (p \in PostType /\ RightPost(p))
  <2>1. CASE SendParts
    <3> DEFINE audience == IF talk.origin \in Messaged THEN Around ELSE FollowUp(DeliveryEphemeral)
    <3>1. talk.pc = "parts" /\ posts' = posts \cup {Post(talk.what, audience)}
      BY <2>1 DEF SendParts
    <3>2. audience \in Audiences
      BY <1>1 DEF FollowUp, Around, AudienceTypeOK
    <3>3. Post(talk.what, audience) \in PostType
      BY <1>1, <3>1, <3>2 DEF TalkTypes, Post, PostType
    <3>4. RightPost(Post(talk.what, audience))
      BY <1>1, <3>1 DEF TalkTypes, DeferralInv, ChannelInv, RightPost, Post, FollowUp, Around,
                        DeliveryEphemeral, MayPublish, ComponentMayPublish
    <3> QED
      BY <3>1, <3>3, <3>4
  <2>2. ASSUME NEW sent \in BOOLEAN, WithholdFromChannel(sent) PROVE <1>3!:
    <3>1. /\ talk.pc = "reply"
          /\ posts' \subseteq posts \cup {Post("notice", "public"), Post("sensitive", "private")}
      BY <2>2 DEF WithholdFromChannel
    <3>2. Post("sensitive", "private") \in PostType /\ RightPost(Post("sensitive", "private"))
      BY <1>1, <3>1 DEF TalkTypes, Post, PostType, RightPost
    <3> QED
      BY <1>2, <3>1, <3>2, NoticeTyped
  <2> QED
    BY <2>1, <2>2
<1>4. (TalkTypes /\ DeferralInv /\ ChannelInv)'
  BY <1>2 DEF NoTalk, TalkTypes, DeferralInv, ChannelInv
<1> QED
  BY <1>1, <1>2, <1>3, <1>4 DEF AudienceStep, AudienceTypeOK, NoTalk

LEMMA NextAudienceInv == AudienceInv /\ [AudienceNext]_audienceVars => AudienceInv'
<1> SUFFICES ASSUME AudienceInv, [AudienceNext]_audienceVars PROVE AudienceInv'
  OBVIOUS
<1>1. CASE UNCHANGED audienceVars
  BY <1>1 DEF audienceVars, AudienceInv, AudienceTypeOK, TalkTypes, DeferralInv, ChannelInv,
              AudienceIsRight, MayPublish, ComponentMayPublish
<1>2. ASSUME AudienceNext PROVE AudienceStep
  BY <1>2, TalkBegins, TalkEnds, TalkProceeds, DeferralCompleted, ResultSent, RestSent
     DEF AudienceNext
<1> QED
  BY <1>1, <1>2, StepKeepsAudience

(* Every deferral, talk and channel agrees with what may be said there. *)
THEOREM AudienceInvariantHolds == AudienceSpec => []AudienceInv
<1>1. (\E asked \in BOOLEAN : AudienceInit(asked)) => AudienceInv
  BY InitAudienceInv
<1> QED
  BY <1>1, NextAudienceInv, PTL DEF AudienceSpec

(* _send and _reply_with_result: a sensitive answer is seen by the channel *)
(* only where the operator opted in and the request came from there, and   *)
(* an aggregate is published, whatever fails and whichever control it      *)
(* came from.                                                              *)
THEOREM AnswersReachTheirAudience == AudienceSpec => []AudienceIsRight
<1>1. AudienceInv => AudienceIsRight
  BY DEF AudienceInv
<1> QED
  BY <1>1, AudienceInvariantHolds, PTL
-----------------------------------------------------------------------------
FlowSteps == {"new", "refused", "ask", "start", "call", "complete", "public", "footer", "done",
              "failed", "cancelled"}
Over == {"done", "failed", "cancelled"}
FlowState == [step : FlowSteps, purpose : Purposes, then : FromRoute \cup {"none"}]
LedgerStatus == {"none", "STARTED", "REPORTED", "UNAVAILABLE", "UNKNOWN"}
HeardStatus == {"none", "asked", "silent", "uncounted", "counted"}
Tallies == {"nothing", "zero", "exact", "with gaps", "no counters", "unknown"}

(* The types of FlowTypeOK, the limiters' apart. *)
UsageTypes ==
    /\ flow \in [Messages -> FlowState]
    /\ ledger \in [Rows -> LedgerStatus] /\ heard \in [Rows -> HeardStatus]
    /\ told \in [Messages -> Tallies]

(* A completed row says what came back. *)
Agree(l, h) ==
    /\ h # "none" => l # "none"
    /\ l = "REPORTED" => h = "counted"
    /\ l = "UNAVAILABLE" => h = "uncounted"
    /\ l = "UNKNOWN" => h \in {"none", "silent"}

(* The row l of a message's current call, and what came back of it, at each
   step of the message. *)
Fits(f, l, h) ==
    /\ Agree(l, h)
    /\ f.step \in {"new", "refused", "ask", "start"} => l = "none" /\ h = "none"
    /\ f.step \in {"call", "complete"} => l = "STARTED"
    /\ f.step = "complete" => /\ h # "asked" /\ f.then \in FromRoute
                              /\ f.purpose = "public_hr_response" => f.then # "public"
    /\ f.step \in {"footer", "public", "done"} => l # "STARTED"
    /\ f.step \in {"new", "refused", "ask", "public"} => f.purpose = "intent_route"

(* The row of its other call: not begun, or completed before this one. *)
OtherRow(m) ==
    <<m, IF flow[m].purpose = "intent_route" THEN "public_hr_response" ELSE "intent_route">>

Settled(f, l, h) ==
    /\ Agree(l, h) /\ l # "STARTED"
    /\ f.purpose = "intent_route" => l = "none" /\ h = "none"

MessageInv(m) ==
    /\ Fits(flow[m], ledger[Row(m)], heard[Row(m)])
    /\ Settled(flow[m], ledger[OtherRow(m)], heard[OtherRow(m)])
    /\ told[m] = "exact" =>
         flow[m].step = "done" /\ \A p \in Purposes : heard[<<m, p>>] \in {"none", "counted"}

SlotsKept == Cardinality(OnPublicHr) <= Slots

UsageInv == UsageTypes /\ (\A m \in Messages : MessageInv(m)) /\ SlotsKept

FlowSpec == FlowInit /\ [][FlowNext]_flowVars
-----------------------------------------------------------------------------
(* A step of message m: the new state of m, of the row of its current call
   and of what came back of it; everything else of the ledger stays. *)
Moves(m, f, l, h) ==
    /\ flow[m].step \notin Over
    /\ f \in FlowState /\ l \in LedgerStatus /\ h \in HeardStatus
    /\ flow' = [flow EXCEPT ![m] = f]
    /\ ledger' = [ledger EXCEPT ![Row(m)] = l]
    /\ heard' = [heard EXCEPT ![Row(m)] = h]

LEMMA RowsApart ==
    ASSUME UsageTypes, NEW m \in Messages
    PROVE  /\ Row(m) \in Rows /\ OtherRow(m) \in Rows /\ Row(m) # OtherRow(m)
           /\ \A p \in Purposes : <<m, p>> \in {Row(m), OtherRow(m)}
           /\ \A n \in Messages : n # m => Row(n) # Row(m) /\ OtherRow(n) # Row(m)
<1>1. \A n \in Messages : flow[n].purpose \in Purposes
  BY DEF UsageTypes, FlowState
<1> QED
  BY <1>1 DEF Row, OtherRow, Rows, Purposes

(* A message that is not over has not been told a total. *)
LEMMA NothingToldYet ==
    ASSUME UsageInv, NEW m \in Messages, flow[m].step \notin Over
    PROVE  told[m] # "exact"
BY DEF UsageInv, MessageInv, Over

(* The other messages are not touched. *)
LEMMA OthersKept ==
    ASSUME UsageInv, NEW m \in Messages, NEW f, NEW l, NEW h, Moves(m, f, l, h),
           NEW n \in Messages, n # m, told'[n] = told[n]
    PROVE  MessageInv(n)'
<1>1. UsageTypes /\ MessageInv(n)
  BY DEF UsageInv
<1>2. flow'[n] = flow[n]
  BY <1>1 DEF Moves, UsageTypes
<1>3. Row(n)' = Row(n) /\ OtherRow(n)' = OtherRow(n)
  BY <1>2 DEF Row, OtherRow
<1>4. \A r \in Rows : r # Row(m) => ledger'[r] = ledger[r] /\ heard'[r] = heard[r]
  BY <1>1 DEF Moves, UsageTypes
<1>5. /\ ledger'[Row(n)] = ledger[Row(n)] /\ ledger'[OtherRow(n)] = ledger[OtherRow(n)]
      /\ heard'[Row(n)] = heard[Row(n)] /\ heard'[OtherRow(n)] = heard[OtherRow(n)]
  BY <1>1, <1>4, RowsApart
<1>6. \A p \in Purposes : heard'[<<n, p>>] = heard[<<n, p>>]
  BY <1>1, <1>4, RowsApart DEF Row, Rows
<1> QED
  BY <1>1, <1>2, <1>3, <1>5, <1>6 DEF MessageInv

(* Who is on the public answer: nobody joins, or one message joins it. *)
LEMMA SlotsStep ==
    ASSUME UsageInv, NEW m \in Messages, flow' \in [Messages -> FlowState],
           \A n \in Messages : n # m => flow'[n] = flow[n],
           FreeSlot \/ (m \in OnPublicHr' => m \in OnPublicHr)
    PROVE  SlotsKept'
<1>1. IsFiniteSet(OnPublicHr)
  BY FlowAssumption, FS_Subset DEF OnPublicHr
<1>2. Cardinality(OnPublicHr) \in Nat /\ Cardinality(OnPublicHr) <= Slots /\ Slots \in Nat
  BY <1>1, FS_CardinalityType, FlowAssumption DEF UsageInv, SlotsKept
<1>3. OnPublicHr' \subseteq OnPublicHr \cup {m}
  BY DEF OnPublicHr
<1>4. CASE OnPublicHr' \subseteq OnPublicHr
  <2>1. Cardinality(OnPublicHr') <= Cardinality(OnPublicHr) /\ Cardinality(OnPublicHr') \in Nat
    BY <1>1, <1>4, FS_Subset, FS_CardinalityType
  <2> QED
    BY <1>2, <2>1 DEF SlotsKept
<1>5. CASE ~(OnPublicHr' \subseteq OnPublicHr)
  <2>1. FreeSlot /\ m \notin OnPublicHr
    BY <1>3, <1>5
  <2>2. IsFiniteSet(OnPublicHr \cup {m})
        /\ Cardinality(OnPublicHr \cup {m}) = Cardinality(OnPublicHr) + 1
    BY <1>1, <2>1, FS_AddElement
  <2>3. Cardinality(OnPublicHr') <= Cardinality(OnPublicHr \cup {m})
        /\ Cardinality(OnPublicHr') \in Nat
    BY <1>3, <2>2, FS_Subset, FS_CardinalityType
  <2> QED
    BY <1>2, <2>1, <2>2, <2>3 DEF FreeSlot, SlotsKept
<1> QED
  BY <1>4, <1>5

(* A step of a call: its purpose stays, and nothing is told. *)
LEMMA CallStep ==
    ASSUME UsageInv, NEW m \in Messages, NEW f, NEW l, NEW h, Moves(m, f, l, h),
           f.purpose = flow[m].purpose, told' = told, Fits(f, l, h)
    PROVE  UsageInv'
<1>1. UsageTypes /\ \A n \in Messages : MessageInv(n)
  BY DEF UsageInv
<1>2. UsageTypes'
  BY <1>1, RowsApart DEF UsageTypes, Moves
<1>3. /\ flow'[m] = f /\ ledger'[Row(m)] = l /\ heard'[Row(m)] = h
      /\ ledger'[OtherRow(m)] = ledger[OtherRow(m)] /\ heard'[OtherRow(m)] = heard[OtherRow(m)]
  BY <1>1, RowsApart DEF UsageTypes, Moves
<1>4. Row(m)' = Row(m) /\ OtherRow(m)' = OtherRow(m)
  BY <1>3 DEF Row, OtherRow
<1>5. told'[m] # "exact"
  BY NothingToldYet DEF Moves
<1>6. Settled(f, ledger[OtherRow(m)], heard[OtherRow(m)])
  BY <1>1 DEF MessageInv, Settled
<1>7. MessageInv(m)'
  BY <1>3, <1>4, <1>5, <1>6 DEF MessageInv
<1>8. \A n \in Messages : MessageInv(n)'
  BY <1>7, OthersKept
<1>9. SlotsKept'
  <2>1. flow' \in [Messages -> FlowState] /\ \A n \in Messages : n # m => flow'[n] = flow[n]
    BY <1>1, <1>2 DEF UsageTypes, Moves
  <2>2. m \in OnPublicHr' => m \in OnPublicHr
    BY <1>3 DEF OnPublicHr, Moves, Over
  <2> QED
    BY <2>1, <2>2, SlotsStep
<1> QED
  BY <1>2, <1>8, <1>9 DEF UsageInv
LEMMA RowUnmoved ==
    ASSUME UsageTypes, NEW m \in Messages
    PROVE  /\ flow = [flow EXCEPT ![m] = flow[m]]
           /\ ledger = [ledger EXCEPT ![Row(m)] = ledger[Row(m)]]
           /\ heard = [heard EXCEPT ![Row(m)] = heard[Row(m)]]
           /\ flow[m] \in FlowState /\ ledger[Row(m)] \in LedgerStatus
           /\ heard[Row(m)] \in HeardStatus
BY RowsApart DEF UsageTypes

(* The step alone changes. *)
LEMMA StepState ==
    ASSUME UsageTypes, NEW m \in Messages, NEW step \in FlowSteps
    PROVE  LET f == [flow[m] EXCEPT !.step = step] IN
           /\ f \in FlowState /\ f.step = step
           /\ f.purpose = flow[m].purpose /\ f.then = flow[m].then
           /\ Proceed(m, step) => flow' = [flow EXCEPT ![m] = f]
<1> DEFINE f == [flow[m] EXCEPT !.step = step]
<1>1. flow[m] \in FlowState
  BY RowUnmoved
<1>2. f \in FlowState /\ f.step = step /\ f.purpose = flow[m].purpose /\ f.then = flow[m].then
  BY <1>1 DEF FlowState
<1>3. Proceed(m, step) => flow' = [flow EXCEPT ![m] = f]
  BY DEF Proceed
<1> QED
  BY <1>2, <1>3

(* Before the call: the limiters, the local parsers, the row, the request. *)
LEMMA BeforeCall ==
    ASSUME UsageInv, NEW m \in Messages,
           \/ CheckLimits(m) \/ CallProvider(m)
           \/ \E step \in {"footer", "start", "failed"} : AskLocally(m, step)
           \/ \E ok \in BOOLEAN : StartRow(m, ok)
    PROVE  UsageInv'
<1> DEFINE l == ledger[Row(m)]
           h == heard[Row(m)]
<1>1. /\ UsageTypes /\ MessageInv(m)
      /\ Fits(flow[m], l, h) /\ flow[m] \in FlowState
  BY RowUnmoved DEF UsageInv, MessageInv
<1>2. CASE CheckLimits(m) \/ \E step \in {"footer", "start", "failed"} : AskLocally(m, step)
  <2>1. PICK step \in {"ask", "refused", "footer", "start", "failed"} :
          /\ Proceed(m, step) /\ UNCHANGED <<ledger, heard, told>>
          /\ flow[m].step \in {"new", "ask"}
          /\ step \in {"ask", "refused"} => flow[m].step = "new"
    BY <1>2 DEF CheckLimits, AskLocally, Stands
  <2> DEFINE f == [flow[m] EXCEPT !.step = step]
  <2>2. /\ f \in FlowState /\ f.step = step /\ f.purpose = flow[m].purpose
        /\ flow' = [flow EXCEPT ![m] = f]
    <3>1. step \in FlowSteps /\ UsageTypes /\ Proceed(m, step)
      BY <1>1, <2>1 DEF FlowSteps
    <3> QED
      BY ONLY <3>1, StepState, m \in Messages
  <2> HIDE DEF f
  <2>3. Moves(m, f, l, h)
    BY <1>1, <2>1, <2>2, RowUnmoved DEF Moves, Over
  <2>4. Fits(f, l, h)
    BY <1>1, <2>1, <2>2 DEF Fits
  <2> QED
    BY <2>1, <2>2, <2>3, <2>4, CallStep
<1>3. CASE CallProvider(m)
  <2>1. /\ flow[m].step = "call" /\ h = "none" /\ heard' = [heard EXCEPT ![Row(m)] = "asked"]
        /\ UNCHANGED <<flow, ledger, told>>
    BY <1>3 DEF CallProvider, Stands
  <2>2. Moves(m, flow[m], l, "asked")
    BY <1>1, <2>1, RowUnmoved DEF Moves, Over, HeardStatus
  <2>3. Fits(flow[m], l, "asked")
    BY <1>1, <2>1 DEF Fits, Agree
  <2> QED
    BY <2>1, <2>2, <2>3, CallStep
<1>4. ASSUME NEW ok \in BOOLEAN, StartRow(m, ok) PROVE UsageInv'
  <2> DEFINE step == IF ok THEN "call" ELSE "failed"
             f == [flow[m] EXCEPT !.step = step]
  <2>1. /\ flow[m].step = "start" /\ Proceed(m, step) /\ UNCHANGED <<heard, told>>
        /\ ledger' = [ledger EXCEPT ![Row(m)] = "STARTED"] \/ (~ok /\ ledger' = ledger)
    BY <1>4 DEF StartRow, Stands
  <2>2. /\ f \in FlowState /\ f.step = step /\ f.purpose = flow[m].purpose
        /\ flow' = [flow EXCEPT ![m] = f] /\ step \in {"call", "failed"}
    <3>1. step \in {"call", "failed"}
      OBVIOUS
    <3> HIDE DEF step
    <3>2. step \in FlowSteps /\ UsageTypes /\ Proceed(m, step)
      BY <1>1, <2>1, <3>1 DEF FlowSteps
    <3> QED
      BY ONLY <3>1, <3>2, StepState, m \in Messages
  <2>3. step = "call" => ok
    OBVIOUS
  <2> HIDE DEF f, step
  <2>4. PICK new \in LedgerStatus :
          /\ ledger' = [ledger EXCEPT ![Row(m)] = new]
          /\ new = "STARTED" \/ (~ok /\ new = l)
    BY <1>1, <2>1, RowUnmoved DEF LedgerStatus
  <2>5. Moves(m, f, new, h)
    BY <1>1, <2>1, <2>2, <2>4, RowUnmoved DEF Moves, Over
  <2>6. l = "none" /\ h = "none"
    BY <1>1, <2>1 DEF Fits
  <2>7. Fits(f, new, h)
    BY <2>2, <2>3, <2>4, <2>6 DEF Fits, Agree
  <2> QED
    BY <2>1, <2>2, <2>5, <2>7, CallStep
<1> QED
  BY <1>2, <1>3, <1>4

(* ModelUsageService.complete is truthful: the status it writes over STARTED
   is what came back, unless nothing has come back yet. *)
LEMMA CompletedStatus ==
    ASSUME NEW h \in HeardStatus, h # "asked"
    PROVE  Agree(StatusOf(h), h) /\ StatusOf(h) \in LedgerStatus \ {"none", "STARTED"}
BY DEF HeardStatus, LedgerStatus, Agree, StatusOf

(* The answer, or the cancellation of the call. *)
LEMMA CallEnds ==
    ASSUME UsageInv, NEW m \in Messages,
           \/ CancelCall(m)
           \/ \E answer \in {"silent", "uncounted", "counted", "crash"}, then \in FromRoute :
                Answered(m, answer, then)
    PROVE  UsageInv'
<1> DEFINE l == ledger[Row(m)]
           h == heard[Row(m)]
<1>1. /\ UsageTypes /\ MessageInv(m) /\ Fits(flow[m], l, h)
      /\ flow[m] \in FlowState /\ h \in HeardStatus /\ l \in LedgerStatus
  BY RowUnmoved DEF UsageInv, MessageInv
<1>2. flow[m].step = "call" /\ l = "STARTED" /\ told' = told
  BY <1>1 DEF CancelCall, Answered, Stands, Fits
<1>3. CASE CancelCall(m)
  <2> DEFINE f == [flow[m] EXCEPT !.step = "cancelled"]
             back == IF h = "asked" THEN "silent" ELSE h
  <2>1. /\ f \in FlowState /\ f.step = "cancelled" /\ f.purpose = flow[m].purpose
        /\ flow' = [flow EXCEPT ![m] = f]
    BY <1>1, <1>3, StepState DEF FlowSteps, CancelCall
  <2>2. /\ heard' = [heard EXCEPT ![Row(m)] = back] /\ heard'[Row(m)] = back
        /\ back \in HeardStatus /\ back # "asked"
    BY <1>1, <1>3, RowsApart DEF CancelCall, HeardStatus, UsageTypes
  <2>3. PICK new \in LedgerStatus :
          /\ ledger' = [ledger EXCEPT ![Row(m)] = new]
          /\ new \in {"STARTED", StatusOf(back)}
    <3>1. StatusOf(back) \in LedgerStatus
      BY <2>2, CompletedStatus
    <3>2. CASE Completed(m)
      BY <1>2, <2>2, <3>1, <3>2 DEF Completed
    <3>3. CASE UNCHANGED ledger
      BY <1>1, <1>2, <3>3, RowUnmoved
    <3> QED
      BY <1>3, <3>2, <3>3 DEF CancelCall
  <2> HIDE DEF f, back
  <2>4. Moves(m, f, new, back)
    BY <1>2, <2>1, <2>2, <2>3 DEF Moves, Over
  <2>5. Fits(f, new, back)
    <3>1. Agree(new, back)
      BY <2>2, <2>3, CompletedStatus DEF Agree
    <3> QED
      BY <2>1, <3>1 DEF Fits
  <2> QED
    BY <1>2, <2>1, <2>4, <2>5, CallStep
<1>4. ASSUME NEW answer \in {"silent", "uncounted", "counted", "crash"}, NEW then \in FromRoute,
             Answered(m, answer, then)
      PROVE  UsageInv'
  <2> DEFINE f == [flow[m] EXCEPT !.step = "complete", !.then = then]
             back == IF h = "none" THEN "none" ELSE IF answer = "crash" THEN "silent" ELSE answer
  <2>1. /\ f \in FlowState /\ f.step = "complete" /\ f.purpose = flow[m].purpose /\ f.then = then
    BY <1>1 DEF FlowState, FlowSteps
  <2>2. flow' = [flow EXCEPT ![m] = f]
    BY <1>4 DEF Answered
  <2>3. heard' = [heard EXCEPT ![Row(m)] = back] /\ back \in HeardStatus /\ back # "asked"
    BY <1>1, <1>4, RowsApart DEF Answered, HeardStatus, UsageTypes
  <2>4. flow[m].purpose = "public_hr_response" => then # "public"
    BY <1>4 DEF Answered
  <2>5. UNCHANGED ledger
    BY <1>4 DEF Answered
  <2> HIDE DEF f, back
  <2>6. Moves(m, f, l, back)
    BY <1>1, <1>2, <2>1, <2>2, <2>3, <2>5, RowUnmoved DEF Moves, Over
  <2>7. Fits(f, l, back)
    BY <1>2, <2>1, <2>3, <2>4 DEF Fits, Agree
  <2> QED
    BY <1>2, <2>1, <2>6, <2>7, CallStep
<1> QED
  BY <1>3, <1>4
(* The completion, or a cancellation at another await. *)
LEMMA RowCompleted ==
    ASSUME UsageInv, NEW m \in Messages,
           CancelMessage(m) \/ \E ok \in BOOLEAN : CompleteRow(m, ok)
    PROVE  UsageInv'
<1> DEFINE l == ledger[Row(m)]
           h == heard[Row(m)]
<1>1. /\ UsageTypes /\ MessageInv(m) /\ Fits(flow[m], l, h)
      /\ flow[m] \in FlowState /\ h \in HeardStatus /\ l \in LedgerStatus
  BY RowUnmoved DEF UsageInv, MessageInv
<1>2. told' = told /\ heard' = heard
  BY DEF CancelMessage, CompleteRow
<1>3. ASSUME flow[m].step = "complete"
      PROVE  /\ l = "STARTED" /\ h # "asked"
             /\ Completed(m) => ledger' = [ledger EXCEPT ![Row(m)] = StatusOf(h)]
             /\ Agree(StatusOf(h), h) /\ StatusOf(h) \in LedgerStatus \ {"none", "STARTED"}
  <2>1. l = "STARTED" /\ h # "asked"
    BY <1>1, <1>3 DEF Fits
  <2> QED
    BY <1>1, <1>2, <2>1, CompletedStatus DEF Completed
<1>4. CASE CancelMessage(m)
  <2> DEFINE f == [flow[m] EXCEPT !.step = "cancelled"]
  <2>1. /\ f \in FlowState /\ f.step = "cancelled" /\ f.purpose = flow[m].purpose
        /\ flow' = [flow EXCEPT ![m] = f]
        /\ flow[m].step \notin Over
    BY <1>1, <1>4, StepState DEF FlowSteps, CancelMessage, Over
  <2>2. \E new \in LedgerStatus : ledger' = [ledger EXCEPT ![Row(m)] = new] /\ Agree(new, h)
    <3>1. CASE UNCHANGED ledger
      BY <1>1, <3>1, RowUnmoved DEF Fits
    <3>2. CASE flow[m].step = "start" /\ ledger' = [ledger EXCEPT ![Row(m)] = "STARTED"]
      BY <1>1, <3>2 DEF Fits, Agree, LedgerStatus
    <3>3. CASE flow[m].step = "complete" /\ Completed(m)
      BY <1>3, <3>3
    <3> QED
      BY <1>4, <3>1, <3>2, <3>3 DEF CancelMessage, Stands
  <2> HIDE DEF f
  <2>3. PICK new \in LedgerStatus : ledger' = [ledger EXCEPT ![Row(m)] = new] /\ Agree(new, h)
    BY <2>2
  <2>4. Moves(m, f, new, h)
    BY <1>1, <1>2, <2>1, <2>3, RowUnmoved DEF Moves
  <2>5. Fits(f, new, h)
    BY <2>1, <2>3 DEF Fits
  <2> QED
    BY <1>2, <2>1, <2>4, <2>5, CallStep
<1>5. ASSUME NEW ok \in BOOLEAN, CompleteRow(m, ok) PROVE UsageInv'
  <2> DEFINE step == IF ok THEN flow[m].then ELSE "failed"
             f == [flow[m] EXCEPT !.step = step]
  <2>1. /\ flow[m].step = "complete" /\ Proceed(m, step)
        /\ Completed(m) \/ (~ok /\ UNCHANGED ledger)
    BY <1>5 DEF CompleteRow, Stands
  <2>2. /\ step \in FromRoute
        /\ step = "public" => flow[m].purpose = "intent_route"
        /\ step # "failed" => ok
    BY <1>1, <2>1 DEF Fits, FlowState, Purposes, FromRoute
  <2> HIDE DEF step
  <2>3. /\ f \in FlowState /\ f.step = step /\ f.purpose = flow[m].purpose
        /\ flow' = [flow EXCEPT ![m] = f]
    <3>1. step \in FlowSteps /\ UsageTypes /\ Proceed(m, step)
      BY <1>1, <2>1, <2>2 DEF FlowSteps, FromRoute
    <3> QED
      BY ONLY <3>1, StepState, m \in Messages
  <2> HIDE DEF f
  <2>4. PICK new \in LedgerStatus :
          /\ ledger' = [ledger EXCEPT ![Row(m)] = new] /\ Agree(new, h)
          /\ new = "STARTED" => ~ok
    <3>1. CASE Completed(m)
      BY <1>3, <2>1, <3>1
    <3>2. CASE ~ok /\ UNCHANGED ledger
      BY <1>1, <3>2, RowUnmoved DEF Fits
    <3> QED
      BY <2>1, <3>1, <3>2
  <2>5. Moves(m, f, new, h)
    BY <1>1, <1>2, <2>1, <2>3, <2>4, RowUnmoved DEF Moves, Over
  <2>6. Fits(f, new, h)
    BY <2>2, <2>3, <2>4 DEF Fits, FromRoute
  <2> QED
    BY <1>2, <2>3, <2>5, <2>6, CallStep
<1> QED
  BY <1>4, <1>5

(* The reply: the ledger stays, and what is told of it is its own total. *)
LEMMA ReplyStep ==
    ASSUME UsageInv, NEW m \in Messages, NEW f \in FlowState, NEW t \in Tallies,
           Moves(m, f, ledger[Row(m)], heard[Row(m)]),
           f.purpose = flow[m].purpose, f.step \in {"done", "failed"},
           told' = [told EXCEPT ![m] = t],
           f.step = "done" => ledger[Row(m)] # "STARTED",
           t = "exact" => f.step = "done" /\ \A p \in Purposes : heard[<<m, p>>] \in {"none", "counted"}
    PROVE  UsageInv'
<1>1. UsageTypes /\ \A n \in Messages : MessageInv(n)
  BY DEF UsageInv
<1>2. ledger' = ledger /\ heard' = heard
  BY <1>1, RowUnmoved DEF Moves
<1>3. flow' \in [Messages -> FlowState] /\ \A n \in Messages : n # m => flow'[n] = flow[n]
  BY <1>1 DEF UsageTypes, Moves
<1>4. UsageTypes'
  BY <1>1, <1>2, <1>3 DEF UsageTypes
<1>5. flow'[m] = f /\ told'[m] = t
  BY <1>1 DEF UsageTypes, Moves
<1>6. Row(m)' = Row(m) /\ OtherRow(m)' = OtherRow(m)
  BY <1>5 DEF Row, OtherRow
<1>7. Fits(f, ledger[Row(m)], heard[Row(m)])
  BY <1>1 DEF MessageInv, Fits
<1>8. Settled(f, ledger[OtherRow(m)], heard[OtherRow(m)])
  BY <1>1 DEF MessageInv, Settled
<1>9. MessageInv(m)'
  BY <1>2, <1>5, <1>6, <1>7, <1>8 DEF MessageInv
<1>10. \A n \in Messages : n # m => told'[n] = told[n]
  BY <1>1 DEF UsageTypes
<1>11. \A n \in Messages : MessageInv(n)'
  BY <1>9, <1>10, OthersKept
<1>12. SlotsKept'
  <2>1. m \in OnPublicHr' => m \in OnPublicHr
    BY <1>5 DEF OnPublicHr, Moves, Over
  <2> QED
    BY <1>3, <2>1, SlotsStep
<1> QED
  BY <1>4, <1>11, <1>12 DEF UsageInv

LEMMA FooterSent ==
    ASSUME UsageInv, NEW m \in Messages, NEW ok \in BOOLEAN, Footer(m, ok)
    PROVE  UsageInv'
<1>1. /\ UsageTypes /\ MessageInv(m)
      /\ Fits(flow[m], ledger[Row(m)], heard[Row(m)])
      /\ Settled(flow[m], ledger[OtherRow(m)], heard[OtherRow(m)])
  BY DEF UsageInv, MessageInv
<1> DEFINE step == IF ok THEN "done" ELSE "failed"
           f == [flow[m] EXCEPT !.step = step]
           t == IF ok THEN Usage(Totals(m)) ELSE told[m]
<1>2. /\ flow[m].step = "footer" /\ Proceed(m, step) /\ UNCHANGED <<ledger, heard>>
      /\ told' = [told EXCEPT ![m] = t]
  BY DEF Footer, Stands
<1>3. step \in {"done", "failed"} /\ (step = "done" <=> ok)
  OBVIOUS
<1>4. told[m] # "exact"
  BY <1>2, NothingToldYet DEF Over
<1>5. t \in Tallies
  BY <1>1 DEF Usage, Tallies, UsageTypes
<1>6. ASSUME t = "exact"
      PROVE  ok /\ \A p \in Purposes : heard[<<m, p>>] \in {"none", "counted"}
  <2>1. ok /\ Usage(Totals(m)) = "exact"
    BY <1>4, <1>6
  <2>2. Totals(m) = {"REPORTED"}
    BY <2>1 DEF Usage
  <2>3. \A p \in Purposes : ledger[<<m, p>>] \in {"none", "REPORTED"}
    BY <2>2 DEF Totals
  <2>4. \A p \in Purposes : Agree(ledger[<<m, p>>], heard[<<m, p>>])
    BY <1>1, RowsApart DEF Fits, Settled
  <2> QED
    BY <2>1, <2>3, <2>4 DEF Agree
<1> HIDE DEF step, t
<1>7. /\ f \in FlowState /\ f.step = step /\ f.purpose = flow[m].purpose
      /\ flow' = [flow EXCEPT ![m] = f]
  <2>1. step \in FlowSteps /\ UsageTypes /\ Proceed(m, step)
    BY <1>1, <1>2, <1>3 DEF FlowSteps
  <2> QED
    BY ONLY <2>1, StepState, m \in Messages
<1> HIDE DEF f
<1>8. Moves(m, f, ledger[Row(m)], heard[Row(m)])
  BY <1>1, <1>2, <1>7, RowUnmoved DEF Moves, Over
<1>9. ledger[Row(m)] # "STARTED"
  BY <1>1, <1>2 DEF Fits
<1> QED
  BY <1>2, <1>3, <1>5, <1>6, <1>7, <1>8, <1>9, ReplyStep

(* The public answer: without a slot, with a fixed text, or with a second
   call, whose row has not begun. *)
LEMMA PublicHrStep ==
    ASSUME UsageInv, NEW m \in Messages, PublicHr(m)
    PROVE  UsageInv'
<1>1. /\ UsageTypes /\ \A n \in Messages : MessageInv(n)
      /\ Fits(flow[m], ledger[Row(m)], heard[Row(m)])
      /\ Settled(flow[m], ledger[OtherRow(m)], heard[OtherRow(m)])
  BY DEF UsageInv, MessageInv
<1>2. flow[m].step = "public" /\ UNCHANGED <<ledger, heard>>
  BY DEF PublicHr, Stands
<1>3. flow[m].purpose = "intent_route" /\ ledger[Row(m)] # "STARTED" /\ told[m] # "exact"
  BY <1>1, <1>2, NothingToldYet DEF Fits, Over
<1>4. CASE Proceed(m, "done") /\ (told' = told \/ told' = [told EXCEPT ![m] = "zero"])
  <2> DEFINE f == [flow[m] EXCEPT !.step = "done"]
  <2>1. /\ f \in FlowState /\ f.step = "done" /\ f.purpose = flow[m].purpose
        /\ flow' = [flow EXCEPT ![m] = f]
    BY <1>1, <1>4, StepState DEF FlowSteps
  <2> HIDE DEF f
  <2>2. Moves(m, f, ledger[Row(m)], heard[Row(m)])
    BY <1>1, <1>2, <2>1, RowUnmoved DEF Moves, Over
  <2>3. PICK t \in Tallies : told' = [told EXCEPT ![m] = t] /\ t # "exact"
    <3>1. told[m] \in Tallies /\ told = [told EXCEPT ![m] = told[m]] /\ "zero" \in Tallies
      BY <1>1 DEF UsageTypes, Tallies
    <3> QED
      BY <1>3, <1>4, <3>1
  <2> QED
    BY <1>3, <2>1, <2>2, <2>3, ReplyStep
<1>5. ASSUME FreeSlot, told' = told,
             flow' = [flow EXCEPT ![m] = [step |-> "start", purpose |-> "public_hr_response",
                                          then |-> "none"]]
      PROVE  UsageInv'
  <2> DEFINE f == [step |-> "start", purpose |-> "public_hr_response", then |-> "none"]
  <2>1. /\ f \in FlowState /\ flow'[m] = f /\ f.step = "start" /\ f.purpose = "public_hr_response"
        /\ flow' \in [Messages -> FlowState]
        /\ \A n \in Messages : n # m => flow'[n] = flow[n]
    BY <1>1, <1>5 DEF FlowState, FlowSteps, Purposes, UsageTypes
  <2>2. UsageTypes'
    BY <1>1, <1>2, <1>5, <2>1 DEF UsageTypes
  <2>3. Row(m)' = OtherRow(m) /\ OtherRow(m)' = Row(m)
    BY <1>3, <2>1 DEF Row, OtherRow
  <2>4. ledger[OtherRow(m)] = "none" /\ heard[OtherRow(m)] = "none"
    BY <1>1, <1>3 DEF Settled
  <2> HIDE DEF f
  <2>5. Fits(f, ledger[OtherRow(m)], heard[OtherRow(m)])
    BY <2>1, <2>4 DEF Fits, Agree
  <2>6. Settled(f, ledger[Row(m)], heard[Row(m)])
    BY <1>1, <1>3, <2>1 DEF Fits, Settled
  <2>7. MessageInv(m)'
    BY <1>2, <1>3, <1>5, <2>1, <2>3, <2>5, <2>6 DEF MessageInv
  <2>8. ASSUME NEW n \in Messages, n # m PROVE MessageInv(n)'
    <3>1. flow'[n] = flow[n]
      BY <2>1, <2>8
    <3>2. Row(n)' = Row(n) /\ OtherRow(n)' = OtherRow(n)
      BY <3>1 DEF Row, OtherRow
    <3> QED
      BY <1>1, <1>2, <1>5, <3>1, <3>2 DEF MessageInv
  <2>9. SlotsKept'
    BY <1>5, <2>1, SlotsStep
  <2> QED
    BY <2>2, <2>7, <2>8, <2>9 DEF UsageInv
<1> QED
  BY <1>4, <1>5 DEF PublicHr
-----------------------------------------------------------------------------
LEMMA InitUsageInv == FlowInit => UsageInv
<1> SUFFICES ASSUME FlowInit PROVE UsageInv
  OBVIOUS
<1>1. UsageTypes
  BY DEF FlowInit, UsageTypes, FlowState, FlowSteps, Purposes, LedgerStatus, HeardStatus, Tallies
<1>2. ASSUME NEW m \in Messages PROVE MessageInv(m)
  <2>1. /\ flow[m] = [step |-> "new", purpose |-> "intent_route", then |-> "none"]
        /\ told[m] = "nothing"
        /\ \A r \in Rows : ledger[r] = "none" /\ heard[r] = "none"
    BY DEF FlowInit
  <2> QED
    BY <1>1, <2>1, RowsApart DEF MessageInv, Fits, Settled, Agree
<1>3. OnPublicHr = {}
  BY DEF FlowInit, OnPublicHr
<1>4. SlotsKept
  BY <1>3, FS_EmptySet, FlowAssumption DEF SlotsKept
<1> QED
  BY <1>1, <1>2, <1>4 DEF UsageInv

LEMMA NextUsageInv == UsageInv /\ [FlowNext]_flowVars => UsageInv'
<1> SUFFICES ASSUME UsageInv, [FlowNext]_flowVars PROVE UsageInv'
  OBVIOUS
<1>1. CASE TickMinute \/ UNCHANGED flowVars
  <2>1. UNCHANGED <<flow, ledger, heard, told>>
    BY <1>1 DEF TickMinute, flowVars
  <2> QED
    BY <2>1 DEF UsageInv, UsageTypes, MessageInv, Row, OtherRow, SlotsKept, OnPublicHr
<1>2. ASSUME NEW m \in Messages,
             \/ CheckLimits(m) \/ CallProvider(m)
             \/ \E step \in {"footer", "start", "failed"} : AskLocally(m, step)
             \/ \E ok \in BOOLEAN : StartRow(m, ok)
      PROVE  UsageInv'
  BY <1>2, BeforeCall
<1>3. ASSUME NEW m \in Messages,
             \/ CancelCall(m)
             \/ \E answer \in {"silent", "uncounted", "counted", "crash"}, then \in FromRoute :
                  Answered(m, answer, then)
      PROVE  UsageInv'
  BY <1>3, CallEnds
<1>4. ASSUME NEW m \in Messages, CancelMessage(m) \/ \E ok \in BOOLEAN : CompleteRow(m, ok)
      PROVE  UsageInv'
  BY <1>4, RowCompleted
<1>5. ASSUME NEW m \in Messages, PublicHr(m) \/ \E ok \in BOOLEAN : Footer(m, ok)
      PROVE  UsageInv'
  BY <1>5, PublicHrStep, FooterSent
<1> QED
  BY ONLY <1>1, <1>2, <1>3, <1>4, <1>5, [FlowNext]_flowVars DEF FlowNext

(* The ledger's rows agree with the provider's calls, and no public answer is
   without its slot. *)
THEOREM UsageInvariantHolds == FlowSpec => []UsageInv
BY InitUsageInv, NextUsageInv, PTL DEF FlowSpec

(* ModelUsageService and _format_request_usage: the ledger never says more  *)
(* of a provider's call than came back of it, a message that was answered   *)
(* has no row left open, and plain totals count every call.                 *)
THEOREM LedgerIsTruthful == FlowSpec => []UsageIsTruthful
<1>1. ASSUME UsageInv PROVE UsageIsTruthful
  <2>1. UsageTypes /\ \A m \in Messages : MessageInv(m)
    BY <1>1 DEF UsageInv
  <2>2. ASSUME NEW r \in Rows
        PROVE  Agree(ledger[r], heard[r]) /\ (ledger[r] = "STARTED" => flow[r[1]].step # "done")
    <3>1. PICK m \in Messages, p \in Purposes : r = <<m, p>>
      BY DEF Rows
    <3>2. r \in {Row(m), OtherRow(m)} /\ r[1] = m
      BY <2>1, <3>1, RowsApart
    <3> QED
      BY <2>1, <3>2 DEF MessageInv, Fits, Settled
  <2> QED
    BY <2>1, <2>2 DEF UsageIsTruthful, Agree, MessageInv
<1> QED
  BY <1>1, UsageInvariantHolds, PTL

(* _public_hr_slots: no more messages are at the public answer than it has  *)
(* slots.                                                                   *)
THEOREM PublicAnswersBounded == FlowSpec => [](Cardinality(OnPublicHr) <= Slots)
<1>1. UsageInv => Cardinality(OnPublicHr) <= Slots
  BY DEF UsageInv, SlotsKept
<1> QED
  BY <1>1, UsageInvariantHolds, PTL
-----------------------------------------------------------------------------
(* When "no call was made" is told.  The footer tells it of messages without
   a call; the fixed text, of a question whose routing asked the provider and
   whose public answer was then refused before its own call. *)
RefusedQuestion(m) == flow[m].purpose = "intent_route" /\ flow[m].then = "public"

NoCallMade(m) == \A p \in Purposes : heard[<<m, p>>] = "none"

ZeroInv ==
    \A m \in Messages :
        /\ flow[m].step = "public" => flow[m].then = "public"
        /\ told[m] = "zero" => flow[m].step = "done" /\ (RefusedQuestion(m) \/ NoCallMade(m))

(* A step of a message that is not over touches no other, tells nothing
   unless it replies, and reaches the public answer as it was sent there. *)
LEMMA StepOfMessage ==
    ASSUME UsageTypes, NEW n \in Messages,
           \/ CheckLimits(n) \/ CallProvider(n) \/ PublicHr(n)
           \/ CancelCall(n) \/ CancelMessage(n)
           \/ \E step \in {"footer", "start", "failed"} : AskLocally(n, step)
           \/ \E ok \in BOOLEAN : StartRow(n, ok) \/ CompleteRow(n, ok) \/ Footer(n, ok)
           \/ \E answer \in {"silent", "uncounted", "counted", "crash"}, then \in FromRoute :
                Answered(n, answer, then)
    PROVE  /\ flow[n].step \notin Over
           /\ \A m \in Messages : m # n => /\ flow'[m] = flow[m] /\ told'[m] = told[m]
                                          /\ \A p \in Purposes : heard'[<<m, p>>] = heard[<<m, p>>]
           /\ flow'[n].step = "public" => flow'[n].then = "public"
           /\ told'[n] = told[n] \/ PublicHr(n) \/ Footer(n, TRUE)
<1> DEFINE Apart ==
      /\ \A m \in Messages : m # n => flow'[m] = flow[m]
      /\ \A r \in Rows : r # Row(n) => heard'[r] = heard[r]
      /\ \A m \in Messages : m # n => told'[m] = told[m]
           Good ==
      /\ flow[n].step \notin Over /\ Apart
      /\ flow'[n].step = "public" => flow'[n].then = "public"
      /\ told'[n] = told[n] \/ PublicHr(n) \/ Footer(n, TRUE)
<1>1. /\ DOMAIN flow = Messages /\ flow[n] \in FlowState
      /\ DOMAIN heard = Rows /\ DOMAIN told = Messages
  BY DEF UsageTypes
<1>2. ASSUME NEW step \in FlowSteps, Proceed(n, step)
      PROVE  /\ \A m \in Messages : m # n => flow'[m] = flow[m]
             /\ flow'[n].step = step /\ flow'[n].then = flow[n].then
  BY <1>1, <1>2 DEF Proceed, FlowState
<1>3. ASSUME NEW step \in FlowSteps \ {"public"}, Proceed(n, step), UNCHANGED <<heard, told>>,
             flow[n].step \notin Over
      PROVE  Good
  BY <1>2, <1>3
<1>4. ASSUME CheckLimits(n) \/ \E step \in {"footer", "start", "failed"} : AskLocally(n, step)
      PROVE  Good
  BY <1>3, <1>4 DEF CheckLimits, AskLocally, Stands, FlowSteps, Over
<1>5. ASSUME CancelMessage(n) \/ \E ok \in BOOLEAN : StartRow(n, ok) PROVE Good
  BY <1>3, <1>5 DEF CancelMessage, StartRow, Stands, FlowSteps, Over
<1>6. ASSUME CallProvider(n) PROVE Good
  <2>1. flow[n].step = "call" /\ UNCHANGED <<flow, told>>
    BY <1>6 DEF CallProvider, Stands
  <2>2. \A r \in Rows : r # Row(n) => heard'[r] = heard[r]
    BY <1>1, <1>6 DEF CallProvider
  <2> QED
    BY <2>1, <2>2 DEF Over
<1>7. ASSUME CancelCall(n) PROVE Good
  <2>1. /\ flow[n].step = "call" /\ Proceed(n, "cancelled") /\ told' = told
        /\ \A r \in Rows : r # Row(n) => heard'[r] = heard[r]
    BY <1>1, <1>7 DEF CancelCall, Stands
  <2>2. /\ \A m \in Messages : m # n => flow'[m] = flow[m]
        /\ flow'[n].step = "cancelled"
    BY <1>2, <2>1 DEF FlowSteps
  <2> QED
    BY <2>1, <2>2 DEF Over
<1>8. ASSUME NEW ok \in BOOLEAN, CompleteRow(n, ok) PROVE Good
  <2>1. /\ flow[n].step = "complete" /\ UNCHANGED <<heard, told>>
        /\ Proceed(n, IF ok THEN flow[n].then ELSE "failed")
    BY <1>8 DEF CompleteRow, Stands
  <2>2. /\ \A m \in Messages : m # n => flow'[m] = flow[m]
        /\ flow'[n].step \in {flow[n].then, "failed"} /\ flow'[n].then = flow[n].then
    BY <1>1, <2>1 DEF Proceed, FlowState
  <2> QED
    BY <2>1, <2>2 DEF Over
<1>9. ASSUME NEW answer, NEW then, Answered(n, answer, then) PROVE Good
  <2>1. /\ flow[n].step = "call" /\ told' = told
        /\ \A m \in Messages : m # n => flow'[m] = flow[m]
        /\ flow'[n].step = "complete"
        /\ \A r \in Rows : r # Row(n) => heard'[r] = heard[r]
    BY <1>1, <1>9 DEF Answered, Stands, FlowState
  <2> QED
    BY <2>1 DEF Over
<1>10. ASSUME PublicHr(n) PROVE Good
  <2>1. /\ flow[n].step = "public" /\ UNCHANGED heard
        /\ \A m \in Messages : m # n => flow'[m] = flow[m] /\ told'[m] = told[m]
        /\ flow'[n].step \in {"done", "start"}
    BY <1>1, <1>10 DEF PublicHr, Proceed, Stands, FlowState
  <2> QED
    BY <1>10, <2>1 DEF Over
<1>11. ASSUME NEW ok \in BOOLEAN, Footer(n, ok) PROVE Good
  <2>1. /\ flow[n].step = "footer" /\ UNCHANGED heard
        /\ \A m \in Messages : m # n => flow'[m] = flow[m] /\ told'[m] = told[m]
        /\ flow'[n].step \in {"done", "failed"} /\ (ok \/ told'[n] = told[n])
    BY <1>1, <1>11 DEF Footer, Proceed, Stands, FlowState
  <2> QED
    BY <1>11, <2>1 DEF Over
<1>12. Good
  <2> HIDE DEF Good
  <2> QED
    BY ONLY <1>4, <1>5, <1>6, <1>7, <1>8, <1>9, <1>10, <1>11,
       \/ CheckLimits(n) \/ CallProvider(n) \/ PublicHr(n)
       \/ CancelCall(n) \/ CancelMessage(n)
       \/ \E step \in {"footer", "start", "failed"} : AskLocally(n, step)
       \/ \E ok \in BOOLEAN : StartRow(n, ok) \/ CompleteRow(n, ok) \/ Footer(n, ok)
       \/ \E answer \in {"silent", "uncounted", "counted", "crash"}, then \in FromRoute :
            Answered(n, answer, then)
<1>13. \A m \in Messages, p \in Purposes : m # n => <<m, p>> \in Rows /\ <<m, p>> # Row(n)
  BY DEF Rows, Row
<1> QED
  BY <1>12, <1>13

(* What is told when the totals or the fixed text are sent. *)
LEMMA ZeroTold ==
    ASSUME UsageInv, ZeroInv, NEW n \in Messages, PublicHr(n) \/ Footer(n, TRUE),
           told'[n] = "zero", told[n] # "zero"
    PROVE  flow'[n].step = "done" /\ (RefusedQuestion(n) \/ NoCallMade(n))'
<1>1. UsageTypes /\ MessageInv(n) /\ flow[n] \in FlowState /\ told \in [Messages -> Tallies]
  BY DEF UsageInv, UsageTypes
<1>2. CASE PublicHr(n)
  <2>1. flow[n].step = "public" /\ flow[n].then = "public" /\ flow[n].purpose = "intent_route"
    BY <1>1, <1>2 DEF PublicHr, Stands, ZeroInv, MessageInv, Fits
  <2>2. Proceed(n, "done")
    BY <1>2 DEF PublicHr
  <2>3. flow'[n].step = "done" /\ flow'[n].then = flow[n].then /\ flow'[n].purpose = flow[n].purpose
    BY <1>1, <2>2 DEF Proceed, UsageTypes, FlowState
  <2> QED
    BY <2>1, <2>3 DEF RefusedQuestion
<1>3. CASE Footer(n, TRUE)
  <2>1. Proceed(n, "done") /\ UNCHANGED heard /\ told' = [told EXCEPT ![n] = Usage(Totals(n))]
    BY <1>3 DEF Footer
  <2>2. Usage(Totals(n)) = "zero"
    BY <1>1, <2>1
  <2>3. Totals(n) = {}
    BY <2>2 DEF Usage
  <2>4. \A p \in Purposes : ledger[<<n, p>>] = "none"
    BY <2>3 DEF Totals
  <2>5. \A p \in Purposes : Agree(ledger[<<n, p>>], heard[<<n, p>>])
    BY <1>1, RowsApart DEF MessageInv, Fits, Settled
  <2>6. flow'[n].step = "done"
    BY <1>1, <2>1 DEF Proceed, UsageTypes, FlowState
  <2> QED
    BY <2>1, <2>4, <2>5, <2>6 DEF NoCallMade, Agree
<1> QED
  BY <1>2, <1>3

LEMMA NextZeroInv == UsageInv /\ ZeroInv /\ [FlowNext]_flowVars => ZeroInv'
<1> SUFFICES ASSUME UsageInv, ZeroInv, [FlowNext]_flowVars PROVE ZeroInv'
  OBVIOUS
<1>1. CASE TickMinute \/ UNCHANGED flowVars
  BY <1>1 DEF TickMinute, flowVars, ZeroInv, RefusedQuestion, NoCallMade
<1>2. ASSUME NEW n \in Messages,
             \/ CheckLimits(n) \/ CallProvider(n) \/ PublicHr(n)
             \/ CancelCall(n) \/ CancelMessage(n)
             \/ \E step \in {"footer", "start", "failed"} : AskLocally(n, step)
             \/ \E ok \in BOOLEAN : StartRow(n, ok) \/ CompleteRow(n, ok) \/ Footer(n, ok)
             \/ \E answer \in {"silent", "uncounted", "counted", "crash"}, then \in FromRoute :
                  Answered(n, answer, then)
      PROVE  ZeroInv'
  <2>1. UsageTypes
    BY DEF UsageInv
  <2>2. /\ flow[n].step \notin Over
        /\ \A m \in Messages : m # n => /\ flow'[m] = flow[m] /\ told'[m] = told[m]
                                       /\ \A p \in Purposes : heard'[<<m, p>>] = heard[<<m, p>>]
        /\ flow'[n].step = "public" => flow'[n].then = "public"
        /\ told'[n] = told[n] \/ PublicHr(n) \/ Footer(n, TRUE)
    BY ONLY <1>2, <2>1, StepOfMessage
  <2>3. told[n] # "zero"
    BY <2>2 DEF ZeroInv, Over
  <2>4. told'[n] = "zero" => flow'[n].step = "done" /\ (RefusedQuestion(n) \/ NoCallMade(n))'
    BY <2>2, <2>3, ZeroTold
  <2> QED
    BY <2>2, <2>4 DEF ZeroInv, RefusedQuestion, NoCallMade
<1> QED
  BY ONLY <1>1, <1>2, [FlowNext]_flowVars DEF FlowNext

(* The footer's "no call" is wrong for one kind of message only, the one the
   violated FooterIsTrue exhibits: of every other it is true, and of that one
   it omits the routing call alone. *)
ZeroMissesRoutingOnly ==
    \A m \in Messages : told[m] = "zero" =>
        /\ heard[<<m, "public_hr_response">>] = "none"
        /\ ~RefusedQuestion(m) => heard[<<m, "intent_route">>] = "none"

THEOREM FooterWrongForRefusedOnly == FlowSpec => []ZeroMissesRoutingOnly
<1>1. FlowInit => ZeroInv
  BY DEF FlowInit, ZeroInv
<1>2. UsageInv /\ ZeroInv => ZeroMissesRoutingOnly
  <2> SUFFICES ASSUME UsageInv, ZeroInv, NEW m \in Messages, told[m] = "zero"
               PROVE  /\ heard[<<m, "public_hr_response">>] = "none"
                      /\ ~RefusedQuestion(m) => heard[<<m, "intent_route">>] = "none"
    BY DEF ZeroMissesRoutingOnly
  <2>1. RefusedQuestion(m) \/ NoCallMade(m)
    BY DEF ZeroInv
  <2>2. RefusedQuestion(m) => heard[<<m, "public_hr_response">>] = "none"
    BY DEF UsageInv, MessageInv, Settled, OtherRow, RefusedQuestion
  <2> QED
    BY <2>1, <2>2 DEF NoCallMade, Purposes
<1> QED
  BY <1>1, <1>2, NextZeroInv, UsageInvariantHolds, PTL DEF FlowSpec
-----------------------------------------------------------------------------
HIDE TalksAssumption DEF Interactions, Components, Messaged, Audiences, Steps, Whats

(* The limiter of a key: its limit, the messages it lets pass, those of them
   that passed in the window up to t, and the times it still counts then. *)
Limit(k) == IF k = "channel" THEN ChannelLimit ELSE UserLimit

Asking(k) == IF k = "channel" THEN Messages \ Private ELSE {m \in Messages : Author[m] = k}

Passed(k, t) ==
    {m \in Asking(k) : admitted[m] >= 0 /\ admitted[m] > t - Window /\ admitted[m] <= t}

Remembered(k, t) == {i \in DOMAIN events[k] : events[k][i] > t - Window}

LimiterTypes ==
    /\ minute \in 0..LastMinute
    /\ events \in [Keys -> Seq(Nat)]
    /\ \A k \in Keys : \A i \in DOMAIN events[k] : events[k][i] <= minute
    /\ admitted \in [Messages -> Int]
    /\ \A m \in Messages : admitted[m] = -1 \/ admitted[m] \in 0..minute

(* As many times are counted as messages have passed, now and for as long as
   they will be. *)
LimiterInv(k) ==
    /\ \A t \in Nat : t >= minute => Cardinality({m \in Asking(k) : admitted[m] >= 0 /\ admitted[m] > t - Window})
                                       <= Cardinality(Remembered(k, t))
    /\ \A t \in 0..minute : Cardinality(Passed(k, t)) <= Limit(k)

FloodInv ==
    /\ LimiterTypes
    /\ \A m \in Messages : flow[m].step = "new" => admitted[m] = -1
    /\ \A k \in Keys : LimiterInv(k)
-----------------------------------------------------------------------------
LEMMA AskingFinite ==
    ASSUME NEW k, NEW S \in SUBSET Asking(k)
    PROVE  IsFiniteSet(S) /\ Cardinality(S) \in Nat
<1>1. S \in SUBSET Messages
  BY DEF Asking
<1> QED
  BY <1>1, FlowAssumption, FS_Subset, FS_CardinalityType

(* One more member at most. *)
LEMMA OneMore ==
    ASSUME NEW S, IsFiniteSet(S), NEW x
    PROVE  /\ IsFiniteSet(S \cup {x}) /\ Cardinality(S \cup {x}) \in Nat
           /\ Cardinality(S \cup {x}) <= Cardinality(S) + 1
           /\ x \notin S => Cardinality(S \cup {x}) = Cardinality(S) + 1
<1>1. IsFiniteSet(S \cup {x}) /\ Cardinality(S) \in Nat
  BY FS_AddElement, FS_CardinalityType
<1>2. Cardinality(S \cup {x}) = (IF x \in S THEN Cardinality(S) ELSE Cardinality(S) + 1)
  BY FS_AddElement
<1> QED
  BY <1>1, <1>2, FS_CardinalityType

(* Places of a sequence can be counted. *)
LEMMA PlacesFinite ==
    ASSUME NEW s \in Seq(Nat), NEW J \in SUBSET DOMAIN s
    PROVE  IsFiniteSet(J) /\ Cardinality(J) \in Nat
<1>1. J \in SUBSET (1..Len(s)) /\ Len(s) \in Nat
  OBVIOUS
<1>2. IsFiniteSet(1..Len(s))
  BY <1>1, FS_Interval
<1> QED
  BY <1>1, <1>2, FS_Subset, FS_CardinalityType

(* check keeps what is in the window and adds the time, if it allows. *)
LEMMA CheckedTimes ==
    ASSUME LimiterTypes, NEW k \in Keys
    PROVE  /\ Recent(k) \in Seq(Nat) /\ Len(Recent(k)) = Cardinality(Remembered(k, minute))
           /\ \A i \in DOMAIN Recent(k) : Recent(k)[i] <= minute
           /\ \A t \in Nat : t >= minute =>
                Cardinality({i \in DOMAIN Recent(k) : Recent(k)[i] > t - Window})
                  = Cardinality(Remembered(k, t))
<1> DEFINE s == events[k]
           I == {i \in DOMAIN s : Counted(s[i])}
           a == Ascending(I)
<1>1. /\ s \in Seq(Nat) /\ minute \in Nat /\ Window \in Nat /\ \A i \in DOMAIN s : s[i] \in Nat /\ s[i] <= minute
      /\ I \in SUBSET DOMAIN s
  BY FlowAssumption DEF LimiterTypes
<1>2. I = Remembered(k, minute)
  BY <1>1 DEF Remembered, Counted
<1>3. Recent(k) = Kept(s, I)
  BY DEF Recent
<1> HIDE DEF I
<1>4. /\ IsFiniteSet(I) /\ Cardinality(I) \in Nat /\ I \in SUBSET Nat
      /\ Kept(s, I) \in Seq(Nat) /\ Len(Kept(s, I)) = Cardinality(I)
      /\ ToSet(Kept(s, I)) \in SUBSET ToSet(s)
  <2>1. I \in SUBSET Nat
    BY <1>1
  <2> QED
    BY <1>1, <2>1, KeptElements
<1>5. \A i \in DOMAIN Kept(s, I) : Kept(s, I)[i] <= minute
  <2>1. \A i \in DOMAIN Kept(s, I) : Kept(s, I)[i] \in ToSet(s)
    BY <1>4 DEF ToSet
  <2> QED
    BY <1>1, <2>1 DEF ToSet
<1>6. /\ DOMAIN Kept(s, I) = 1..Cardinality(I)
      /\ \A j \in 1..Cardinality(I) : a[j] \in I /\ Kept(s, I)[j] = s[a[j]]
  BY <1>4, AscendingMembers DEF Kept
<1>7. ASSUME NEW J \in SUBSET I PROVE Cardinality({i \in DOMAIN Kept(s, I) : a[i] \in J}) = Cardinality(J)
  <2> DEFINE N == {i \in DOMAIN Kept(s, I) : a[i] \in J}
  <2>1. /\ s \in Seq(Nat) /\ I \in SUBSET DOMAIN s
        /\ N \in SUBSET DOMAIN Kept(s, I) /\ \A j \in DOMAIN Kept(s, I) : j \in N <=> Ascending(I)[j] \in J
    BY <1>1
  <2> HIDE DEF s, N
  <2> QED
    BY <2>1, KeptCount
<1>8. ASSUME NEW t \in Nat, t >= minute
      PROVE  Cardinality({i \in DOMAIN Kept(s, I) : Kept(s, I)[i] > t - Window}) = Cardinality(Remembered(k, t))
  <2> DEFINE J == Remembered(k, t)
  <2>1. J \in SUBSET I
    BY <1>1, <1>2, <1>8 DEF Remembered
  <2>2. \A j \in DOMAIN Kept(s, I) : Kept(s, I)[j] > t - Window <=> a[j] \in J
    BY <1>1, <1>6 DEF Remembered
  <2>3. {i \in DOMAIN Kept(s, I) : Kept(s, I)[i] > t - Window} = {i \in DOMAIN Kept(s, I) : a[i] \in J}
    BY <2>2
  <2> HIDE DEF J
  <2>5. Cardinality({i \in DOMAIN Kept(s, I) : a[i] \in J}) = Cardinality(J)
    BY <1>7, <2>1
  <2> QED
    BY <2>3, <2>5 DEF J
<1> QED
  BY <1>2, <1>3, <1>4, <1>5, <1>8

(* A message asks a limiter: it passes only if the limiter allows it. *)
LEMMA LimiterAsked ==
    ASSUME LimiterTypes, NEW k \in Keys, LimiterInv(k), NEW m \in Asking(k), admitted[m] = -1,
           UNCHANGED minute, events'[k] = Checked(k, Limit(k)),
           NEW at \in {-1, minute}, admitted' = [admitted EXCEPT ![m] = at],
           at = minute => Allows(k, Limit(k))
    PROVE  LimiterInv(k)' /\ events'[k] \in Seq(Nat) /\ \A i \in DOMAIN events'[k] : events'[k][i] <= minute
<1> DEFINE r == Recent(k)
           Since(t) == {n \in Asking(k) : admitted[n] >= 0 /\ admitted[n] > t - Window}
           Counts(s, t) == {i \in DOMAIN s : s[i] > t - Window}
<1>1. /\ minute \in Nat /\ Window \in Nat \ {0} /\ m \in Messages /\ Limit(k) \in Nat \ {0}
      /\ \A n \in Messages : admitted[n] = -1 \/ admitted[n] \in 0..minute
      /\ admitted \in [Messages -> Int] /\ Asking(k) \in SUBSET Messages
  BY FlowAssumption DEF LimiterTypes, Asking, Limit
<1>2. /\ r \in Seq(Nat) /\ Len(r) = Cardinality(Remembered(k, minute))
      /\ \A i \in DOMAIN r : r[i] <= minute
      /\ \A t \in Nat : t >= minute => Cardinality(Counts(r, t)) = Cardinality(Remembered(k, t))
  BY CheckedTimes
<1> HIDE DEF r
<1>3. events'[k] = IF Len(r) < Limit(k) THEN Append(r, minute) ELSE r
  BY DEF Checked, r
<1>4. Asking(k)' = Asking(k)
  BY DEF Asking
<1>5. \A t \in Nat : Since(t)' \in SUBSET (Since(t) \cup (IF at = minute /\ minute > t - Window THEN {m} ELSE {}))
  BY <1>1, <1>4
<1>6. \A t : IsFiniteSet(Since(t)) /\ Cardinality(Since(t)) \in Nat
             /\ IsFiniteSet(Since(t)') /\ Cardinality(Since(t)') \in Nat
  <2>1. \A t : Since(t) \in SUBSET Asking(k) /\ Since(t)' \in SUBSET Asking(k)
    BY <1>4
  <2> QED
    BY <2>1, AskingFinite
<1>7. \A t \in Nat : t >= minute => Cardinality(Since(t)) <= Cardinality(Counts(r, t))
  BY <1>2 DEF LimiterInv
<1>8. \A t : IsFiniteSet(Counts(r, t)) /\ Cardinality(Counts(r, t)) \in Nat
  BY <1>2, PlacesFinite
<1> DEFINE w == events'[k]
<1>9. w \in Seq(Nat) /\ \A i \in DOMAIN w : w[i] <= minute
  BY <1>1, <1>2, <1>3
<1>10. ASSUME NEW t \in Nat, t >= minute
       PROVE  Cardinality(Since(t)') <= Cardinality(Counts(w, t))
  <2>1. CASE at = minute /\ minute > t - Window
    <3>1. w = Append(r, minute)
      BY <1>3, <2>1 DEF Allows, r
    <3>2. Counts(w, t) = Counts(r, t) \cup {Len(r) + 1} /\ Len(r) + 1 \notin Counts(r, t)
      BY <1>1, <1>2, <2>1, <3>1
    <3>3. Cardinality(Counts(w, t)) = Cardinality(Counts(r, t)) + 1
      BY <1>8, <3>2, OneMore
    <3>4. Cardinality(Since(t)') <= Cardinality(Since(t)) + 1
      <4> DEFINE more == Since(t) \cup {m}
      <4>1. IsFiniteSet(more) /\ Cardinality(more) \in Nat /\ Cardinality(more) <= Cardinality(Since(t)) + 1
        BY <1>6, OneMore
      <4>2. Since(t)' \in SUBSET more
        BY <1>5, <2>1
      <4> HIDE DEF more
      <4>3. Cardinality(Since(t)') <= Cardinality(more)
        BY <4>1, <4>2, FS_Subset
      <4>4. Cardinality(Since(t)) \in Nat /\ Cardinality(Since(t)') \in Nat
        BY <1>6
      <4> HIDE DEF Since
      <4> QED
        BY <4>1, <4>3, <4>4
    <3>5. /\ Cardinality(Since(t)) \in Nat /\ Cardinality(Since(t)') \in Nat /\ Cardinality(Counts(r, t)) \in Nat
          /\ Cardinality(Since(t)) <= Cardinality(Counts(r, t))
      BY <1>6, <1>7, <1>8, <1>10
    <3> HIDE DEF Since, Counts, w
    <3> QED
      BY <3>3, <3>4, <3>5
  <2>2. CASE ~(at = minute /\ minute > t - Window)
    <3>1. Since(t)' \in SUBSET Since(t)
      BY <1>5, <2>2
    <3>2. Cardinality(Since(t)') <= Cardinality(Since(t))
      BY <1>6, <3>1, FS_Subset
    <3>3. Cardinality(Counts(r, t)) <= Cardinality(Counts(w, t))
      <4>1. Counts(r, t) \in SUBSET Counts(w, t) /\ w \in Seq(Nat)
        BY <1>2, <1>3, <1>9
      <4>2. IsFiniteSet(Counts(w, t))
        BY <4>1, PlacesFinite
      <4> QED
        BY <4>1, <4>2, FS_Subset
    <3>4. Cardinality(Counts(w, t)) \in Nat
      BY <1>9, PlacesFinite
    <3>5. /\ Cardinality(Since(t)) \in Nat /\ Cardinality(Since(t)') \in Nat /\ Cardinality(Counts(r, t)) \in Nat
          /\ Cardinality(Since(t)) <= Cardinality(Counts(r, t))
      BY <1>6, <1>7, <1>8, <1>10
    <3> HIDE DEF Since, Counts, w
    <3> QED
      BY <3>2, <3>3, <3>4, <3>5
  <2> QED
    BY <2>1, <2>2
<1>11. ASSUME NEW t \in 0..minute
       PROVE  Cardinality(Passed(k, t)') <= Limit(k)
  <2>1. CASE t < minute \/ at # minute
    <3>1. Passed(k, t)' \in SUBSET Passed(k, t)
      BY <1>1, <1>4, <2>1 DEF Passed
    <3>2. Passed(k, t) \in SUBSET Asking(k) /\ Passed(k, t)' \in SUBSET Asking(k)
      BY <1>4 DEF Passed
    <3>3. Cardinality(Passed(k, t)') <= Cardinality(Passed(k, t)) /\ Cardinality(Passed(k, t)) \in Nat
          /\ Cardinality(Passed(k, t)') \in Nat
      BY <3>1, <3>2, AskingFinite, FS_Subset
    <3>4. Cardinality(Passed(k, t)) <= Limit(k)
      BY DEF LimiterInv
    <3> QED
      BY <1>1, <3>3, <3>4
  <2>2. CASE t = minute /\ at = minute
    <3>1. Passed(k, t)' \in SUBSET (Since(minute) \cup {m})
      BY <1>1, <1>4, <2>2 DEF Passed
    <3>2. Cardinality(Since(minute)) < Limit(k)
      <4>1. minute \in Nat /\ minute >= minute
        BY <1>1
      <4>2. Cardinality(Since(minute)) <= Cardinality(Counts(r, minute))
        BY <1>7, <4>1
      <4>3. Cardinality(Counts(r, minute)) = Len(r) /\ Len(r) \in Nat
        BY <1>2, <4>1
      <4>4. Len(r) < Limit(k) /\ Limit(k) \in Nat /\ Cardinality(Since(minute)) \in Nat
        BY <1>1, <1>6, <2>2 DEF Allows, r
      <4> HIDE DEF Since, Counts
      <4> QED
        BY <4>2, <4>3, <4>4
    <3> DEFINE more == Since(minute) \cup {m}
    <3>3. IsFiniteSet(more) /\ Cardinality(more) \in Nat /\ Cardinality(more) <= Cardinality(Since(minute)) + 1
      BY <1>6, OneMore
    <3> HIDE DEF more
    <3>4. Cardinality(Passed(k, t)') <= Cardinality(more) /\ Cardinality(Passed(k, t)') \in Nat
      <4>1. Passed(k, t)' \in SUBSET more
        BY <3>1 DEF more
      <4> QED
        BY <3>3, <4>1, FS_Subset, FS_CardinalityType
    <3>5. Cardinality(Since(minute)) \in Nat /\ Limit(k) \in Nat
      BY <1>1, <1>6
    <3> HIDE DEF Since
    <3> QED
      BY <3>2, <3>3, <3>4, <3>5
  <2> QED
    BY <1>1, <2>1, <2>2
<1> QED
  BY <1>1, <1>4, <1>9, <1>10, <1>11 DEF LimiterInv, Remembered, Limit

(* A limiter that is not asked, or a message that does not pass. *)
LEMMA LimiterNotAsked ==
    ASSUME LimiterTypes, NEW k \in Keys, LimiterInv(k), NEW m \in Messages, admitted[m] = -1,
           UNCHANGED minute, events'[k] = events[k],
           NEW at, admitted' = [admitted EXCEPT ![m] = at],
           m \notin Asking(k) \/ at = -1
    PROVE  LimiterInv(k)'
<1>1. \A n \in Asking(k) : admitted'[n] = admitted[n]
  BY DEF Asking, LimiterTypes
<1>2. Asking(k)' = Asking(k)
  BY DEF Asking
<1>3. \A t : Remembered(k, t)' = Remembered(k, t) /\ Passed(k, t)' = Passed(k, t)
  BY <1>1, <1>2 DEF Remembered, Passed
<1>4. \A t : {n \in Asking(k) : admitted[n] >= 0 /\ admitted[n] > t - Window}'
               = {n \in Asking(k) : admitted[n] >= 0 /\ admitted[n] > t - Window}
  BY <1>1, <1>2
<1> QED
  BY <1>3, <1>4 DEF LimiterInv, Limit

LEMMA CheckKeeps ==
    ASSUME FloodInv, UsageTypes, NEW m \in Messages, CheckLimits(m)
    PROVE  FloodInv'
<1> DEFINE user == Author[m]
           ofUser == Allows(user, UserLimit)
           asksChannel == ofUser /\ m \notin Private
           allowed == ofUser /\ (asksChannel => Allows("channel", ChannelLimit))
           at == IF allowed THEN minute ELSE -1
<1>1. /\ LimiterTypes /\ admitted[m] = -1 /\ \A k \in Keys : LimiterInv(k)
      /\ \A n \in Messages : flow[n].step = "new" => admitted[n] = -1
  BY DEF FloodInv, CheckLimits, Stands
<1>2. user \in Keys /\ "channel" \in Keys /\ user # "channel"
  BY FlowAssumption DEF Keys
<1>3. /\ events' = [k \in Keys |-> IF k = user THEN Checked(k, UserLimit)
                                   ELSE IF k = "channel" /\ asksChannel THEN Checked(k, ChannelLimit)
                                   ELSE events[k]]
      /\ admitted' = [admitted EXCEPT ![m] = at]
      /\ Proceed(m, IF allowed THEN "ask" ELSE "refused")
      /\ UNCHANGED minute
  BY DEF CheckLimits
<1>4. /\ at \in {-1, minute} /\ minute \in Nat
      /\ at = minute => ofUser /\ (asksChannel => Allows("channel", ChannelLimit))
      /\ m \notin Private /\ at = minute => asksChannel
      /\ ofUser => Allows(user, UserLimit)
      /\ asksChannel => m \notin Private
  BY <1>1 DEF LimiterTypes
<1> HIDE DEF at, ofUser, asksChannel, allowed
<1>5. ASSUME NEW k \in Keys
      PROVE  LimiterInv(k)' /\ events'[k] \in Seq(Nat) /\ \A i \in DOMAIN events'[k] : events'[k][i] <= minute
  <2>1. CASE k = user
    <3>1. m \in Asking(k) /\ Limit(k) = UserLimit
      BY <1>2, <2>1 DEF Asking, Limit
    <3>2. events'[k] = Checked(k, Limit(k)) /\ (at = minute => Allows(k, Limit(k)))
      BY <1>3, <1>4, <2>1, <3>1
    <3> QED
      BY <1>1, <1>3, <1>4, <3>1, <3>2, LimiterAsked
  <2>2. CASE k = "channel" /\ asksChannel
    <3>1. m \in Asking(k) /\ Limit(k) = ChannelLimit
      BY <1>4, <2>2 DEF Asking, Limit
    <3>2. events'[k] = Checked(k, Limit(k)) /\ (at = minute => Allows(k, Limit(k)))
      BY <1>2, <1>3, <1>4, <2>2, <3>1
    <3> QED
      BY <1>1, <1>3, <1>4, <3>1, <3>2, LimiterAsked
  <2>3. CASE k # user /\ ~(k = "channel" /\ asksChannel)
    <3>1. events'[k] = events[k]
      BY <1>3, <2>3
    <3>2. m \notin Asking(k) \/ at = -1
      BY <1>4, <2>3 DEF Asking
    <3>3. LimiterInv(k)'
      BY <1>1, <1>3, <3>1, <3>2, LimiterNotAsked
    <3> QED
      BY <1>1, <3>1, <3>3 DEF LimiterTypes
  <2> QED
    BY <2>1, <2>2, <2>3
<1>6. LimiterTypes'
  <2>1. events' \in [Keys -> Seq(Nat)]
    BY <1>3, <1>5
  <2>2. /\ admitted' \in [Messages -> Int]
        /\ \A n \in Messages : admitted'[n] = -1 \/ admitted'[n] \in 0..minute
    BY <1>1, <1>3, <1>4 DEF LimiterTypes
  <2> QED
    BY <1>1, <1>3, <1>5, <2>1, <2>2 DEF LimiterTypes
<1>7. ASSUME NEW n \in Messages, flow'[n].step = "new" PROVE admitted'[n] = -1
  <2>1. n # m /\ flow'[n] = flow[n]
    BY <1>3, <1>7 DEF Proceed, UsageTypes, FlowState
  <2> QED
    BY <1>1, <1>3, <1>7, <2>1 DEF LimiterTypes
<1> QED
  BY <1>5, <1>6, <1>7 DEF FloodInv

LEMMA TickKeeps ==
    ASSUME FloodInv, TickMinute
    PROVE  FloodInv'
<1>1. /\ minute \in Nat /\ minute' = minute + 1 /\ minute' \in 0..LastMinute /\ Window \in Nat \ {0}
      /\ UNCHANGED <<events, admitted, flow>>
      /\ LimiterTypes /\ \A m \in Messages : admitted[m] = -1 \/ admitted[m] \in 0..minute
  BY FlowAssumption DEF TickMinute, FloodInv, LimiterTypes
<1>2. LimiterTypes'
  <2>1. \A m \in Messages : admitted[m] = -1 \/ admitted[m] \in 0..minute + 1
    BY <1>1
  <2>2. ASSUME NEW k \in Keys, NEW i \in DOMAIN events[k] PROVE events[k][i] <= minute + 1
    <3>1. events[k] \in Seq(Nat) /\ events[k][i] <= minute
      BY <1>1 DEF LimiterTypes
    <3>2. events[k][i] \in Nat
      BY <3>1
    <3> QED
      BY <1>1, <3>1, <3>2
  <2> QED
    BY <1>1, <2>1, <2>2 DEF LimiterTypes
<1>3. ASSUME NEW k \in Keys PROVE LimiterInv(k)'
  <2>1. /\ Asking(k)' = Asking(k) /\ Asking(k) \in SUBSET Messages
        /\ \A t : Remembered(k, t)' = Remembered(k, t) /\ Passed(k, t)' = Passed(k, t)
        /\ \A t : {n \in Asking(k) : admitted[n] >= 0 /\ admitted[n] > t - Window}'
                    = {n \in Asking(k) : admitted[n] >= 0 /\ admitted[n] > t - Window}
    BY <1>1 DEF Asking, Remembered, Passed
  <2>2. LimiterInv(k)
    BY DEF FloodInv
  <2>3. Passed(k, minute + 1) \in SUBSET Passed(k, minute)
    BY <1>1, <2>1 DEF Passed
  <2>4. Cardinality(Passed(k, minute + 1)) <= Limit(k)
    <3>1. Passed(k, minute) \in SUBSET Asking(k) /\ Passed(k, minute + 1) \in SUBSET Asking(k)
      BY DEF Passed
    <3>2. /\ Cardinality(Passed(k, minute + 1)) <= Cardinality(Passed(k, minute))
          /\ Cardinality(Passed(k, minute + 1)) \in Nat /\ Cardinality(Passed(k, minute)) \in Nat
      BY <2>3, <3>1, AskingFinite, FS_Subset
    <3>3. Cardinality(Passed(k, minute)) <= Limit(k) /\ Limit(k) \in Nat
      BY <1>1, <2>2, FlowAssumption DEF LimiterInv, Limit
    <3> QED
      BY <3>2, <3>3
  <2>5. \A t \in 0..minute + 1 : t \in 0..minute \/ t = minute + 1
    BY <1>1
  <2>6. \A t \in Nat : t >= minute + 1 => t >= minute
    BY <1>1
  <2> QED
    BY <1>1, <2>1, <2>2, <2>4, <2>5, <2>6 DEF LimiterInv, Limit
<1> QED
  BY <1>1, <1>2, <1>3 DEF FloodInv

LEMMA InitFloodInv == FlowInit => FloodInv
<1> SUFFICES ASSUME FlowInit PROVE FloodInv
  OBVIOUS
<1>1. LimiterTypes
  BY FlowAssumption DEF FlowInit, LimiterTypes
<1>2. ASSUME NEW k \in Keys PROVE LimiterInv(k)
  <2>1. /\ \A t : Passed(k, t) = {} /\ {m \in Asking(k) : admitted[m] >= 0 /\ admitted[m] > t - Window} = {}
        /\ \A t : Remembered(k, t) = {}
    BY DEF FlowInit, Passed, Asking, Remembered
  <2>2. Limit(k) \in Nat
    BY FlowAssumption DEF Limit
  <2> QED
    BY <2>1, <2>2, FS_EmptySet DEF LimiterInv
<1>3. \A m \in Messages : admitted[m] = -1
  BY DEF FlowInit
<1> QED
  BY <1>1, <1>2, <1>3 DEF FloodInv

LEMMA NextFloodInv == UsageTypes /\ FloodInv /\ [FlowNext]_flowVars => FloodInv'
<1> SUFFICES ASSUME UsageTypes, FloodInv, [FlowNext]_flowVars PROVE FloodInv'
  OBVIOUS
<1>1. ASSUME UNCHANGED <<minute, events, admitted>>,
             \A m \in Messages : flow'[m].step = "new" => flow[m].step = "new"
      PROVE  FloodInv'
  BY <1>1 DEF FloodInv, LimiterTypes, LimiterInv, Asking, Remembered, Passed, Limit
<1>2. CASE UNCHANGED flowVars
  BY <1>1, <1>2 DEF flowVars
<1>3. ASSUME NEW m \in Messages, NEW step, step # "new", Proceed(m, step), UNCHANGED <<minute, events, admitted>>
      PROVE  FloodInv'
  BY <1>1, <1>3 DEF Proceed, UsageTypes, FlowState
<1>4. ASSUME NEW m \in Messages, CallProvider(m) PROVE FloodInv'
  BY <1>1, <1>4 DEF CallProvider
<1>5. ASSUME NEW m \in Messages, PublicHr(m) PROVE FloodInv'
  BY <1>1, <1>3, <1>5 DEF PublicHr, UsageTypes, FlowState
<1>6. ASSUME NEW m \in Messages, CancelCall(m) \/ CancelMessage(m) PROVE FloodInv'
  BY <1>3, <1>6 DEF CancelCall, CancelMessage
<1>7. ASSUME NEW m \in Messages, NEW step \in {"footer", "start", "failed"}, AskLocally(m, step) PROVE FloodInv'
  BY <1>3, <1>7 DEF AskLocally
<1>8. ASSUME NEW m \in Messages, NEW ok \in BOOLEAN, StartRow(m, ok) \/ Footer(m, ok) PROVE FloodInv'
  BY <1>3, <1>8 DEF StartRow, Footer
<1>9. ASSUME NEW m \in Messages, NEW ok \in BOOLEAN, CompleteRow(m, ok) PROVE FloodInv'
  <2>1. (IF ok THEN flow[m].then ELSE "failed") # "new"
    BY DEF UsageTypes, FlowState, FromRoute
  <2> QED
    BY <1>3, <1>9, <2>1 DEF CompleteRow
<1>10. ASSUME NEW m \in Messages, NEW answer \in {"silent", "uncounted", "counted", "crash"},
              NEW then \in FromRoute, Answered(m, answer, then) PROVE FloodInv'
  BY <1>1, <1>10 DEF Answered, UsageTypes, FlowState
<1> QED
  BY <1>2, <1>4, <1>5, <1>6, <1>7, <1>8, <1>9, <1>10, TickKeeps, CheckKeeps DEF FlowNext

(* SlidingWindowRateLimiter behind the two limits of a message: in no window
   pass more messages of one user, or of the channel, than the limit, in
   whatever order the messages are checked. *)
THEOREM NoFloodPasses == FlowSpec => []NoFlood
<1>1. ASSUME FloodInv PROVE NoFlood
  <2>1. ASSUME NEW t \in 0..minute
        PROVE  LET In(m) == admitted[m] > t - Window /\ admitted[m] >= 0 /\ admitted[m] <= t IN
               /\ \A u \in Keys : Cardinality({m \in Messages : In(m) /\ Author[m] = u}) <= UserLimit
               /\ Cardinality({m \in Messages : In(m) /\ m \notin Private}) <= ChannelLimit
    <3> DEFINE In(m) == admitted[m] > t - Window /\ admitted[m] >= 0 /\ admitted[m] <= t
    <3>1. ASSUME NEW k \in Keys PROVE Cardinality(Passed(k, t)) <= Limit(k)
      BY <1>1 DEF FloodInv, LimiterInv
    <3>2. "channel" \in Keys /\ \A m \in Messages : Author[m] # "channel"
      BY FlowAssumption DEF Keys
    <3>3. Cardinality({m \in Messages : In(m) /\ m \notin Private}) <= ChannelLimit
      <4>1. {m \in Messages : In(m) /\ m \notin Private} = Passed("channel", t)
        BY DEF Passed, Asking
      <4> QED
        BY <3>1, <3>2, <4>1 DEF Limit
    <3>4. ASSUME NEW u \in Keys
          PROVE  Cardinality({m \in Messages : In(m) /\ Author[m] = u}) <= UserLimit
      <4>1. CASE u = "channel"
        <5>1. {m \in Messages : In(m) /\ Author[m] = u} = {}
          BY <3>2, <4>1
        <5> QED
          BY <5>1, FS_EmptySet, FlowAssumption
      <4>2. CASE u # "channel"
        <5>1. {m \in Messages : In(m) /\ Author[m] = u} = Passed(u, t)
          BY <4>2 DEF Passed, Asking
        <5> QED
          BY <3>1, <4>2, <5>1 DEF Limit
      <4> QED
        BY <4>1, <4>2
    <3> QED
      BY <3>3, <3>4
  <2> QED
    BY <2>1 DEF NoFlood
<1>2. FlowInit => UsageInv /\ FloodInv
  BY InitUsageInv, InitFloodInv
<1>3. (UsageInv /\ FloodInv) /\ [FlowNext]_flowVars => (UsageInv /\ FloodInv)'
  BY NextUsageInv, NextFloodInv DEF UsageInv
<1> QED
  BY <1>1, <1>2, <1>3, PTL DEF FlowSpec

(* The types of the message flow follow from the two invariants. *)
LEMMA FlowTyped == UsageInv /\ FloodInv => FlowTypeOK
<1> SUFFICES ASSUME UsageInv, FloodInv PROVE FlowTypeOK
  OBVIOUS
<1>1. minute \in 0..LastMinute /\ LastMinute \in Nat /\ minute \in Nat
  BY FlowAssumption DEF FloodInv, LimiterTypes
<1>2. ASSUME NEW k \in Keys PROVE events[k] \in Seq(0..minute)
  <2>1. events[k] \in Seq(Nat) /\ \A i \in DOMAIN events[k] : events[k][i] <= minute
    BY DEF FloodInv, LimiterTypes
  <2>2. \A i \in 1..Len(events[k]) : events[k][i] \in 0..minute
    BY <1>1, <2>1
  <2> DEFINE s == events[k]
             R == 0..minute
  <2>3. s \in Seq(Nat) /\ \A i \in 1..Len(s) : s[i] \in R
    BY <2>1, <2>2
  <2> HIDE DEF s, R
  <2>4. s \in Seq(R)
    <3>1. Len(s) \in Nat /\ s = [i \in 1..Len(s) |-> s[i]]
      BY <2>3
    <3> QED
      BY <2>3, <3>1
  <2> QED
    BY <2>4 DEF s, R
<1>3. admitted \in [Messages -> -1..LastMinute]
  BY <1>1 DEF FloodInv, LimiterTypes
<1> QED
  BY <1>1, <1>2, <1>3
     DEF UsageInv, UsageTypes, FlowState, FlowSteps, LedgerStatus, HeardStatus, Tallies, SlotsKept, FlowTypeOK
-----------------------------------------------------------------------------
Draft == [id : Nat, key : Requesters, forms : Int, conflicts : BOOLEAN, made : Nat, expires : Nat]

(* The timer of a draft is still to fire, and the clock waits for it. *)
Timed(d) ==
    /\ d.expires = d.made + DraftTtl
    /\ <<d.id, d.expires>> \in timers
    /\ hour <= d.expires

DraftInv ==
    /\ hour \in Nat /\ begun \in [requests : Nat, drafts : Nat]
    /\ drafts \in Seq(Draft)
    /\ \A d \in ToSet(drafts) : Timed(d)

OnboardingSpec == OnboardingInit /\ [][OnboardingNext]_onboardingVars
-----------------------------------------------------------------------------
(* Whatever is dropped, what stays was there. *)
LEMMA DraftsStay ==
    ASSUME DraftInv
    PROVE  /\ Unexpired \in Seq(Draft) /\ ToSet(Unexpired) \in SUBSET ToSet(drafts)
           /\ \A id : Others(id) \in Seq(Draft) /\ ToSet(Others(id)) \in SUBSET ToSet(drafts)
<1>1. Unexpired \in Seq(Draft) /\ ToSet(Unexpired) \in SUBSET ToSet(drafts)
  <2> DEFINE I == {i \in DOMAIN drafts : drafts[i].expires > hour}
  <2>1. drafts \in Seq(Draft) /\ I \in SUBSET DOMAIN drafts /\ Unexpired = Kept(drafts, I)
    BY DEF DraftInv, Unexpired
  <2> HIDE DEF I
  <2> QED
    BY <2>1, KeptElements
<1>2. ASSUME NEW id PROVE Others(id) \in Seq(Draft) /\ ToSet(Others(id)) \in SUBSET ToSet(Unexpired)
  <2> DEFINE I == {i \in DOMAIN Unexpired : Unexpired[i].id # id}
  <2>1. I \in SUBSET DOMAIN Unexpired /\ Others(id) = Kept(Unexpired, I)
    BY DEF Others
  <2> HIDE DEF I
  <2> QED
    BY <1>1, <2>1, KeptElements
<1> QED
  BY <1>1, <1>2

(* A step that adds at most one timed draft and forgets no timer. *)
LEMMA DraftStep ==
    ASSUME DraftInv, hour' = hour, timers \in SUBSET timers', begun' \in [requests : Nat, drafts : Nat],
           drafts' \in Seq(Draft),
           \A d \in ToSet(drafts)' : d \in ToSet(drafts) \/ Timed(d)'
    PROVE  DraftInv'
<1>1. ASSUME NEW d \in ToSet(drafts) PROVE Timed(d)'
  BY DEF DraftInv, Timed
<1> QED
  BY <1>1 DEF DraftInv

LEMMA InitDraftInv == OnboardingInit => DraftInv
<1> SUFFICES ASSUME OnboardingInit PROVE DraftInv
  OBVIOUS
<1>1. ToSet(drafts) = {}
  BY DEF OnboardingInit, ToSet
<1> QED
  BY <1>1 DEF OnboardingInit, DraftInv

(* The clock waits for the timers, and a timer ends its own draft only. *)
LEMMA TickDraftKeeps == ASSUME DraftInv, TickDraft PROVE DraftInv'
<1>1. hour' = hour + 1 /\ UNCHANGED <<drafts, timers, begun>> /\ \A t \in timers : hour < t[2]
  BY DEF TickDraft
<1>2. ASSUME NEW d \in ToSet(drafts) PROVE Timed(d)'
  <2>1. /\ d.expires = d.made + DraftTtl /\ <<d.id, d.expires>> \in timers
        /\ hour < <<d.id, d.expires>>[2]
    BY <1>1 DEF DraftInv, Timed
  <2>2. d \in Draft /\ hour \in Nat
    BY DEF DraftInv, ToSet
  <2>3. d.made \in Nat /\ d.expires \in Nat
    BY <2>2 DEF Draft
  <2> QED
    BY <1>1, <2>1, <2>2, <2>3 DEF Timed
<1>3. ToSet(drafts)' = ToSet(drafts)
  BY <1>1
<1> QED
  BY <1>1, <1>2, <1>3 DEF DraftInv

LEMMA FireTimerKeeps == ASSUME DraftInv, NEW t \in timers, FireTimer(t) PROVE DraftInv'
<1> DEFINE I == {i \in DOMAIN drafts : <<drafts[i].id, drafts[i].expires>> # t}
<1>1. /\ hour' = hour /\ begun' = begun /\ timers' = timers \ {t} /\ drafts' = Kept(drafts, I)
      /\ drafts \in Seq(Draft) /\ I \in SUBSET DOMAIN drafts
  BY DEF FireTimer, DraftInv
<1>2. \A i \in I : <<drafts[i].id, drafts[i].expires>> # t
  OBVIOUS
<1> HIDE DEF I
<1>3. drafts' \in Seq(Draft) /\ ToSet(drafts)' = {drafts[i] : i \in I} /\ ToSet(drafts)' \in SUBSET ToSet(drafts)
  <2>1. ToSet(drafts)' = ToSet(drafts')
    BY DEF ToSet
  <2> QED
    BY <1>1, <2>1, KeptElements
<1>4. ASSUME NEW d \in ToSet(drafts)' PROVE Timed(d)'
  <2>1. d \in ToSet(drafts) /\ <<d.id, d.expires>> # t
    BY <1>2, <1>3
  <2> QED
    BY <1>1, <2>1 DEF DraftInv, Timed
<1> QED
  BY <1>1, <1>3, <1>4 DEF DraftInv

(* A new draft gets its timer. *)
LEMMA CreateDraftKeeps ==
    ASSUME DraftInv, hour' = hour, NEW k \in Requesters, NEW forms \in 0..MaxForms, NEW conflicts \in BOOLEAN,
           CreateDraft(k, forms, conflicts)
    PROVE  DraftInv'
<1> DEFINE id == begun.drafts + 1
           d == [id |-> id, key |-> k, forms |-> forms, conflicts |-> conflicts,
                 made |-> hour, expires |-> hour + DraftTtl]
           all == Append(Unexpired, d)
<1>1. /\ drafts' = (IF Len(all) > MaxDrafts THEN Tail(all) ELSE all)
      /\ timers' = timers \cup {<<id, d.expires>>}
      /\ begun' = [begun EXCEPT !.drafts = id]
  BY DEF CreateDraft
<1>2. d \in Draft /\ begun' \in [requests : Nat, drafts : Nat] /\ hour \in Nat /\ DraftTtl \in Nat
  <2>1. hour \in Nat /\ DraftTtl \in Nat /\ MaxForms \in Nat /\ begun \in [requests : Nat, drafts : Nat]
    BY OnboardingAssumption DEF DraftInv
  <2>2. forms \in Int /\ hour + DraftTtl \in Nat /\ id \in Nat
    BY <2>1
  <2> QED
    BY <1>1, <2>1, <2>2 DEF Draft
<1>3. PICK e : e = d
  OBVIOUS
<1>4. Timed(e)'
  <2>1. e.expires = e.made + DraftTtl /\ <<e.id, e.expires>> \in timers' /\ hour' <= e.expires
    BY <1>1, <1>2, <1>3
  <2> QED
    BY <2>1 DEF Timed
<1> HIDE DEF d
<1>5. all \in Seq(Draft) /\ ToSet(all) = ToSet(Unexpired) \cup {e} /\ Len(all) > 0
  <2>1. Len(all) > 0
    BY DraftsStay
  <2> QED
    BY <1>2, <1>3, <2>1, DraftsStay, AppendElements
<1> HIDE DEF all
<1>6. drafts' \in Seq(Draft) /\ ToSet(drafts') \in SUBSET ToSet(all)
  <2>1. Tail(all) \in Seq(Draft) /\ ToSet(Tail(all)) \in SUBSET ToSet(all)
    BY <1>5, TailElements
  <2> QED
    BY <1>1, <1>5, <2>1
<1>7. \A x \in ToSet(drafts)' : x \in ToSet(drafts) \/ Timed(x)'
  <2>1. \A x \in ToSet(drafts') : x \in ToSet(drafts) \/ x = e
    BY <1>5, <1>6, DraftsStay
  <2>2. ToSet(drafts)' = ToSet(drafts')
    BY DEF ToSet
  <2> QED
    BY <1>4, <2>1, <2>2
<1> QED
  BY <1>1, <1>2, <1>6, <1>7, DraftStep

(* The draft whose form is filled in keeps its deadline, and one that is only
   touched is the same. *)
LEMMA DraftMoved ==
    ASSUME DraftInv, UNCHANGED <<hour, timers, begun>>, NEW id,
           NEW d \in ToSet(Unexpired), NEW e \in Draft,
           e.id = d.id, e.made = d.made, e.expires = d.expires,
           drafts' = Append(Others(id), e)
    PROVE  DraftInv'
<1>1. Timed(d)
  <2>1. d \in ToSet(drafts)
    BY DraftsStay
  <2> QED
    BY <2>1 DEF DraftInv
<1>2. Timed(e)'
  BY <1>1 DEF Timed
<1>3. drafts' \in Seq(Draft) /\ ToSet(drafts') = ToSet(Others(id)) \cup {e}
  BY DraftsStay, AppendElements
<1>4. \A x \in ToSet(drafts)' : x \in ToSet(drafts) \/ Timed(x)'
  <2>1. ToSet(drafts)' = ToSet(drafts')
    BY DEF ToSet
  <2>2. \A x \in ToSet(drafts') : x \in ToSet(drafts) \/ x = e
    BY <1>3, DraftsStay
  <2> QED
    BY <1>2, <2>1, <2>2
<1>5. begun' \in [requests : Nat, drafts : Nat]
  BY DEF DraftInv
<1> QED
  BY <1>3, <1>4, <1>5, DraftStep

(* Drafts are only dropped. *)
LEMMA DraftsDropped ==
    ASSUME DraftInv, UNCHANGED <<hour, timers, begun>>,
           drafts' \in Seq(Draft), ToSet(drafts') \in SUBSET ToSet(drafts)
    PROVE  DraftInv'
<1>1. ToSet(drafts)' = ToSet(drafts') /\ begun' \in [requests : Nat, drafts : Nat]
  BY DEF ToSet, DraftInv
<1> QED
  BY <1>1, DraftStep

LEMMA NextDraftInv == DraftInv /\ [OnboardingNext]_onboardingVars => DraftInv'
<1> SUFFICES ASSUME DraftInv, [OnboardingNext]_onboardingVars PROVE DraftInv'
  OBVIOUS
<1>1. ASSUME UNCHANGED <<hour, drafts, timers, begun>> PROVE DraftInv'
  BY <1>1 DEF DraftInv, Timed, ToSet
<1>2. CASE UNCHANGED onboardingVars
  BY <1>1, <1>2 DEF onboardingVars
<1>3. ASSUME NEW t \in timers, FireTimer(t) PROVE DraftInv'
  BY <1>3, FireTimerKeeps
<1>4. ASSUME NEW k \in Requesters, NEW n \in 1..Documents, Onboard(k, n) PROVE DraftInv'
  <2>1. UNCHANGED <<hour, drafts, timers>> /\ begun' \in [requests : Nat, drafts : Nat]
    BY <1>4 DEF Onboard, DraftInv
  <2> QED
    BY <2>1, DraftStep DEF DraftInv, ToSet
<1>5. ASSUME NEW k \in Requesters, NEW readable \in BOOLEAN, ReadDocument(k, readable) PROVE DraftInv'
  <2>1. CASE readable /\ onboarding[k] = 1
    BY <1>5, <2>1, CreateDraftKeeps DEF ReadDocument
  <2>2. CASE ~(readable /\ onboarding[k] = 1)
    BY <1>1, <1>5, <2>2 DEF ReadDocument
  <2> QED
    BY <2>1, <2>2
<1>6. ASSUME NEW k \in Requesters, NEW id, NEW form, FillForm(k, id, form) PROVE DraftInv'
  <2>1. PICK d \in ToSet(Unexpired) :
          drafts' = Append(Others(id), [d EXCEPT !.forms = @ - 1, !.expires = KeepsExpiry(d)])
    BY <1>6 DEF FillForm
  <2> DEFINE e == [d EXCEPT !.forms = @ - 1, !.expires = KeepsExpiry(d)]
  <2>2. d \in Draft
    BY DraftsStay DEF ToSet
  <2>3. e = [d EXCEPT !.forms = @ - 1]
    BY <2>2 DEF KeepsExpiry, Draft
  <2> HIDE DEF e
  <2>4. e \in Draft /\ e.id = d.id /\ e.made = d.made /\ e.expires = d.expires
    BY <2>2, <2>3 DEF Draft
  <2> QED
    BY <1>6, <2>1, <2>4, DraftMoved DEF FillForm, e
<1>7. ASSUME NEW k \in Requesters, NEW id, NEW form, RefuseForm(k, id, form) PROVE DraftInv'
  <2>1. CASE drafts' = Unexpired
    BY <1>7, <2>1, DraftsStay, DraftsDropped DEF RefuseForm
  <2>2. CASE drafts' # Unexpired
    <3>1. PICK d \in ToSet(Unexpired) : drafts' = Append(Others(id), d)
      BY <1>7, <2>2 DEF RefuseForm
    <3>2. d \in Draft
      BY DraftsStay DEF ToSet
    <3> QED
      BY <1>7, <3>1, <3>2, DraftMoved DEF RefuseForm
  <2> QED
    BY <2>1, <2>2
<1>8. ASSUME NEW f \in finishing, NEW audited \in BOOLEAN, FinishForm(f, audited) PROVE DraftInv'
  <2>1. CASE drafts' = drafts
    BY <1>1, <1>8, <2>1 DEF FinishForm
  <2>2. CASE drafts' = Others(f[2])
    BY <1>8, <2>2, DraftsStay, DraftsDropped DEF FinishForm
  <2> QED
    BY <1>8, <2>1, <2>2 DEF FinishForm
<1> QED
  BY <1>2, <1>3, <1>4, <1>5, <1>6, <1>7, <1>8, TickDraftKeeps DEF OnboardingNext

(* OnboardingDraftStore forgets what was read from an employee's documents
   when its time to live is over, however often its forms were filled in,
   touched or evicted meanwhile. *)
THEOREM PersonalDataExpires == OnboardingSpec => []DraftsEndInTime
<1>1. ASSUME DraftInv PROVE DraftsEndInTime
  BY <1>1 DEF DraftInv, DraftsEndInTime, Timed, ToSet
<1> QED
  BY <1>1, InitDraftInv, NextDraftInv, PTL DEF OnboardingSpec
-----------------------------------------------------------------------------
(* A draft has one entry in the store. *)
OneEach(s) == \A i, j \in DOMAIN s : s[i].id = s[j].id => i = j

Known(d) == d.id \in 1..begun.drafts /\ d.forms \in 0..MaxForms /\ d.made <= hour

Forming(f) == f[1] \in Requesters /\ f[2] \in 1..begun.drafts /\ f[3] < MaxForms

StoreInv ==
    /\ hour <= LastHour
    /\ Len(drafts) <= MaxDrafts /\ OneEach(drafts)
    /\ \A d \in ToSet(drafts) : Known(d)
    /\ \A t \in timers : t[1] \in 1..begun.drafts
    /\ onboarding \in [Requesters -> 0..Documents]
    /\ \A f \in finishing : Forming(f)

LEMMA KeptOneEach ==
    ASSUME NEW T, NEW s \in Seq(T), NEW I \in SUBSET DOMAIN s, OneEach(s)
    PROVE  OneEach(Kept(s, I))
<1> SUFFICES ASSUME NEW i \in DOMAIN Kept(s, I), NEW j \in DOMAIN Kept(s, I),
                    Kept(s, I)[i].id = Kept(s, I)[j].id
             PROVE  i = j
  BY DEF OneEach
<1>1. PICK x, y \in I : Kept(s, I)[i] = s[x] /\ Kept(s, I)[j] = s[y] /\ (x = y => i = j)
  BY KeptPlaces
<1> QED
  BY <1>1 DEF OneEach

LEMMA AppendOneEach ==
    ASSUME NEW T, NEW s \in Seq(T), NEW e \in T, OneEach(s), \A o \in ToSet(s) : o.id # e.id
    PROVE  OneEach(Append(s, e))
<1>1. /\ DOMAIN Append(s, e) = 1..Len(s) + 1 /\ Len(s) \in Nat /\ DOMAIN s = 1..Len(s)
      /\ \A i \in 1..Len(s) : Append(s, e)[i] = s[i]
      /\ Append(s, e)[Len(s) + 1] = e
  OBVIOUS
<1>2. \A i \in 1..Len(s) : s[i].id # e.id
  BY <1>1 DEF ToSet
<1>3. ASSUME NEW i \in 1..Len(s) + 1, NEW j \in 1..Len(s) + 1, Append(s, e)[i].id = Append(s, e)[j].id
      PROVE  i = j
  <2>1. CASE i \in 1..Len(s) /\ j \in 1..Len(s)
    BY <1>1, <1>3, <2>1 DEF OneEach
  <2>2. CASE i = Len(s) + 1 \/ j = Len(s) + 1
    BY <1>1, <1>2, <1>3, <2>2
  <2> QED
    BY <1>1, <2>1, <2>2
<1> QED
  BY <1>1, <1>3 DEF OneEach

LEMMA TailOneEach ==
    ASSUME NEW T, NEW s \in Seq(T), OneEach(s), Len(s) > 0
    PROVE  OneEach(Tail(s)) /\ Len(Tail(s)) = Len(s) - 1
<1>1. /\ Tail(s) \in Seq(T) /\ DOMAIN Tail(s) = 1..Len(s) - 1 /\ Len(s) \in Nat
      /\ DOMAIN s = 1..Len(s) /\ Len(Tail(s)) = Len(s) - 1
      /\ \A i \in 1..Len(s) - 1 : Tail(s)[i] = s[i + 1]
  OBVIOUS
<1>2. ASSUME NEW i \in 1..Len(s) - 1, NEW j \in 1..Len(s) - 1, Tail(s)[i].id = Tail(s)[j].id PROVE i = j
  <2>1. i + 1 \in 1..Len(s) /\ j + 1 \in 1..Len(s)
    BY <1>1
  <2>2. i + 1 = j + 1
    BY <1>1, <1>2, <2>1 DEF OneEach
  <2> QED
    BY <1>1, <2>2
<1> QED
  BY <1>1, <1>2 DEF OneEach

(* What the store's operations leave before they add. *)
LEMMA StoreLeaves ==
    ASSUME DraftInv, StoreInv
    PROVE  /\ OneEach(Unexpired) /\ Len(Unexpired) <= MaxDrafts /\ Len(Unexpired) \in Nat
           /\ \A id : /\ OneEach(Others(id)) /\ Len(Others(id)) <= MaxDrafts /\ Len(Others(id)) \in Nat
                      /\ \A o \in ToSet(Others(id)) : o.id # id
                      /\ \A d \in ToSet(Unexpired) : d.id = id => Len(Others(id)) + 1 <= MaxDrafts
<1>1. OneEach(Unexpired) /\ Len(Unexpired) <= MaxDrafts /\ Unexpired \in Seq(Draft) /\ Len(Unexpired) \in Nat
  <2> DEFINE I == {i \in DOMAIN drafts : drafts[i].expires > hour}
  <2>1. drafts \in Seq(Draft) /\ I \in SUBSET DOMAIN drafts /\ Unexpired = Kept(drafts, I)
    BY DEF DraftInv, Unexpired
  <2> HIDE DEF I
  <2>2. Len(Unexpired) <= Len(drafts) /\ OneEach(Unexpired)
    BY <2>1, KeptPlaces, KeptOneEach DEF StoreInv
  <2>3. Unexpired \in Seq(Draft)
    BY DraftsStay
  <2>4. Len(Unexpired) \in Nat /\ Len(drafts) \in Nat /\ MaxDrafts \in Nat
    BY <2>1, <2>3, OnboardingAssumption
  <2> QED
    BY <2>2, <2>3, <2>4 DEF StoreInv
<1>2. ASSUME NEW id
      PROVE  /\ OneEach(Others(id)) /\ Len(Others(id)) <= MaxDrafts /\ Len(Others(id)) \in Nat
             /\ \A o \in ToSet(Others(id)) : o.id # id
             /\ \A d \in ToSet(Unexpired) : d.id = id => Len(Others(id)) + 1 <= MaxDrafts
  <2> DEFINE I == {i \in DOMAIN Unexpired : Unexpired[i].id # id}
  <2>1. I \in SUBSET DOMAIN Unexpired /\ Others(id) = Kept(Unexpired, I)
    BY DEF Others
  <2>2. \A x \in DOMAIN Unexpired : (x \in I <=> Unexpired[x].id # id)
    OBVIOUS
  <2> HIDE DEF I
  <2>3. OneEach(Others(id)) /\ Len(Others(id)) <= Len(Unexpired)
    BY <1>1, <2>1, KeptPlaces, KeptOneEach
  <2>4. ToSet(Others(id)) = {Unexpired[x] : x \in I}
    BY <1>1, <2>1, KeptElements
  <2>5. \A o \in ToSet(Others(id)) : o.id # id
    BY <2>1, <2>2, <2>4
  <2>6. Len(Others(id)) \in Nat /\ MaxDrafts \in Nat
    BY DraftsStay, OnboardingAssumption
  <2>7. ASSUME NEW d \in ToSet(Unexpired), d.id = id PROVE Len(Others(id)) + 1 <= MaxDrafts
    <3>1. PICK x \in DOMAIN Unexpired : Unexpired[x] = d
      BY DEF ToSet
    <3>2. Len(Others(id)) < Len(Unexpired)
      BY <1>1, <2>1, <2>2, <2>7, <3>1, KeptPlaces
    <3> QED
      BY <1>1, <2>6, <3>2
  <2> QED
    BY <1>1, <2>3, <2>5, <2>6, <2>7
<1> QED
  BY <1>1, <1>2
-----------------------------------------------------------------------------
(* A step of the store that makes no draft. *)
LEMMA StoreStep ==
    ASSUME StoreInv, UNCHANGED <<hour, onboarding>>, begun'.drafts = begun.drafts, timers' \in SUBSET timers,
           Len(drafts') <= MaxDrafts, OneEach(drafts'), \A d \in ToSet(drafts') : Known(d),
           \A f \in finishing' : Forming(f)
    PROVE  StoreInv'
BY DEF StoreInv, OneEach, Known, Forming, ToSet

(* A draft that stays in the store, its form filled in or only touched. *)
LEMMA StoreMoved ==
    ASSUME DraftInv, StoreInv, UNCHANGED <<hour, onboarding, begun, timers>>, NEW id,
           NEW d \in ToSet(Unexpired), NEW e \in Draft, d.id = id, e.id = id, Known(e),
           drafts' = Append(Others(id), e), \A f \in finishing' : Forming(f)
    PROVE  StoreInv'
<1>1. Others(id) \in Seq(Draft) /\ ToSet(Others(id)) \in SUBSET ToSet(drafts)
  BY DraftsStay
<1>2. OneEach(drafts')
  BY <1>1, StoreLeaves, AppendOneEach
<1>3. Len(drafts') <= MaxDrafts
  <2>1. Len(drafts') = Len(Others(id)) + 1
    BY <1>1
  <2> QED
    BY <2>1, StoreLeaves
<1>4. \A o \in ToSet(drafts') : Known(o)
  BY <1>1, AppendElements DEF StoreInv
<1> QED
  BY <1>2, <1>3, <1>4, StoreStep

LEMMA StoreCreates ==
    ASSUME DraftInv, StoreInv, hour' = hour, NEW k \in Requesters, NEW forms \in 0..MaxForms, NEW conflicts \in BOOLEAN,
           CreateDraft(k, forms, conflicts), onboarding' \in [Requesters -> 0..Documents], finishing' = finishing
    PROVE  StoreInv'
<1> DEFINE id == begun.drafts + 1
           d == [id |-> id, key |-> k, forms |-> forms, conflicts |-> conflicts,
                 made |-> hour, expires |-> hour + DraftTtl]
           all == Append(Unexpired, d)
<1>1. /\ drafts' = (IF Len(all) > MaxDrafts THEN Tail(all) ELSE all)
      /\ timers' = timers \cup {<<id, d.expires>>}
      /\ begun'.drafts = id
  BY DEF CreateDraft, DraftInv
<1>2. begun.drafts \in Nat /\ hour \in Nat /\ id \in Nat /\ MaxDrafts \in Nat /\ d \in Draft
  <2>1. hour \in Nat /\ DraftTtl \in Nat /\ MaxForms \in Nat /\ begun \in [requests : Nat, drafts : Nat]
        /\ MaxDrafts \in Nat
    BY OnboardingAssumption DEF DraftInv
  <2>2. forms \in Int /\ hour + DraftTtl \in Nat /\ id \in Nat
    BY <2>1
  <2> QED
    BY <2>1, <2>2 DEF Draft
<1>3. PICK e : e = d
  OBVIOUS
<1>4. e.id = begun'.drafts /\ e.forms \in 0..MaxForms /\ e.made = hour
  BY <1>1, <1>3
<1>5. \A n \in 1..begun.drafts : n \in 1..begun'.drafts /\ n # begun'.drafts
  BY <1>1, <1>2
<1>6. begun'.drafts \in 1..begun'.drafts
  BY <1>1, <1>2
<1>7. \A t \in timers' : t[1] \in 1..begun'.drafts
  BY <1>1, <1>5, <1>6 DEF StoreInv
<1>8. all = Append(Unexpired, e) /\ e \in Draft
  BY <1>2, <1>3
<1> HIDE DEF d, all, id
<1>9. Unexpired \in Seq(Draft) /\ ToSet(Unexpired) \in SUBSET ToSet(drafts)
  BY DraftsStay
<1>10. \A o \in ToSet(Unexpired) : o.id # e.id
  BY <1>4, <1>5, <1>9 DEF StoreInv, Known
<1>11. /\ all \in Seq(Draft) /\ OneEach(all) /\ ToSet(all) = ToSet(Unexpired) \cup {e}
       /\ Len(all) = Len(Unexpired) + 1
  BY <1>8, <1>9, <1>10, StoreLeaves, AppendOneEach, AppendElements
<1>12. Len(Unexpired) \in Nat /\ Len(Unexpired) <= MaxDrafts
  BY StoreLeaves
<1>13. OneEach(drafts') /\ Len(drafts') <= MaxDrafts /\ ToSet(drafts') \in SUBSET ToSet(all)
  <2>1. Len(all) > 0
    BY <1>11, <1>12
  <2>2. OneEach(Tail(all)) /\ Len(Tail(all)) = Len(Unexpired) /\ ToSet(Tail(all)) \in SUBSET ToSet(all)
    <3>1. OneEach(Tail(all)) /\ Len(Tail(all)) = Len(all) - 1 /\ ToSet(Tail(all)) \in SUBSET ToSet(all)
      BY <1>11, <2>1, TailOneEach, TailElements
    <3> QED
      BY <1>11, <1>12, <3>1
  <2>3. CASE Len(all) > MaxDrafts
    BY <1>1, <1>12, <2>2, <2>3
  <2>4. CASE ~(Len(all) > MaxDrafts)
    BY <1>1, <1>2, <1>11, <1>12, <2>4
  <2> QED
    BY <2>3, <2>4
<1>14. \A o \in ToSet(drafts') : Known(o)'
  <2>1. hour <= hour /\ hour' = hour
    BY <1>2
  <2>2. ASSUME NEW o \in ToSet(Unexpired) PROVE Known(o)'
    BY <1>5, <1>9, <2>1, <2>2 DEF StoreInv, Known
  <2>3. Known(e)'
    BY <1>4, <1>6, <2>1 DEF Known
  <2> QED
    BY <1>11, <1>13, <2>2, <2>3
<1>15. ToSet(drafts)' = ToSet(drafts') /\ OneEach(drafts)' = OneEach(drafts')
  BY DEF ToSet, OneEach
<1>16. \A f \in finishing' : Forming(f)'
  BY <1>5 DEF StoreInv, Forming
<1> QED
  BY <1>7, <1>13, <1>14, <1>15, <1>16 DEF StoreInv

LEMMA NextStoreInv == DraftInv /\ StoreInv /\ [OnboardingNext]_onboardingVars => StoreInv'
<1> SUFFICES ASSUME DraftInv, StoreInv, [OnboardingNext]_onboardingVars PROVE StoreInv'
  OBVIOUS
<1>1. /\ hour \in Nat /\ LastHour \in Nat /\ MaxForms \in Nat /\ Documents \in Nat
      /\ begun \in [requests : Nat, drafts : Nat] /\ drafts \in Seq(Draft)
      /\ onboarding \in [Requesters -> 0..Documents]
  BY OnboardingAssumption DEF DraftInv, StoreInv
<1>2. CASE UNCHANGED onboardingVars
  BY <1>2 DEF onboardingVars, StoreInv, OneEach, Known, Forming, ToSet
<1>3. CASE TickDraft
  <2>1. /\ hour' = hour + 1 /\ hour < LastHour /\ UNCHANGED <<drafts, timers, onboarding, finishing, begun>>
    BY <1>3 DEF TickDraft
  <2>2. hour' <= LastHour
    BY <1>1, <2>1
  <2>3. ASSUME NEW d \in ToSet(drafts) PROVE Known(d)'
    <3>1. d \in Draft /\ d.made <= hour
      BY <1>1 DEF StoreInv, Known, ToSet
    <3>2. d.made <= hour'
      BY <1>1, <2>1, <3>1 DEF Draft
    <3> QED
      BY <2>1, <3>2 DEF StoreInv, Known
  <2> QED
    BY <2>1, <2>2, <2>3 DEF StoreInv, OneEach, Forming, ToSet
<1>4. ASSUME NEW t \in timers, FireTimer(t) PROVE StoreInv'
  <2> DEFINE I == {i \in DOMAIN drafts : <<drafts[i].id, drafts[i].expires>> # t}
  <2>1. /\ timers' = timers \ {t} /\ drafts' = Kept(drafts, I) /\ UNCHANGED <<hour, onboarding, finishing, begun>>
        /\ I \in SUBSET DOMAIN drafts
    BY <1>4 DEF FireTimer
  <2> HIDE DEF I
  <2>2. /\ OneEach(drafts') /\ Len(drafts') <= Len(drafts) /\ ToSet(drafts') \in SUBSET ToSet(drafts)
        /\ Len(drafts') \in Nat
    BY <1>1, <2>1, KeptOneEach, KeptPlaces, KeptElements DEF StoreInv
  <2>3. Len(drafts') <= MaxDrafts
    <3>1. Len(drafts) \in Nat /\ MaxDrafts \in Nat
      BY <1>1, OnboardingAssumption
    <3> QED
      BY <2>2, <3>1 DEF StoreInv
  <2>4. timers' \in SUBSET timers
    BY <2>1
  <2> QED
    BY <2>1, <2>2, <2>3, <2>4, StoreStep DEF StoreInv
<1>5. ASSUME NEW k \in Requesters, NEW n \in 1..Documents, Onboard(k, n) PROVE StoreInv'
  <2>1. n \in 0..Documents
    BY <1>1
  <2>2. UNCHANGED <<hour, drafts, timers, finishing>> /\ begun'.drafts = begun.drafts
        /\ onboarding' \in [Requesters -> 0..Documents]
    BY <1>1, <1>5, <2>1 DEF Onboard
  <2> QED
    BY <2>2 DEF StoreInv, OneEach, Known, Forming, ToSet
<1>6. ASSUME NEW k \in Requesters, NEW readable \in BOOLEAN, ReadDocument(k, readable) PROVE StoreInv'
  <2>1. onboarding[k] \in 1..Documents
    BY <1>1, <1>6 DEF ReadDocument
  <2>2. (IF readable THEN onboarding[k] - 1 ELSE 0) \in 0..Documents
    BY <1>1, <2>1
  <2>3. onboarding' \in [Requesters -> 0..Documents] /\ hour' = hour /\ finishing' = finishing
    BY <1>1, <1>6, <2>2 DEF ReadDocument
  <2>4. CASE readable /\ onboarding[k] = 1
    BY <1>6, <2>3, <2>4, StoreCreates DEF ReadDocument
  <2>5. CASE ~(readable /\ onboarding[k] = 1)
    <3>1. UNCHANGED <<drafts, timers, begun>>
      BY <1>6, <2>5 DEF ReadDocument
    <3> QED
      BY <2>3, <3>1 DEF StoreInv, OneEach, Known, Forming, ToSet
  <2> QED
    BY <2>4, <2>5
<1>7. ASSUME NEW k \in Requesters, NEW id \in 1..begun.drafts, NEW form \in 1..MaxForms, FillForm(k, id, form)
      PROVE  StoreInv'
  <2>1. PICK d \in ToSet(Unexpired) :
          d.id = id /\ d.forms = form
          /\ drafts' = Append(Others(id), [d EXCEPT !.forms = @ - 1, !.expires = KeepsExpiry(d)])
    BY <1>7 DEF FillForm
  <2> DEFINE e == [d EXCEPT !.forms = @ - 1, !.expires = KeepsExpiry(d)]
  <2>2. d \in Draft /\ Known(d)
    <3>1. d \in ToSet(drafts)
      BY DraftsStay
    <3>2. Known(d)
      BY <3>1 DEF StoreInv
    <3> QED
      BY <1>1, <3>1, <3>2 DEF ToSet
  <2>3. e = [d EXCEPT !.forms = @ - 1]
    BY <2>2 DEF KeepsExpiry, Draft
  <2> HIDE DEF e
  <2>4. e \in Draft /\ e.id = d.id /\ e.made = d.made /\ e.forms = form - 1
    BY <2>1, <2>2, <2>3 DEF Draft
  <2>5. Known(e)
    <3>1. form - 1 \in 0..MaxForms
      BY <1>1
    <3> QED
      BY <2>2, <2>4, <3>1 DEF Known
  <2>6. /\ UNCHANGED <<hour, timers, onboarding, begun>> /\ finishing' = finishing \cup {<<k, id, form - 1>>}
        /\ drafts' = Append(Others(id), e)
    BY <1>7, <2>1 DEF FillForm, e
  <2>7. Forming(<<k, id, form - 1>>)
    <3>1. form - 1 < MaxForms
      BY <1>1
    <3> QED
      BY <3>1 DEF Forming
  <2>8. \A f \in finishing' : Forming(f)
    BY <2>6, <2>7 DEF StoreInv
  <2> QED
    BY <2>1, <2>4, <2>5, <2>6, <2>8, StoreMoved
<1>8. ASSUME NEW k \in Requesters, NEW id, NEW form, RefuseForm(k, id, form) PROVE StoreInv'
  <2>1. UNCHANGED <<hour, timers, onboarding, finishing, begun>> /\ timers' \in SUBSET timers
        /\ \A f \in finishing' : Forming(f)
    BY <1>8 DEF RefuseForm, StoreInv
  <2>2. CASE drafts' = Unexpired
    <3>1. \A d \in ToSet(drafts') : Known(d)
      BY <2>2, DraftsStay DEF StoreInv
    <3> QED
      BY <2>1, <2>2, <3>1, StoreLeaves, StoreStep
  <2>3. CASE drafts' # Unexpired
    <3>1. PICK d \in ToSet(Unexpired) : d.id = id /\ drafts' = Append(Others(id), d)
      BY <1>8, <2>3 DEF RefuseForm
    <3>2. d \in Draft /\ Known(d)
      <4>1. d \in ToSet(drafts)
        BY DraftsStay
      <4>2. Known(d)
        BY <4>1 DEF StoreInv
      <4> QED
        BY <1>1, <4>1, <4>2 DEF ToSet
    <3> QED
      BY <2>1, <3>1, <3>2, StoreMoved
  <2> QED
    BY <2>2, <2>3
<1>9. ASSUME NEW f \in finishing, NEW audited \in BOOLEAN, FinishForm(f, audited) PROVE StoreInv'
  <2>1. /\ UNCHANGED <<hour, timers, onboarding, begun>> /\ timers' \in SUBSET timers
        /\ \A g \in finishing' : Forming(g)
    BY <1>9 DEF FinishForm, StoreInv
  <2>2. CASE drafts' = drafts
    BY <2>1, <2>2, StoreStep DEF StoreInv
  <2>3. CASE drafts' = Others(f[2])
    <3>1. \A d \in ToSet(drafts') : Known(d)
      BY <2>3, DraftsStay DEF StoreInv
    <3> QED
      BY <2>1, <2>3, <3>1, StoreLeaves, StoreStep
  <2> QED
    BY <1>9, <2>2, <2>3 DEF FinishForm
<1> QED
  BY <1>2, <1>3, <1>4, <1>5, <1>6, <1>7, <1>8, <1>9 DEF OnboardingNext

LEMMA InitStoreInv == OnboardingInit => StoreInv
BY OnboardingAssumption DEF OnboardingInit, StoreInv, OneEach, ToSet

LEMMA OnboardingTyped == DraftInv /\ StoreInv => OnboardingTypeOK
<1> SUFFICES ASSUME DraftInv, StoreInv PROVE OnboardingTypeOK
  OBVIOUS
<1>1. hour \in 0..LastHour
  BY OnboardingAssumption DEF DraftInv, StoreInv
<1>2. ASSUME NEW i \in DOMAIN drafts
      PROVE  drafts[i] \in [id : 1..begun.drafts, key : Requesters, forms : 0..MaxForms,
                            conflicts : BOOLEAN, made : 0..hour, expires : Nat]
  <2>1. drafts[i] \in Draft /\ Known(drafts[i])
    BY DEF DraftInv, StoreInv, ToSet
  <2>2. drafts[i].made \in 0..hour
    BY <1>1, <2>1 DEF Draft, Known
  <2> QED
    BY <2>1, <2>2 DEF Draft, Known
<1> QED
  BY <1>1, <1>2 DEF StoreInv, OneEach, Forming, OnboardingTypeOK

(* OnboardingDraftStore: the store never holds more than max_drafts drafts or
   one draft twice, and no form is finished beyond those a draft wants. *)
THEOREM DraftsAreBounded == OnboardingSpec => []OnboardingTypeOK
<1> DEFINE Inv == DraftInv /\ StoreInv
<1>1. OnboardingInit => Inv
  BY InitDraftInv, InitStoreInv
<1>2. Inv /\ [OnboardingNext]_onboardingVars => Inv'
  BY NextDraftInv, NextStoreInv
<1>3. Inv => OnboardingTypeOK
  BY OnboardingTyped
<1> HIDE DEF Inv
<1> QED
  BY <1>1, <1>2, <1>3, PTL DEF OnboardingSpec
-----------------------------------------------------------------------------
Menu == [key : Conversations, who : SUBSET People, fn : HrFunctions, at : Nat]
Snapshot == [key : Conversations, who : SUBSET People, fn : HrFunctions, at : Nat, menu : Nat]
Question == [key : Conversations, fn : HrFunctions, at : Nat]
Latest == [key : Conversations, who : People, at : Nat]

Open == [pc : {"routed", "mention", "roster"}, key : Conversations, fn : HrFunctions,
         among : SUBSET People, target : {"id", "name", "none"}, by : {"name", "answer"}, age : Int]
Decisive == [pc : {"execute"}, key : Conversations, fn : HrFunctions, who : People,
            by : {"name", "answer", "id", "mention", "person", "pick", "menu"}, menu : Nat, age : Int]

StoreTypes ==
    /\ now \in Nat
    /\ offered \in Seq(Menu) /\ question \in Seq(Question) /\ person \in Seq(Latest)
    /\ menus \in Seq(Snapshot) /\ shown \in Seq(Menu)
    /\ asking \in Seq(Open \cup Decisive)

(* A menu that was shown offered what t is about to do. *)
Offers(m, t) == /\ m \in DOMAIN shown
                /\ shown[m].key = t.key /\ shown[m].fn = t.fn /\ t.who \in shown[m].who

RequestInv(t) ==
    /\ t.age < Ttl
    /\ t.pc = "execute" =>
         /\ t.by = "menu" => Offers(t.menu, t)
         /\ t.by = "pick" => \E m \in DOMAIN shown : Offers(m, t)
         /\ t.by = "person" => t.fn \in ReadFunctions

(* A snapshot is what its menu showed. *)
Faithful(e) == e.menu \in DOMAIN shown /\ shown[e.menu] = [key |-> e.key, who |-> e.who, fn |-> e.fn, at |-> e.at]

ContextInv ==
    /\ StoreTypes
    /\ ToSet(offered) \in SUBSET ToSet(shown)
    /\ \A e \in ToSet(menus) : Faithful(e)
    /\ \A t \in ToSet(asking) : RequestInv(t)

ConversationSpec == ConversationInit /\ [][ConversationNext]_conversationVars
-----------------------------------------------------------------------------
(* The store's lists: each operation leaves what was there, and what it puts. *)
LEMMA LiveElements ==
    ASSUME NEW T, NEW s \in Seq(T)
    PROVE  Live(s) \in Seq(T) /\ ToSet(Live(s)) \in SUBSET ToSet(s)
           /\ \A e \in ToSet(Live(s)) : now < e.at + Ttl
<1> DEFINE I == {i \in DOMAIN s : now < s[i].at + Ttl}
<1>1. I \in SUBSET DOMAIN s /\ Live(s) = Kept(s, I) /\ \A i \in I : now < s[i].at + Ttl
  BY DEF Live
<1> HIDE DEF I
<1>2. Live(s) \in Seq(T) /\ ToSet(Live(s)) = {s[i] : i \in I} /\ ToSet(Live(s)) \in SUBSET ToSet(s)
  BY <1>1, KeptElements
<1> QED
  BY <1>1, <1>2

LEMMA TouchElements ==
    ASSUME NEW T, NEW s \in Seq(T), NEW e \in ToSet(s)
    PROVE  Touch(s, e) \in Seq(T) /\ ToSet(Touch(s, e)) \in SUBSET ToSet(s)
<1> DEFINE I == {i \in DOMAIN Live(s) : Live(s)[i] # e}
<1>1. Live(s) \in Seq(T) /\ I \in SUBSET DOMAIN Live(s) /\ Touch(s, e) = Append(Kept(Live(s), I), e)
  BY LiveElements DEF Touch
<1> HIDE DEF I
<1>2. Kept(Live(s), I) \in Seq(T) /\ ToSet(Kept(Live(s), I)) \in SUBSET ToSet(Live(s))
  BY <1>1, KeptElements
<1>3. e \in T
  BY DEF ToSet
<1> QED
  BY <1>1, <1>2, <1>3, LiveElements, AppendElements

LEMMA WithoutElements ==
    ASSUME NEW T, NEW s \in Seq(T), NEW k
    PROVE  Without(s, k) \in Seq(T) /\ ToSet(Without(s, k)) \in SUBSET ToSet(s)
           /\ \A e \in ToSet(Without(s, k)) : e.key # k
<1> DEFINE I == {i \in DOMAIN s : s[i].key # k}
<1>1. I \in SUBSET DOMAIN s /\ Without(s, k) = Kept(s, I) /\ \A i \in I : s[i].key # k
  BY DEF Without
<1> HIDE DEF I
<1>2. Without(s, k) \in Seq(T) /\ ToSet(Without(s, k)) = {s[i] : i \in I} /\ ToSet(Without(s, k)) \in SUBSET ToSet(s)
  BY <1>1, KeptElements
<1> QED
  BY <1>1, <1>2

LEMMA PutElements ==
    ASSUME NEW T, NEW s \in Seq(T), NEW e \in T
    PROVE  Put(s, e) \in Seq(T) /\ ToSet(Put(s, e)) \in SUBSET (ToSet(s) \cup {e})
           /\ \A o \in ToSet(Put(s, e)) : o.key = e.key => o = e
<1>1. /\ Without(Live(s), e.key) \in Seq(T) /\ ToSet(Without(Live(s), e.key)) \in SUBSET ToSet(Live(s))
      /\ \A o \in ToSet(Without(Live(s), e.key)) : o.key # e.key
  BY LiveElements, WithoutElements
<1>2. /\ Put(s, e) \in Seq(T)
      /\ ToSet(Put(s, e)) = ToSet(Without(Live(s), e.key)) \cup {e}
  BY <1>1, AppendElements DEF Put
<1> QED
  BY <1>1, <1>2, LiveElements

LEMMA SubSeqElements ==
    ASSUME NEW T, NEW s \in Seq(T), NEW m \in 1..Len(s) + 1, NEW n \in 0..Len(s)
    PROVE  SubSeq(s, m, n) \in Seq(T) /\ ToSet(SubSeq(s, m, n)) \in SUBSET ToSet(s)
<1>1. Len(s) \in Nat /\ DOMAIN s = 1..Len(s)
  OBVIOUS
<1>2. /\ SubSeq(s, m, n) \in Seq(T)
      /\ \A i \in DOMAIN SubSeq(s, m, n) : i + m - 1 \in 1..Len(s) /\ SubSeq(s, m, n)[i] = s[i + m - 1]
  BY <1>1
<1> QED
  BY <1>1, <1>2 DEF ToSet

LEMMA JoinedElements ==
    ASSUME NEW T, NEW s \in Seq(T), NEW t \in Seq(T)
    PROVE  s \o t \in Seq(T) /\ ToSet(s \o t) \in SUBSET (ToSet(s) \cup ToSet(t))
<1>1. /\ s \o t \in Seq(T) /\ Len(s) \in Nat /\ Len(t) \in Nat
      /\ DOMAIN (s \o t) = 1..Len(s) + Len(t) /\ DOMAIN s = 1..Len(s) /\ DOMAIN t = 1..Len(t)
  OBVIOUS
<1>2. \A i \in 1..Len(s) + Len(t) : (s \o t)[i] = IF i <= Len(s) THEN s[i] ELSE t[i - Len(s)]
  BY <1>1
<1>3. \A i \in 1..Len(s) + Len(t) : IF i <= Len(s) THEN i \in 1..Len(s) ELSE i - Len(s) \in 1..Len(t)
  BY <1>1
<1> QED
  BY <1>1, <1>2, <1>3 DEF ToSet

LEMMA BoundedElements ==
    ASSUME NEW T, NEW s \in Seq(T)
    PROVE  Bounded(s) \in Seq(T) /\ ToSet(Bounded(s)) \in SUBSET ToSet(s)
<1>1. Len(s) \in Nat /\ MaxConversations \in Nat
  BY ConversationAssumption
<1>2. CASE Len(s) > MaxConversations
  <2>1. Len(s) - MaxConversations + 1 \in 1..Len(s) + 1 /\ Len(s) \in 0..Len(s)
    BY <1>1, <1>2
  <2> QED
    BY <1>2, <2>1, SubSeqElements DEF Bounded
<1> QED
  BY <1>2 DEF Bounded

LEMMA RememberElements ==
    ASSUME NEW T, NEW s \in Seq(T), NEW e \in T
    PROVE  Remember(s, e) \in Seq(T) /\ ToSet(Remember(s, e)) \in SUBSET (ToSet(s) \cup {e})
  BY PutElements, BoundedElements DEF Remember

LEMMA OfElements ==
    ASSUME NEW T, NEW s \in Seq(T), NEW k, NEW e \in Of(s, k)
    PROVE  e \in ToSet(s) /\ e \in ToSet(Live(s)) /\ e \in T /\ e.key = k /\ now < e.at + Ttl
<1>1. e \in ToSet(Live(s)) /\ e.key = k
  BY DEF Of
<1>2. e \in ToSet(s) /\ now < e.at + Ttl
  BY <1>1, LiveElements
<1> QED
  BY <1>1, <1>2 DEF ToSet
-----------------------------------------------------------------------------
Request == Open \cup Decisive

(* The store forgets and reorders, but adds nothing. *)
StoreKept ==
    /\ offered' \in Seq(Menu) /\ ToSet(offered') \in SUBSET ToSet(offered)
    /\ question' \in Seq(Question) /\ person' \in Seq(Latest)
    /\ menus' \in Seq(Snapshot) /\ ToSet(menus') \in SUBSET ToSet(menus)

(* The requests of a step are those that were in ask and, maybe, t. *)
OnlyNew(t) == asking' \in Seq(Request) /\ ToSet(asking') \in SUBSET (ToSet(asking) \cup {t})

(* A step that leaves the menus shown, puts into the store what they show, and
   adds requests that stand. *)
LEMMA ContextStep ==
    ASSUME ContextInv, now' \in Nat, shown' \in Seq(Menu),
           \A m \in DOMAIN shown : m \in DOMAIN shown' /\ shown'[m] = shown[m],
           offered' \in Seq(Menu), \A e \in ToSet(offered') : e \in ToSet(offered) \/ e \in ToSet(shown'),
           question' \in Seq(Question), person' \in Seq(Latest),
           menus' \in Seq(Snapshot), \A e \in ToSet(menus') : e \in ToSet(menus) \/ Faithful(e)',
           asking' \in Seq(Request), \A t \in ToSet(asking') : t \in ToSet(asking) \/ RequestInv(t)'
    PROVE  ContextInv'
<1>1. /\ ToSet(offered)' = ToSet(offered') /\ ToSet(shown)' = ToSet(shown') /\ ToSet(menus)' = ToSet(menus')
      /\ ToSet(asking)' = ToSet(asking')
  BY DEF ToSet
<1>2. ToSet(shown) \in SUBSET ToSet(shown')
  BY DEF ToSet
<1>3. ToSet(offered)' \in SUBSET ToSet(shown)'
  BY <1>1, <1>2 DEF ContextInv
<1>4. \A e \in ToSet(menus) : Faithful(e)'
  BY DEF ContextInv, Faithful
<1>5. ASSUME NEW t \in ToSet(asking) PROVE RequestInv(t)'
  BY DEF ContextInv, RequestInv, Offers
<1>6. StoreTypes'
  BY DEF StoreTypes, Request
<1> QED
  BY <1>1, <1>3, <1>4, <1>5, <1>6 DEF ContextInv

(* Nothing was shown: what is new is a request that stands. *)
LEMMA KeptStep ==
    ASSUME ContextInv, UNCHANGED <<now, shown>>, StoreKept, NEW t, OnlyNew(t),
           t \in ToSet(asking) \/ RequestInv(t)
    PROVE  ContextInv'
<1>1. RequestInv(t) => RequestInv(t)'
  BY DEF RequestInv, Offers
<1>2. now' \in Nat /\ shown' \in Seq(Menu)
  BY DEF ContextInv, StoreTypes
<1>3. \A e \in ToSet(offered') : e \in ToSet(offered)
  BY DEF StoreKept
<1>4. \A e \in ToSet(menus') : e \in ToSet(menus)
  BY DEF StoreKept
<1>5. \A x \in ToSet(asking') : x \in ToSet(asking) \/ RequestInv(x)'
  BY <1>1 DEF OnlyNew
<1> QED
  BY <1>2, <1>3, <1>4, <1>5, ContextStep DEF StoreKept, OnlyNew

(* Each list of the store is unchanged, purged, or one of its entries is touched. *)
LEMMA StoreMoves ==
    ASSUME StoreTypes,
           \/ offered' = offered \/ offered' = Live(offered)
           \/ \E e \in ToSet(offered) : offered' = Touch(offered, e),
           \/ question' = question \/ question' = Live(question)
           \/ \E e \in ToSet(question) : question' = Touch(question, e)
           \/ \E k : question' = Without(question, k)
           \/ \E e \in Question : question' = Remember(question, e),
           \/ person' = person \/ person' = Live(person)
           \/ \E e \in ToSet(person) : person' = Touch(person, e)
           \/ \E e \in Latest : person' = Remember(person, e),
           menus' = menus \/ menus' = Live(menus)
    PROVE  StoreKept
<1>1. offered' \in Seq(Menu) /\ ToSet(offered') \in SUBSET ToSet(offered)
  BY LiveElements, TouchElements DEF StoreTypes
<1>2. question' \in Seq(Question)
  BY LiveElements, TouchElements, WithoutElements, RememberElements DEF StoreTypes
<1>3. person' \in Seq(Latest)
  BY LiveElements, TouchElements, RememberElements DEF StoreTypes
<1>4. menus' \in Seq(Snapshot) /\ ToSet(menus') \in SUBSET ToSet(menus)
  BY LiveElements DEF StoreTypes
<1> QED
  BY <1>1, <1>2, <1>3, <1>4 DEF StoreKept

(* A request enters, goes on, or leaves. *)
LEMMA RequestEnters ==
    ASSUME StoreTypes, NEW t \in Request, Enter(t)
    PROVE  OnlyNew(t)
  BY AppendElements DEF StoreTypes, Enter, OnlyNew, Request

LEMMA RequestGoesOn ==
    ASSUME StoreTypes, NEW a \in DOMAIN asking, NEW t \in Request, asking' = [asking EXCEPT ![a] = t]
    PROVE  OnlyNew(t)
<1>1. asking \in Seq(Request)
  BY DEF StoreTypes, Request
<1>2. /\ asking' \in Seq(Request) /\ DOMAIN asking' = DOMAIN asking
      /\ \A i \in DOMAIN asking : asking'[i] = IF i = a THEN t ELSE asking[i]
  BY <1>1
<1> QED
  BY <1>2 DEF OnlyNew, ToSet

LEMMA RequestLeaves ==
    ASSUME StoreTypes, NEW a \in DOMAIN asking, Done(a)
    PROVE  asking[a] \in ToSet(asking) /\ OnlyNew(asking[a])
<1>1. asking \in Seq(Request) /\ Len(asking) \in Nat /\ a \in 1..Len(asking)
  BY DEF StoreTypes, Request
<1> DEFINE s == SubSeq(asking, 1, a - 1)
           t == SubSeq(asking, a + 1, Len(asking))
<1>2. /\ s \in Seq(Request) /\ ToSet(s) \in SUBSET ToSet(asking)
      /\ t \in Seq(Request) /\ ToSet(t) \in SUBSET ToSet(asking)
  <2>1. 1 \in 1..Len(asking) + 1 /\ a - 1 \in 0..Len(asking) /\ a + 1 \in 1..Len(asking) + 1 /\ Len(asking) \in 0..Len(asking)
    BY <1>1
  <2> QED
    BY <1>1, <2>1, SubSeqElements
<1>3. asking' = s \o t
  BY DEF Done
<1> HIDE DEF s, t
<1>4. asking' \in Seq(Request) /\ ToSet(asking') \in SUBSET (ToSet(s) \cup ToSet(t))
  BY <1>2, <1>3, JoinedElements
<1>5. asking[a] \in ToSet(asking)
  BY DEF ToSet
<1> QED
  BY <1>2, <1>4, <1>5 DEF OnlyNew

(* What is known of a request in ask. *)
LEMMA RequestAsked ==
    ASSUME ContextInv, NEW a \in DOMAIN asking
    PROVE  /\ asking[a] \in Request /\ RequestInv(asking[a])
           /\ asking[a].key \in Conversations /\ asking[a].fn \in HrFunctions
           /\ asking[a].age \in Int /\ asking[a].age < Ttl
           /\ asking[a].pc # "execute" => asking[a] \in Open
           /\ asking[a].pc = "execute" => asking[a] \in Decisive
<1>1. asking[a] \in Request /\ asking[a] \in ToSet(asking)
  BY DEF ContextInv, StoreTypes, Request, ToSet
<1>2. RequestInv(asking[a])
  BY <1>1 DEF ContextInv
<1>3. /\ asking[a] \in Open => asking[a].pc # "execute"
      /\ asking[a] \in Decisive => asking[a].pc = "execute"
  BY DEF Open, Decisive
<1>4. /\ asking[a] \in Open => asking[a].key \in Conversations /\ asking[a].fn \in HrFunctions /\ asking[a].age \in Int
      /\ asking[a] \in Decisive => asking[a].key \in Conversations /\ asking[a].fn \in HrFunctions /\ asking[a].age \in Int
  BY DEF Open, Decisive
<1> QED
  BY <1>1, <1>2, <1>3, <1>4 DEF Request, RequestInv

(* What is known of a request whose target has just been found. *)
LEMMA DecidedTyped ==
    ASSUME NEW k \in Conversations, NEW fn \in HrFunctions, NEW p \in People,
           NEW by \in {"name", "answer", "id", "mention", "person", "pick", "menu"},
           NEW m \in Nat, NEW age \in Int, NEW t, t = Decided(k, fn, p, by, m, age)
    PROVE  /\ t \in Request /\ t.pc = "execute" /\ t.key = k /\ t.fn = fn /\ t.who = p /\ t.by = by
           /\ t.menu = m /\ t.age = age
  BY DEF Decided, Request, Decisive

(* Every operation keeps the invariant. *)
LEMMA AskPickKeeps == ASSUME ContextInv, NEW k \in Conversations, NEW p \in People, AskPick(k, p) PROVE ContextInv'
<1>1. PICK e \in Of(offered, k) : /\ p \in e.who /\ offered' = Touch(offered, e)
                                  /\ Enter(Decided(k, e.fn, p, "pick", 0, now - e.at))
  BY DEF AskPick
<1>2. StoreTypes
  BY DEF ContextInv
<1>3. e \in ToSet(offered) /\ e \in Menu /\ e.key = k /\ now < e.at + Ttl
  BY <1>2, OfElements DEF StoreTypes
<1>4. e.fn \in HrFunctions /\ e.at \in Nat /\ now \in Nat /\ Ttl \in Nat
  BY <1>2, <1>3, ConversationAssumption DEF Menu, StoreTypes
<1>5. PICK t : t = Decided(k, e.fn, p, "pick", 0, now - e.at)
  OBVIOUS
<1>6. /\ t \in Request /\ t.pc = "execute" /\ t.key = k /\ t.fn = e.fn /\ t.who = p /\ t.by = "pick"
      /\ t.age = now - e.at
  BY <1>4, <1>5, DecidedTyped
<1>7. PICK m \in DOMAIN shown : shown[m] = e
  BY <1>3 DEF ContextInv, ToSet
<1>8. RequestInv(t)
  BY <1>1, <1>3, <1>4, <1>6, <1>7 DEF RequestInv, Offers
<1>9. StoreKept
  BY <1>1, <1>2, <1>3, StoreMoves DEF AskPick
<1>10. OnlyNew(t)
  BY <1>1, <1>2, <1>5, <1>6, RequestEnters
<1> QED
  BY <1>8, <1>9, <1>10, KeptStep DEF AskPick

LEMMA SelectPersonKeeps ==
    ASSUME ContextInv, NEW m \in DOMAIN shown, NEW p \in People, SelectPerson(m, p)
    PROVE  ContextInv'
<1> DEFINE k == shown[m].key
           snapshot == {e \in ToSet(Live(menus)) : e.menu = m /\ e.key = k /\ p \in e.who}
<1>1. StoreTypes /\ now \in Nat /\ Ttl \in Nat /\ UNCHANGED <<now, shown>>
  BY ConversationAssumption DEF ContextInv, StoreTypes, SelectPerson
<1>2. question' = Live(question) /\ person' = Live(person)
  BY DEF SelectPerson
<1>3. CASE snapshot = {}
  <2>1. offered' = Live(offered) /\ menus' = Live(menus) /\ asking' = asking
    BY <1>3 DEF SelectPerson
  <2>2. StoreKept
    BY <1>1, <1>2, <2>1, StoreMoves
  <2>3. /\ now' \in Nat /\ shown' \in Seq(Menu) /\ asking' \in Seq(Request)
    BY <1>1, <2>1 DEF StoreTypes, Request
  <2>4. /\ \A e \in ToSet(offered') : e \in ToSet(offered)
        /\ \A f \in ToSet(menus') : f \in ToSet(menus)
    BY <2>2 DEF StoreKept
  <2> QED
    BY <1>1, <2>1, <2>2, <2>3, <2>4, ContextStep DEF StoreKept
<1>4. CASE snapshot # {}
  <2>1. PICK e \in snapshot :
          /\ menus' = Touch(menus, e) /\ offered' = Activated(e)
          /\ \E o \in ToSet(offered') :
               o.key = k /\ p \in o.who /\ Enter(Decided(k, o.fn, p, "menu", m, now - o.at))
    BY <1>4 DEF SelectPerson
  <2>2. e \in ToSet(menus) /\ e \in Snapshot /\ e.menu = m /\ e.key = k /\ now < e.at + Ttl
    <3>1. e \in ToSet(Live(menus)) /\ e.menu = m /\ e.key = k
      OBVIOUS
    <3>2. e \in ToSet(menus) /\ now < e.at + Ttl
      BY <1>1, <3>1, LiveElements DEF StoreTypes
    <3> QED
      BY <1>1, <3>1, <3>2 DEF StoreTypes, ToSet
  <2>3. PICK o \in ToSet(offered') :
          o.key = k /\ p \in o.who /\ Enter(Decided(k, o.fn, p, "menu", m, now - o.at))
    BY <2>1
  <2>4. PICK x : x = [key |-> e.key, who |-> e.who, fn |-> e.fn, at |-> e.at]
    OBVIOUS
  <2>5. x = shown[m] /\ x \in Menu /\ x \in ToSet(shown) /\ x.key = k /\ x.at = e.at
    <3>1. x = shown[m]
      BY <2>2, <2>4 DEF ContextInv, Faithful
    <3> QED
      BY <1>1, <2>2, <2>4, <3>1 DEF StoreTypes, ToSet
  <2>6. /\ offered' \in Seq(Menu) /\ ToSet(offered') \in SUBSET (ToSet(offered) \cup {x})
        /\ o = x
    <3>1. offered' = Put(offered, x) /\ offered \in Seq(Menu)
      BY <1>1, <2>1, <2>4 DEF Activated, StoreTypes
    <3>2. Put(offered, x) \in Seq(Menu) /\ ToSet(Put(offered, x)) \in SUBSET (ToSet(offered) \cup {x})
          /\ \A y \in ToSet(Put(offered, x)) : y.key = x.key => y = x
      BY <2>5, <3>1, PutElements
    <3> QED
      BY <2>3, <2>5, <3>1, <3>2
  <2>7. PICK t : t = Decided(k, o.fn, p, "menu", m, now - o.at)
    OBVIOUS
  <2>8. k \in Conversations /\ o.fn \in HrFunctions /\ o.at \in Nat /\ m \in Nat
    BY <1>1, <2>5, <2>6 DEF Menu, StoreTypes
  <2>9. /\ t \in Request /\ t.pc = "execute" /\ t.key = k /\ t.fn = o.fn /\ t.who = p /\ t.by = "menu"
        /\ t.menu = m /\ t.age = now - o.at
    BY <1>1, <2>7, <2>8, DecidedTyped
  <2>10. RequestInv(t)'
    BY <1>1, <2>2, <2>3, <2>5, <2>6, <2>8, <2>9 DEF RequestInv, Offers
  <2>11. OnlyNew(t)
    BY <1>1, <2>3, <2>7, <2>9, RequestEnters
  <2>12. question' \in Seq(Question) /\ person' \in Seq(Latest) /\ menus' \in Seq(Snapshot)
         /\ ToSet(menus') \in SUBSET ToSet(menus)
    BY <1>1, <1>2, <2>1, <2>2, LiveElements, TouchElements DEF StoreTypes
  <2>13. now' \in Nat /\ shown' \in Seq(Menu) /\ \A y \in ToSet(offered') : y \in ToSet(offered) \/ y \in ToSet(shown')
    BY <1>1, <2>5, <2>6 DEF StoreTypes
  <2>14. \A y \in ToSet(menus') : y \in ToSet(menus)
    BY <2>12
  <2>15. asking' \in Seq(Request) /\ \A y \in ToSet(asking') : y \in ToSet(asking) \/ RequestInv(y)'
    BY <2>10, <2>11 DEF OnlyNew
  <2> QED
    BY <1>1, <2>6, <2>12, <2>13, <2>14, <2>15, ContextStep
<1> QED
  BY <1>3, <1>4

LEMMA AskKeeps ==
    ASSUME ContextInv, NEW k \in Conversations, NEW bare \in BOOLEAN, NEW fn \in HrFunctions,
           NEW target \in {"id", "name", "none"}, Ask(k, bare, fn, target)
    PROVE  ContextInv'
<1> DEFINE asked == IF bare THEN Of(question, k) ELSE {}
           list == IF bare THEN Of(offered, k) ELSE {}
           among == IF list = {} THEN People ELSE UNION {e.who : e \in list}
           Begun(pc, f, by, age) == [pc |-> pc, key |-> k, fn |-> f, among |-> among, target |-> target,
                                     by |-> by, age |-> age]
<1>1. StoreTypes /\ now \in Nat /\ Ttl \in Nat \ {0} /\ UNCHANGED <<now, shown>>
  BY ConversationAssumption DEF ContextInv, StoreTypes, Ask
<1>2. /\ \A e \in list : e \in Menu /\ e \in ToSet(offered)
      /\ \A q \in asked : q \in Question /\ q \in ToSet(question) /\ now < q.at + Ttl
  BY <1>1, OfElements DEF StoreTypes
<1>3. among \in SUBSET People
  <2>1. \A e \in list : e.who \in SUBSET People
    BY <1>2 DEF Menu
  <2> QED
    BY <2>1
<1>4. /\ \/ \E q \in asked :
               Enter(Begun("roster", q.fn, "answer", now - q.at)) /\ question' = Touch(question, q)
         \/ /\ Enter(Begun(IF target = "name" THEN "roster" ELSE "routed", fn, "name", 0))
            /\ question' = Live(question)
      /\ offered' = (IF list = {} THEN Live(offered) ELSE Touch(offered, CHOOSE e \in list : TRUE))
      /\ person' = Live(person) /\ menus' = Live(menus)
  BY DEF Ask
<1>5. \/ offered' = Live(offered)
      \/ \E e \in ToSet(offered) : offered' = Touch(offered, e)
  BY <1>2, <1>4
<1> HIDE DEF asked, list, among
<1>6. PICK t : Enter(t) /\ \/ \E q \in asked : t = Begun("roster", q.fn, "answer", now - q.at)
                           \/ t = Begun(IF target = "name" THEN "roster" ELSE "routed", fn, "name", 0)
  BY <1>4
<1>7. t \in Open /\ t.pc # "execute" /\ t.age < Ttl
  <2>1. CASE t = Begun(IF target = "name" THEN "roster" ELSE "routed", fn, "name", 0)
    BY <1>1, <1>3, <2>1 DEF Open
  <2>2. ASSUME NEW q \in asked, t = Begun("roster", q.fn, "answer", now - q.at) PROVE t \in Open /\ t.pc # "execute" /\ t.age < Ttl
    <3>1. q.fn \in HrFunctions /\ q.at \in Nat /\ now < q.at + Ttl
      BY <1>2 DEF Question
    <3>2. now - q.at \in Int /\ now - q.at < Ttl
      BY <1>1, <3>1
    <3> QED
      BY <1>3, <2>2, <3>1, <3>2 DEF Open
  <2> QED
    BY <1>6, <2>1, <2>2
<1>8. RequestInv(t) /\ OnlyNew(t)
  BY <1>1, <1>6, <1>7, RequestEnters DEF RequestInv, Request
<1>9. StoreKept
  <2>1. question' = Live(question) \/ \E q \in ToSet(question) : question' = Touch(question, q)
    BY <1>2, <1>4
  <2> QED
    BY <1>1, <1>4, <1>5, <2>1, StoreMoves
<1> QED
  BY <1>1, <1>8, <1>9, KeptStep

(* A request whose target is found goes on to its execution. *)
LEMMA DecideStep ==
    ASSUME ContextInv, UNCHANGED <<now, shown>>, StoreKept, NEW a \in DOMAIN asking, NEW fn \in HrFunctions,
           NEW p \in People, NEW by \in {"name", "answer", "id", "mention", "person"}, NEW age \in Int,
           age < Ttl, by = "person" => fn \in ReadFunctions, Decide(a, fn, p, by, age)
    PROVE  ContextInv'
<1>1. PICK t : t = Decided(asking[a].key, fn, p, by, 0, age)
  OBVIOUS
<1>2. /\ t \in Request /\ t.pc = "execute" /\ t.fn = fn /\ t.by = by /\ t.age = age
  BY <1>1, RequestAsked, DecidedTyped
<1>3. asking' = [asking EXCEPT ![a] = t]
  BY <1>1 DEF Decide
<1>4. OnlyNew(t)
  BY <1>2, <1>3, RequestGoesOn DEF ContextInv
<1>5. RequestInv(t)
  BY <1>2 DEF RequestInv
<1> QED
  BY <1>4, <1>5, KeptStep

(* A request that leaves ask. *)
LEMMA DoneStep ==
    ASSUME ContextInv, UNCHANGED <<now, shown>>, StoreKept, NEW a \in DOMAIN asking, Done(a)
    PROVE  ContextInv'
  BY RequestLeaves, KeptStep DEF ContextInv

LEMMA RoutedKeeps == ASSUME ContextInv, NEW a \in DOMAIN asking, Routed(a) PROVE ContextInv'
<1> DEFINE t == asking[a]
           recent == IF FollowsUp(t.fn) THEN Of(person, t.key) ELSE {}
<1>1. /\ StoreTypes /\ now \in Nat /\ Ttl \in Nat \ {0} /\ UNCHANGED <<now, shown>>
      /\ t \in Open /\ t.fn \in HrFunctions /\ t.age < Ttl
  BY RequestAsked, ConversationAssumption DEF ContextInv, StoreTypes, Routed
<1>2. ASSUME UNCHANGED contextVars PROVE StoreKept
  BY <1>1, <1>2, StoreMoves DEF contextVars
<1>3. CASE UNCHANGED contextVars /\ \E p \in People : Decide(a, t.fn, p, "id", 0)
  BY <1>1, <1>2, <1>3, DecideStep
<1>4. ASSUME NEW e \in recent, Decide(a, t.fn, e.who, "person", now - e.at), person' = Touch(person, e),
             offered' = Live(offered), question' = Live(question), menus' = Live(menus)
      PROVE  ContextInv'
  <2>1. t.fn \in ReadFunctions /\ e \in Of(person, t.key)
    BY <1>4 DEF FollowsUp
  <2>2. e \in ToSet(person) /\ e \in Latest /\ now < e.at + Ttl
    BY <1>1, <2>1, OfElements DEF StoreTypes
  <2>3. e.who \in People /\ now - e.at \in Int /\ now - e.at < Ttl
    BY <1>1, <2>2 DEF Latest
  <2>4. StoreKept
    BY <1>1, <1>4, <2>2, StoreMoves
  <2> QED
    BY <1>1, <1>4, <2>1, <2>3, <2>4, DecideStep
<1>5. CASE UNCHANGED contextVars /\ asking' = [asking EXCEPT ![a].pc = "mention"]
  <2>1. PICK r : r = [t EXCEPT !.pc = "mention"]
    OBVIOUS
  <2>2. r \in Open /\ r.pc = "mention" /\ r.age = t.age
    BY <1>1, <2>1 DEF Open
  <2>3. OnlyNew(r)
    BY <1>1, <1>5, <2>1, <2>2, RequestGoesOn DEF Request
  <2>4. RequestInv(r)
    BY <1>1, <2>2 DEF RequestInv
  <2> QED
    BY <1>1, <1>2, <1>5, <2>3, <2>4, KeptStep
<1> QED
  BY <1>3, <1>4, <1>5 DEF Routed

LEMMA MentionKeeps == ASSUME ContextInv, NEW a \in DOMAIN asking, Mention(a) PROVE ContextInv'
<1> DEFINE t == asking[a]
<1>1. /\ StoreTypes /\ now \in Nat /\ Ttl \in Nat \ {0} /\ UNCHANGED <<now, shown>>
      /\ t.key \in Conversations /\ t.fn \in HrFunctions
  BY RequestAsked, ConversationAssumption DEF ContextInv, StoreTypes, Mention
<1>2. CASE UNCHANGED contextVars /\ \E p \in People : Decide(a, t.fn, p, "mention", 0)
  <2>1. StoreKept
    BY <1>1, <1>2, StoreMoves DEF contextVars
  <2> QED
    BY <1>1, <1>2, <2>1, DecideStep
<1>3. CASE /\ Done(a) /\ question' = Remember(question, Entry(t.key, t.fn))
           /\ offered' = Live(offered) /\ person' = Live(person) /\ menus' = Live(menus)
  <2>1. Entry(t.key, t.fn) \in Question
    BY <1>1 DEF Entry, Question
  <2>2. StoreKept
    BY <1>1, <1>3, <2>1, StoreMoves
  <2> QED
    BY <1>1, <1>3, <2>2, DoneStep
<1> QED
  BY <1>2, <1>3 DEF Mention

LEMMA OfferKeeps ==
    ASSUME ContextInv, NEW a \in DOMAIN asking, NEW found \in SUBSET People, Offer(a, found), now' = now
    PROVE  ContextInv'
<1> DEFINE t == asking[a]
<1>1. /\ StoreTypes /\ now \in Nat /\ t.key \in Conversations /\ t.fn \in HrFunctions
  BY RequestAsked DEF ContextInv, StoreTypes
<1>2. PICK menu : menu = [key |-> t.key, who |-> found, fn |-> t.fn, at |-> now]
  OBVIOUS
<1>3. PICK snap : snap = [key |-> t.key, who |-> found, fn |-> t.fn, at |-> now, menu |-> Len(shown) + 1]
  OBVIOUS
<1>4. /\ Done(a) /\ shown' = Append(shown, menu) /\ offered' = Remember(offered, menu)
      /\ menus' = Bounded(Append(Live(menus), snap))
      /\ question' = Remember(question, Entry(t.key, t.fn)) /\ person' = Live(person)
  BY <1>2, <1>3 DEF Offer
<1>5. menu \in Menu /\ snap \in Snapshot /\ Entry(t.key, t.fn) \in Question
  <2>1. Len(shown) + 1 \in Nat
    BY <1>1 DEF StoreTypes
  <2> QED
    BY <1>1, <1>2, <1>3, <2>1 DEF Menu, Snapshot, Question, Entry
<1>6. /\ shown' \in Seq(Menu) /\ menu \in ToSet(shown')
      /\ \A m \in DOMAIN shown : m \in DOMAIN shown' /\ shown'[m] = shown[m]
      /\ Len(shown) + 1 \in DOMAIN shown' /\ shown'[Len(shown) + 1] = menu
  <2>1. shown \in Seq(Menu)
    BY <1>1 DEF StoreTypes
  <2> QED
    BY <1>4, <1>5, <2>1, AppendElements
<1>7. Faithful(snap)'
  BY <1>2, <1>3, <1>6 DEF Faithful
<1>8. /\ offered' \in Seq(Menu) /\ \A e \in ToSet(offered') : e \in ToSet(offered) \/ e \in ToSet(shown')
      /\ question' \in Seq(Question) /\ person' \in Seq(Latest)
  <2>1. offered' \in Seq(Menu) /\ ToSet(offered') \in SUBSET (ToSet(offered) \cup {menu})
    BY <1>1, <1>4, <1>5, RememberElements DEF StoreTypes
  <2>2. question' \in Seq(Question) /\ person' \in Seq(Latest)
    BY <1>1, <1>4, <1>5, RememberElements, LiveElements DEF StoreTypes
  <2> QED
    BY <1>6, <2>1, <2>2
<1>9. menus' \in Seq(Snapshot) /\ \A e \in ToSet(menus') : e \in ToSet(menus) \/ Faithful(e)'
  <2>1. Live(menus) \in Seq(Snapshot) /\ ToSet(Live(menus)) \in SUBSET ToSet(menus)
    BY <1>1, LiveElements DEF StoreTypes
  <2>2. Append(Live(menus), snap) \in Seq(Snapshot) /\ ToSet(Append(Live(menus), snap)) = ToSet(Live(menus)) \cup {snap}
    BY <1>5, <2>1, AppendElements
  <2>3. menus' \in Seq(Snapshot) /\ ToSet(menus') \in SUBSET (ToSet(Live(menus)) \cup {snap})
    BY <1>4, <2>2, BoundedElements
  <2> QED
    BY <1>7, <2>1, <2>3
<1>10. asking' \in Seq(Request) /\ \A r \in ToSet(asking') : r \in ToSet(asking)
  BY <1>1, <1>4, RequestLeaves DEF OnlyNew
<1> QED
  BY <1>1, <1>6, <1>8, <1>9, <1>10, ContextStep

LEMMA ResolveKeeps ==
    ASSUME ContextInv, NEW a \in DOMAIN asking, NEW found \in SUBSET People, Resolve(a, found)
    PROVE  ContextInv'
<1> DEFINE t == asking[a]
<1>1. /\ StoreTypes /\ now' = now /\ t.key \in Conversations /\ t.fn \in HrFunctions
      /\ t.age \in Int /\ t.age < Ttl /\ t.by \in {"name", "answer"}
  <2>1. t \in Open
    BY RequestAsked DEF Resolve
  <2> QED
    BY <2>1, RequestAsked DEF ContextInv, Resolve, Open
<1>2. CASE Done(a) /\ UNCHANGED <<contextVars, shown>>
  <2>1. StoreKept
    BY <1>1, <1>2, StoreMoves DEF contextVars
  <2> QED
    BY <1>1, <1>2, <2>1, DoneStep
<1>3. ASSUME NEW p \in People, Decide(a, t.fn, p, t.by, t.age), question' = Without(question, t.key),
             UNCHANGED <<offered, person, menus, shown>>
      PROVE  ContextInv'
  <2>1. StoreKept
    BY <1>1, <1>3, StoreMoves
  <2> QED
    BY <1>1, <1>3, <2>1, DecideStep
<1>4. CASE Offer(a, found)
  BY <1>1, <1>4, OfferKeeps
<1> QED
  BY <1>2, <1>3, <1>4 DEF Resolve

LEMMA ExecuteKeeps ==
    ASSUME ContextInv, NEW a \in DOMAIN asking, NEW success \in BOOLEAN, Execute(a, success)
    PROVE  ContextInv'
<1> DEFINE t == asking[a]
<1>1. StoreTypes /\ now \in Nat /\ UNCHANGED <<now, shown>> /\ Done(a)
  BY DEF ContextInv, StoreTypes, Execute
<1>2. PICK e : e = [key |-> t.key, who |-> t.who, at |-> now]
  OBVIOUS
<1>3. t \in Decisive
  BY RequestAsked DEF Execute
<1>4. e \in Latest
  BY <1>1, <1>2, <1>3 DEF Decisive, Latest
<1>5. StoreKept
  <2>1. CASE UNCHANGED contextVars
    BY <1>1, <2>1, StoreMoves DEF contextVars
  <2>2. CASE /\ person' = Remember(person, e)
             /\ offered' = Live(offered) /\ question' = Live(question) /\ menus' = Live(menus)
    BY <1>1, <1>4, <2>2, StoreMoves
  <2> QED
    BY <1>2, <2>1, <2>2 DEF Execute
<1> QED
  BY <1>1, <1>5, DoneStep

LEMMA InitContextInv == ConversationInit => ContextInv
<1> SUFFICES ASSUME ConversationInit PROVE ContextInv
  OBVIOUS
<1>1. ToSet(offered) = {} /\ ToSet(menus) = {} /\ ToSet(asking) = {}
  BY DEF ConversationInit, ToSet
<1>2. StoreTypes
  BY DEF ConversationInit, StoreTypes
<1> QED
  BY <1>1, <1>2 DEF ContextInv

LEMMA NextContextInv == ContextInv /\ [ConversationNext]_conversationVars => ContextInv'
<1> SUFFICES ASSUME ContextInv, [ConversationNext]_conversationVars PROVE ContextInv'
  OBVIOUS
<1>1. ASSUME UNCHANGED <<contextVars, shown, asking>>, now' \in Nat PROVE ContextInv'
  <2>1. /\ offered' = offered /\ question' = question /\ person' = person /\ menus' = menus
        /\ shown' = shown /\ asking' = asking
    BY <1>1 DEF contextVars
  <2> QED
    BY <1>1, <2>1, ContextStep DEF ContextInv, StoreTypes, Request
<1>2. CASE UNCHANGED conversationVars
  BY <1>1, <1>2 DEF conversationVars, ContextInv, StoreTypes
<1>3. CASE Tick
  BY <1>1, <1>3 DEF Tick, ContextInv, StoreTypes
<1>4. ASSUME NEW a \in DOMAIN asking, FailAsk(a) PROVE ContextInv'
  <2>1. StoreKept
    BY <1>4, StoreMoves DEF FailAsk, contextVars, ContextInv
  <2> QED
    BY <1>4, <2>1, DoneStep DEF FailAsk
<1> QED
  BY <1>2, <1>3, <1>4, AskPickKeeps, SelectPersonKeeps, AskKeeps, RoutedKeeps, MentionKeeps, ResolveKeeps,
     ExecuteKeeps DEF ConversationNext

(* ConversationContextStore: whatever other requests of a conversation ask,
   offer and let expire while one waits, a choice carries out what its menu
   offered, and a follow-up stands on something recent; a write never falls
   on the person last read about. *)
THEOREM FollowUpsHonourTheirContext == ConversationSpec => []ContextIsHonoured
<1>1. ASSUME ContextInv PROVE ContextIsHonoured
  <2>1. ASSUME NEW a \in DOMAIN asking PROVE RequestInv(asking[a])
    BY <1>1, RequestAsked
  <2> QED
    BY <2>1 DEF ContextIsHonoured, SelectionResumesItsMenu, FollowUpsAreRecent, RequestInv, Offers
<1> QED
  BY <1>1, InitContextInv, NextContextInv, PTL DEF ConversationSpec
-----------------------------------------------------------------------------
OnePerKey(s) == \A i, j \in DOMAIN s : s[i].key = s[j].key => i = j

Dated(s) == \A e \in ToSet(s) : e.at <= now

LEMMA KeptOnePerKey ==
    ASSUME NEW T, NEW s \in Seq(T), NEW I \in SUBSET DOMAIN s, OnePerKey(s)
    PROVE  OnePerKey(Kept(s, I))
<1> SUFFICES ASSUME NEW i \in DOMAIN Kept(s, I), NEW j \in DOMAIN Kept(s, I),
                    Kept(s, I)[i].key = Kept(s, I)[j].key
             PROVE  i = j
  BY DEF OnePerKey
<1>1. PICK x, y \in I : Kept(s, I)[i] = s[x] /\ Kept(s, I)[j] = s[y] /\ (x = y => i = j)
  BY KeptPlaces
<1> QED
  BY <1>1 DEF OnePerKey

(* A new entry stands last, and no other has its key. *)
LEMMA AppendOnePerKey ==
    ASSUME NEW T, NEW s \in Seq(T), NEW e \in T, OnePerKey(s), \A o \in ToSet(s) : o.key # e.key
    PROVE  OnePerKey(Append(s, e))
<1>1. /\ DOMAIN Append(s, e) = 1..Len(s) + 1 /\ Len(s) \in Nat /\ DOMAIN s = 1..Len(s)
      /\ \A i \in 1..Len(s) : Append(s, e)[i] = s[i]
      /\ Append(s, e)[Len(s) + 1] = e
  OBVIOUS
<1>2. \A i \in 1..Len(s) : s[i].key # e.key
  BY <1>1 DEF ToSet
<1>3. ASSUME NEW i \in 1..Len(s) + 1, NEW j \in 1..Len(s) + 1, Append(s, e)[i].key = Append(s, e)[j].key
      PROVE  i = j
  <2>1. CASE i \in 1..Len(s) /\ j \in 1..Len(s)
    BY <1>1, <1>3, <2>1 DEF OnePerKey
  <2>2. CASE i = Len(s) + 1 \/ j = Len(s) + 1
    BY <1>1, <1>2, <1>3, <2>2
  <2> QED
    BY <1>1, <2>1, <2>2
<1> QED
  BY <1>1, <1>3 DEF OnePerKey

LEMMA BoundedOnePerKey ==
    ASSUME NEW T, NEW s \in Seq(T)
    PROVE  /\ OnePerKey(s) => OnePerKey(Bounded(s))
           /\ Len(Bounded(s)) <= MaxConversations
<1>1. Len(s) \in Nat /\ DOMAIN s = 1..Len(s) /\ MaxConversations \in Nat
  BY ConversationAssumption
<1>2. CASE Len(s) > MaxConversations
  <2> DEFINE m == Len(s) - MaxConversations + 1
             r == SubSeq(s, m, Len(s))
  <2>1. m \in 1..Len(s) + 1 /\ m - 1 + MaxConversations = Len(s)
    BY <1>1, <1>2
  <2>2. /\ Len(r) = MaxConversations /\ DOMAIN r = 1..MaxConversations
        /\ \A i \in 1..MaxConversations : i + m - 1 \in 1..Len(s) /\ r[i] = s[i + m - 1]
    <3>1. m \in Nat /\ Len(s) - m + 1 = MaxConversations /\ m <= Len(s) + 1
      BY <1>1, <2>1
    <3> HIDE DEF m
    <3>2. Len(r) = MaxConversations /\ DOMAIN r = 1..MaxConversations
      BY <1>1, <2>1, <3>1
    <3>3. ASSUME NEW i \in 1..MaxConversations PROVE i + m - 1 \in 1..Len(s) /\ r[i] = s[i + m - 1]
      <4>1. i + m - 1 \in 1..Len(s) /\ i \in 1..Len(s) - m + 1 /\ m + i - 1 = i + m - 1
        BY <1>1, <2>1, <3>1
      <4> QED
        BY <1>1, <3>1, <4>1
    <3> QED
      BY <3>2, <3>3
  <2>3. Bounded(s) = r
    BY <1>2 DEF Bounded
  <2> HIDE DEF r, m
  <2>4. ASSUME OnePerKey(s), NEW i \in 1..MaxConversations, NEW j \in 1..MaxConversations, r[i].key = r[j].key
        PROVE  i = j
    <3>1. i + m - 1 = j + m - 1
      BY <1>1, <2>2, <2>4 DEF OnePerKey
    <3> QED
      BY <1>1, <2>1, <3>1
  <2> QED
    BY <1>1, <2>2, <2>3, <2>4 DEF OnePerKey
<1>3. CASE ~(Len(s) > MaxConversations)
  BY <1>1, <1>3 DEF Bounded
<1> QED
  BY <1>2, <1>3

LEMMA LiveOnePerKey ==
    ASSUME NEW T, NEW s \in Seq(T)
    PROVE  /\ OnePerKey(s) => OnePerKey(Live(s))
           /\ Len(Live(s)) <= Len(s)
<1> DEFINE I == {i \in DOMAIN s : now < s[i].at + Ttl}
<1>1. I \in SUBSET DOMAIN s /\ Live(s) = Kept(s, I)
  BY DEF Live
<1> HIDE DEF I
<1> QED
  BY <1>1, KeptPlaces, KeptOnePerKey

LEMMA WithoutOnePerKey ==
    ASSUME NEW T, NEW s \in Seq(T), NEW k, OnePerKey(s)
    PROVE  OnePerKey(Without(s, k))
<1> DEFINE I == {i \in DOMAIN s : s[i].key # k}
<1>1. I \in SUBSET DOMAIN s /\ Without(s, k) = Kept(s, I)
  BY DEF Without
<1> HIDE DEF I
<1> QED
  BY <1>1, KeptOnePerKey

LEMMA TouchOnePerKey ==
    ASSUME NEW T, NEW s \in Seq(T), NEW e \in ToSet(Live(s))
    PROVE  /\ OnePerKey(s) => OnePerKey(Touch(s, e))
           /\ Len(Touch(s, e)) <= Len(s)
<1> DEFINE l == Live(s)
           I == {i \in DOMAIN l : l[i] # e}
<1>1. /\ l \in Seq(T) /\ Len(l) <= Len(s) /\ Len(l) \in Nat /\ Len(s) \in Nat
      /\ OnePerKey(s) => OnePerKey(l)
  BY LiveElements, LiveOnePerKey
<1>2. PICK x \in DOMAIN l : l[x] = e
  BY DEF ToSet
<1>3. I \in SUBSET DOMAIN l /\ x \notin I /\ Touch(s, e) = Append(Kept(l, I), e) /\ e \in T
      /\ \A i \in I : l[i] # e
  BY <1>1, <1>2 DEF Touch
<1> HIDE DEF l, I
<1>4. Kept(l, I) \in Seq(T) /\ Len(Kept(l, I)) \in Nat /\ ToSet(Kept(l, I)) = {l[i] : i \in I}
  BY <1>1, <1>3, KeptElements
<1>5. Len(Kept(l, I)) < Len(l)
  BY <1>1, <1>2, <1>3, KeptPlaces
<1>6. Len(Touch(s, e)) <= Len(s)
  BY <1>1, <1>3, <1>4, <1>5
<1>7. ASSUME OnePerKey(s) PROVE OnePerKey(Touch(s, e))
  <2>1. \A o \in ToSet(Kept(l, I)) : o.key # e.key
    BY <1>1, <1>2, <1>3, <1>4, <1>7 DEF OnePerKey
  <2>2. OnePerKey(Kept(l, I))
    BY <1>1, <1>3, <1>7, KeptOnePerKey
  <2> QED
    BY <1>3, <1>4, <2>1, <2>2, AppendOnePerKey
<1> QED
  BY <1>6, <1>7

LEMMA PutOnePerKey ==
    ASSUME NEW T, NEW s \in Seq(T), NEW e \in T, OnePerKey(s)
    PROVE  OnePerKey(Put(s, e)) /\ OnePerKey(Remember(s, e)) /\ Put(s, e) \in Seq(T)
<1>1. Live(s) \in Seq(T) /\ OnePerKey(Live(s))
  BY LiveElements, LiveOnePerKey
<1>2. /\ Without(Live(s), e.key) \in Seq(T) /\ OnePerKey(Without(Live(s), e.key))
      /\ \A o \in ToSet(Without(Live(s), e.key)) : o.key # e.key
  BY <1>1, WithoutElements, WithoutOnePerKey
<1>3. OnePerKey(Put(s, e))
  BY <1>2, AppendOnePerKey DEF Put
<1>4. Put(s, e) \in Seq(T)
  BY PutElements
<1> QED
  BY <1>3, <1>4, BoundedOnePerKey DEF Remember

(* What an operation may make of one list of the store. *)
ListStep(T, s, r) ==
    \/ r = s \/ r = Live(s)
    \/ \E e \in ToSet(Live(s)) : r = Touch(s, e)
    \/ \E k : r = Without(s, k)
    \/ \E e \in T : e.at <= now /\ r \in {Put(s, e), Remember(s, e)}

LEMMA ListKeeps ==
    ASSUME NEW T, NEW s \in Seq(T), NEW r, ListStep(T, s, r), OnePerKey(s), Dated(s)
    PROVE  OnePerKey(r) /\ Dated(r)
<1>1. CASE r = s \/ r = Live(s)
  BY <1>1, LiveElements, LiveOnePerKey DEF Dated
<1>2. ASSUME NEW e \in ToSet(Live(s)), r = Touch(s, e) PROVE OnePerKey(r) /\ Dated(r)
  <2>1. e \in ToSet(s)
    BY LiveElements
  <2> QED
    BY <1>2, <2>1, TouchElements, TouchOnePerKey DEF Dated
<1>3. ASSUME NEW k, r = Without(s, k) PROVE OnePerKey(r) /\ Dated(r)
  BY <1>3, WithoutElements, WithoutOnePerKey DEF Dated
<1>4. ASSUME NEW e \in T, e.at <= now, r \in {Put(s, e), Remember(s, e)} PROVE OnePerKey(r) /\ Dated(r)
  <2>1. OnePerKey(r)
    BY <1>4, PutOnePerKey
  <2>2. ToSet(r) \in SUBSET (ToSet(s) \cup {e})
    BY <1>4, PutElements, RememberElements
  <2> QED
    BY <1>4, <2>1, <2>2 DEF Dated
<1> QED
  BY <1>1, <1>2, <1>3, <1>4 DEF ListStep

(* One list per conversation and kind, no more menus and requests than
   allowed, and nothing of the future. *)
BoundsInv ==
    /\ now <= MaxNow /\ said \in 0..Said
    /\ OnePerKey(offered) /\ OnePerKey(question) /\ OnePerKey(person)
    /\ Dated(offered) /\ Dated(question) /\ Dated(person) /\ Dated(menus)
    /\ Len(menus) <= MaxConversations /\ Len(asking) <= AtOnce

MenusStep ==
    \/ menus' = menus \/ menus' = Live(menus)
    \/ \E e \in ToSet(Live(menus)) : menus' = Touch(menus, e)
    \/ \E e \in Snapshot : e.at <= now /\ menus' = Bounded(Append(Live(menus), e))

LEMMA MenusKeep ==
    ASSUME StoreTypes, BoundsInv, MenusStep
    PROVE  Len(menus') <= MaxConversations /\ Dated(menus')
<1>1. menus \in Seq(Snapshot) /\ Dated(menus) /\ Len(menus) <= MaxConversations /\ Len(menus) \in Nat
      /\ MaxConversations \in Nat
  BY ConversationAssumption DEF StoreTypes, BoundsInv
<1>2. /\ Live(menus) \in Seq(Snapshot) /\ ToSet(Live(menus)) \in SUBSET ToSet(menus)
      /\ Len(Live(menus)) <= Len(menus) /\ Len(Live(menus)) \in Nat
  BY <1>1, LiveElements, LiveOnePerKey
<1>3. CASE menus' = menus \/ menus' = Live(menus)
  BY <1>1, <1>2, <1>3 DEF Dated
<1>4. ASSUME NEW e \in ToSet(Live(menus)), menus' = Touch(menus, e)
      PROVE  Len(menus') <= MaxConversations /\ Dated(menus')
  <2>1. e \in ToSet(menus)
    BY <1>2
  <2>2. Touch(menus, e) \in Seq(Snapshot) /\ ToSet(Touch(menus, e)) \in SUBSET ToSet(menus)
    BY <1>1, <2>1, TouchElements
  <2>3. Len(Touch(menus, e)) <= Len(menus)
    BY <1>1, TouchOnePerKey
  <2>4. Len(Touch(menus, e)) \in Nat
    BY <2>2
  <2> QED
    BY <1>1, <1>4, <2>2, <2>3, <2>4 DEF Dated
<1>5. ASSUME NEW e \in Snapshot, e.at <= now, menus' = Bounded(Append(Live(menus), e))
      PROVE  Len(menus') <= MaxConversations /\ Dated(menus')
  <2>1. /\ Append(Live(menus), e) \in Seq(Snapshot)
        /\ ToSet(Append(Live(menus), e)) = ToSet(Live(menus)) \cup {e}
    BY <1>2, AppendElements
  <2>2. Len(menus') <= MaxConversations /\ ToSet(menus') \in SUBSET ToSet(Append(Live(menus), e))
    BY <1>5, <2>1, BoundedElements, BoundedOnePerKey
  <2> QED
    BY <1>1, <1>2, <1>5, <2>1, <2>2 DEF Dated
<1> QED
  BY <1>3, <1>4, <1>5 DEF MenusStep

LEMMA BoundsStep ==
    ASSUME StoreTypes, BoundsInv, now' = now, said' \in 0..Said, Len(asking') <= AtOnce,
           ListStep(Menu, offered, offered'), ListStep(Question, question, question'),
           ListStep(Latest, person, person'), MenusStep
    PROVE  BoundsInv'
<1>1. OnePerKey(offered') /\ OnePerKey(question') /\ OnePerKey(person')
      /\ Dated(offered') /\ Dated(question') /\ Dated(person')
  BY ListKeeps DEF StoreTypes, BoundsInv
<1>2. Len(menus') <= MaxConversations /\ Dated(menus')
  BY MenusKeep
<1>3. Dated(offered)' /\ Dated(question)' /\ Dated(person)' /\ Dated(menus)'
  BY <1>1, <1>2 DEF Dated, ToSet
<1>4. OnePerKey(offered)' /\ OnePerKey(question)' /\ OnePerKey(person)'
  BY <1>1 DEF OnePerKey
<1> QED
  BY <1>2, <1>3, <1>4 DEF BoundsInv

(* How many requests are in ask. *)
LEMMA AskingLength ==
    ASSUME StoreTypes, BoundsInv
    PROVE  /\ \A t \in Request : Enter(t) => said' \in 0..Said /\ Len(asking') <= AtOnce
           /\ \A a \in DOMAIN asking : Done(a) => Len(asking') <= AtOnce
           /\ \A a \in DOMAIN asking : \A t : asking' = [asking EXCEPT ![a] = t] => Len(asking') <= AtOnce
           /\ asking' = asking => Len(asking') <= AtOnce
<1>1. /\ asking \in Seq(Request) /\ Len(asking) \in Nat /\ Len(asking) <= AtOnce /\ {AtOnce, Said} \subseteq Nat
      /\ said \in 0..Said /\ DOMAIN asking = 1..Len(asking)
  BY ConversationAssumption DEF StoreTypes, Request, BoundsInv
<1>2. ASSUME NEW t \in Request, Enter(t) PROVE said' \in 0..Said /\ Len(asking') <= AtOnce
  <2>1. /\ said < Said /\ Len(asking) < AtOnce /\ said' = said + 1
        /\ Len(asking') = Len(asking) + 1
    BY <1>1, <1>2 DEF Enter
  <2> QED
    BY <1>1, <2>1
<1>3. ASSUME NEW a \in DOMAIN asking, Done(a) PROVE Len(asking') <= AtOnce
  <2> DEFINE s == SubSeq(asking, 1, a - 1)
             t == SubSeq(asking, a + 1, Len(asking))
  <2>1. s \in Seq(Request) /\ Len(s) = a - 1 /\ t \in Seq(Request) /\ Len(t) = Len(asking) - a
        /\ a \in 1..Len(asking)
    BY <1>1
  <2>2. asking' = s \o t
    BY <1>3 DEF Done
  <2> HIDE DEF s, t
  <2>3. Len(asking') = Len(s) + Len(t)
    <3>1. ASSUME NEW S, NEW x \in Seq(S), NEW y \in Seq(S) PROVE Len(x \o y) = Len(x) + Len(y)
      OBVIOUS
    <3> QED
      BY ONLY <2>1, <2>2, <3>1
  <2> QED
    BY <1>1, <2>1, <2>3
<1>4. ASSUME NEW a \in DOMAIN asking, NEW t, asking' = [asking EXCEPT ![a] = t] PROVE Len(asking') <= AtOnce
  BY <1>1, <1>4
<1> QED
  BY <1>1, <1>2, <1>3, <1>4

LEMMA OfLive ==
    ASSUME NEW T, NEW s \in Seq(T), NEW k, NEW e \in Of(s, k)
    PROVE  e \in ToSet(Live(s)) /\ e \in ToSet(s) /\ e \in T /\ e.key = k
  BY OfElements

LEMMA NextBoundsInv == ContextInv /\ BoundsInv /\ [ConversationNext]_conversationVars => BoundsInv'
<1> SUFFICES ASSUME ContextInv, BoundsInv, [ConversationNext]_conversationVars PROVE BoundsInv'
  OBVIOUS
<1>1. /\ StoreTypes /\ now \in Nat /\ MaxNow \in Nat /\ Ttl \in Nat
      /\ offered \in Seq(Menu) /\ question \in Seq(Question) /\ person \in Seq(Latest) /\ menus \in Seq(Snapshot)
      /\ said \in 0..Said
  BY ConversationAssumption DEF ContextInv, StoreTypes, BoundsInv
<1>2. UNCHANGED offered => ListStep(Menu, offered, offered')
  BY DEF ListStep
<1>3. UNCHANGED question => ListStep(Question, question, question')
  BY DEF ListStep
<1>4. UNCHANGED person => ListStep(Latest, person, person')
  BY DEF ListStep
<1>5. UNCHANGED menus => MenusStep
  BY DEF MenusStep
<1>6. CASE UNCHANGED conversationVars
  BY <1>6 DEF conversationVars, contextVars, BoundsInv, OnePerKey, Dated, ToSet
<1>7. CASE Tick
  <2>1. /\ now' = now + 1 /\ now < MaxNow /\ UNCHANGED <<offered, question, person, menus, asking, said>>
    BY <1>7 DEF Tick, contextVars
  <2>2. ASSUME NEW T \in {Menu, Question, Latest, Snapshot}, NEW s \in Seq(T), Dated(s)
        PROVE  \A e \in ToSet(s) : e.at <= now + 1
    <3>1. ASSUME NEW e \in ToSet(s) PROVE e.at \in Nat
      <4>1. e \in T
        BY DEF ToSet
      <4>2. CASE T = Menu
        BY <4>1, <4>2 DEF Menu
      <4>3. CASE T = Question
        BY <4>1, <4>3 DEF Question
      <4>4. CASE T = Latest
        BY <4>1, <4>4 DEF Latest
      <4>5. CASE T = Snapshot
        BY <4>1, <4>5 DEF Snapshot
      <4> QED
        BY <4>2, <4>3, <4>4, <4>5
    <3> QED
      BY <1>1, <2>2, <3>1 DEF Dated
  <2>3. Dated(offered)' /\ Dated(question)' /\ Dated(person)' /\ Dated(menus)'
    <3>1. /\ \A e \in ToSet(offered) : e.at <= now + 1
          /\ \A e \in ToSet(question) : e.at <= now + 1
          /\ \A e \in ToSet(person) : e.at <= now + 1
          /\ \A e \in ToSet(menus) : e.at <= now + 1
      BY <1>1, <2>2 DEF BoundsInv
    <3> QED
      BY <2>1, <3>1 DEF Dated, ToSet
  <2> QED
    BY <1>1, <2>1, <2>3 DEF BoundsInv, OnePerKey
<1>8. ASSUME NEW k \in Conversations, NEW p \in People, AskPick(k, p) PROVE BoundsInv'
  <2>1. PICK e \in Of(offered, k) : /\ p \in e.who /\ offered' = Touch(offered, e)
                                    /\ Enter(Decided(k, e.fn, p, "pick", 0, now - e.at))
    BY <1>8 DEF AskPick
  <2>2. e \in ToSet(Live(offered)) /\ e \in Menu
    BY <1>1, OfLive
  <2>3. PICK t : t = Decided(k, e.fn, p, "pick", 0, now - e.at)
    OBVIOUS
  <2>4. t \in Request
    BY <1>1, <2>2, <2>3, DecidedTyped DEF Menu
  <2>5. said' \in 0..Said /\ Len(asking') <= AtOnce
    BY <1>1, <2>1, <2>3, <2>4, AskingLength
  <2>6. ListStep(Menu, offered, offered') /\ ListStep(Question, question, question')
        /\ ListStep(Latest, person, person') /\ MenusStep /\ now' = now
    BY <1>8, <2>1, <2>2 DEF AskPick, ListStep, MenusStep
  <2> QED
    BY <1>1, <2>5, <2>6, BoundsStep
<1>9. ASSUME NEW m \in DOMAIN shown, NEW p \in People, SelectPerson(m, p) PROVE BoundsInv'
  <2> DEFINE k == shown[m].key
             snapshot == {e \in ToSet(Live(menus)) : e.menu = m /\ e.key = k /\ p \in e.who}
  <2>1. /\ said < Said /\ question' = Live(question) /\ person' = Live(person) /\ now' = now
        /\ ListStep(Question, question, question') /\ ListStep(Latest, person, person')
    BY <1>9 DEF SelectPerson, ListStep
  <2>2. k \in Conversations
    <3>1. shown[m] \in Menu
      BY <1>1 DEF StoreTypes
    <3> QED
      BY <3>1 DEF Menu
  <2>3. CASE snapshot = {}
    <3>1. offered' = Live(offered) /\ menus' = Live(menus) /\ said' = said + 1 /\ asking' = asking
      BY <1>9, <2>3 DEF SelectPerson
    <3>2. said' \in 0..Said /\ Len(asking') <= AtOnce
      BY <1>1, <2>1, <3>1, ConversationAssumption DEF BoundsInv
    <3>3. ListStep(Menu, offered, offered') /\ MenusStep
      BY <3>1 DEF ListStep, MenusStep
    <3> QED
      BY <1>1, <2>1, <3>2, <3>3, BoundsStep
  <2>4. CASE snapshot # {}
    <3>1. PICK e \in snapshot :
            /\ menus' = Touch(menus, e)
            /\ offered' = Activated(e)
            /\ \E o \in ToSet(offered') :
                 o.key = k /\ p \in o.who /\ Enter(Decided(k, o.fn, p, "menu", m, now - o.at))
      BY <1>9, <2>4 DEF SelectPerson
    <3>2. e \in ToSet(Live(menus)) /\ e \in ToSet(menus) /\ e \in Snapshot
      <4>1. e \in ToSet(Live(menus))
        OBVIOUS
      <4>2. e \in ToSet(menus)
        BY <1>1, <4>1, LiveElements
      <4> QED
        BY <1>1, <4>1, <4>2 DEF ToSet
    <3>3. PICK f : f = [key |-> e.key, who |-> e.who, fn |-> e.fn, at |-> e.at]
      OBVIOUS
    <3>4. f \in Menu /\ f.at <= now
      BY <3>2, <3>3 DEF Menu, Snapshot, BoundsInv, Dated
    <3>5. offered' = Put(offered, f)
      BY <3>1, <3>3 DEF Activated
    <3>6. ListStep(Menu, offered, offered') /\ MenusStep
      BY <3>1, <3>2, <3>4, <3>5 DEF ListStep, MenusStep
    <3>7. PICK o \in ToSet(offered') : Enter(Decided(k, o.fn, p, "menu", m, now - o.at))
      BY <3>1
    <3>8. o \in Menu
      BY <1>1, <3>4, <3>5, PutElements DEF ToSet
    <3>9. PICK t : t = Decided(k, o.fn, p, "menu", m, now - o.at)
      OBVIOUS
    <3>10. m \in Nat
      BY <1>1 DEF StoreTypes
    <3>11. t \in Request
      <4>1. o.fn \in HrFunctions /\ now - o.at \in Int
        BY <1>1, <3>8 DEF Menu
      <4> HIDE DEF k
      <4> QED
        BY <2>2, <3>9, <3>10, <4>1, DecidedTyped
    <3>12. said' \in 0..Said /\ Len(asking') <= AtOnce
      BY <1>1, <3>7, <3>9, <3>11, AskingLength
    <3> QED
      BY <1>1, <2>1, <3>6, <3>12, BoundsStep
  <2> QED
    BY <2>3, <2>4
<1>10. ASSUME NEW k \in Conversations, NEW bare \in BOOLEAN, NEW fn \in HrFunctions,
              NEW target \in {"id", "name", "none"}, Ask(k, bare, fn, target)
       PROVE  BoundsInv'
  <2> DEFINE asked == IF bare THEN Of(question, k) ELSE {}
             list == IF bare THEN Of(offered, k) ELSE {}
  <2>1. /\ \/ \E q \in asked : question' = Touch(question, q)
           \/ question' = Live(question)
        /\ offered' = (IF list = {} THEN Live(offered) ELSE Touch(offered, CHOOSE e \in list : TRUE))
        /\ person' = Live(person) /\ menus' = Live(menus) /\ now' = now
    BY <1>10 DEF Ask
  <2>2. said' \in 0..Said /\ Len(asking') <= AtOnce
    <3>1. \E t : Enter(t)
      BY <1>10 DEF Ask
    <3>2. said < Said /\ Len(asking) < AtOnce /\ said' = said + 1
      BY <3>1 DEF Enter
    <3>3. Len(asking') = Len(asking) + 1
      BY <1>1, <3>1 DEF Enter, StoreTypes
    <3> QED
      BY <1>1, <3>2, <3>3, ConversationAssumption DEF StoreTypes
  <2>3. \A e \in list : e \in ToSet(Live(offered))
    BY <1>1, OfLive
  <2>4. \A q \in asked : q \in ToSet(Live(question))
    BY <1>1, OfLive
  <2>5. ListStep(Menu, offered, offered')
    BY <2>1, <2>3 DEF ListStep
  <2> HIDE DEF asked, list
  <2>6. ListStep(Question, question, question') /\ ListStep(Latest, person, person') /\ MenusStep
    BY <2>1, <2>4 DEF ListStep, MenusStep
  <2> QED
    BY <1>1, <2>1, <2>2, <2>5, <2>6, BoundsStep
<1>11. ASSUME NEW a \in DOMAIN asking, said' = said, Len(asking') <= AtOnce, now' = now, UNCHANGED contextVars
       PROVE  BoundsInv'
  BY <1>1, <1>2, <1>3, <1>4, <1>5, <1>11, BoundsStep DEF contextVars
<1>12. ASSUME NEW a \in DOMAIN asking, Routed(a) PROVE BoundsInv'
  <2> DEFINE t == asking[a]
             recent == IF FollowsUp(t.fn) THEN Of(person, t.key) ELSE {}
  <2>1. now' = now /\ said' = said /\ \E t1 : asking' = [asking EXCEPT ![a] = t1]
    BY <1>12 DEF Routed, Decide
  <2>2. Len(asking') <= AtOnce
    BY <1>1, <2>1, AskingLength
  <2>3. CASE UNCHANGED contextVars
    BY <1>11, <2>1, <2>2, <2>3
  <2>4. ASSUME NEW e \in recent, person' = Touch(person, e), offered' = Live(offered),
               question' = Live(question), menus' = Live(menus)
        PROVE  BoundsInv'
    <3>1. e \in ToSet(Live(person))
      BY <1>1, OfLive
    <3>2. /\ ListStep(Menu, offered, offered') /\ ListStep(Question, question, question')
          /\ ListStep(Latest, person, person') /\ MenusStep
      BY <2>4, <3>1 DEF ListStep, MenusStep
    <3> QED
      BY <1>1, <2>1, <2>2, <3>2, BoundsStep
  <2> QED
    BY <1>12, <2>3, <2>4 DEF Routed
<1>13. ASSUME NEW a \in DOMAIN asking, Mention(a) PROVE BoundsInv'
  <2> DEFINE t == asking[a]
  <2>1. t.key \in Conversations /\ t.fn \in HrFunctions
    BY RequestAsked
  <2>2. now' = now /\ said' = said /\ Len(asking') <= AtOnce
    BY <1>1, <1>13, AskingLength DEF Mention, Decide
  <2>3. CASE UNCHANGED contextVars
    BY <1>11, <2>2, <2>3
  <2>4. CASE question' = Remember(question, Entry(t.key, t.fn)) /\ offered' = Live(offered)
             /\ person' = Live(person) /\ menus' = Live(menus)
    <3>1. Entry(t.key, t.fn) \in Question /\ Entry(t.key, t.fn).at <= now
      BY <1>1, <2>1 DEF Entry, Question
    <3>2. /\ ListStep(Menu, offered, offered') /\ ListStep(Question, question, question')
          /\ ListStep(Latest, person, person') /\ MenusStep
      BY <2>4, <3>1 DEF ListStep, MenusStep
    <3> QED
      BY <1>1, <2>2, <3>2, BoundsStep
  <2> QED
    BY <1>13, <2>3, <2>4 DEF Mention
<1>14. ASSUME NEW a \in DOMAIN asking, NEW found \in SUBSET People, Resolve(a, found) PROVE BoundsInv'
  <2> DEFINE t == asking[a]
  <2>1. t.key \in Conversations /\ t.fn \in HrFunctions
    BY RequestAsked
  <2>2. now' = now /\ said' = said /\ Len(asking') <= AtOnce
    BY <1>1, <1>14, AskingLength DEF Resolve, Decide, Offer
  <2>3. CASE UNCHANGED contextVars
    BY <1>11, <2>2, <2>3
  <2>4. CASE question' = Without(question, t.key) /\ UNCHANGED <<offered, person, menus>>
    <3>1. ListStep(Question, question, question')
      BY <2>4 DEF ListStep
    <3> QED
      BY <1>1, <1>2, <1>4, <1>5, <2>2, <2>4, <3>1, BoundsStep
  <2>5. CASE Offer(a, found)
    <3>1. PICK menu : menu = [key |-> t.key, who |-> found, fn |-> t.fn, at |-> now]
      OBVIOUS
    <3>2. PICK snap : snap = [key |-> t.key, who |-> found, fn |-> t.fn, at |-> now, menu |-> Len(shown) + 1]
      OBVIOUS
    <3>3. /\ offered' = Remember(offered, menu) /\ menus' = Bounded(Append(Live(menus), snap))
          /\ question' = Remember(question, Entry(t.key, t.fn)) /\ person' = Live(person)
      BY <2>5, <3>1, <3>2 DEF Offer
    <3>4. /\ menu \in Menu /\ menu.at <= now /\ snap \in Snapshot /\ snap.at <= now
          /\ Entry(t.key, t.fn) \in Question /\ Entry(t.key, t.fn).at <= now
      <4>1. Len(shown) + 1 \in Nat
        BY <1>1 DEF StoreTypes
      <4> QED
        BY <1>1, <2>1, <3>1, <3>2, <4>1 DEF Menu, Snapshot, Question, Entry
    <3>5. /\ ListStep(Menu, offered, offered') /\ ListStep(Question, question, question')
          /\ ListStep(Latest, person, person') /\ MenusStep
      BY <3>3, <3>4 DEF ListStep, MenusStep
    <3> QED
      BY <1>1, <2>2, <3>5, BoundsStep
  <2> QED
    BY <1>14, <2>3, <2>4, <2>5 DEF Resolve
<1>15. ASSUME NEW a \in DOMAIN asking, NEW success \in BOOLEAN, Execute(a, success) PROVE BoundsInv'
  <2> DEFINE t == asking[a]
  <2>1. now' = now /\ said' = said /\ Len(asking') <= AtOnce
    BY <1>1, <1>15, AskingLength DEF Execute
  <2>2. CASE UNCHANGED contextVars
    BY <1>11, <2>1, <2>2
  <2>3. CASE /\ person' = Remember(person, [key |-> t.key, who |-> t.who, at |-> now])
             /\ offered' = Live(offered) /\ question' = Live(question) /\ menus' = Live(menus)
    <3>1. PICK e : e = [key |-> t.key, who |-> t.who, at |-> now]
      OBVIOUS
    <3>2. t \in Decisive
      BY <1>15, RequestAsked DEF Execute
    <3>3. e \in Latest /\ e.at <= now
      BY <1>1, <3>1, <3>2 DEF Decisive, Latest
    <3>4. /\ ListStep(Menu, offered, offered') /\ ListStep(Question, question, question')
          /\ ListStep(Latest, person, person') /\ MenusStep
      BY <2>3, <3>1, <3>3 DEF ListStep, MenusStep
    <3> QED
      BY <1>1, <2>1, <3>4, BoundsStep
  <2> QED
    BY <1>15, <2>2, <2>3 DEF Execute
<1>16. ASSUME NEW a \in DOMAIN asking, FailAsk(a) PROVE BoundsInv'
  <2>1. now' = now /\ said' = said /\ Len(asking') <= AtOnce
    BY <1>1, <1>16, AskingLength DEF FailAsk
  <2> QED
    BY <1>11, <1>16, <2>1 DEF FailAsk
<1> QED
  BY <1>6, <1>7, <1>8, <1>9, <1>10, <1>12, <1>13, <1>14, <1>15, <1>16 DEF ConversationNext

LEMMA InitBoundsInv == ConversationInit => BoundsInv
  BY ConversationAssumption DEF ConversationInit, BoundsInv, OnePerKey, Dated, ToSet

LEMMA ConversationTyped == ContextInv /\ BoundsInv => ConversationTypeOK
<1> SUFFICES ASSUME ContextInv, BoundsInv PROVE ConversationTypeOK
  OBVIOUS
<1>1. /\ now \in 0..MaxNow /\ now \in Nat
      /\ offered \in Seq(Menu) /\ question \in Seq(Question) /\ person \in Seq(Latest) /\ menus \in Seq(Snapshot)
      /\ asking \in Seq(Request)
  BY ConversationAssumption DEF ContextInv, StoreTypes, BoundsInv, Request
<1>2. ASSUME NEW T \in {Menu, Question, Latest, Snapshot}, NEW s \in Seq(T), Dated(s), NEW e \in ToSet(s)
      PROVE  e.key \in Conversations /\ e.at \in 0..now
  <2>1. e \in T
    BY DEF ToSet
  <2>2. e.key \in Conversations /\ e.at \in Nat
    <3>1. CASE T = Menu
      BY <2>1, <3>1 DEF Menu
    <3>2. CASE T = Question
      BY <2>1, <3>2 DEF Question
    <3>3. CASE T = Latest
      BY <2>1, <3>3 DEF Latest
    <3>4. CASE T = Snapshot
      BY <2>1, <3>4 DEF Snapshot
    <3> QED
      BY <3>1, <3>2, <3>3, <3>4
  <2> QED
    BY <1>1, <1>2, <2>2 DEF Dated
<1>3. \A s \in {offered, question, person, menus} : \A e \in ToSet(s) :
         e.key \in Conversations /\ e.at \in 0..now
  BY <1>1, <1>2 DEF BoundsInv
<1>4. \A s \in {offered, question, person} : \A i, j \in DOMAIN s : s[i].key = s[j].key => i = j
  BY DEF BoundsInv, OnePerKey
<1>5. \A a \in DOMAIN asking : asking[a].pc \in {"routed", "mention", "roster", "execute"}
  <2>1. ASSUME NEW a \in DOMAIN asking PROVE asking[a].pc \in {"routed", "mention", "roster", "execute"}
    <3>1. asking[a] \in Open \/ asking[a] \in Decisive
      BY <1>1 DEF Request
    <3> QED
      BY <3>1 DEF Open, Decisive
  <2> QED
    BY <2>1
<1> QED
  BY <1>1, <1>3, <1>4, <1>5 DEF BoundsInv, ConversationTypeOK
=============================================================================
