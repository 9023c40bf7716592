---------------------------- MODULE ReplyAudience ----------------------------
(***************************************************************************)
(* Who sees an answer on Discord (BHCommandGroup._send and the components  *)
(* in discord/commands.py and discord/views.py; _reply_with_result in      *)
(* discord/bot.py).  A request comes as a slash command, from a control of *)
(* an earlier answer (the menu of people, the onboarding form, the         *)
(* approval buttons), or as a message in the HR channel or a direct        *)
(* message.  Its result is an aggregate for everybody or sensitive.        *)
(*                                                                         *)
(* Of Discord (external): the first follow-up of an interaction takes the  *)
(* place of the deferred answer and its audience, whatever it asks for;    *)
(* later ones have their own.  Any call to Discord may fail.               *)
(*                                                                         *)
(* Data: an answer is its kind and its audience; a notice is a fixed text. *)
(***************************************************************************)
EXTENDS Naturals

CONSTANT Talks    \* requests that are looked at

ASSUME TalksAssumption == Talks \in Nat

VARIABLES
    settings,  \* publish: sensitive answers to the channel; byDm: else by direct message
    talk,      \* the request being served
    posts,     \* what was posted: kind, audience, and where the request came from
    controls,  \* controls under posted answers: kind, audience of the answer
    talks      \* requests to come

audienceVars == <<settings, talk, posts, controls, talks>>

Components == {"menu", "form", "approval"}
Interactions == {"slash"} \cup Components
Messaged == {"channel", "dm"}
Audiences == {"private", "public"}

NoTalk == [pc |-> "idle", origin |-> "none", source |-> "none", answer |-> "none",
           what |-> "none", control |-> "none", parts |-> FALSE]

AudienceInit(asked) ==
    /\ settings \in IF asked THEN [publish : BOOLEAN, byDm : BOOLEAN] ELSE {[publish |-> FALSE, byDm |-> FALSE]}
    /\ talk = NoTalk /\ posts = {} /\ controls = {}
    /\ talks = IF asked THEN Talks ELSE 0
-----------------------------------------------------------------------------
Post(what, audience) == [what |-> what, seen |-> audience, origin |-> talk.origin, source |-> talk.source]

(* The audience of the next follow-up; "answer" is the deferral that waits
   for one. *)
FollowUp(ephemeral) ==
    IF talk.answer # "none" THEN talk.answer ELSE IF ephemeral THEN "private" ELSE "public"

FromSetting == settings.publish    \* fault: where the button was is not looked at

(* _component_may_publish *)
ComponentMayPublish == settings.publish /\ talk.source = "public"

(* The audience of a reply to a message: its channel's. *)
Around == IF talk.origin = "channel" THEN "public" ELSE "private"

(* publish_sensitive, as the callers of _send pass it. *)
MayPublish ==
    CASE talk.origin = "menu"     -> settings.publish
      [] talk.origin = "approval" -> ComponentMayPublish
      [] OTHER                    -> FALSE

(* A slash command, a message, or a click on a control that was posted; a
   restart restores the approval buttons only, the others time out. *)
StartTalk(origin, source) ==
    /\ talk.pc = "idle" /\ talks > 0
    /\ IF origin \in Components THEN [kind |-> origin, seen |-> source] \in controls ELSE source = "none"
    /\ talks' = talks - 1
    /\ talk' = [NoTalk EXCEPT !.pc = "start", !.origin = origin, !.source = source]
    /\ UNCHANGED <<settings, posts, controls>>

RestartBot ==
    /\ talk.pc = "idle"
    /\ controls' = {c \in controls : c.kind = "approval"}
    /\ UNCHANGED <<settings, talk, posts, talks>>

EndTalk == talk' = NoTalk

(* DiscordAccessDenied, the rate limit, a menu that is somebody else's. *)
RefuseTalk ==
    /\ talk.pc = "start" /\ EndTalk
    /\ posts' = posts \cup {Post("notice", Around)}
    /\ UNCHANGED <<settings, controls, talks>>

(* The deferral, before anything is known of the result. *)
Defer ==
    /\ talk.pc = "start"
    /\ talk' = [talk EXCEPT !.pc = "operate",
                            !.answer = IF talk.origin \in Messaged THEN "none"
                                       ELSE IF MayPublish THEN "public" ELSE "private"]
    /\ UNCHANGED <<settings, posts, controls, talks>>

(* The coordinator's result: an aggregate carries no control. *)
Operation(what, control, parts) ==
    /\ talk.pc = "operate"
    /\ what = "aggregate" => control = "none"
    /\ talk' = [talk EXCEPT !.pc = IF talk.origin \in Messaged THEN "reply" ELSE "edit",
                            !.what = what, !.control = control, !.parts = parts]
    /\ UNCHANGED <<settings, posts, controls, talks>>

(* The except branches: a notice for the requester. *)
FailTalk ==
    /\ talk.pc \in {"operate", "edit", "send", "parts", "reply"} /\ EndTalk
    /\ posts' = posts \cup {Post("notice", IF talk.origin \in Messaged THEN Around ELSE FollowUp(TRUE))}
    /\ UNCHANGED <<settings, controls, talks>>

NeverEdits == FALSE    \* fault: the aggregate answers the private deferral

EditsFirst == talk.what = "aggregate" /\ talk.answer = "private"

(* An aggregate may not take the place of a private deferral: that one gets a
   notice of its own. *)
CompleteDeferral ==
    /\ talk.pc = "edit"
    /\ IF EditsFirst
       THEN /\ posts' = posts \cup {Post("notice", "private")}
            /\ talk' = [talk EXCEPT !.pc = "send", !.answer = "none"]
       ELSE talk' = [talk EXCEPT !.pc = "send"] /\ UNCHANGED posts
    /\ UNCHANGED <<settings, controls, talks>>

(* An answer with its control; its parts follow. *)
Deliver(audience) ==
    /\ posts' = posts \cup {Post(talk.what, audience)}
    /\ controls' = controls \cup IF talk.control = "none" THEN {} ELSE {[kind |-> talk.control, seen |-> audience]}
    /\ talk' = IF talk.parts THEN [talk EXCEPT !.pc = "parts", !.answer = "none"] ELSE NoTalk

DeliveryEphemeral == talk.what = "sensitive" /\ ~MayPublish

SendResult ==
    /\ talk.pc = "send" /\ Deliver(FollowUp(DeliveryEphemeral))
    /\ UNCHANGED <<settings, talks>>

SendParts ==
    /\ talk.pc = "parts" /\ EndTalk
    /\ posts' = posts \cup {Post(talk.what, IF talk.origin \in Messaged THEN Around
                                            ELSE FollowUp(DeliveryEphemeral))}
    /\ UNCHANGED <<settings, controls, talks>>

(* A sensitive answer must not be a reply in the channel. *)
Withheld == talk.origin = "channel" /\ talk.what = "sensitive" /\ ~settings.publish

ReplyToMessage ==
    /\ talk.pc = "reply" /\ ~Withheld
    /\ Deliver(Around)
    /\ UNCHANGED <<settings, talks>>

(* It goes by direct message, without control or parts, or not at all; the
   channel sees a notice. *)
WithholdFromChannel(sent) ==
    /\ talk.pc = "reply" /\ Withheld
    /\ sent => settings.byDm
    /\ posts' = posts \cup {Post("notice", "public")} \cup IF sent THEN {Post("sensitive", "private")} ELSE {}
    /\ EndTalk
    /\ UNCHANGED <<settings, controls, talks>>

AudienceNext ==
    \/ \E origin \in Interactions \cup Messaged, source \in Audiences \cup {"none"} : StartTalk(origin, source)
    \/ RestartBot \/ RefuseTalk \/ Defer
    \/ \E what \in {"aggregate", "sensitive"}, control \in Components \cup {"none"}, parts \in BOOLEAN :
         Operation(what, control, parts)
    \/ FailTalk \/ CompleteDeferral \/ SendResult \/ SendParts \/ ReplyToMessage
    \/ \E sent \in BOOLEAN : WithholdFromChannel(sent)
-----------------------------------------------------------------------------
AudienceTypeOK ==
    /\ settings \in [publish : BOOLEAN, byDm : BOOLEAN]
    /\ talk.pc \in {"idle", "start", "operate", "edit", "send", "parts", "reply"}
    /\ talk.answer \in Audiences \cup {"none"}
    /\ posts \subseteq [what : {"aggregate", "sensitive", "notice"}, seen : Audiences,
                        origin : Interactions \cup Messaged, source : Audiences \cup {"none"}]
    /\ controls \subseteq [kind : Components, seen : Audiences]
    /\ talks \in 0..Talks

(* Sensitive answers are seen by the channel only where the operator has opted
   in, and then in answer to a message of the channel, to buttons under a
   public answer, or to a menu (under a private answer too); an aggregate is
   published however private its deferral was. *)
AudienceIsRight ==
    \A p \in posts :
        /\ p.what = "sensitive" /\ p.seen = "public" =>
             /\ settings.publish
             /\ p.origin \in {"channel", "menu"} \/ (p.origin = "approval" /\ p.source = "public")
        /\ p.what = "aggregate" /\ p.origin # "dm" => p.seen = "public"
=============================================================================
