------------------------------- MODULE MCParts -------------------------------
(***************************************************************************)
(* Instances for TLC of the parts around the write path, in one run: in    *)
(* each behaviour one part works and the others stay as they were after    *)
(* construction.  They are not composed; only the run is shared.           *)
(***************************************************************************)
EXTENDS BrowserRuntime, DicSession, PagedRead, Conversation, OnboardingDrafts, MessageFlow,
        RecordForms, WritePreview, YearRead, RuntimeLifecycle, ReplyAudience

CONSTANTS c1, c2, c3, c4

ASSUME PartsAssumption == {c1, c2, c3, c4} \subseteq Calls

VARIABLE part    \* the part that works

\* The two reads share a breaker; as in production, nothing shares one with them.
Kinds   == [c \in Calls |-> IF c = c3 THEN "write" ELSE IF c = c4 THEN "reconcile" ELSE "read"]
Breaker == [c \in Calls |-> KindOf[c]]

\* m1 and m2 are u1's, m2 by direct message; m3 competes in the channel.
Authors == [m \in Messages |-> IF m = "m3" THEN "u2" ELSE "u1"]

Parts == {"runtime", "session", "reading", "conversation", "onboarding", "messages",
          "forms", "preview", "years", "lifecycle", "replies"}

PartsInit ==
    /\ part \in Parts
    /\ \E calls \in {{c1, c2, c3}, {c1, c4}} : BrowserInit(IF part = "runtime" THEN calls ELSE {})
    /\ SessionInit(IF part = "session" THEN Requests ELSE {})
    /\ PagedInit(part = "reading")
    /\ ConversationInit /\ OnboardingInit /\ FlowInit
    /\ FormsInit(part = "forms")
    /\ PreviewInit(part = "preview")
    /\ YearInit(part = "years")
    /\ LifecycleInit(part = "lifecycle")
    /\ AudienceInit(part = "replies")

PartsNext ==
    /\ UNCHANGED part
    /\ \/ /\ part = "runtime" /\ BrowserNext
          /\ UNCHANGED <<sessionVars, pagedVars, conversationVars, onboardingVars, flowVars,
                          formVars, previewVars, yearVars, lifeVars, audienceVars>>
       \/ /\ part = "session" /\ SessionNext
          /\ UNCHANGED <<browserVars, pagedVars, conversationVars, onboardingVars, flowVars,
                          formVars, previewVars, yearVars, lifeVars, audienceVars>>
       \/ /\ part = "reading" /\ PagedNext
          /\ UNCHANGED <<browserVars, sessionVars, conversationVars, onboardingVars, flowVars,
                          formVars, previewVars, yearVars, lifeVars, audienceVars>>
       \/ /\ part = "conversation" /\ ConversationNext
          /\ UNCHANGED <<browserVars, sessionVars, pagedVars, onboardingVars, flowVars,
                          formVars, previewVars, yearVars, lifeVars, audienceVars>>
       \/ /\ part = "onboarding" /\ OnboardingNext
          /\ UNCHANGED <<browserVars, sessionVars, pagedVars, conversationVars, flowVars,
                          formVars, previewVars, yearVars, lifeVars, audienceVars>>
       \/ /\ part = "messages" /\ FlowNext
          /\ UNCHANGED <<browserVars, sessionVars, pagedVars, conversationVars, onboardingVars,
                          formVars, previewVars, yearVars, lifeVars, audienceVars>>
       \/ /\ part = "forms" /\ FormsNext
          /\ UNCHANGED <<browserVars, sessionVars, pagedVars, conversationVars, onboardingVars,
                          flowVars, previewVars, yearVars, lifeVars, audienceVars>>
       \/ /\ part = "preview" /\ PreviewNext
          /\ UNCHANGED <<browserVars, sessionVars, pagedVars, conversationVars, onboardingVars,
                          flowVars, formVars, yearVars, lifeVars, audienceVars>>
       \/ /\ part = "years" /\ YearNext
          /\ UNCHANGED <<browserVars, sessionVars, pagedVars, conversationVars, onboardingVars,
                          flowVars, formVars, previewVars, lifeVars, audienceVars>>
       \/ /\ part = "lifecycle" /\ LifecycleNext
          /\ UNCHANGED <<browserVars, sessionVars, pagedVars, conversationVars, onboardingVars,
                          flowVars, formVars, previewVars, yearVars, audienceVars>>
       \/ /\ part = "replies" /\ AudienceNext
          /\ UNCHANGED <<browserVars, sessionVars, pagedVars, conversationVars, onboardingVars,
                          flowVars, formVars, previewVars, yearVars, lifeVars>>

partsVars == <<part, browserVars, sessionVars, pagedVars, conversationVars, onboardingVars,
               flowVars, formVars, previewVars, yearVars, lifeVars, audienceVars>>

PartsSpec == PartsInit /\ [][PartsNext]_partsVars /\ BrowserFairness

\* The messages alone.
MessagesSpec == PartsInit /\ part = "messages" /\ [][PartsNext]_partsVars

(* The type invariants of the eleven modules. *)
PartsTypeOK ==
    /\ BrowserTypeOK /\ SessionTypeOK /\ PagedTypeOK
    /\ ConversationTypeOK /\ OnboardingTypeOK /\ FlowTypeOK
    /\ FormsTypeOK /\ PreviewTypeOK /\ YearTypeOK /\ LifecycleTypeOK /\ AudienceTypeOK

(* What the application takes from DIC's answers is what it asked for: no
   employee is missing from a complete list (NothingIsMissed), a forced list
   is read after its request (RosterIsFresh), and a year's figures belong to
   the employee and the year asked (YearIsTheirs). *)
ReadsAreTrue == NothingIsMissed /\ RosterIsFresh /\ YearIsTheirs

(* An approved write is the write that was shown: its preview and fingerprint
   hold when it begins and its requester may still do it (PreviewIsHonoured),
   and it changes the approved record and no other (FormsAreSafe). *)
WritesAreAsApproved == PreviewIsHonoured /\ FormsAreSafe
=============================================================================
