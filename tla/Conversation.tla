----------------------------- MODULE Conversation -----------------------------
(***************************************************************************)
(* ConversationContextStore and the part of ask that uses it: what a       *)
(* request means when it leans on earlier ones of its conversation.        *)
(*                                                                         *)
(* The store keeps, per conversation, the people last offered, the         *)
(* question last asked and the person last read about, and per menu the    *)
(* request that produced it.  A request reads the store, awaits the model  *)
(* provider or the roster, and writes to the store again; other requests   *)
(* of the same conversation run meanwhile.                                 *)
(*                                                                         *)
(* Data: a request is what the parsers or the provider make of it, a       *)
(* function and a target; every function modelled wants a target.  A       *)
(* context's parameters go wherever its function goes.                     *)
(***************************************************************************)
EXTENDS Subsequences

CONSTANTS
    Conversations,    \* ConversationKey: user, guild and channel
    People,
    ReadFunctions,    \* _CURRENT_EMPLOYEE_READ_FUNCTIONS
    WriteFunctions,   \* functions that prepare a write for a target
    Ttl,              \* ttl_seconds
    MaxConversations, \* max_conversations
    AtOnce,           \* requests that may be in ask at the same time
    Said,             \* requests that are looked at
    MaxNow            \* the clock goes no further

ASSUME ConversationAssumption ==
    /\ {Ttl, MaxConversations} \subseteq Nat \ {0} /\ {AtOnce, Said, MaxNow} \subseteq Nat
    /\ IsFiniteSet(People)
    /\ ReadFunctions \cap WriteFunctions = {}

VARIABLES
    now,
    offered,  \* _items, the least recently used first
    question, \* _pending_targets
    person,   \* _current_employees
    menus,    \* _selection_contexts
    shown,    \* every menu sent to Discord so far
    asking,   \* the requests in ask, the oldest first: "execute" once function and target are settled
    said      \* requests so far

contextVars == <<offered, question, person, menus>>
conversationVars == <<now, contextVars, shown, asking, said>>

HrFunctions == ReadFunctions \cup WriteFunctions

ConversationInit ==
    /\ now = 0
    /\ offered = <<>> /\ question = <<>> /\ person = <<>> /\ menus = <<>>
    /\ shown = <<>>
    /\ asking = <<>>
    /\ said = 0

Tick ==
    /\ now < MaxNow
    /\ now' = now + 1
    /\ UNCHANGED <<contextVars, shown, asking, said>>
-----------------------------------------------------------------------------
(* The OrderedDicts: an entry carries the time it was made. *)
KeepsExpired(s) == s    \* fault: nothing expires

(* _purge_expired, which every operation of the store begins with. *)
Live(s) == Kept(s, {i \in DOMAIN s : now < s[i].at + Ttl})

Of(s, k) == {e \in ToSet(Live(s)) : e.key = k}

(* move_to_end *)
Touch(s, e) == Append(Kept(Live(s), {i \in DOMAIN Live(s) : Live(s)[i] # e}), e)

Bounded(s) ==
    IF Len(s) > MaxConversations THEN SubSeq(s, Len(s) - MaxConversations + 1, Len(s)) ELSE s

Without(s, k) == Kept(s, {i \in DOMAIN s : s[i].key # k})

Put(s, e) == Append(Without(Live(s), e.key), e)

Remember(s, e) == Bounded(Put(s, e))

Entry(k, fn) == [key |-> k, fn |-> fn, at |-> now]
-----------------------------------------------------------------------------
(* ask has found function and target: by what, and the age of that context. *)
Decided(k, fn, p, by, menu, age) ==
    [pc |-> "execute", key |-> k, fn |-> fn, who |-> p, by |-> by, menu |-> menu, age |-> age]

Decide(a, fn, p, by, age) ==
    asking' = [asking EXCEPT ![a] = Decided(@.key, fn, p, by, 0, age)]

Enter(what) ==
    /\ said < Said /\ Len(asking) < AtOnce
    /\ said' = said + 1
    /\ asking' = Append(asking, what)

(* The request leaves ask. *)
Done(a) == asking' = SubSeq(asking, 1, a - 1) \o SubSeq(asking, a + 1, Len(asking))

(* An ordinal or an ID of the people last offered: selection. *)
AskPick(k, p) ==
    /\ \E e \in Of(offered, k) :
         /\ p \in e.who
         /\ offered' = Touch(offered, e)
         /\ Enter(Decided(k, e.fn, p, "pick", 0, now - e.at))
    /\ question' = Live(question) /\ person' = Live(person) /\ menus' = Live(menus)
    /\ UNCHANGED <<now, shown>>

KeepsLastOffer(e) == Live(offered)    \* fault: the menu is checked, the last list is used

(* activate_selection_context puts back the list of the menu, and the number
   of conversations is not looked at. *)
Activated(e) == Put(offered, [key |-> e.key, who |-> e.who, fn |-> e.fn, at |-> e.at])

(* select_employee: activation and selection are not interrupted.  A menu
   that has expired or was evicted is refused. *)
SelectPerson(m, p) ==
    LET k == shown[m].key
        snapshot == {e \in ToSet(Live(menus)) : e.menu = m /\ e.key = k /\ p \in e.who}
    IN
    /\ p \in shown[m].who /\ said < Said /\ Len(asking) < AtOnce
    /\ question' = Live(question) /\ person' = Live(person)
    /\ IF snapshot = {}
       THEN /\ offered' = Live(offered) /\ menus' = Live(menus)
            /\ said' = said + 1 /\ UNCHANGED asking
       ELSE \E e \in snapshot :
              /\ menus' = Touch(menus, e)
              /\ offered' = Activated(e)
              /\ \E o \in ToSet(offered') :
                   o.key = k /\ p \in o.who /\ Enter(Decided(k, o.fn, p, "menu", m, now - o.at))
    /\ UNCHANGED <<now, shown>>

(* Any other request.  A bare name answers the question asked before, among
   the people offered before; otherwise the parsers or, after an await, the
   provider say what is wanted, of a name, an ID or nobody in particular. *)
Ask(k, bare, fn, target) ==
    LET asked == IF bare THEN Of(question, k) ELSE {}
        list == IF bare THEN Of(offered, k) ELSE {}
        among == IF list = {} THEN People ELSE UNION {e.who : e \in list}
        New(pc, f, by, age) == [pc |-> pc, key |-> k, fn |-> f, among |-> among, target |-> target,
                                by |-> by, age |-> age]
    IN
    /\ bare => target = "name"
    /\ \/ \E q \in asked :
            /\ Enter(New("roster", q.fn, "answer", now - q.at))
            /\ question' = Touch(question, q)
       \/ /\ asked = {}
          /\ Enter(New(IF target = "name" THEN "roster" ELSE "routed", fn, "name", 0))
          /\ question' = Live(question)
    /\ offered' = IF list = {} THEN Live(offered) ELSE Touch(offered, CHOOSE e \in list : TRUE)
    /\ person' = Live(person) /\ menus' = Live(menus)
    /\ UNCHANGED <<now, shown>>

AnyFunction(fn) == TRUE    \* fault: the person read about is the target of a write, too

(* Only these functions follow up on the person read about. *)
FollowsUp(fn) == fn \in ReadFunctions

(* The function is known; a missing target is the person read about, or one
   the request mentions. *)
Routed(a) ==
    LET t == asking[a]
        recent == IF FollowsUp(t.fn) THEN Of(person, t.key) ELSE {}
    IN
    /\ t.pc = "routed"
    /\ \/ /\ t.target = "id"
          /\ \E p \in People : Decide(a, t.fn, p, "id", 0)
          /\ UNCHANGED contextVars
       \/ /\ t.target = "none"
          /\ \E e \in recent :
               /\ Decide(a, t.fn, e.who, "person", now - e.at)
               /\ person' = Touch(person, e)
          /\ offered' = Live(offered) /\ question' = Live(question) /\ menus' = Live(menus)
       \/ /\ t.target = "none" /\ recent = {}
          /\ asking' = [asking EXCEPT ![a].pc = "mention"]
          /\ UNCHANGED contextVars
    /\ UNCHANGED <<now, shown, said>>

(* _infer_unique_employee_mention has read the roster: one person, or the
   question who is meant. *)
Mention(a) ==
    LET t == asking[a] IN
    /\ t.pc = "mention"
    /\ \/ /\ \E p \in People : Decide(a, t.fn, p, "mention", 0)
          /\ UNCHANGED contextVars
       \/ /\ Done(a)
          /\ question' = Remember(question, Entry(t.key, t.fn))
          /\ offered' = Live(offered) /\ person' = Live(person) /\ menus' = Live(menus)
    /\ UNCHANGED <<now, shown, said>>

(* remember_candidates and remember_pending_target: a new menu. *)
Offer(a, found) ==
    LET t == asking[a]
        menu == [key |-> t.key, who |-> found, fn |-> t.fn, at |-> now]
        m == Len(shown) + 1
    IN
    /\ Done(a)
    /\ shown' = Append(shown, menu)
    /\ offered' = Remember(offered, menu)
    /\ menus' = Bounded(Append(Live(menus), [key |-> t.key, who |-> found, fn |-> t.fn,
                                             at |-> now, menu |-> m]))
    /\ question' = Remember(question, Entry(t.key, t.fn))
    /\ person' = Live(person)

(* _resolve_employee_target has read the roster; a likeness is only offered. *)
Resolve(a, found) ==
    LET t == asking[a] IN
    /\ t.pc = "roster" /\ found \subseteq t.among
    /\ \/ /\ found = {}
          /\ Done(a)
          /\ UNCHANGED <<contextVars, shown>>
       \/ /\ \E p \in People : found = {p} /\ Decide(a, t.fn, p, t.by, t.age)
          /\ question' = Without(question, t.key)
          /\ UNCHANGED <<offered, person, menus, shown>>
       \/ /\ Cardinality(found) > 1 \/ (found # {} /\ t.among = People)
          /\ Offer(a, found)
    /\ UNCHANGED <<now, said>>

(* Policy, then the read or the preparation of the write; only a successful
   read is remembered. *)
Execute(a, success) ==
    LET t == asking[a] IN
    /\ t.pc = "execute"
    /\ Done(a)
    /\ IF success /\ t.fn \in ReadFunctions
       THEN /\ person' = Remember(person, [key |-> t.key, who |-> t.who, at |-> now])
            /\ offered' = Live(offered) /\ question' = Live(question) /\ menus' = Live(menus)
       ELSE UNCHANGED contextVars
    /\ UNCHANGED <<now, shown, said>>

(* An error, a refusal or a cancellation at any await. *)
FailAsk(a) ==
    /\ a \in DOMAIN asking
    /\ Done(a)
    /\ UNCHANGED <<now, contextVars, shown, said>>

ConversationNext ==
    \/ Tick
    \/ \E k \in Conversations, p \in People : AskPick(k, p)
    \/ \E m \in DOMAIN shown, p \in People : SelectPerson(m, p)
    \/ \E k \in Conversations, bare \in BOOLEAN, fn \in HrFunctions, target \in {"id", "name", "none"} :
         Ask(k, bare, fn, target)
    \/ \E a \in DOMAIN asking :
         \/ Routed(a) \/ Mention(a) \/ FailAsk(a)
         \/ \E found \in SUBSET People : Resolve(a, found)
         \/ \E success \in BOOLEAN : Execute(a, success)
-----------------------------------------------------------------------------
ConversationTypeOK ==
    /\ now \in 0..MaxNow /\ said \in 0..Said
    /\ \A s \in {offered, question, person, menus} : \A e \in ToSet(s) :
         e.key \in Conversations /\ e.at \in 0..now
    /\ \A s \in {offered, question, person} : \A i, j \in DOMAIN s : s[i].key = s[j].key => i = j
    /\ Len(menus) <= MaxConversations
    /\ Len(asking) <= AtOnce /\ \A a \in DOMAIN asking : asking[a].pc \in {"routed", "mention", "roster", "execute"}

(* A menu resumes "the exact immutable operation" that produced it, in its
   conversation, whatever was asked and offered there since; a typed ordinal
   or ID stands for a person offered there, for the function it was offered
   for. *)
SelectionResumesItsMenu ==
    \A a \in DOMAIN asking : asking[a].pc = "execute" =>
        LET t == asking[a]
            Shows(m) == shown[m].key = t.key /\ shown[m].fn = t.fn /\ t.who \in shown[m].who
        IN
        /\ t.by = "menu" => Shows(t.menu)
        /\ t.by = "pick" => \E m \in DOMAIN shown : Shows(m)

(* What a request takes from the conversation (list, menu, question, person)
   was put there less than the time to live before, and the person read about
   is never taken as the target of a write. *)
FollowUpsAreRecent ==
    \A a \in DOMAIN asking : asking[a].pc = "execute" =>
        /\ asking[a].age < Ttl
        /\ asking[a].by = "person" => asking[a].fn \in ReadFunctions

(* Both: what a follow-up stands on is what its conversation was shown. *)
ContextIsHonoured == SelectionResumesItsMenu /\ FollowUpsAreRecent
=============================================================================
