---------------------------- MODULE RecordProofs ----------------------------
(***************************************************************************)
(* Proofs about what the application takes from DIC's pages and writes     *)
(* into them (PagedRead, YearRead, WritePreview, RecordForms), for any     *)
(* records, people, edits, page sizes and numbers of reads.                *)
(*                                                                         *)
(* PagedRead: a list that is returned has a source, the set DIC showed     *)
(* when the first page was answered.  Later pages show a smaller set if    *)
(* entries only left, and the same set if they only joined and the total   *)
(* stayed; so the gathered entries lie in the source, and being as many as *)
(* the total they are the source.                                          *)
(* YearRead: whatever was heard before the year was selected is up to the  *)
(* mark, and what comes after it answers this document.                    *)
(* WritePreview: one edit during the preview leaves a digest that no       *)
(* longer fits, and a requester who has the right now has had it since the *)
(* last decision.                                                          *)
(* RecordForms: what DIC has that it had not at the baseline was written   *)
(* since, and a confirmation is only sent for the target.                  *)
(* MCParts: with the invariants of RuntimeProofs and DiscordProofs, every   *)
(* part keeps its types.                                                   *)
(***************************************************************************)
EXTENDS MCParts, RuntimeProofs, DiscordProofs, SubsequenceProofs, SequenceTheorems

(* A collection that is shown in pages. *)
(* What is on its way to the page or waits in the listener's queue. *)
Pending == underway \cup ToSet(captured)

PagePcs == {"idle", "reset", "install", "navigate", "wait", "fetch"}

PageAnswers == [view : Views, page : Nat, ids : Seq(Entries), total : Nat,
                stayed : SUBSET Entries, changes : SUBSET {"left", "joined"}]

PageReads == [pc : PagePcs, mode : {"none", "roster", "resource"}, view : Views, target : Views,
              shown : Nat, page : Nat, total : Nat \cup {-1}, items : Seq(Entries),
              stayed : SUBSET Entries, changes : SUBSET {"left", "joined"},
              ever : SUBSET Entries]

PagedTypes ==
    /\ collection \in SUBSET Entries
    /\ underway \in SUBSET PageAnswers /\ captured \in Seq(PageAnswers)
    /\ read \in PageReads

NoTwice(s) == \A i, j \in DOMAIN s : s[i] = s[j] => i = j

(* What DIC showed when an answer was made, seen from now. *)
ShownThen(r, S) ==
    /\ Cardinality(S) = r.total /\ r.stayed \subseteq S
    /\ "joined" \notin r.changes => Shown(r.view) \subseteq S
    /\ "left" \notin r.changes => S \subseteq Shown(r.view)

AnswerOK(r) ==
    NoTwice(r.ids) /\ \E S \in SUBSET Entries : ShownThen(r, S) /\ ToSet(r.ids) \subseteq S

AnswersInv == \A r \in Pending : AnswerOK(r)

(* A roster's page is opened without anything of the previous document. *)
PlaceInv ==
    /\ read.pc = "idle" => read = NoRead
    /\ read.pc # "idle" => read.mode # "none"
    /\ read.mode = "resource" => read.target = "wanted" /\ read.view = "wanted"
    /\ read.pc = "fetch" => read.mode = "resource" /\ read.total # -1
    /\ read.pc # "fetch" /\ read.total # -1 => read.mode = "roster"
    /\ read.mode = "roster" /\ read.pc \in {"install", "navigate"} => underway = {}
    /\ read.mode = "roster" /\ read.pc = "navigate" => captured = << >>
    /\ read.total = -1 => read.items = << >>

EverInv ==
    read.mode = "roster" =>
      /\ collection \subseteq read.ever /\ ToSet(read.items) \subseteq read.ever
      /\ read.pc = "wait" => \A r \in Pending : ToSet(r.ids) \subseteq read.ever

(* What is gathered is of the entries that were there at the first page, and so is
   every page that still fits, unless entries left and joined. *)
Belongs(r, S) ==
    \/ read.changes = {"left", "joined"}
    \/ "joined" \in read.changes /\ r.total # read.total
    \/ ToSet(r.ids) \subseteq S

SourceIs(S) ==
    /\ Cardinality(S) = read.total /\ read.stayed \subseteq S
    /\ "joined" \notin read.changes => Shown(read.target) \subseteq S
    /\ "left" \notin read.changes => S \subseteq Shown(read.target)
    /\ read.changes # {"left", "joined"} => ToSet(read.items) \subseteq S

GatherInv ==
    /\ NoTwice(read.items)
    /\ read.total # -1 =>
         \E S \in SUBSET Entries :
            /\ SourceIs(S)
            /\ read.pc = "wait" => \A r \in Pending : r.view = read.target => Belongs(r, S)

PagedInv == PagedTypes /\ AnswersInv /\ PlaceInv /\ EverInv /\ GatherInv /\ NothingIsMissed /\ RosterIsFresh
PagedSpec == (\E reads \in BOOLEAN : PagedInit(reads)) /\ [][PagedNext]_pagedVars
-----------------------------------------------------------------------------
(* The preparation of a write. *)
Reading == {"read", "second"}
Prepared == {"awaiting", "authorise", "digest", "begin"}
Approved == {"authorise", "digest", "begin", "begun"}

(* One edit while the preview is read leaves a digest that no longer fits. *)
PreviewReadInv ==
    /\ moved \in Nat /\ target \in TargetValues
    /\ write.pc = "first" => moved = 0
    /\ write.pc \in Reading => /\ moved = 0 => target = write.first.value
                               /\ moved = 1 => target # write.first.value
    /\ write.pc = "second" /\ moved = 0 => write.before = write.first.value
    /\ write.pc \in Prepared /\ moved < 2 => write.before = write.fingerprint.value

(* A requester that has the right now has had it since the last decision. *)
AuthorityInv ==
    /\ write.pc \in Approved /\ Requester \in granted => entitled
    /\ write.pc \in {"digest", "begin", "begun"} /\ write.live => entitled

WriteRecord ==
    write = [pc |-> write.pc, op |-> write.op, live |-> write.live, first |-> write.first,
             before |-> write.before, fingerprint |-> write.fingerprint,
             decider |-> write.decider, found |-> write.found]

PreviewInv == WriteRecord /\ PreviewReadInv /\ AuthorityInv /\ PreviewIsHonoured

PreviewSpec == (\E asked \in BOOLEAN : PreviewInit(asked)) /\ [][PreviewNext]_previewVars
-----------------------------------------------------------------------------
(* A write in the pages. *)
Sending == {"verify", "compare", "over"}
Based == {"find", "row", "save", "confirm"} \cup Sending

(* A confirmation is only sent for the target, and what it hits is the target
   or a record that was not there. *)
ClickInv ==
    /\ click = "none" => hit = {}
    /\ click # "none" => form.pc \in Sending /\ form.open = form.target
    /\ form.pc \notin Based => click = "none"
    /\ form.known \subseteq Records /\ \A r \in form.known : records[r] # "unused"

(* What DIC has that it had not at the baseline was written since. *)
SinceInv ==
    form.pc \in Based =>
      /\ ~form.glimpsed => \A r \in Present \ form.known : <<r, records[r]>> \in since
      /\ form.op # "create" => form.target \in form.known
      /\ form.op = "edit" /\ records[form.target] = "asked" => <<form.target, "asked">> \in since
      /\ form.op = "delete" /\ records[form.target] = "absent" => <<form.target, "absent">> \in since

(* The rows that are compared show what was written since. *)
RowsInv ==
    form.pc = "compare" /\ ~form.glimpsed =>
      /\ form.op # "delete"
      /\ \A i \in form.found \cap DOMAIN onPage : onPage[i][2] = "asked" =>
           /\ <<onPage[i][1], "asked">> \in since
           /\ IF form.op = "create" THEN onPage[i][1] \in Records \ form.known
              ELSE onPage[i][1] = form.target

FormRecord ==
    /\ form = [pc |-> form.pc, op |-> form.op, target |-> form.target, row |-> form.row,
               open |-> form.open, known |-> form.known, before |-> form.before,
               found |-> form.found, glimpsed |-> form.glimpsed]
    /\ form.glimpsed \in BOOLEAN
    /\ form.pc \in {"idle", "ready", "baseline"} \cup Based
    /\ form.pc \notin {"idle", "ready"} => form.op \in Writes
    /\ reported = "applied" => form.pc = "over"
    /\ records \in [Records -> RecordValues]

FormsInv == FormRecord /\ ClickInv /\ SinceInv /\ RowsInv /\ FormsAreSafe

FormsSpec == (\E writes \in BOOLEAN : FormsInit(writes)) /\ [][FormsNext]_formVars
-----------------------------------------------------------------------------
(* The balances and payrolls of a year. *)
YearAnswers == [kind : ReadKinds \cup {"none", "counters"}, who : Staff \cup {"none"},
                year : Int, doc : Nat]

(* What was heard before the page was opened is up to the mark, if the year
   must be selected, and what is heard since answers this document. *)
YearQueueInv ==
    /\ yearRead = [pc |-> yearRead.pc, kind |-> yearRead.kind, who |-> yearRead.who,
                   year |-> yearRead.year, selected |-> yearRead.selected, mark |-> yearRead.mark,
                   heard |-> yearRead.heard, queue |-> yearRead.queue,
                   counters |-> yearRead.counters, overflow |-> yearRead.overflow]
    /\ yearPage = [doc |-> yearPage.doc, kind |-> yearPage.kind, who |-> yearPage.who,
                   year |-> yearPage.year]
    /\ yearPage \in YearAnswers
    /\ yearRead.kind \in ReadKinds \cup {"none"} /\ yearRead.who \in Staff \cup {"none"}
    /\ yearRead.heard \in Nat /\ yearRead.mark \in Nat
    /\ answers \subseteq YearAnswers
    /\ \A a \in answers : a.doc = yearPage.doc
    /\ yearRead.queue \in Seq(Nat \X YearAnswers)
    /\ \A i \in 1..Len(yearRead.queue) :
         /\ yearRead.queue[i][1] <= yearRead.heard
         /\ yearRead.selected /\ yearRead.queue[i][1] > yearRead.mark =>
              yearRead.queue[i][2].doc = yearPage.doc
    /\ yearRead.pc \in {"idle", "open", "control"} => ~yearRead.selected

TakenInv ==
    /\ yearTaken.via \in {"names", "answer"} =>
        /\ yearTaken = [via |-> yearTaken.via, answer |-> yearTaken.answer, who |-> yearTaken.who,
                        year |-> yearTaken.year, doc |-> yearTaken.doc,
                        selected |-> yearTaken.selected]
        /\ yearTaken.answer.who = yearTaken.who
        /\ yearTaken.answer.year = yearTaken.year
        /\ yearTaken.selected => yearTaken.answer.doc = yearTaken.doc
    /\ yearRead.pc = "counters" => yearTaken.via = "names"

YearInv == YearQueueInv /\ TakenInv
YearSpec == (\E reading \in BOOLEAN : YearInit(reading)) /\ [][YearNext]_yearVars
-----------------------------------------------------------------------------
(* A page shows some of the entries, none of them twice. *)
LEMMA PageIds ==
    ASSUME NEW S \in SUBSET Entries, NEW n
    PROVE  Page(S, n) \in Seq(Entries) /\ ToSet(Page(S, n)) \subseteq S /\ NoTwice(Page(S, n))
<1> DEFINE on == {x \in S : Rank(S, x) > (n - 1) * PageSize /\ Rank(S, x) <= n * PageSize}
<1>1. Page(S, n) = Ascending(on) /\ on \in SUBSET S
  BY DEF Page
<1> HIDE DEF on
<1>2. on \in SUBSET Nat /\ IsFiniteSet(on) /\ on \in SUBSET Entries
  BY <1>1, PagedAssumption, FS_Subset
<1>3. Ascending(on) \in Seq(on) /\ ToSet(Ascending(on)) = on /\ NoTwice(Ascending(on))
  BY <1>2, AscendingMembers DEF NoTwice
<1>4. Ascending(on) \in Seq(Entries)
  <2> DEFINE ids == Ascending(on)
  <2>1. /\ Len(ids) \in Nat /\ DOMAIN ids = 1..Len(ids) /\ ids = [i \in 1..Len(ids) |-> ids[i]]
        /\ \A i \in 1..Len(ids) : ids[i] \in on
    BY <1>3
  <2> HIDE DEF ids
  <2>2. \A i \in 1..Len(ids) : ids[i] \in Entries
    BY <1>2, <2>1
  <2>3. ids \in Seq(Entries)
    BY <2>1, <2>2
  <2> QED
    BY <2>3 DEF ids
<1> QED
  BY <1>1, <1>3, <1>4

LEMMA Concatenated ==
    ASSUME NEW s \in Seq(Entries), NEW t \in Seq(Entries), NoTwice(s), NoTwice(t),
           ToSet(t) \cap ToSet(s) = {}
    PROVE  /\ s \o t \in Seq(Entries) /\ NoTwice(s \o t)
           /\ ToSet(s \o t) = ToSet(s) \cup ToSet(t)
<1> DEFINE u == s \o t
           m == Len(s)
           n == Len(t)
<1>1. /\ m \in Nat /\ n \in Nat /\ DOMAIN s = 1..m /\ DOMAIN t = 1..n
      /\ u \in Seq(Entries) /\ Len(u) = m + n
      /\ DOMAIN u = 1..(m + n)
  BY ConcatProperties
<1>2. /\ \A i \in 1..m : u[i] = s[i]
      /\ \A i \in (m + 1)..(m + n) : i - m \in 1..n /\ u[i] = t[i - m]
  BY <1>1, ConcatProperties
<1>3. \A i \in 1..n : i + m \in (m + 1)..(m + n) /\ u[i + m] = t[i]
  BY <1>1, <1>2
<1> HIDE DEF u, m, n
<1>4. \A i \in DOMAIN u : i \in 1..m \/ i \in (m + 1)..(m + n)
  BY <1>1
<1>5. \A i \in 1..m : u[i] \in ToSet(s)
  BY <1>1, <1>2 DEF ToSet
<1>6. \A i \in (m + 1)..(m + n) : u[i] \in ToSet(t)
  BY <1>1, <1>2 DEF ToSet
<1>7. ToSet(u) = ToSet(s) \cup ToSet(t)
  <2>1. \A x \in ToSet(u) : x \in ToSet(s) \/ x \in ToSet(t)
    BY <1>4, <1>5, <1>6 DEF ToSet
  <2>2. \A x \in ToSet(s) : x \in ToSet(u)
    <3>1. \A i \in 1..m : i \in DOMAIN u
      BY <1>1
    <3> QED
      BY <1>1, <1>2, <3>1 DEF ToSet
  <2>3. \A x \in ToSet(t) : x \in ToSet(u)
    <3>1. \A i \in 1..n : i + m \in DOMAIN u
      BY <1>1
    <3> QED
      BY <1>1, <1>3, <3>1 DEF ToSet
  <2> QED
    BY <2>1, <2>2, <2>3
<1>8. NoTwice(u)
  <2> SUFFICES ASSUME NEW i \in DOMAIN u, NEW j \in DOMAIN u, u[i] = u[j] PROVE i = j
    BY DEF NoTwice
  <2>1. CASE i \in 1..m /\ j \in 1..m
    BY <1>1, <1>2, <2>1 DEF NoTwice
  <2>2. CASE i \in (m + 1)..(m + n) /\ j \in (m + 1)..(m + n)
    <3>1. /\ i - m \in DOMAIN t /\ j - m \in DOMAIN t
          /\ t[i - m] = t[j - m]
      BY <1>1, <1>2, <2>2
    <3>2. i - m = j - m
      BY <3>1 DEF NoTwice
    <3> QED
      BY <1>1, <2>2, <3>2
  <2> QED
    BY <1>4, <1>5, <1>6, <2>1, <2>2
<1> QED
  BY <1>1, <1>7, <1>8 DEF u

LEMMA CountedOnce ==
    ASSUME NEW s \in Seq(Entries), NoTwice(s)
    PROVE  IsFiniteSet(ToSet(s)) /\ Cardinality(ToSet(s)) = Len(s)
<1>1. Len(s) \in Nat /\ s \in [1..Len(s) -> Entries] /\ DOMAIN s = 1..Len(s)
  OBVIOUS
<1>2. s \in Surjection(1..Len(s), ToSet(s)) /\ s \in Injection(1..Len(s), ToSet(s))
  <2>1. s \in [1..Len(s) -> ToSet(s)]
    BY <1>1 DEF ToSet
  <2> QED
    BY <1>1, <2>1 DEF Surjection, Injection, IsInjective, ToSet, NoTwice
<1>3. IsFiniteSet(1..Len(s)) /\ Cardinality(1..Len(s)) = Len(s)
  BY <1>1, FS_Interval
<1> QED
  BY <1>2, <1>3, FS_Surjection
-----------------------------------------------------------------------------
(* What an answer must be to be taken: its own collection shows its entries. *)
LEMMA AnswerTypes ==
    ASSUME collection \in SUBSET Entries, NEW view \in Views, NEW n \in Nat,
           NEW r, r = Answer(view, n)
    PROVE  /\ r \in PageAnswers /\ r.view = view /\ Shown(view) \in SUBSET Entries
           /\ r.total = Cardinality(Shown(view)) /\ ToSet(r.ids) \subseteq Shown(view)
           /\ NoTwice(r.ids) /\ ShownThen(r, Shown(view))
<1>1. Shown(view) \in SUBSET Entries
  BY DEF Shown
<1>2. IsFiniteSet(Shown(view)) /\ Cardinality(Shown(view)) \in Nat
  BY <1>1, PagedAssumption, FS_Subset, FS_CardinalityType
<1>3. /\ Page(Shown(view), n) \in Seq(Entries)
      /\ ToSet(Page(Shown(view), n)) \subseteq Shown(view)
      /\ NoTwice(Page(Shown(view), n))
  BY <1>1, PageIds
<1>4. r = [view |-> view, page |-> n, ids |-> Page(Shown(view), n),
           total |-> Cardinality(Shown(view)), stayed |-> Shown(view), changes |-> {}]
  BY DEF Answer
<1>5. r \in PageAnswers
  BY <1>1, <1>2, <1>3, <1>4 DEF PageAnswers
<1> QED
  BY <1>1, <1>3, <1>4, <1>5 DEF ShownThen

LEMMA NewAnswer ==
    ASSUME PagedInv, NEW view \in Views, NEW n \in Nat, NEW r, r = Answer(view, n)
    PROVE  /\ r \in PageAnswers /\ r.view = view /\ AnswerOK(r)
           /\ read.mode = "roster" => ToSet(r.ids) \subseteq read.ever
           /\ \A S \in SUBSET Entries : SourceIs(S) /\ view = read.target => Belongs(r, S)
<1>1. collection \in SUBSET Entries
  BY DEF PagedInv, PagedTypes
<1>2. /\ r \in PageAnswers /\ r.view = view /\ Shown(view) \in SUBSET Entries
      /\ r.total = Cardinality(Shown(view)) /\ ToSet(r.ids) \subseteq Shown(view)
      /\ NoTwice(r.ids) /\ ShownThen(r, Shown(view))
  BY <1>1, AnswerTypes
<1>3. AnswerOK(r)
  BY <1>2 DEF AnswerOK
<1>4. Shown(view) \subseteq collection
  BY DEF Shown
<1>5. read.mode = "roster" => ToSet(r.ids) \subseteq read.ever
  BY <1>2, <1>4 DEF PagedInv, EverInv
<1>6. ASSUME NEW S \in SUBSET Entries, SourceIs(S), view = read.target,
             ~Belongs(r, S)
      PROVE  FALSE
  <2>1. read.changes \in SUBSET {"left", "joined"}
    BY DEF PagedInv, PagedTypes, PageReads
  <2>2. /\ read.changes # {"left", "joined"} /\ ~(ToSet(r.ids) \subseteq S)
        /\ "joined" \in read.changes => r.total = read.total
    BY <1>6 DEF Belongs
  <2>3. CASE "joined" \notin read.changes
    BY <1>2, <1>6, <2>2, <2>3 DEF SourceIs
  <2>4. CASE "joined" \in read.changes
    <3>1. "left" \notin read.changes
      BY <2>1, <2>2, <2>4
    <3>2. S \subseteq Shown(view) /\ Cardinality(S) = Cardinality(Shown(view))
      BY <1>2, <1>6, <2>2, <2>4, <3>1 DEF SourceIs
    <3>3. IsFiniteSet(Shown(view))
      BY <1>2, PagedAssumption, FS_Subset
    <3>4. S = Shown(view)
      BY <3>2, <3>3, FS_Subset
    <3> QED
      BY <1>2, <2>2, <3>4
  <2> QED
    BY <2>3, <2>4
<1> QED
  BY <1>2, <1>3, <1>5, <1>6

(* Steps that change neither the collection nor what is gathered: at most one new answer is
   on its way, and a roster that starts to wait has forgotten the others. *)
StillWaits(pc, view, at, a) ==
    /\ read' = [read EXCEPT !.pc = pc, !.view = view, !.shown = at]
    /\ Pending' \subseteq Pending \cup {a}
    /\ pc = "wait" /\ read.pc # "wait" /\ read.mode = "roster" => Pending' \subseteq {a}
    /\ UNCHANGED <<collection, result>>

LEMMA WaitingKeeps ==
    ASSUME PagedInv, PagedTypes', PlaceInv',
           NEW pc, NEW view, NEW at, NEW v \in Views, NEW n \in Nat,
           StillWaits(pc, view, at, Answer(v, n))
    PROVE  PagedInv'
<1> DEFINE a == Answer(v, n)
<1>0. StillWaits(pc, view, at, a)
  OBVIOUS
<1>1. /\ read'.pc = pc /\ read'.mode = read.mode /\ read'.target = read.target
      /\ read'.total = read.total /\ read'.items = read.items /\ read'.stayed = read.stayed
      /\ read'.changes = read.changes /\ read'.ever = read.ever
  BY <1>0 DEF StillWaits, PagedInv, PagedTypes, PageReads
<1>2. /\ a.view = v /\ AnswerOK(a)
      /\ read.mode = "roster" => ToSet(a.ids) \subseteq read.ever
      /\ \A S \in SUBSET Entries : SourceIs(S) /\ v = read.target => Belongs(a, S)
  BY NewAnswer
<1> HIDE DEF a
<1>7. /\ Pending' \subseteq Pending \cup {a} /\ UNCHANGED <<collection, result>>
      /\ pc = "wait" /\ read.pc # "wait" /\ read.mode = "roster" => Pending' \subseteq {a}
  BY <1>0 DEF StillWaits
<1>3. AnswersInv'
  <2>1. \A r \in Pending' : AnswerOK(r)
    BY <1>2, <1>7 DEF PagedInv, AnswersInv
  <2>2. \A r : AnswerOK(r)' <=> AnswerOK(r)
    BY <1>7 DEF AnswerOK, ShownThen, Shown
  <2> QED
    BY <2>1, <2>2 DEF AnswersInv
<1>4. EverInv'
  <2> SUFFICES ASSUME read.mode = "roster" PROVE EverInv'
    BY <1>1 DEF EverInv
  <2>1. collection \subseteq read.ever /\ ToSet(read.items) \subseteq read.ever
    BY DEF PagedInv, EverInv
  <2>2. ASSUME pc = "wait", NEW r \in Pending' PROVE ToSet(r.ids) \subseteq read.ever
    <3>1. CASE read.pc = "wait"
      BY <1>2, <1>7, <2>2, <3>1 DEF PagedInv, EverInv
    <3>2. CASE read.pc # "wait"
      BY <1>2, <1>7, <2>2, <3>2
    <3> QED
      BY <3>1, <3>2
  <2>3. ToSet(read.items)' = ToSet(read.items)
    BY <1>1 DEF ToSet
  <2>4. ToSet(read'.items) = ToSet(read.items)
    BY <1>1
  <2> QED
    BY <1>1, <1>7, <2>1, <2>2, <2>3, <2>4 DEF EverInv
<1>5. GatherInv'
  <2>1. NoTwice(read'.items)
    BY <1>1 DEF PagedInv, GatherInv
  <2>2. CASE read.total = -1
    BY <1>1, <2>1, <2>2 DEF GatherInv
  <2>3. CASE read.total # -1
    <3>1. PICK S \in SUBSET Entries :
            /\ SourceIs(S)
            /\ read.pc = "wait" => \A r \in Pending : r.view = read.target => Belongs(r, S)
      BY <2>3 DEF PagedInv, GatherInv
    <3>2. SourceIs(S)'
      BY <1>1, <1>7, <3>1 DEF SourceIs, Shown
    <3>3. ASSUME pc = "wait", NEW r \in Pending', r.view = read.target PROVE Belongs(r, S)
      <4>1. CASE r = a
        BY <1>2, <3>1, <3>3, <4>1
      <4>2. CASE r # a
        <5>1. read.mode = "roster"
          BY <1>1, <2>3, <3>3 DEF PlaceInv
        <5>2. read.pc = "wait" /\ r \in Pending
          BY <1>7, <3>3, <4>2, <5>1
        <5> QED
          BY <3>1, <3>3, <5>2
      <4> QED
        BY <4>1, <4>2
    <3>4. \A r : Belongs(r, S)' <=> Belongs(r, S)
      BY <1>1 DEF Belongs
    <3>5. read'.pc = "wait" => \A r \in Pending' : r.view = read'.target => Belongs(r, S)'
      BY <1>1, <3>3, <3>4
    <3> QED
      BY <2>1, <3>2, <3>5 DEF GatherInv
  <2> QED
    BY <2>2, <2>3
<1>6. NothingIsMissed' /\ RosterIsFresh'
  BY <1>7 DEF PagedInv, NothingIsMissed, RosterIsFresh
<1> QED
  BY <1>3, <1>4, <1>5, <1>6 DEF PagedInv

(* The listener's queue loses its first answer, or gains one at the end. *)
LEMMA QueueRange ==
    ASSUME NEW S, NEW s \in Seq(S)
    PROVE  /\ s # << >> => /\ Head(s) \in ToSet(s) /\ Tail(s) \in Seq(S)
                           /\ ToSet(Tail(s)) \subseteq ToSet(s)
           /\ \A x \in S : Append(s, x) \in Seq(S) /\ ToSet(Append(s, x)) \subseteq ToSet(s) \cup {x}
<1>1. ASSUME s # << >>
      PROVE  Head(s) \in ToSet(s) /\ Tail(s) \in Seq(S) /\ ToSet(Tail(s)) \subseteq ToSet(s)
  <2>1. /\ Tail(s) \in Seq(S) /\ Len(Tail(s)) = Len(s) - 1
        /\ \A i \in 1..Len(Tail(s)) : Tail(s)[i] = s[i + 1]
    BY <1>1, HeadTailProperties
  <2>2. Len(s) \in Nat /\ 1 \in 1..Len(s) /\ Head(s) = s[1] /\ DOMAIN s = 1..Len(s)
    BY <1>1
  <2>3. DOMAIN Tail(s) = 1..Len(Tail(s)) /\ \A i \in 1..Len(Tail(s)) : i + 1 \in 1..Len(s)
    BY <2>1, <2>2
  <2>4. \A i \in DOMAIN Tail(s) : Tail(s)[i] \in ToSet(s)
    BY <2>1, <2>2, <2>3 DEF ToSet
  <2> QED
    BY <2>1, <2>2, <2>4 DEF ToSet
<1>2. ASSUME NEW x \in S
      PROVE  Append(s, x) \in Seq(S) /\ ToSet(Append(s, x)) \subseteq ToSet(s) \cup {x}
  <2>1. /\ Append(s, x) \in Seq(S) /\ Len(Append(s, x)) = Len(s) + 1
        /\ \A i \in 1..Len(s) : Append(s, x)[i] = s[i]
        /\ Append(s, x)[Len(s) + 1] = x
    BY AppendProperties
  <2>2. Len(s) \in Nat /\ DOMAIN s = 1..Len(s)
    OBVIOUS
  <2>3. \A i \in DOMAIN Append(s, x) : i \in 1..Len(s) \/ i = Len(s) + 1
    BY <2>1, <2>2
  <2>4. \A i \in DOMAIN Append(s, x) : Append(s, x)[i] \in ToSet(s) \cup {x}
    BY <2>1, <2>2, <2>3 DEF ToSet
  <2> QED
    BY <2>1, <2>4 DEF ToSet
<1> QED
  BY <1>1, <1>2

LEMMA HearKeeps ==
    ASSUME PagedInv, NEW r \in underway, Hear(r)
    PROVE  PagedInv'
<1>1. /\ underway \in SUBSET PageAnswers /\ captured \in Seq(PageAnswers)
      /\ underway' = underway \ {r} /\ UNCHANGED <<collection, result, read>>
      /\ r \in PageAnswers
  BY DEF PagedInv, PagedTypes, Hear
<1>2. captured' = captured \/ captured' = Append(captured, r)
  BY DEF Hear
<1>3. captured' \in Seq(PageAnswers) /\ ToSet(captured') \subseteq ToSet(captured) \cup {r}
  <2>1. Append(captured, r) \in Seq(PageAnswers)
        /\ ToSet(Append(captured, r)) \subseteq ToSet(captured) \cup {r}
    BY <1>1, QueueRange
  <2> QED
    BY <1>1, <1>2, <2>1
<1>4. Pending' \subseteq Pending
  <2>1. Pending' = underway' \cup ToSet(captured')
    BY DEF Pending, ToSet
  <2> QED
    BY <1>1, <1>3, <2>1 DEF Pending
<1>5. PagedTypes'
  BY <1>1, <1>3 DEF PagedInv, PagedTypes
<1>6. PlaceInv'
  <2>1. ~(read.mode = "roster" /\ read.pc \in {"install", "navigate"})
    BY DEF PagedInv, PlaceInv
  <2> QED
    BY <1>1, <2>1 DEF PagedInv, PlaceInv, NoRead
<1>7. read' = [read EXCEPT !.pc = read.pc, !.view = read.view, !.shown = read.shown]
      /\ read.view \in Views /\ read.shown \in Nat
  BY <1>1 DEF PagedInv, PagedTypes, PageReads
<1>8. StillWaits(read.pc, read.view, read.shown, Answer("wanted", 0))
  BY <1>1, <1>4, <1>7 DEF StillWaits
<1> QED
  BY <1>5, <1>6, <1>8, WaitingKeeps DEF Views

LEMMA RefreshKeeps ==
    ASSUME PagedInv, Refresh
    PROVE  PagedInv'
<1> DEFINE a == Answer(read.view, read.shown)
<1>1. read.view \in Views /\ read.shown \in Nat /\ read.pc = "wait"
  BY DEF PagedInv, PagedTypes, PageReads, Refresh
<1>2. a \in PageAnswers
  BY <1>1, NewAnswer
<1>3. underway' = underway \cup {a} /\ UNCHANGED <<collection, captured, read, result>>
  BY DEF Refresh
<1> HIDE DEF a
<1>4. PagedTypes'
  BY <1>2, <1>3 DEF PagedInv, PagedTypes
<1>5. PlaceInv'
  BY <1>1, <1>3 DEF PagedInv, PlaceInv
<1>6. Pending' \subseteq Pending \cup {a}
  BY <1>3 DEF Pending, ToSet
<1>7. read' = [read EXCEPT !.pc = read.pc, !.view = read.view, !.shown = read.shown]
  BY <1>3 DEF PagedInv, PagedTypes, PageReads
<1>8. StillWaits(read.pc, read.view, read.shown, Answer(read.view, read.shown))
  BY <1>1, <1>3, <1>6, <1>7 DEF StillWaits, a
<1> QED
  BY <1>1, <1>4, <1>5, <1>8, WaitingKeeps

LEMMA ResetKeeps ==
    ASSUME PagedInv, ResetGeneration
    PROVE  PagedInv'
<1>1. /\ read.pc = "reset" /\ underway' = {} /\ read' = [read EXCEPT !.pc = "install"]
      /\ UNCHANGED <<collection, captured, result>> /\ read \in PageReads
  BY DEF ResetGeneration, AfterNewDocument, PagedInv, PagedTypes
<1>2. read' = [read EXCEPT !.pc = "install", !.view = read.view, !.shown = read.shown]
      /\ read' \in PageReads /\ read.view \in Views /\ read.shown \in Nat
  BY <1>1 DEF PageReads, PagePcs
<1>3. PagedTypes'
  BY <1>1, <1>2 DEF PagedInv, PagedTypes
<1>4. PlaceInv'
  BY <1>1 DEF PagedInv, PlaceInv, PageReads
<1>5. Pending' \subseteq Pending
  BY <1>1 DEF Pending, ToSet
<1>6. StillWaits("install", read.view, read.shown, Answer("wanted", 0))
  BY <1>1, <1>2, <1>5 DEF StillWaits
<1> QED
  BY <1>3, <1>4, <1>6, WaitingKeeps DEF Views

LEMMA InstallKeeps ==
    ASSUME PagedInv, InstallCapture
    PROVE  PagedInv'
<1>1. /\ read.pc = "install" /\ captured' = << >> /\ read' = [read EXCEPT !.pc = "navigate"]
      /\ UNCHANGED <<collection, underway, result>> /\ read \in PageReads
  BY DEF InstallCapture, PagedInv, PagedTypes
<1>2. read' = [read EXCEPT !.pc = "navigate", !.view = read.view, !.shown = read.shown]
      /\ read' \in PageReads /\ read.view \in Views /\ read.shown \in Nat
  BY <1>1 DEF PageReads, PagePcs
<1>3. << >> \in Seq(PageAnswers) /\ DOMAIN << >> = {}
  OBVIOUS
<1>4. PagedTypes'
  BY <1>1, <1>2, <1>3 DEF PagedInv, PagedTypes
<1>5. PlaceInv'
  BY <1>1 DEF PagedInv, PlaceInv, PageReads
<1>6. Pending' \subseteq Pending
  <2>1. ToSet(captured') = {}
    BY <1>1, <1>3 DEF ToSet
  <2>2. Pending' = underway' \cup ToSet(captured')
    BY DEF Pending, ToSet
  <2> QED
    BY <1>1, <2>1, <2>2 DEF Pending
<1>7. StillWaits("navigate", read.view, read.shown, Answer("wanted", 0))
  BY <1>1, <1>2, <1>6 DEF StillWaits
<1> QED
  BY <1>4, <1>5, <1>7, WaitingKeeps DEF Views

LEMMA NavigateKeeps ==
    ASSUME PagedInv, Navigate
    PROVE  PagedInv'
<1> DEFINE a == Answer(read.view, 1)
<1>1. /\ read.pc = "navigate" /\ underway' = {a}
      /\ read' = [read EXCEPT !.pc = "wait", !.shown = 1]
      /\ UNCHANGED <<collection, captured, result>> /\ read \in PageReads
  BY DEF Navigate, PagedInv, PagedTypes
<1>2. read' = [read EXCEPT !.pc = "wait", !.view = read.view, !.shown = 1]
      /\ read' \in PageReads /\ read.view \in Views
  BY <1>1 DEF PageReads, PagePcs
<1>3. a \in PageAnswers
  BY <1>2, NewAnswer
<1> HIDE DEF a
<1>4. PagedTypes'
  BY <1>1, <1>2, <1>3 DEF PagedInv, PagedTypes
<1>5. PlaceInv'
  BY <1>1 DEF PagedInv, PlaceInv, PageReads
<1>6. Pending' \subseteq Pending \cup {a}
  BY <1>1 DEF Pending, ToSet
<1>7. read.mode = "roster" => Pending' \subseteq {a}
  <2>1. DOMAIN << >> = {}
    OBVIOUS
  <2> SUFFICES ASSUME read.mode = "roster" PROVE Pending' \subseteq {a}
    OBVIOUS
  <2>2. captured' = << >>
    BY <1>1 DEF PagedInv, PlaceInv
  <2>3. ToSet(captured') = {}
    BY <2>1, <2>2 DEF ToSet
  <2>4. Pending' = underway' \cup ToSet(captured')
    BY DEF Pending, ToSet
  <2> QED
    BY <1>1, <2>3, <2>4
<1>8. StillWaits("wait", read.view, 1, Answer(read.view, 1))
  BY <1>1, <1>2, <1>6, <1>7 DEF StillWaits, a
<1> QED
  BY <1>2, <1>4, <1>5, <1>8, WaitingKeeps

LEMMA DiscardKeeps ==
    ASSUME PagedInv, DiscardAnswer
    PROVE  PagedInv'
<1>1. /\ read.pc = "wait" /\ captured # << >> /\ captured' = Tail(captured)
      /\ UNCHANGED <<underway, collection, read, result>>
      /\ captured \in Seq(PageAnswers)
  BY DEF DiscardAnswer, Skip, PagedInv, PagedTypes
<1>2. captured' \in Seq(PageAnswers) /\ ToSet(captured') \subseteq ToSet(captured)
  BY <1>1, QueueRange
<1>3. Pending' \subseteq Pending
  <2>1. Pending' = underway' \cup ToSet(captured')
    BY DEF Pending, ToSet
  <2> QED
    BY <1>1, <1>2, <2>1 DEF Pending
<1>4. PagedTypes'
  BY <1>1, <1>2 DEF PagedInv, PagedTypes
<1>5. PlaceInv'
  BY <1>1 DEF PagedInv, PlaceInv
<1>6. read' = [read EXCEPT !.pc = read.pc, !.view = read.view, !.shown = read.shown]
      /\ read.view \in Views /\ read.shown \in Nat
  BY <1>1 DEF PagedInv, PagedTypes, PageReads
<1>7. StillWaits(read.pc, read.view, read.shown, Answer("wanted", 0))
  BY <1>1, <1>3, <1>6 DEF StillWaits
<1> QED
  BY <1>4, <1>5, <1>7, WaitingKeeps DEF Views

LEMMA UiActionKeeps ==
    ASSUME PagedInv, read.pc = "wait", captured # << >>, read.mode = "roster",
           NEW r, UiAction(r), UNCHANGED collection
    PROVE  PagedInv'
<1> DEFINE n == IF read.view # read.target THEN 1 ELSE read.shown + 1
           a == Answer(read.target, n)
<1>1. /\ captured' = Tail(captured) /\ underway' = underway \cup {a}
      /\ read' = [read EXCEPT !.view = read.target, !.shown = n] /\ UNCHANGED result
      /\ read \in PageReads /\ captured \in Seq(PageAnswers)
  BY DEF UiAction, PagedInv, PagedTypes
<1>2. n \in Nat /\ read.target \in Views
  BY <1>1 DEF PageReads
<1> HIDE DEF n
<1>3. a \in PageAnswers
  BY <1>2, NewAnswer
<1> HIDE DEF a
<1>4. read' = [read EXCEPT !.pc = read.pc, !.view = read.target, !.shown = n]
      /\ read' \in PageReads
  BY <1>1, <1>2 DEF PageReads
<1>5. captured' \in Seq(PageAnswers) /\ ToSet(captured') \subseteq ToSet(captured)
  BY <1>1, QueueRange
<1>6. Pending' \subseteq Pending \cup {a}
  <2>1. Pending' = underway' \cup ToSet(captured')
    BY DEF Pending, ToSet
  <2> QED
    BY <1>1, <1>5, <2>1 DEF Pending
<1>7. PagedTypes'
  BY <1>1, <1>3, <1>4, <1>5 DEF PagedInv, PagedTypes
<1>8. PlaceInv'
  <2>1. /\ read'.pc = "wait" /\ read'.mode = "roster" /\ read'.total = read.total
        /\ read'.items = read.items
    BY <1>1 DEF PageReads
  <2> QED
    BY <2>1 DEF PagedInv, PlaceInv
<1>9. StillWaits(read.pc, read.target, n, Answer(read.target, n))
  BY <1>1, <1>4, <1>6 DEF StillWaits, a
<1> QED
  BY <1>2, <1>7, <1>8, <1>9, WaitingKeeps
-----------------------------------------------------------------------------
(* An edit moves what is shown one way only. *)
LEMMA EditKeeps ==
    ASSUME PagedInv, NEW x \in Entries, Edit(x)
    PROVE  PagedInv'
<1> DEFINE change == IF x \in collection THEN "left" ELSE "joined"
           After(r) == [r EXCEPT !.stayed = @ \ {x}, !.changes = @ \cup {change}]
<1>1. /\ collection' = IF x \in collection THEN collection \ {x} ELSE collection \cup {x}
      /\ underway' = {After(r) : r \in underway}
      /\ captured' = [i \in DOMAIN captured |-> After(captured[i])]
      /\ read' = IF read.pc = "idle" THEN read
                 ELSE [After(read) EXCEPT !.ever = @ \cup collection']
      /\ UNCHANGED result
  BY DEF Edit
<1>2. /\ collection \in SUBSET Entries /\ underway \in SUBSET PageAnswers
      /\ captured \in Seq(PageAnswers) /\ read \in PageReads
  BY DEF PagedInv, PagedTypes
<1>3. change \in {"left", "joined"} /\ collection' \in SUBSET Entries
  BY <1>1, <1>2
<1>4. \A v : /\ change = "left" => Shown(v)' \subseteq Shown(v)
             /\ change = "joined" => Shown(v) \subseteq Shown(v)'
  BY <1>1 DEF Shown
<1> HIDE DEF change
<1>5. \A r \in PageAnswers :
        /\ After(r) \in PageAnswers /\ After(r).view = r.view /\ After(r).ids = r.ids
        /\ After(r).total = r.total /\ After(r).stayed = r.stayed \ {x}
        /\ After(r).changes = r.changes \cup {change}
  BY <1>3 DEF PageAnswers
<1>6. captured' \in Seq(PageAnswers) /\ DOMAIN captured' = DOMAIN captured
      /\ \A i \in DOMAIN captured : captured[i] \in PageAnswers /\ captured'[i] = After(captured[i])
  <2>1. DOMAIN captured = 1..Len(captured) /\ Len(captured) \in Nat
        /\ \A i \in DOMAIN captured : captured[i] \in PageAnswers
    BY <1>2
  <2> HIDE DEF After
  <2>2. \A i \in DOMAIN captured : After(captured[i]) \in PageAnswers
    BY <1>5, <2>1
  <2> QED
    BY <1>1, <2>1, <2>2
<1>7. \A q \in Pending' : \E r \in Pending : r \in PageAnswers /\ q = After(r)
  <2>1. Pending' = underway' \cup ToSet(captured')
    BY DEF Pending, ToSet
  <2> HIDE DEF After
  <2>2. \A q \in underway' : \E r \in Pending : r \in PageAnswers /\ q = After(r)
    BY <1>1, <1>2 DEF Pending
  <2>3. \A q \in ToSet(captured') : \E r \in Pending : r \in PageAnswers /\ q = After(r)
    BY <1>6 DEF Pending, ToSet
  <2> QED
    BY <2>1, <2>2, <2>3
<1>8. /\ read.pc # "idle" =>
           /\ read' \in PageReads
           /\ read'.pc = read.pc /\ read'.mode = read.mode /\ read'.view = read.view
           /\ read'.target = read.target /\ read'.total = read.total
           /\ read'.items = read.items /\ read'.stayed = read.stayed \ {x}
           /\ read'.changes = read.changes \cup {change}
           /\ read'.ever = read.ever \cup collection'
      /\ read.pc = "idle" => read' = read
  <2>1. CASE read.pc # "idle"
    <3>1. read' = [read EXCEPT !.stayed = @ \ {x}, !.changes = @ \cup {change},
                               !.ever = @ \cup collection']
      BY <1>1, <1>2, <2>1 DEF PageReads
    <3> QED
      BY <1>2, <1>3, <2>1, <3>1 DEF PageReads
  <2>2. CASE read.pc = "idle"
    BY <1>1, <2>2
  <2> QED
    BY <2>1, <2>2
<1>9. PagedTypes'
  <2>1. underway' \in SUBSET PageAnswers
    <3> HIDE DEF After
    <3> QED
      BY <1>1, <1>2, <1>5
  <2> QED
    BY <1>2, <1>3, <1>6, <1>8, <2>1 DEF PagedTypes
<1> HIDE DEF After
<1>10. AnswersInv'
  <2> SUFFICES ASSUME NEW q \in Pending' PROVE AnswerOK(q)'
    BY DEF AnswersInv
  <2>1. PICK r \in Pending : r \in PageAnswers /\ q = After(r)
    BY <1>7
  <2>2. NoTwice(r.ids)
    BY DEF PagedInv, AnswersInv, AnswerOK
  <2>3. PICK S \in SUBSET Entries : ShownThen(r, S) /\ ToSet(r.ids) \subseteq S
    BY DEF PagedInv, AnswersInv, AnswerOK
  <2>4. /\ q.view = r.view /\ q.ids = r.ids /\ q.total = r.total
        /\ q.stayed = r.stayed \ {x} /\ q.changes = r.changes \cup {change}
    BY <1>5, <2>1
  <2>5. ShownThen(q, S)'
    <3>1. Cardinality(S) = q.total /\ q.stayed \subseteq S
      BY <2>3, <2>4 DEF ShownThen
    <3>2. "joined" \notin q.changes => Shown(q.view)' \subseteq S
      BY <1>3, <1>4, <2>3, <2>4 DEF ShownThen
    <3>3. "left" \notin q.changes => S \subseteq Shown(q.view)'
      BY <1>3, <1>4, <2>3, <2>4 DEF ShownThen
    <3> QED
      BY <3>1, <3>2, <3>3 DEF ShownThen, Shown
  <2> QED
    BY <2>2, <2>3, <2>4, <2>5 DEF AnswerOK
<1>11. PlaceInv'
  <2>1. CASE read.pc = "idle"
    <3>1. read = NoRead /\ read' = NoRead
      BY <1>8, <2>1 DEF PagedInv, PlaceInv
    <3> QED
      BY <3>1 DEF PlaceInv, NoRead
  <2>2. CASE read.pc # "idle"
    <3>1. underway = {} => underway' = {}
      BY <1>1
    <3>2. captured = << >> => captured' = << >>
      BY <1>2, <1>6
    <3> QED
      BY <1>8, <2>2, <3>1, <3>2 DEF PagedInv, PlaceInv
  <2> QED
    BY <2>1, <2>2
<1>12. EverInv'
  <2>1. CASE read.pc = "idle"
    BY <1>8, <2>1 DEF PagedInv, PlaceInv, EverInv, NoRead
  <2>2. CASE read.pc # "idle"
    <3> SUFFICES ASSUME read.mode = "roster" PROVE EverInv'
      BY <1>8, <2>2 DEF EverInv
    <3>1. ToSet(read'.items) \subseteq read'.ever /\ collection' \subseteq read'.ever
      BY <1>8, <2>2 DEF PagedInv, EverInv
    <3>2. ASSUME read.pc = "wait", NEW q \in Pending' PROVE ToSet(q.ids) \subseteq read'.ever
      <4>1. PICK r \in Pending : r \in PageAnswers /\ q = After(r)
        BY <1>7
      <4>2. ToSet(r.ids) \subseteq read.ever /\ q.ids = r.ids
        BY <1>5, <3>2, <4>1 DEF PagedInv, EverInv
      <4> QED
        BY <1>8, <2>2, <4>2
    <3> QED
      BY <1>8, <2>2, <3>1, <3>2 DEF EverInv, ToSet
  <2> QED
    BY <2>1, <2>2
<1>13. GatherInv'
  <2>1. CASE read.pc = "idle"
    <3>1. read = NoRead /\ read' = NoRead
      BY <1>8, <2>1 DEF PagedInv, PlaceInv
    <3> QED
      BY <3>1 DEF PagedInv, GatherInv, NoRead
  <2>2. CASE read.pc # "idle"
    <3>1. NoTwice(read'.items)
      BY <1>8, <2>2 DEF PagedInv, GatherInv
    <3> SUFFICES ASSUME read.total # -1
                 PROVE  \E S \in SUBSET Entries :
                          /\ SourceIs(S)'
                          /\ read'.pc = "wait" =>
                               \A q \in Pending' : q.view = read'.target => Belongs(q, S)'
      BY <1>8, <2>2, <3>1 DEF GatherInv
    <3>2. PICK S \in SUBSET Entries :
            /\ SourceIs(S)
            /\ read.pc = "wait" => \A r \in Pending : r.view = read.target => Belongs(r, S)
      BY DEF PagedInv, GatherInv
    <3>3. SourceIs(S)'
      <4>1. Cardinality(S) = read'.total /\ read'.stayed \subseteq S
        BY <1>8, <2>2, <3>2 DEF SourceIs
      <4>2. "joined" \notin read'.changes => Shown(read.target)' \subseteq S
        <5>1. "joined" \notin read'.changes =>
                change = "left" /\ Shown(read.target) \subseteq S
          BY <1>3, <1>8, <2>2, <3>2 DEF SourceIs
        <5> QED
          BY <1>4, <1>8, <2>2, <5>1 DEF Shown
      <4>3. "left" \notin read'.changes => S \subseteq Shown(read.target)'
        <5>1. "left" \notin read'.changes =>
                change = "joined" /\ S \subseteq Shown(read.target)
          BY <1>3, <1>8, <2>2, <3>2 DEF SourceIs
        <5> QED
          BY <1>4, <1>8, <2>2, <5>1 DEF Shown
      <4>4. read'.changes # {"left", "joined"} => ToSet(read'.items) \subseteq S
        <5>1. read.changes \in SUBSET {"left", "joined"}
          BY <1>2 DEF PageReads
        <5> QED
          BY <1>3, <1>8, <2>2, <3>2, <5>1 DEF SourceIs
      <4> QED
        BY <4>1, <4>2, <4>3, <4>4 DEF SourceIs, Shown, ToSet
    <3>4. ASSUME read.pc = "wait", NEW q \in Pending', q.view = read.target
          PROVE  Belongs(q, S)'
      <4>1. PICK r \in Pending : r \in PageAnswers /\ q = After(r)
        BY <1>7
      <4>2. q.view = r.view /\ q.ids = r.ids /\ q.total = r.total
        BY <1>5, <4>1
      <4>3. Belongs(r, S)
        BY <3>2, <3>4, <4>2
      <4>4. read.changes \in SUBSET {"left", "joined"}
        BY <1>2 DEF PageReads
      <4> QED
        BY <1>3, <1>8, <2>2, <4>2, <4>3, <4>4 DEF Belongs
    <3> QED
      BY <1>8, <2>2, <3>3, <3>4
  <2> QED
    BY <2>1, <2>2
<1>14. NothingIsMissed' /\ RosterIsFresh'
  BY <1>1 DEF PagedInv, NothingIsMissed, RosterIsFresh
<1> QED
  BY <1>9, <1>10, <1>11, <1>12, <1>13, <1>14 DEF PagedInv
-----------------------------------------------------------------------------
LEMMA InitPagedInv ==
    ASSUME NEW reads \in BOOLEAN, PagedInit(reads)
    PROVE  PagedInv
<1>1. << >> \in Seq(PageAnswers) /\ << >> \in Seq(Entries) /\ DOMAIN << >> = {}
      /\ Len(<< >>) = 0
  OBVIOUS
<1>2. read = NoRead /\ result = NoResult /\ underway = {} /\ captured = << >>
      /\ collection = Initially
  BY DEF PagedInit
<1>3. read \in PageReads
  BY <1>1, <1>2 DEF NoRead, PageReads, PagePcs, Views
<1>4. Pending = {}
  BY <1>1, <1>2 DEF Pending, ToSet
<1>5. NothingIsMissed
  <2>1. result.items = << >> /\ result.stayed = {}
    BY <1>2 DEF NoResult
  <2>2. ToSet(result.items) = {}
    BY <1>1, <2>1 DEF ToSet
  <2> QED
    BY <1>1, <2>1, <2>2, FS_EmptySet DEF NothingIsMissed
<1>6. PagedTypes
  BY <1>1, <1>2, <1>3, PagedAssumption DEF PagedTypes
<1>7. AnswersInv /\ PlaceInv /\ EverInv /\ GatherInv /\ RosterIsFresh
  BY <1>1, <1>2, <1>4 DEF AnswersInv, PlaceInv, EverInv, GatherInv, RosterIsFresh, NoRead, NoResult,
                          NoTwice
<1> QED
  BY <1>5, <1>6, <1>7 DEF PagedInv

(* A read begins, or ends with an error. *)
LEMMA FreshReadKeeps ==
    ASSUME PagedInv, UNCHANGED <<collection, underway, captured>>,
           read' \in PageReads, read'.total = -1, read'.items = << >>,
           read'.pc \in {"idle", "reset", "install"}, read'.pc = "idle" => read' = NoRead,
           read'.pc = "install" => read'.mode # "roster",
           read'.pc # "idle" => read'.mode # "none",
           read'.mode = "resource" => read'.target = "wanted" /\ read'.view = "wanted",
           read'.mode = "roster" => collection \subseteq read'.ever,
           NothingIsMissed', RosterIsFresh'
    PROVE  PagedInv'
<1>1. DOMAIN << >> = {}
  OBVIOUS
<1>2. PagedTypes'
  BY DEF PagedInv, PagedTypes
<1>3. AnswersInv'
  <2>1. Pending' = Pending
    BY DEF Pending, ToSet
  <2>2. \A r : AnswerOK(r)' <=> AnswerOK(r)
    BY DEF AnswerOK, ShownThen, Shown
  <2> QED
    BY <2>1, <2>2 DEF PagedInv, AnswersInv
<1>4. PlaceInv'
  BY DEF PlaceInv
<1>5. ToSet(read'.items) = {}
  BY <1>1 DEF ToSet
<1>6. EverInv'
  BY <1>5 DEF EverInv, ToSet
<1>7. GatherInv'
  BY <1>1 DEF GatherInv, NoTwice
<1> QED
  BY <1>2, <1>3, <1>4, <1>6, <1>7 DEF PagedInv

LEMMA StartReadKeeps ==
    ASSUME PagedInv, NEW mode \in {"roster", "resource"}, NEW want \in Views, StartRead(mode, want)
    PROVE  PagedInv'
<1>1. /\ read' = [NoRead EXCEPT !.pc = IF mode = "roster" THEN "reset" ELSE "install",
                              !.mode = mode, !.target = want, !.ever = collection,
                              !.view = IF mode = "roster" THEN "initial" ELSE "wanted"]
      /\ mode = "resource" => want = "wanted"
      /\ result' = NoResult /\ UNCHANGED <<collection, underway, captured>>
  BY DEF StartRead, captureVars
<1>2. << >> \in Seq(Entries) /\ DOMAIN << >> = {} /\ Len(<< >>) = 0
  OBVIOUS
<1>3. collection \in SUBSET Entries
  BY DEF PagedInv, PagedTypes
<1>4. read' = [pc |-> IF mode = "roster" THEN "reset" ELSE "install", mode |-> mode,
               view |-> IF mode = "roster" THEN "initial" ELSE "wanted", target |-> want,
               shown |-> 1, page |-> 1, total |-> -1, items |-> <<>>, stayed |-> {},
               changes |-> {}, ever |-> collection]
  BY <1>1 DEF NoRead
<1>5. read' \in PageReads
  BY <1>2, <1>3, <1>4 DEF PageReads, PagePcs, Views
<1>6. NothingIsMissed'
  <2>1. result'.items = << >> /\ result'.stayed = {}
    BY <1>1 DEF NoResult
  <2>2. ToSet(result'.items) = {}
    BY <1>2, <2>1 DEF ToSet
  <2> QED
    BY <1>2, <2>1, <2>2, FS_EmptySet DEF NothingIsMissed, ToSet
<1>7. RosterIsFresh'
  BY <1>1 DEF RosterIsFresh, NoResult
<1>8. /\ read'.total = -1 /\ read'.items = << >> /\ read'.pc \in {"reset", "install"}
      /\ read'.pc = "install" => read'.mode # "roster"
      /\ read'.pc # "idle" => read'.mode # "none"
      /\ read'.mode = "resource" => read'.target = "wanted" /\ read'.view = "wanted"
      /\ collection \subseteq read'.ever
  <2>1. /\ read'.total = -1 /\ read'.items = << >> /\ read'.mode = mode /\ read'.target = want
        /\ read'.pc = IF mode = "roster" THEN "reset" ELSE "install"
        /\ read'.view = IF mode = "roster" THEN "initial" ELSE "wanted"
        /\ read'.ever = collection
    BY ONLY <1>4
  <2> QED
    BY <1>1, <2>1
<1> QED
  BY ONLY PagedInv, <1>1, <1>5, <1>6, <1>7, <1>8, FreshReadKeeps

LEMMA FailReadKeeps ==
    ASSUME PagedInv, FailRead
    PROVE  PagedInv'
<1>1. read' = NoRead /\ UNCHANGED <<collection, underway, captured, result>>
  BY DEF FailRead, captureVars
<1>2. << >> \in Seq(Entries)
  OBVIOUS
<1>3. NoRead \in PageReads
  BY <1>2 DEF NoRead, PageReads, PagePcs, Views
<1>4. NothingIsMissed' /\ RosterIsFresh'
  BY <1>1 DEF PagedInv, NothingIsMissed, RosterIsFresh
<1> QED
  BY <1>1, <1>3, <1>4, FreshReadKeeps DEF NoRead
-----------------------------------------------------------------------------
(* The page that is taken belongs with what is gathered. *)
Takes(r) ==
    /\ PageFits(r) /\ TakePage(r) /\ UNCHANGED collection
    /\ r.view = read.target /\ AnswerOK(r)
    /\ read.total # -1 => \E S \in SUBSET Entries : SourceIs(S) /\ Belongs(r, S)
    /\ read.mode = "roster" => ToSet(r.ids) \subseteq read.ever
    /\ Pending' \subseteq Pending

(* What is gathered with r has a source, as what was gathered had. *)
Source(done, S) ==
    /\ Cardinality(S) = done.total /\ done.stayed \subseteq S
    /\ "joined" \notin done.changes => Shown(done.target) \subseteq S
    /\ "left" \notin done.changes => S \subseteq Shown(done.target)
    /\ done.changes # {"left", "joined"} => ToSet(done.items) \subseteq S

LEMMA GatheredTypes ==
    ASSUME PagedInv, NEW r \in PageAnswers, Takes(r), NEW done, done = Gathered(r)
    PROVE  /\ done \in PageReads
           /\ done.mode = read.mode /\ done.view = read.view /\ done.target = read.target
           /\ done.page = read.page /\ done.total = r.total /\ done.ever = read.ever
           /\ done.items = read.items \o r.ids /\ NoTwice(done.items)
           /\ ToSet(done.items) = ToSet(read.items) \cup ToSet(r.ids)
           /\ done.stayed = IF read.total = -1 THEN r.stayed ELSE read.stayed
           /\ done.changes = IF read.total = -1 THEN r.changes ELSE read.changes
<1>1. read \in PageReads /\ NoTwice(read.items) /\ NoTwice(r.ids)
      /\ ToSet(r.ids) \cap ToSet(read.items) = {}
  BY DEF PagedInv, PagedTypes, GatherInv, Takes, AnswerOK, PageFits
<1>2. read.items \in Seq(Entries) /\ r.ids \in Seq(Entries)
  BY <1>1 DEF PageReads, PageAnswers
<1>3. /\ read.items \o r.ids \in Seq(Entries) /\ NoTwice(read.items \o r.ids)
      /\ ToSet(read.items \o r.ids) = ToSet(read.items) \cup ToSet(r.ids)
  BY <1>1, <1>2, Concatenated
<1> DEFINE items == read.items \o r.ids
           stayed == IF read.total = -1 THEN r.stayed ELSE read.stayed
           changes == IF read.total = -1 THEN r.changes ELSE read.changes
<1>4. stayed \in SUBSET Entries /\ changes \in SUBSET {"left", "joined"} /\ r.total \in Nat
  BY <1>1 DEF PageReads, PageAnswers
<1>5. done = [read EXCEPT !.items = items, !.total = r.total, !.stayed = stayed,
                          !.changes = changes]
  BY DEF Gathered
<1>6. items \in Seq(Entries) /\ NoTwice(items)
      /\ ToSet(items) = ToSet(read.items) \cup ToSet(r.ids)
  BY <1>3
<1> HIDE DEF items, stayed, changes
<1>7. done = [pc |-> read.pc, mode |-> read.mode, view |-> read.view, target |-> read.target,
              shown |-> read.shown, page |-> read.page, total |-> r.total, items |-> items,
              stayed |-> stayed, changes |-> changes, ever |-> read.ever]
  BY ONLY <1>1, <1>5 DEF PageReads
<1>8. done \in PageReads
  BY <1>1, <1>4, <1>6, <1>7 DEF PageReads
<1>9. /\ done.mode = read.mode /\ done.view = read.view /\ done.target = read.target
      /\ done.page = read.page /\ done.total = r.total /\ done.ever = read.ever
      /\ done.items = items /\ done.stayed = stayed /\ done.changes = changes
  BY ONLY <1>7
<1> QED
  BY <1>6, <1>8, <1>9 DEF items, stayed, changes

LEMMA GatheredHasSource ==
    ASSUME PagedInv, NEW r \in PageAnswers, Takes(r), NEW done, done = Gathered(r)
    PROVE  \E S \in SUBSET Entries : Source(done, S)
<1>1. /\ done.target = read.target /\ done.total = r.total
      /\ ToSet(done.items) = ToSet(read.items) \cup ToSet(r.ids)
      /\ done.stayed = IF read.total = -1 THEN r.stayed ELSE read.stayed
      /\ done.changes = IF read.total = -1 THEN r.changes ELSE read.changes
  BY GatheredTypes
<1>2. CASE read.total = -1
  <2>1. PICK S \in SUBSET Entries : ShownThen(r, S) /\ ToSet(r.ids) \subseteq S
    BY DEF Takes, AnswerOK
  <2>2. ToSet(read.items) = {}
    <3>1. DOMAIN << >> = {} /\ read.items = << >>
      BY <1>2 DEF PagedInv, PlaceInv
    <3> QED
      BY <3>1 DEF ToSet
  <2>3. r.view = read.target
    BY DEF Takes
  <2> QED
    BY <1>1, <1>2, <2>1, <2>2, <2>3 DEF Source, ShownThen
<1>3. CASE read.total # -1
  <2>1. PICK S \in SUBSET Entries : SourceIs(S) /\ Belongs(r, S)
    BY <1>3 DEF Takes
  <2>2. r.total = read.total
    BY <1>3 DEF Takes, PageFits, SameTotal
  <2>3. /\ done.total = read.total /\ done.stayed = read.stayed /\ done.changes = read.changes
    BY <1>1, <1>3, <2>2
  <2>4. done.changes # {"left", "joined"} => ToSet(done.items) \subseteq S
    BY <1>1, <2>1, <2>2, <2>3 DEF Belongs, SourceIs
  <2> QED
    BY <1>1, <2>1, <2>3, <2>4 DEF Source, SourceIs
<1> QED
  BY <1>2, <1>3

(* Every page came: as many entries as the total, all from the source. *)
LEMMA ReturnedIsWhole ==
    ASSUME PagedInv, NEW r \in PageAnswers, Takes(r), Return(r)
    PROVE  NothingIsMissed' /\ RosterIsFresh'
<1> DEFINE done == Gathered(r)
<1>1. /\ done \in PageReads /\ done.mode = read.mode /\ done.ever = read.ever
      /\ NoTwice(done.items)
      /\ ToSet(done.items) = ToSet(read.items) \cup ToSet(r.ids)
  BY GatheredTypes
<1>2. PICK S \in SUBSET Entries : Source(done, S)
  BY GatheredHasSource
<1>3. result' = IF Len(done.items) = done.total
                THEN [mode |-> done.mode, items |-> done.items, stayed |-> done.stayed,
                      changes |-> done.changes, ever |-> done.ever]
                ELSE NoResult
  BY DEF Return
<1>4. read.mode = "roster" => ToSet(read.items) \subseteq read.ever /\ ToSet(r.ids) \subseteq read.ever
  BY DEF PagedInv, EverInv, Takes
<1> HIDE DEF done
<1>5. CASE Len(done.items) = done.total
  <2>1. /\ result'.items = done.items /\ result'.stayed = done.stayed
        /\ result'.changes = done.changes /\ result'.mode = done.mode /\ result'.ever = done.ever
    BY <1>3, <1>5
  <2>2. done.items \in Seq(Entries) /\ done.changes \in SUBSET {"left", "joined"}
    BY <1>1 DEF PageReads
  <2>3. IsFiniteSet(ToSet(done.items)) /\ Cardinality(ToSet(done.items)) = Len(done.items)
    BY <1>1, <2>2, CountedOnce
  <2>4. IsFiniteSet(S) /\ Cardinality(S) = Cardinality(ToSet(done.items))
    BY <1>2, <1>5, <2>3, PagedAssumption, FS_Subset DEF Source
  <2>5. done.changes # {"left", "joined"} => done.stayed \subseteq ToSet(done.items)
    <3> SUFFICES ASSUME done.changes # {"left", "joined"}
                 PROVE  done.stayed \subseteq ToSet(done.items)
      OBVIOUS
    <3>1. ToSet(done.items) \subseteq S /\ done.stayed \subseteq S
      BY <1>2 DEF Source
    <3>2. ToSet(done.items) = S
      BY <2>4, <3>1, FS_Subset
    <3> QED
      BY <3>1, <3>2
  <2>6. NothingIsMissed'
    BY <2>1, <2>3, <2>5 DEF NothingIsMissed, ToSet
  <2>7. RosterIsFresh'
    BY <1>1, <1>4, <2>1 DEF RosterIsFresh, ToSet
  <2> QED
    BY <2>6, <2>7
<1>6. CASE Len(done.items) # done.total
  <2>1. result' = NoResult
    BY <1>3, <1>6
  <2>2. DOMAIN << >> = {} /\ Len(<< >>) = 0 /\ result'.items = << >> /\ result'.stayed = {}
    BY <2>1 DEF NoResult
  <2>3. ToSet(result'.items) = {}
    BY <2>2 DEF ToSet
  <2> QED
    BY <2>1, <2>2, <2>3, FS_EmptySet DEF NothingIsMissed, RosterIsFresh, NoResult, ToSet
<1> QED
  BY <1>5, <1>6

LEMMA TakesKeeps ==
    ASSUME PagedInv, NEW r \in PageAnswers, Takes(r), read.pc \in {"wait", "fetch"},
           underway' \in SUBSET PageAnswers, captured' \in Seq(PageAnswers)
    PROVE  PagedInv'
<1> DEFINE done == Gathered(r)
<1>1. AnswersInv'
  <2>1. Pending' \subseteq Pending /\ UNCHANGED collection
    BY DEF Takes
  <2>2. \A q : AnswerOK(q)' <=> AnswerOK(q)
    BY <2>1 DEF AnswerOK, ShownThen, Shown
  <2> QED
    BY <2>1, <2>2 DEF PagedInv, AnswersInv
<1>2. CASE r.page = LastPage(r.total)
  <2>1. Return(r)
    BY <1>2 DEF Takes, TakePage
  <2>2. NothingIsMissed' /\ RosterIsFresh'
    BY <2>1, ReturnedIsWhole
  <2>3. read' = NoRead
    BY <2>1 DEF Return
  <2>4. << >> \in Seq(Entries) /\ DOMAIN << >> = {}
    OBVIOUS
  <2>5. NoRead \in PageReads
    BY <2>4 DEF NoRead, PageReads, PagePcs, Views
  <2>6. PagedTypes'
    BY <2>3, <2>5 DEF PagedInv, PagedTypes, Takes
  <2>7. PlaceInv' /\ EverInv' /\ GatherInv'
    BY <2>3, <2>4 DEF PlaceInv, EverInv, GatherInv, NoRead, NoTwice
  <2> QED
    BY <1>1, <2>2, <2>6, <2>7 DEF PagedInv
<1>3. CASE r.page # LastPage(r.total)
  <2> DEFINE next == IF read.mode = "roster" THEN "reset" ELSE "fetch"
             view == IF read.mode = "roster" THEN "initial" ELSE read.view
  <2>1. /\ done \in PageReads
        /\ done.mode = read.mode /\ done.view = read.view /\ done.target = read.target
        /\ done.page = read.page /\ done.total = r.total /\ done.ever = read.ever
        /\ NoTwice(done.items)
        /\ ToSet(done.items) = ToSet(read.items) \cup ToSet(r.ids)
    BY GatheredTypes
  <2>2. PICK S \in SUBSET Entries : Source(done, S)
    BY GatheredHasSource
  <2>3. read' = [done EXCEPT !.pc = next, !.view = view, !.page = read.page + 1] /\ UNCHANGED result
    BY <1>3, <2>1 DEF Takes, TakePage
  <2>4. next \in PagePcs /\ view \in Views /\ read.page + 1 \in Nat
    BY DEF PagedInv, PagedTypes, PageReads, PagePcs, Views
  <2> HIDE DEF done, next, view
  <2>5. /\ read' \in PageReads /\ read'.pc = next /\ read'.mode = read.mode /\ read'.view = view
        /\ read'.target = done.target /\ read'.total = done.total /\ read'.items = done.items
        /\ read'.stayed = done.stayed /\ read'.changes = done.changes /\ read'.ever = read.ever
    BY <2>1, <2>3, <2>4 DEF PageReads
  <2>6. PagedTypes'
    BY <2>5 DEF PagedInv, PagedTypes, Takes
  <2>7. r.total \in Nat
    BY DEF PageAnswers
  <2>8. read.mode \in {"roster", "resource"} /\ (read.mode = "resource" => read.target = "wanted" /\ read.view = "wanted")
    BY DEF PagedInv, PagedTypes, PageReads, PlaceInv
  <2>9. PlaceInv'
    BY <2>1, <2>5, <2>7, <2>8 DEF PlaceInv, next, view
  <2>10. EverInv'
    <3>1. next # "wait"
      BY DEF next
    <3>2. ToSet(read'.items) = ToSet(done.items)
      BY <2>5
    <3>3. read.mode = "roster" => /\ collection \subseteq read.ever
                                  /\ ToSet(done.items) \subseteq read.ever
      BY <2>1 DEF PagedInv, EverInv, Takes
    <3> QED
      BY <2>5, <3>1, <3>2, <3>3 DEF EverInv, ToSet, Takes
  <2>11. GatherInv'
    <3>1. next # "wait"
      BY DEF next
    <3>2. SourceIs(S)'
      BY <2>2, <2>5 DEF SourceIs, Source, Shown, ToSet, Takes
    <3>3. NoTwice(read'.items)
      BY <2>1, <2>5
    <3> QED
      BY <2>5, <3>1, <3>2, <3>3 DEF GatherInv
  <2>12. NothingIsMissed' /\ RosterIsFresh'
    BY <2>3 DEF PagedInv, NothingIsMissed, RosterIsFresh
  <2> QED
    BY <1>1, <2>6, <2>9, <2>10, <2>11, <2>12 DEF PagedInv
<1> QED
  BY <1>2, <1>3

LEMMA AcceptKeeps ==
    ASSUME PagedInv, AcceptAnswer
    PROVE  PagedInv'
<1> DEFINE r == Head(captured)
<1>1. /\ read.pc = "wait" /\ captured # << >> /\ QueryMatches(r) /\ UNCHANGED collection
      /\ captured \in Seq(PageAnswers) /\ read \in PageReads
  BY DEF AcceptAnswer, PagedInv, PagedTypes
<1>2. /\ r \in ToSet(captured) /\ r \in PageAnswers /\ Tail(captured) \in Seq(PageAnswers)
      /\ ToSet(Tail(captured)) \subseteq ToSet(captured)
  BY <1>1, QueueRange, HeadTailProperties
<1>3. read.mode \in {"roster", "resource"}
  BY <1>1 DEF PagedInv, PlaceInv, PageReads
<1>4. CASE Wanted(r)
  <2>1. PageFits(r) /\ TakePage(r) /\ captured' = Tail(captured) /\ UNCHANGED underway
    BY <1>4 DEF AcceptAnswer, Skip
  <2>2. r \in Pending
    BY <1>2 DEF Pending
  <2> HIDE DEF r
  <2>3. r.view = read.target
    BY <1>1, <1>4 DEF Wanted, QueryMatches, PagedInv, PlaceInv
  <2>4. Pending' \subseteq Pending
    <3>1. Pending' = underway' \cup ToSet(captured')
      BY DEF Pending, ToSet
    <3> QED
      BY <1>2, <2>1, <3>1 DEF Pending
  <2>5. read.total # -1 => \E S \in SUBSET Entries : SourceIs(S) /\ Belongs(r, S)
    BY <1>1, <2>2, <2>3 DEF PagedInv, GatherInv
  <2>6. AnswerOK(r) /\ (read.mode = "roster" => ToSet(r.ids) \subseteq read.ever)
    BY <1>1, <2>2 DEF PagedInv, AnswersInv, EverInv
  <2>7. Takes(r)
    BY <1>1, <2>1, <2>3, <2>4, <2>5, <2>6 DEF Takes
  <2>8. underway' \in SUBSET PageAnswers /\ captured' \in Seq(PageAnswers)
    BY <1>2, <2>1 DEF PagedInv, PagedTypes
  <2> QED
    BY <1>1, <1>2, <2>7, <2>8, TakesKeeps
<1>5. CASE ~Wanted(r)
  <2>1. UiAction(r)
    BY <1>5 DEF AcceptAnswer
  <2>2. read.mode = "roster"
    BY <1>3, <1>5 DEF Wanted
  <2> QED
    BY <1>1, <2>1, <2>2, UiActionKeeps
<1> QED
  BY <1>4, <1>5

LEMMA FetchKeeps ==
    ASSUME PagedInv, FetchPage
    PROVE  PagedInv'
<1> DEFINE r == Answer("wanted", read.page)
<1>1. /\ read.pc = "fetch" /\ PageFits(r) /\ TakePage(r)
      /\ UNCHANGED <<collection, underway, captured>> /\ read \in PageReads
  BY DEF FetchPage, captureVars, PagedInv, PagedTypes
<1>2. "wanted" \in Views /\ read.page \in Nat
  BY <1>1 DEF Views, PageReads
<1>3. read.mode = "resource" /\ read.target = "wanted"
  BY <1>1 DEF PagedInv, PlaceInv
<1>4. /\ r \in PageAnswers /\ r.view = "wanted" /\ AnswerOK(r)
      /\ \A S \in SUBSET Entries : SourceIs(S) => Belongs(r, S)
  BY <1>2, <1>3, NewAnswer
<1> HIDE DEF r
<1>5. Pending' \subseteq Pending
  BY <1>1 DEF Pending, ToSet
<1>6. Takes(r)
  <2>1. \E S \in SUBSET Entries : SourceIs(S)
    BY <1>1 DEF PagedInv, PlaceInv, GatherInv
  <2> QED
    BY <1>1, <1>3, <1>4, <1>5, <2>1 DEF Takes
<1>7. underway' \in SUBSET PageAnswers /\ captured' \in Seq(PageAnswers)
  BY <1>1 DEF PagedInv, PagedTypes
<1> QED
  BY <1>1, <1>4, <1>6, <1>7, TakesKeeps

LEMMA NextPagedInv == PagedInv /\ [PagedNext]_pagedVars => PagedInv'
<1> SUFFICES ASSUME PagedInv, [PagedNext]_pagedVars PROVE PagedInv'
  OBVIOUS
<1>1. CASE UNCHANGED pagedVars
  <2>1. UNCHANGED <<collection, underway, captured, read, result>>
    BY <1>1 DEF pagedVars
  <2>2. Pending' = Pending
    BY <2>1 DEF Pending, ToSet
  <2>3. PagedTypes' /\ PlaceInv' /\ NothingIsMissed' /\ RosterIsFresh'
    BY <2>1 DEF PagedInv, PagedTypes, PlaceInv, NothingIsMissed, RosterIsFresh
  <2>4. StillWaits(read.pc, read.view, read.shown, Answer("wanted", 0))
    BY <2>1, <2>2 DEF StillWaits, PagedInv, PagedTypes, PageReads
  <2> QED
    BY <2>3, <2>4, WaitingKeeps DEF Views
<1>2. CASE PagedNext
  BY <1>2, EditKeeps, HearKeeps, StartReadKeeps, RefreshKeeps, ResetKeeps, InstallKeeps,
     NavigateKeeps, DiscardKeeps, AcceptKeeps, FetchKeeps, FailReadKeeps DEF PagedNext
<1> QED
  BY <1>1, <1>2

(* EmployeesListPage.list and collect_complete_pages: every answer under way is
   of a set DIC showed, and what is gathered keeps its source. *)
THEOREM PagedInvariantHolds == PagedSpec => []PagedInv
<1>1. (\E reads \in BOOLEAN : PagedInit(reads)) => PagedInv
  BY InitPagedInv
<1> QED
  BY <1>1, NextPagedInv, PTL DEF PagedSpec
-----------------------------------------------------------------------------
(* The listener's queue and its mark. *)
HeardInv ==
    /\ Len(captured) <= Capacity /\ marked \in 0..Len(captured)
    /\ overflow \in BOOLEAN
    /\ result.items \in Seq(Entries)

(* What a page that is taken leaves of the read. *)
LEMMA TakenItems ==
    ASSUME PagedInv, HeardInv, NEW r \in PageAnswers, PageFits(r), TakePage(r)
    PROVE  result'.items \in Seq(Entries)
<1> DEFINE done == Gathered(r)
<1>1. done.items \in Seq(Entries)
  <2>1. read \in PageReads
    BY DEF PagedInv, PagedTypes
  <2>2. read.items \in Seq(Entries) /\ r.ids \in Seq(Entries)
    BY <2>1 DEF PageReads, PageAnswers
  <2>3. done.items = read.items \o r.ids
    BY <2>1 DEF Gathered, PageReads
  <2> HIDE DEF done
  <2> QED
    BY <2>2, <2>3
<1>2. << >> \in Seq(Entries)
  OBVIOUS
<1>3. CASE Return(r)
  BY <1>1, <1>2, <1>3 DEF Return, NoResult
<1>4. CASE UNCHANGED result
  BY <1>4 DEF HeardInv
<1> QED
  BY <1>3, <1>4 DEF TakePage

LEMMA NextHeardInv == PagedInv /\ HeardInv /\ [PagedNext]_pagedVars => HeardInv'
<1> SUFFICES ASSUME PagedInv, HeardInv, [PagedNext]_pagedVars PROVE HeardInv'
  OBVIOUS
<1>1. /\ captured \in Seq(PageAnswers) /\ Len(captured) \in Nat /\ Capacity \in Nat \ {0}
      /\ marked \in Nat /\ marked <= Len(captured) /\ Len(captured) <= Capacity
      /\ underway \in SUBSET PageAnswers
  BY PagedAssumption DEF PagedInv, PagedTypes, HeardInv
<1>2. CASE UNCHANGED <<captured, marked, overflow, result>>
  BY <1>2 DEF HeardInv
<1>3. ASSUME NEW x \in Entries, Edit(x) PROVE HeardInv'
  <2>1. UNCHANGED <<marked, overflow, result>> /\ DOMAIN captured' = DOMAIN captured
    BY <1>3 DEF Edit
  <2>2. Len(captured') = Len(captured)
    <3> DEFINE change == IF x \in collection THEN "left" ELSE "joined"
               After(r) == [r EXCEPT !.stayed = @ \ {x}, !.changes = @ \cup {change}]
               g == [i \in DOMAIN captured |-> After(captured[i])]
    <3>1. captured' = g
      BY <1>3 DEF Edit
    <3> HIDE DEF After
    <3> QED
      BY <1>1, <3>1
  <2> QED
    BY <2>1, <2>2 DEF HeardInv
<1>4. ASSUME NEW r \in underway, Hear(r) PROVE HeardInv'
  <2>1. UNCHANGED <<marked, result>>
    BY <1>4 DEF Hear
  <2>2. CASE captured' = captured /\ overflow' = overflow
    BY <2>1, <2>2 DEF HeardInv
  <2>3. CASE Len(captured) < Capacity /\ captured' = Append(captured, r) /\ overflow' = overflow
    <3>1. Len(captured') = Len(captured) + 1
      BY <1>1, <2>3
    <3>2. Len(captured') <= Capacity /\ marked \in 0..Len(captured')
      BY <1>1, <2>3, <3>1
    <3> QED
      BY <2>1, <2>3, <3>2 DEF HeardInv
  <2>4. CASE overflow' = TRUE /\ captured' = captured
    BY <2>1, <2>4 DEF HeardInv
  <2> QED
    BY <1>4, <2>2, <2>3, <2>4 DEF Hear
<1>5. ASSUME NEW mode, NEW to, StartRead(mode, to) PROVE HeardInv'
  <2>1. UNCHANGED <<captured, marked, overflow>> /\ result' = NoResult /\ << >> \in Seq(Entries)
    BY <1>5 DEF StartRead, captureVars
  <2> QED
    BY <2>1 DEF HeardInv, NoResult
<1>6. CASE Refresh \/ ResetGeneration \/ Navigate \/ FailRead
  BY <1>2, <1>6 DEF Refresh, ResetGeneration, Navigate, FailRead, captureVars
<1>7. CASE InstallCapture
  <2>1. captured' = << >> /\ marked' = 0 /\ overflow' = FALSE /\ result' = result /\ Len(<< >>) = 0
    BY <1>7 DEF InstallCapture
  <2>2. Len(captured') = 0 /\ 0 <= Capacity /\ 0 \in 0..0
    BY <1>1, <2>1
  <2> QED
    BY <2>1, <2>2 DEF HeardInv
<1>8. ASSUME captured # << >>, Skip, result'.items \in Seq(Entries) PROVE HeardInv'
  <2>1. /\ Len(captured) > 0 /\ captured' = Tail(captured) /\ Len(Tail(captured)) = Len(captured) - 1
        /\ overflow' = overflow /\ marked' = IF marked > 0 THEN marked - 1 ELSE 0
    BY <1>1, <1>8 DEF Skip
  <2>2. Len(captured') <= Capacity /\ marked' \in 0..Len(captured')
    BY <1>1, <2>1
  <2> QED
    BY <1>8, <2>1, <2>2 DEF HeardInv
<1>9. CASE DiscardAnswer
  BY <1>8, <1>9 DEF DiscardAnswer, HeardInv
<1>10. CASE AcceptAnswer
  <2> DEFINE r == Head(captured)
  <2>1. captured # << >> /\ r \in PageAnswers
    BY <1>1, <1>10 DEF AcceptAnswer
  <2>2. (PageFits(r) /\ TakePage(r) /\ Skip) \/ UiAction(r)
    BY <1>10 DEF AcceptAnswer
  <2> HIDE DEF r
  <2>3. CASE PageFits(r) /\ TakePage(r) /\ Skip
    BY <1>8, <2>1, <2>3, TakenItems
  <2>4. CASE UiAction(r)
    <3>1. /\ captured' = Tail(captured) /\ marked' = Len(captured) - 1 /\ UNCHANGED <<overflow, result>>
          /\ Len(captured) > 0 /\ Len(Tail(captured)) = Len(captured) - 1
      BY <1>1, <2>1, <2>4 DEF UiAction
    <3>2. Len(captured') <= Capacity /\ marked' \in 0..Len(captured')
      BY <1>1, <3>1
    <3> QED
      BY <3>1, <3>2 DEF HeardInv
  <2> QED
    BY <2>2, <2>3, <2>4
<1>11. CASE FetchPage
  <2> DEFINE r == Answer("wanted", read.page)
  <2>1. r \in PageAnswers
    <3>1. collection \in SUBSET Entries /\ "wanted" \in Views /\ read.page \in Nat
      BY DEF PagedInv, PagedTypes, PageReads, Views
    <3> QED
      BY <3>1, AnswerTypes
  <2>2. PageFits(r) /\ TakePage(r) /\ UNCHANGED <<captured, marked, overflow>>
    BY <1>11 DEF FetchPage, captureVars
  <2> HIDE DEF r
  <2> QED
    BY <2>1, <2>2, TakenItems DEF HeardInv
<1>12. CASE UNCHANGED pagedVars
  BY <1>2, <1>12 DEF pagedVars
<1> QED
  BY <1>3, <1>4, <1>5, <1>6, <1>7, <1>9, <1>10, <1>11, <1>12 DEF PagedNext

LEMMA PagedTyped ==
    /\ (\E reads \in BOOLEAN : PagedInit(reads)) => HeardInv
    /\ PagedInv /\ HeardInv => PagedTypeOK
<1>1. ASSUME NEW reads \in BOOLEAN, PagedInit(reads) PROVE HeardInv
  <2>1. captured = << >> /\ Len(<< >>) = 0 /\ << >> \in Seq(Entries) /\ result.items = << >>
    BY <1>1 DEF PagedInit, NoResult
  <2>2. Len(captured) = 0 /\ 0 <= Capacity /\ marked = 0 /\ 0 \in 0..0 /\ overflow \in BOOLEAN
    <3>1. Capacity \in Nat /\ 0 <= Capacity /\ 0 \in 0..0
      BY PagedAssumption
    <3>2. marked = 0 /\ overflow \in BOOLEAN
      BY <1>1 DEF PagedInit
    <3> QED
      BY <2>1, <3>1, <3>2
  <2> QED
    BY <2>1, <2>2 DEF HeardInv
<1>2. ASSUME PagedInv, HeardInv PROVE PagedTypeOK
  <2>1. read \in PageReads /\ collection \in SUBSET Entries
    BY <1>2 DEF PagedInv, PagedTypes
  <2>2. ToSet(read.items) \subseteq Entries /\ ToSet(result.items) \subseteq Entries
    BY <1>2, <2>1 DEF PageReads, HeardInv, ToSet
  <2> QED
    BY <1>2, <2>1, <2>2 DEF PageReads, PagePcs, HeardInv, PagedTypeOK
<1> QED
  BY <1>1, <1>2
-----------------------------------------------------------------------------
LEMMA InitPreviewInv ==
    ASSUME NEW asked \in BOOLEAN, PreviewInit(asked)
    PROVE  PreviewInv
<1>1. /\ write = NoWrite /\ moved = 0 /\ ~entitled
      /\ target \in TargetValues
  BY Zenon DEF PreviewInit, TargetValues
<1> QED
  BY <1>1 DEF NoWrite, PreviewInv, WriteRecord, PreviewReadInv, AuthorityInv, PreviewIsHonoured,
              PreviewIsTrue, AuthorityIsCurrent, Reading, Prepared, Approved

(* People edit the target and change roles. *)
LEMMA PeopleKeepPreview ==
    ASSUME PreviewInv,
           \/ \E v \in TargetValues : EditTarget(v)
           \/ \E u \in {Requester, Approver} : ChangeGrant(u)
    PROVE  PreviewInv'
<1> USE DEF PreviewInv, WriteRecord, PreviewReadInv, AuthorityInv, PreviewIsHonoured,
            PreviewIsTrue, AuthorityIsCurrent, Reading, Prepared, Approved
<1>1. ASSUME NEW v \in TargetValues, EditTarget(v) PROVE PreviewInv'
  BY <1>1 DEF EditTarget
<1>2. ASSUME NEW u \in {Requester, Approver}, ChangeGrant(u) PROVE PreviewInv'
  BY <1>2 DEF ChangeGrant
<1> QED
  BY <1>1, <1>2

(* An ApplicationError leaves nothing. *)
LEMMA DroppedPreview ==
    ASSUME PreviewInv, DropPreview, UNCHANGED <<target, moved>>
    PROVE  PreviewInv'
BY DEF PreviewInv, WriteRecord, PreviewReadInv, AuthorityInv, PreviewIsHonoured, PreviewIsTrue,
       AuthorityIsCurrent, Reading, Prepared, Approved, DropPreview, NoWrite

(* The preview, up to the fingerprint that is stored. *)
LEMMA ReadingKeepsPreview ==
    ASSUME PreviewInv,
           \/ \E op \in WriteOps, live \in BOOLEAN : StartPreview(op, live)
           \/ TakeFirst \/ ReadBefore \/ TakeSecond
    PROVE  PreviewInv'
<1> USE DEF PreviewInv, WriteRecord, PreviewReadInv, AuthorityInv, PreviewIsHonoured,
            PreviewIsTrue, AuthorityIsCurrent, Reading, Prepared, Approved
<1>1. ASSUME NEW op \in WriteOps, NEW live \in BOOLEAN, StartPreview(op, live) PROVE PreviewInv'
  BY <1>1 DEF StartPreview, NoWrite
<1>2. CASE TakeFirst
  <2>1. CASE DropPreview
    BY <1>2, <2>1, DroppedPreview DEF TakeFirst
  <2>2. ASSUME NEW d \in Digests, write' = [write EXCEPT !.pc = "read", !.first = d]
        PROVE  PreviewInv'
    <3>1. d.value = target
      BY DEF Digests
    <3>2. write.pc = "first" /\ UNCHANGED <<target, moved, granted, entitled>>
      BY <1>2 DEF TakeFirst
    <3>3. WriteRecord
      BY DEF PreviewInv
    <3>4. write'.pc = "read" /\ write'.first = d /\ WriteRecord'
      BY ONLY <2>2, <3>3 DEF WriteRecord
    <3> QED
      BY <3>1, <3>2, <3>4
  <2> QED
    BY <1>2, <2>1, <2>2 DEF TakeFirst
<1>3. CASE ReadBefore
  <2>1. CASE DropPreview
    BY <1>3, <2>1, DroppedPreview DEF ReadBefore
  <2>2. CASE write' = [write EXCEPT !.pc = "second", !.before = target]
    BY <1>3, <2>2 DEF ReadBefore
  <2> QED
    BY <1>3, <2>1, <2>2 DEF ReadBefore
<1>4. CASE TakeSecond
  <2>1. CASE DropPreview
    BY <1>4, <2>1, DroppedPreview DEF TakeSecond
  <2>2. ASSUME NEW d \in Digests, d = write.first,
               write' = [write EXCEPT !.pc = "awaiting", !.fingerprint = d]
        PROVE  PreviewInv'
    <3>1. d.value = target
      BY DEF Digests
    <3>2. write.pc = "second" /\ UNCHANGED <<target, moved, granted, entitled>>
      BY <1>4 DEF TakeSecond
    <3>3. WriteRecord
      BY DEF PreviewInv
    <3>4. /\ write'.pc = "awaiting" /\ write'.fingerprint = d /\ write'.before = write.before
          /\ WriteRecord'
      BY ONLY <2>2, <3>3 DEF WriteRecord
    <3>5. moved < 2 => write.before = d.value
      BY <2>2, <3>1, <3>2
    <3> QED
      BY <3>2, <3>4, <3>5
  <2> QED
    BY <1>4, <2>1, <2>2 DEF TakeSecond, Stable
<1> QED
  BY <1>1, <1>2, <1>3, <1>4

(* From the last decision to the gate. *)
LEMMA DecidingKeepsPreview ==
    ASSUME PreviewInv,
           \/ \E u \in {Requester, Approver} : DecideLast(u)
           \/ AuthoriseRequester \/ TakeAgain \/ BeginWrite \/ FailPreview
    PROVE  PreviewInv'
<1> USE DEF PreviewInv, WriteRecord, PreviewReadInv, AuthorityInv, PreviewIsHonoured,
            PreviewIsTrue, AuthorityIsCurrent, Reading, Prepared, Approved, WriteAt
<1>1. ASSUME NEW u \in {Requester, Approver}, DecideLast(u) PROVE PreviewInv'
  BY <1>1 DEF DecideLast
<1>2. CASE AuthoriseRequester
  BY <1>2 DEF AuthoriseRequester, Authorised
<1>3. CASE TakeAgain
  BY <1>3 DEF TakeAgain
<1>4. CASE BeginWrite
  BY <1>4 DEF BeginWrite
<1>5. CASE FailPreview
  BY <1>5 DEF FailPreview, DropPreview, NoWrite
<1> QED
  BY <1>1, <1>2, <1>3, <1>4, <1>5

LEMMA NextPreviewInv == PreviewInv /\ [PreviewNext]_previewVars => PreviewInv'
<1> SUFFICES ASSUME PreviewInv, [PreviewNext]_previewVars PROVE PreviewInv'
  OBVIOUS
<1>1. CASE UNCHANGED previewVars
  BY <1>1 DEF previewVars, PreviewInv, WriteRecord, PreviewReadInv, AuthorityInv,
              PreviewIsHonoured, PreviewIsTrue, AuthorityIsCurrent
<1>2. CASE PreviewNext
  BY <1>2, PeopleKeepPreview, ReadingKeepsPreview, DecidingKeepsPreview DEF PreviewNext
<1> QED
  BY <1>1, <1>2

(* prepare_write and execute_approved: the preview, the fingerprint and the
   requester's right agree in every behaviour. *)
THEOREM PreviewInvariantHolds == PreviewSpec => []PreviewInv
<1>1. (\E asked \in BOOLEAN : PreviewInit(asked)) => PreviewInv
  BY InitPreviewInv
<1> QED
  BY <1>1, NextPreviewInv, PTL DEF PreviewSpec
-----------------------------------------------------------------------------
(* What an edit that is counted costs. *)
DigestValues == [value : TargetValues, whole : BOOLEAN]

EditsInv ==
    /\ granted \subseteq {Requester, Approver} /\ entitled \in BOOLEAN
    /\ write.pc \in {"idle", "first", "over"} \cup Reading \cup Approved \cup Prepared
    /\ {write.first, write.fingerprint, write.found} \subseteq DigestValues
    /\ editsLeft \in Nat /\ moved \in Nat /\ moved + editsLeft <= TargetEdits
    /\ grantsLeft \in 0..GrantChanges

LEMMA NextEditsInv == PreviewInv /\ EditsInv /\ [PreviewNext]_previewVars => EditsInv'
<1> SUFFICES ASSUME PreviewInv, EditsInv, [PreviewNext]_previewVars PROVE EditsInv'
  OBVIOUS
<1>1. /\ target \in TargetValues /\ TargetEdits \in Nat /\ GrantChanges \in Nat
      /\ write = [pc |-> write.pc, op |-> write.op, live |-> write.live, first |-> write.first,
                  before |-> write.before, fingerprint |-> write.fingerprint,
                  decider |-> write.decider, found |-> write.found]
      /\ editsLeft \in Nat /\ moved \in Nat /\ grantsLeft \in Nat
      /\ NoDigest \in DigestValues /\ Digests \subseteq DigestValues
  <2>1. NoDigest \in DigestValues
    BY DEF NoDigest, DigestValues, TargetValues
  <2>2. target \in TargetValues
    BY DEF PreviewInv, PreviewReadInv
  <2>3. Digests \subseteq DigestValues
    BY <2>2 DEF Digests, DigestValues
  <2> QED
    BY <2>1, <2>2, <2>3, PreviewAssumption DEF PreviewInv, WriteRecord, PreviewReadInv, EditsInv
<1>2. ASSUME UNCHANGED <<granted, moved, entitled, editsLeft, grantsLeft>>,
             write'.pc \in {"idle", "first", "over"} \cup Reading \cup Approved \cup Prepared,
             {write'.first, write'.fingerprint, write'.found} \subseteq DigestValues
      PROVE  EditsInv'
  BY <1>2 DEF EditsInv
<1>3. /\ NoWrite.pc = "idle" /\ NoWrite.first = NoDigest
      /\ NoWrite.fingerprint = NoDigest /\ NoWrite.found = NoDigest
  BY DEF NoWrite
<1>4. DropPreview => /\ write'.pc = "idle"
                     /\ {write'.first, write'.fingerprint, write'.found} \subseteq DigestValues
  BY <1>1, <1>3 DEF DropPreview
<1>5. ASSUME NEW pc, WriteAt(pc)
      PROVE  write'.pc = pc /\ {write'.first, write'.fingerprint, write'.found} \subseteq DigestValues
  BY <1>1, <1>5 DEF WriteAt, EditsInv
<1>6. ASSUME NEW v \in TargetValues, EditTarget(v) PROVE EditsInv'
  <2>1. /\ editsLeft > 0 /\ editsLeft' = editsLeft - 1 /\ moved' \in {moved, moved + 1}
        /\ UNCHANGED <<granted, write, entitled, grantsLeft>>
    BY <1>6 DEF EditTarget
  <2>2. editsLeft' \in Nat /\ moved' \in Nat /\ moved' + editsLeft' <= TargetEdits
    BY <1>1, <2>1 DEF EditsInv
  <2> QED
    BY <2>1, <2>2 DEF EditsInv
<1>7. ASSUME NEW u \in {Requester, Approver}, ChangeGrant(u) PROVE EditsInv'
  <2>1. /\ grantsLeft > 0 /\ grantsLeft' = grantsLeft - 1 /\ UNCHANGED <<target, write, moved, editsLeft>>
        /\ granted' \subseteq {Requester, Approver} /\ entitled' \in BOOLEAN
    BY <1>7 DEF ChangeGrant, EditsInv
  <2>2. grantsLeft' \in 0..GrantChanges
    BY <1>1, <2>1 DEF EditsInv
  <2> QED
    BY <2>1, <2>2 DEF EditsInv
<1>8. ASSUME NEW op, NEW live, StartPreview(op, live) PROVE EditsInv'
  <2>1. /\ moved' = 0 /\ UNCHANGED <<granted, entitled, editsLeft, grantsLeft>>
        /\ write'.pc = "first" /\ write'.first = NoDigest /\ write'.fingerprint = NoDigest /\ write'.found = NoDigest
    BY <1>8 DEF StartPreview, NoWrite
  <2>2. moved' \in Nat /\ moved' + editsLeft' <= TargetEdits
    BY <1>1, <2>1 DEF EditsInv
  <2> QED
    BY <1>1, <2>1, <2>2 DEF EditsInv
<1>9. CASE TakeFirst
  <2>1. CASE DropPreview
    BY <1>2, <1>4, <1>9, <2>1 DEF TakeFirst
  <2>2. ASSUME NEW d \in Digests, write' = [write EXCEPT !.pc = "read", !.first = d] PROVE EditsInv'
    BY <1>1, <1>2, <1>9, <2>2 DEF TakeFirst, EditsInv, Reading
  <2> QED
    BY <1>9, <2>1, <2>2 DEF TakeFirst
<1>10. CASE ReadBefore
  <2>1. CASE DropPreview
    BY <1>2, <1>4, <1>10, <2>1 DEF ReadBefore
  <2>2. CASE write' = [write EXCEPT !.pc = "second", !.before = target]
    BY <1>1, <1>2, <1>10, <2>2 DEF ReadBefore, EditsInv, Reading
  <2> QED
    BY <1>10, <2>1, <2>2 DEF ReadBefore
<1>11. CASE TakeSecond
  <2>1. CASE DropPreview
    BY <1>2, <1>4, <1>11, <2>1 DEF TakeSecond
  <2>2. ASSUME NEW d \in Digests, write' = [write EXCEPT !.pc = "awaiting", !.fingerprint = d] PROVE EditsInv'
    BY <1>1, <1>2, <1>11, <2>2 DEF TakeSecond, EditsInv, Prepared
  <2> QED
    BY <1>11, <2>1, <2>2 DEF TakeSecond
<1>12. ASSUME NEW u \in {Requester, Approver}, DecideLast(u) PROVE EditsInv'
  <2>1. /\ UNCHANGED <<granted, moved, editsLeft, grantsLeft>> /\ entitled' \in BOOLEAN
        /\ write' = [write EXCEPT !.pc = "authorise", !.decider = u]
    BY <1>12 DEF DecideLast
  <2> QED
    BY <1>1, <2>1 DEF EditsInv, Prepared
<1>13. CASE AuthoriseRequester
  BY <1>2, <1>5, <1>13 DEF AuthoriseRequester, Prepared
<1>14. CASE TakeAgain
  <2>1. ASSUME NEW d \in Digests, write' = [write EXCEPT !.pc = "begin", !.first = d] PROVE EditsInv'
    BY <1>1, <1>2, <1>14, <2>1 DEF TakeAgain, EditsInv, Prepared
  <2> QED
    BY <1>2, <1>5, <1>14, <2>1 DEF TakeAgain
<1>15. CASE BeginWrite
  <2>1. ASSUME NEW d \in Digests, write' = [write EXCEPT !.pc = "begun", !.found = d] PROVE EditsInv'
    BY <1>1, <1>2, <1>15, <2>1 DEF BeginWrite, EditsInv, Approved
  <2> QED
    BY <1>2, <1>5, <1>15, <2>1 DEF BeginWrite
<1>16. CASE FailPreview
  BY <1>2, <1>4, <1>5, <1>16 DEF FailPreview
<1>17. CASE UNCHANGED previewVars
  BY <1>17 DEF previewVars, EditsInv
<1> QED
  BY <1>6, <1>7, <1>8, <1>9, <1>10, <1>11, <1>12, <1>13, <1>14, <1>15, <1>16, <1>17 DEF PreviewNext

LEMMA PreviewTyped ==
    /\ (\E asked \in BOOLEAN : PreviewInit(asked)) => EditsInv
    /\ PreviewInv /\ EditsInv => PreviewTypeOK
<1>1. ASSUME NEW asked \in BOOLEAN, PreviewInit(asked) PROVE EditsInv
  <2>1. /\ write.pc = "idle" /\ write.first = NoDigest /\ write.fingerprint = NoDigest /\ write.found = NoDigest
        /\ NoDigest \in DigestValues
    BY <1>1 DEF PreviewInit, NoWrite, NoDigest, DigestValues, TargetValues
  <2>2. /\ moved = 0 /\ editsLeft \in {0, TargetEdits} /\ grantsLeft \in {0, GrantChanges}
        /\ granted = {Requester, Approver} /\ entitled = FALSE
    BY <1>1 DEF PreviewInit
  <2>3. moved \in Nat /\ editsLeft \in Nat /\ moved + editsLeft <= TargetEdits /\ grantsLeft \in 0..GrantChanges
    BY <2>2, PreviewAssumption
  <2> QED
    BY <2>1, <2>2, <2>3 DEF EditsInv
<1>2. ASSUME PreviewInv, EditsInv PROVE PreviewTypeOK
  <2>1. moved \in 0..TargetEdits /\ editsLeft \in 0..TargetEdits
    BY <1>2, PreviewAssumption DEF EditsInv
  <2> QED
    BY <1>2, <2>1 DEF PreviewInv, PreviewReadInv, EditsInv, DigestValues, Reading, Prepared, Approved, PreviewTypeOK
<1> QED
  BY <1>1, <1>2
-----------------------------------------------------------------------------
(* A loaded list shows records that are there, with their values, and the
   whole list shows all of them. *)
LEMMA ListedRows ==
    /\ \A i \in DOMAIN Listed : Listed[i][1] \in Present /\ Listed[i][2] = records[Listed[i][1]]
    /\ Ids(Listed) = Present
<1>1. Present \in SUBSET Nat /\ IsFiniteSet(Present)
  BY FormsAssumption, FS_Subset DEF Present
<1> DEFINE nth == Ascending(Present)
<1>2. /\ DOMAIN nth = 1..Cardinality(Present)
      /\ \A i \in DOMAIN nth : nth[i] \in Present
      /\ \A r \in Present : \E i \in DOMAIN nth : nth[i] = r
  BY <1>1, AscendingMembers DEF ToSet
<1>3. DOMAIN Listed = DOMAIN nth /\ \A i \in DOMAIN nth : Listed[i] = <<nth[i], records[nth[i]]>>
  BY <1>2 DEF Listed
<1> HIDE DEF nth
<1>4. \A i \in DOMAIN Listed : Listed[i][1] \in Present /\ Listed[i][2] = records[Listed[i][1]]
  BY <1>2, <1>3
<1>5. \A r \in Present : \E i \in DOMAIN Listed : Listed[i][1] = r
  BY <1>2, <1>3
<1> QED
  BY <1>4, <1>5 DEF Ids

LEMMA LoadedRows ==
    ASSUME NEW rows \in Loading
    PROVE  /\ \A i \in DOMAIN rows : i \in DOMAIN Listed /\ rows[i] = Listed[i]
           /\ \A i \in DOMAIN rows : rows[i][1] \in Present /\ rows[i][2] = records[rows[i][1]]
           /\ Ids(rows) \subseteq Present
<1>1. Present \in SUBSET Nat /\ IsFiniteSet(Present)
  BY FormsAssumption, FS_Subset DEF Present
<1>2. Cardinality(Present) \in Nat /\ DOMAIN Listed = 1..Cardinality(Present)
  BY <1>1, FS_CardinalityType DEF Listed
<1>3. Len(Listed) = Cardinality(Present)
  BY <1>2 DEF Listed
<1>4. PICK n \in 0..Len(Listed) : rows = SubSeq(Listed, 1, n)
  BY DEF Loading
<1>5. DOMAIN rows = 1..n /\ \A i \in 1..n : rows[i] = Listed[i]
  BY <1>2, <1>3, <1>4
<1>6. \A i \in DOMAIN rows : rows[i][1] \in Present /\ rows[i][2] = records[rows[i][1]]
  BY <1>2, <1>3, <1>5, ListedRows
<1> QED
  BY <1>2, <1>3, <1>5, <1>6 DEF Ids
-----------------------------------------------------------------------------
LEMMA InitFormsInv ==
    ASSUME NEW writes \in BOOLEAN, FormsInit(writes)
    PROVE  FormsInv
<1>1. /\ form.pc \in {"ready", "idle"} /\ form.glimpsed = FALSE /\ form.known = {}
      /\ form.op = "none" /\ click = "none" /\ reported = "none" /\ hit = {}
      /\ form = [pc |-> form.pc, op |-> form.op, target |-> form.target, row |-> form.row,
                 open |-> form.open, known |-> form.known, before |-> form.before,
                 found |-> form.found, glimpsed |-> form.glimpsed]
  BY DEF FormsInit, NoForm
<1>2. records \in [Records -> RecordValues]
  <2>1. CASE writes
    BY <2>1 DEF FormsInit, RecordValues
  <2>2. CASE ~writes
    BY <2>2 DEF FormsInit, RecordValues
  <2> QED
    BY <2>1, <2>2
<1> QED
  BY <1>1, <1>2 DEF FormsInv, FormRecord, ClickInv, SinceInv, RowsInv, FormsAreSafe,
                    OnlyTheApproved, AppliedIsThere, Based, Sending

(* A value that DIC takes is a value taken since, and no record is unused again. *)
LEMMA BecomesInv ==
    ASSUME FormsInv, NEW r \in Records, NEW v \in RecordValues \ {"unused"}, Becomes(r, v),
           UNCHANGED <<form, onPage, reported>>
    PROVE  /\ FormRecord' /\ SinceInv' /\ RowsInv' /\ AppliedIsThere'
           /\ \A s \in form.known : records'[s] # "unused"
<1>1. /\ FormRecord /\ SinceInv /\ RowsInv /\ AppliedIsThere
      /\ form.known \subseteq Records /\ \A s \in form.known : records[s] # "unused"
  BY DEF FormsInv, ClickInv, FormsAreSafe
<1>2. /\ records' \in [Records -> RecordValues]
      /\ \A s \in Records : records'[s] = IF s = r THEN v ELSE records[s]
      /\ since \subseteq since' /\ <<r, v>> \in since'
  BY <1>1 DEF Becomes, FormRecord
<1>3. FormRecord'
  BY <1>1, <1>2 DEF FormRecord
<1>4. \A s \in form.known : records'[s] # "unused"
  BY <1>1, <1>2
<1>5. SinceInv'
  <2> SUFFICES ASSUME form.pc \in Based PROVE SinceInv'
    BY DEF SinceInv
  <2>1. ~form.glimpsed => \A s \in Present' \ form.known : <<s, records'[s]>> \in since'
    <3> SUFFICES ASSUME ~form.glimpsed, NEW s \in Present', s \notin form.known
                 PROVE  <<s, records'[s]>> \in since'
      OBVIOUS
    <3>1. s \in Records /\ (s # r => s \in Present)
      BY <1>2 DEF Present
    <3> QED
      BY <1>1, <1>2, <3>1 DEF SinceInv
  <2>2. ASSUME form.op # "create" PROVE form.target \in Records /\ form.target \in form.known
    BY <1>1, <2>2 DEF SinceInv
  <2>3. form.op = "edit" /\ records'[form.target] = "asked" => <<form.target, "asked">> \in since'
    BY <1>1, <1>2, <2>2 DEF SinceInv
  <2>4. form.op = "delete" /\ records'[form.target] = "absent" => <<form.target, "absent">> \in since'
    BY <1>1, <1>2, <2>2 DEF SinceInv
  <2> QED
    BY <2>1, <2>2, <2>3, <2>4 DEF SinceInv
<1>6. RowsInv'
  BY <1>1, <1>2 DEF RowsInv
<1>7. AppliedIsThere'
  <2> SUFFICES ASSUME reported = "applied", ~form.glimpsed PROVE AppliedIsThere'
    BY DEF AppliedIsThere
  <2>1. form.op \in Writes
    BY <1>1 DEF FormRecord
  <2> QED
    BY <1>1, <1>2, <2>1 DEF AppliedIsThere, Writes
<1> QED
  BY <1>3, <1>4, <1>5, <1>6, <1>7

(* People, and DIC with the confirmed change. *)
LEMMA RecordsChange ==
    ASSUME FormsInv, (\E r \in Records, v \in RecordValues : EditRecord(r, v)) \/ ApplyForm
    PROVE  FormsInv'
<1>1. FormRecord /\ ClickInv /\ OnlyTheApproved
  BY DEF FormsInv, FormsAreSafe
<1>2. ASSUME NEW r \in Records, NEW v \in RecordValues, EditRecord(r, v) PROVE FormsInv'
  <2>1. /\ v # "unused" /\ Becomes(r, v) /\ UNCHANGED <<form, onPage, click, reported, hit>>
    BY <1>2 DEF EditRecord, formPageVars
  <2>2. /\ FormRecord' /\ SinceInv' /\ RowsInv' /\ AppliedIsThere'
        /\ \A s \in form.known : records'[s] # "unused"
    BY <2>1, BecomesInv
  <2> QED
    BY <1>1, <2>1, <2>2 DEF FormsInv, FormsAreSafe, ClickInv, OnlyTheApproved
<1>3. CASE ApplyForm
  <2> DEFINE wanted == IF form.op = "delete" THEN "absent" ELSE "asked"
  <2>1. /\ click = "sent" /\ click' = "done" /\ UNCHANGED <<form, onPage, reported>>
    BY <1>3 DEF ApplyForm, formPageVars
  <2>2. PICK r \in IF form.open = NewRecord THEN {n \in Records : records[n] = "unused"}
                   ELSE {form.open} \cap Present :
          Becomes(r, wanted) /\ hit' = hit \cup {r}
    BY <1>3 DEF ApplyForm
  <2>3. r \in Records /\ wanted \in RecordValues \ {"unused"}
    BY <2>2 DEF Present, RecordValues
  <2>4. r \notin form.known \/ r = form.target
    BY <1>1, <2>1, <2>2 DEF ClickInv
  <2> HIDE DEF wanted
  <2>5. /\ FormRecord' /\ SinceInv' /\ RowsInv' /\ AppliedIsThere'
        /\ \A s \in form.known : records'[s] # "unused"
    BY <2>1, <2>2, <2>3, BecomesInv
  <2>6. ClickInv'
    BY <1>1, <2>1, <2>5 DEF ClickInv
  <2>7. OnlyTheApproved'
    BY <1>1, <2>1, <2>2, <2>4 DEF OnlyTheApproved
  <2> QED
    BY <2>5, <2>6, <2>7 DEF FormsInv, FormsAreSafe
<1> QED
  BY <1>2, <1>3
(* A step of the write after its baseline, with DIC as it was. *)
FormStep ==
    /\ UNCHANGED <<records, hit, since>>
    /\ form.pc \in Based /\ form'.pc \in Based
    /\ form' = [pc |-> form'.pc, op |-> form.op, target |-> form.target, row |-> form'.row,
                open |-> form'.open, known |-> form.known, before |-> form'.before,
                found |-> form'.found, glimpsed |-> form'.glimpsed]
    /\ form'.glimpsed \in BOOLEAN /\ (form.glimpsed => form'.glimpsed)
    /\ \/ click' = click /\ (click # "none" => form'.pc \in Sending /\ form'.open = form.open)
       \/ click' = "sent" /\ form'.pc \in Sending /\ form'.open = form.target

LEMMA FormStepInv ==
    ASSUME FormsInv, FormStep, RowsInv',
           reported' = "applied" => form'.pc = "over" /\ AppliedIsThere'
    PROVE  FormsInv'
<1>1. FormRecord /\ ClickInv /\ SinceInv /\ OnlyTheApproved
  BY DEF FormsInv, FormsAreSafe
<1>2. UNCHANGED <<form.op, form.target, form.known>>
  BY DEF FormStep
<1>3. FormRecord'
  BY <1>1, <1>2 DEF FormStep, FormRecord, Based, Sending
<1>4. ClickInv'
  BY <1>1, <1>2 DEF FormStep, ClickInv
<1>5. SinceInv'
  BY <1>1, <1>2 DEF FormStep, SinceInv, Present, FormRecord
<1>6. OnlyTheApproved'
  BY <1>1, <1>2 DEF FormStep, OnlyTheApproved
<1>7. AppliedIsThere'
  BY DEF AppliedIsThere
<1> QED
  BY <1>3, <1>4, <1>5, <1>6, <1>7 DEF FormsInv, FormsAreSafe

(* A write that is refused before any click. *)
LEMMA RefusedInv ==
    ASSUME FormsInv, RefuseWrite, form.pc \in {"baseline", "find"},
           UNCHANGED <<records, click, hit>>
    PROVE  FormsInv'
<1>1. click = "none" /\ hit = {} /\ records \in [Records -> RecordValues]
  BY DEF FormsInv, FormRecord, ClickInv, Based, Sending
<1>2. form' = NoForm /\ reported' = "refused"
  BY DEF RefuseWrite
<1> QED
  BY <1>1, <1>2 DEF NoForm, FormsInv, FormRecord, ClickInv, SinceInv, RowsInv, FormsAreSafe,
                    OnlyTheApproved, AppliedIsThere, Based, Sending

(* The baseline is taken: nothing has been written since. *)
LEMMA BaselineInv ==
    ASSUME FormsInv, ReadBaseline
    PROVE  FormsInv'
<1>1. /\ FormRecord /\ form.pc = "baseline" /\ UNCHANGED <<records, click, hit>>
      /\ click = "none" /\ hit = {} /\ form.op \in Writes /\ reported # "applied"
  BY DEF FormsInv, FormRecord, ClickInv, ReadBaseline, Based, Sending
<1>2. PICK rows \in Loading :
        \/ RefuseWrite
        \/ /\ form.op # "create" => form.target \in Ids(rows)
           /\ form.op = "edit" => <<form.target, "asked">> \notin {rows[i] : i \in DOMAIN rows}
           /\ form' = [form EXCEPT !.pc = "find", !.known = Ids(rows), !.before = rows,
                                   !.glimpsed = rows # Listed]
           /\ since' = {} /\ UNCHANGED reported
  BY DEF ReadBaseline
<1>3. CASE RefuseWrite
  BY <1>1, <1>3, RefusedInv
<1>4. ASSUME form.op # "create" => form.target \in Ids(rows),
             form.op = "edit" => <<form.target, "asked">> \notin {rows[i] : i \in DOMAIN rows},
             form' = [form EXCEPT !.pc = "find", !.known = Ids(rows), !.before = rows,
                                  !.glimpsed = rows # Listed],
             since' = {}, UNCHANGED reported
      PROVE  FormsInv'
  <2>1. /\ \A i \in DOMAIN rows : rows[i][1] \in Present /\ rows[i][2] = records[rows[i][1]]
        /\ Ids(rows) \subseteq Present
    BY LoadedRows
  <2>2. /\ form'.pc = "find" /\ form'.known = Ids(rows) /\ form'.op = form.op
        /\ form'.target = form.target /\ form'.glimpsed = (rows # Listed)
        /\ form' = [pc |-> form'.pc, op |-> form'.op, target |-> form'.target, row |-> form'.row,
                    open |-> form'.open, known |-> form'.known, before |-> form'.before,
                    found |-> form'.found, glimpsed |-> form'.glimpsed]
    <3>1. form = [pc |-> form.pc, op |-> form.op, target |-> form.target, row |-> form.row,
                  open |-> form.open, known |-> form.known, before |-> form.before,
                  found |-> form.found, glimpsed |-> form.glimpsed]
      BY <1>1 DEF FormRecord
    <3> QED
      BY ONLY <3>1, <1>4
  <2>3. FormRecord'
    BY <1>1, <1>4, <2>2 DEF FormRecord, Based
  <2>4. ClickInv'
    BY <1>1, <2>1, <2>2 DEF ClickInv, Present
  <2>5. ~form'.glimpsed => form'.known = Present
    BY <2>2, ListedRows
  <2>6. form.op # "create" => form.target \in Present
    BY <1>4, <2>1
  <2>7. form.op = "edit" => records[form.target] # "asked"
    <3> SUFFICES ASSUME form.op = "edit" PROVE records[form.target] # "asked"
      OBVIOUS
    <3>1. PICK i \in DOMAIN rows : rows[i][1] = form.target
      BY <1>4 DEF Ids
    <3>2. rows[i] = <<rows[i][1], rows[i][2]>>
      <4>1. \A j \in DOMAIN Listed : Listed[j] = <<Listed[j][1], Listed[j][2]>>
        BY DEF Listed
      <4> QED
        BY <4>1, LoadedRows
    <3> QED
      BY <1>4, <2>1, <3>1, <3>2
  <2>8. SinceInv'
    BY <1>1, <1>4, <2>2, <2>5, <2>6, <2>7 DEF SinceInv, Present
  <2> QED
    BY <1>1, <1>4, <2>2, <2>3, <2>4, <2>8
       DEF FormsInv, RowsInv, FormsAreSafe, OnlyTheApproved, AppliedIsThere
<1> QED
  BY <1>2, <1>3, <1>4
(* The write begins, finds its row, clicks, saves and confirms. *)
LEMMA DispatchInv ==
    ASSUME FormsInv,
           \/ \E op \in Writes, r \in Records \cup {NewRecord} : StartWrite(op, r)
           \/ ShowAgain \/ FindRow \/ ClickRow \/ SaveForm
           \/ \E visible \in BOOLEAN : ConfirmDialog(visible)
           \/ LoseDispatch
    PROVE  FormsInv'
<1>1. FormRecord /\ ClickInv /\ RowsInv /\ form.glimpsed \in BOOLEAN
  BY DEF FormsInv, FormRecord
<1>2. form = [pc |-> form.pc, op |-> form.op, target |-> form.target, row |-> form.row,
              open |-> form.open, known |-> form.known, before |-> form.before,
              found |-> form.found, glimpsed |-> form.glimpsed]
  BY <1>1 DEF FormRecord
<1>3. reported = "applied" => form.pc = "over"
  BY <1>1 DEF FormRecord
<1>4. ASSUME NEW op \in Writes, NEW r \in Records \cup {NewRecord}, StartWrite(op, r) PROVE FormsInv'
  <2>1. /\ form.pc = "ready" /\ UNCHANGED <<records, onPage, click, reported, hit, since>>
        /\ form' = [NoForm EXCEPT !.pc = "baseline", !.op = op, !.target = r]
    BY <1>4 DEF StartWrite
  <2>2. click = "none" /\ hit = {}
    BY <1>1, <2>1 DEF ClickInv, Based, Sending
  <2> QED
    BY <1>1, <1>3, <2>1, <2>2 DEF NoForm, FormsInv, FormRecord, ClickInv, SinceInv, RowsInv, FormsAreSafe,
                           OnlyTheApproved, AppliedIsThere, Based, Sending
<1>5. ASSUME FormStep, form.pc # "over", UNCHANGED reported, form'.pc # "compare" PROVE FormsInv'
  BY <1>3, <1>5, FormStepInv DEF RowsInv
<1>6. CASE ShowAgain
  <2>1. /\ form.pc \in {"find", "row", "compare"} /\ UNCHANGED <<records, click, reported, hit, since>>
        /\ form' = [form EXCEPT !.glimpsed = @ \/ form.pc = "compare"]
    BY <1>6 DEF ShowAgain
  <2>2. FormStep
    <3>1. /\ form'.pc = form.pc /\ form'.open = form.open
          /\ form'.glimpsed = (form.glimpsed \/ form.pc = "compare")
          /\ form' = [pc |-> form'.pc, op |-> form.op, target |-> form.target, row |-> form'.row,
                      open |-> form'.open, known |-> form.known, before |-> form'.before,
                      found |-> form'.found, glimpsed |-> form'.glimpsed]
      BY ONLY <1>2, <2>1
    <3> QED
      BY <1>1, <2>1, <3>1 DEF FormStep, ClickInv, Based, Sending
  <2>3. RowsInv'
    BY <2>1, <2>2 DEF RowsInv, FormStep
  <2> QED
    BY <1>3, <2>1, <2>2, <2>3, FormStepInv
<1>7. CASE FindRow
  <2>1. form.pc = "find" /\ UNCHANGED <<records, click, hit, since>> /\ click = "none"
    BY <1>1, <1>7 DEF FindRow, ClickInv, Sending
  <2>2. CASE RefuseWrite
    BY <2>1, <2>2, RefusedInv
  <2>3. CASE GoOn("save") /\ UNCHANGED reported
    <3>1. FormStep /\ form'.pc = "save"
      BY <1>1, <1>2, <2>1, <2>3 DEF GoOn, FormStep, Based
    <3> QED
      BY <1>5, <2>1, <2>3, <3>1
  <2>4. ASSUME NEW i, form' = [form EXCEPT !.pc = "row", !.row = i], UNCHANGED reported
        PROVE  FormsInv'
    <3>1. FormStep /\ form'.pc = "row"
      BY <1>1, <1>2, <2>1, <2>4 DEF FormStep, Based
    <3> QED
      BY <1>5, <2>1, <2>4, <3>1
  <2> QED
    BY <1>7, <2>2, <2>3, <2>4 DEF FindRow
<1>8. CASE ClickRow
  <2>1. form.pc = "row" /\ UNCHANGED <<records, click, reported, hit, since>> /\ click = "none"
    BY <1>1, <1>8 DEF ClickRow, ClickInv, Sending
  <2>2. CASE form' = [form EXCEPT !.pc = "verify"]
    <3>1. FormStep /\ form'.pc = "verify"
      BY <1>1, <1>2, <2>1, <2>2 DEF FormStep, Based, Sending
    <3> QED
      BY <1>5, <2>1, <3>1
  <2>3. ASSUME NEW o, NEW next \in {"save", "confirm"},
               form' = [form EXCEPT !.open = o, !.pc = next]
        PROVE  FormsInv'
    <3>1. FormStep /\ form'.pc = next
      BY <1>1, <1>2, <2>1, <2>3 DEF FormStep, Based, Sending
    <3> QED
      BY <1>5, <2>1, <3>1
  <2>4. \/ form' = [form EXCEPT !.pc = "verify"]
        \/ \E o : \E next \in {"save", "confirm"} : form' = [form EXCEPT !.open = o, !.pc = next]
    BY <1>8 DEF ClickRow
  <2> QED
    BY <2>2, <2>3, <2>4
<1>9. CASE SaveForm \/ LoseDispatch
  <2>1. /\ form.pc \in {"find", "row", "save", "confirm"} /\ click = "none"
        /\ UNCHANGED <<records, click, reported, hit, since>>
        /\ GoOn("confirm") \/ GoOn("verify")
    BY <1>1, <1>9 DEF SaveForm, LoseDispatch, ClickInv, Sending
  <2>2. FormStep /\ form'.pc \in {"confirm", "verify"}
    BY <1>1, <1>2, <2>1 DEF GoOn, FormStep, Based, Sending
  <2> QED
    BY <1>5, <2>1, <2>2
<1>10. ASSUME NEW visible \in BOOLEAN, ConfirmDialog(visible) PROVE FormsInv'
  <2>1. /\ form.pc = "confirm" /\ click = "none" /\ GoOn("verify")
        /\ UNCHANGED <<records, reported, hit, since>>
        /\ click' = click \/ (click' = "sent" /\ form.open = form.target)
    BY <1>1, <1>10 DEF ConfirmDialog, NamesTarget, ClickInv, Sending
  <2>2. FormStep /\ form'.pc = "verify"
    BY <1>1, <1>2, <2>1 DEF GoOn, FormStep, Based, Sending
  <2> QED
    BY <1>5, <2>1, <2>2
<1> QED
  BY <1>4, <1>6, <1>7, <1>8, <1>9, <1>10

(* The read-back. *)
LEMMA ReadBackInv ==
    ASSUME FormsInv, ReadRows \/ CompareValues \/ LookForDeleted \/ LoseReadBack
    PROVE  FormsInv'
<1>1. /\ FormRecord /\ ClickInv /\ SinceInv /\ RowsInv /\ form.glimpsed \in BOOLEAN
      /\ form.op \in Writes
  BY DEF FormsInv, FormRecord, ReadRows, CompareValues, LookForDeleted, LoseReadBack
<1>2. form = [pc |-> form.pc, op |-> form.op, target |-> form.target, row |-> form.row,
              open |-> form.open, known |-> form.known, before |-> form.before,
              found |-> form.found, glimpsed |-> form.glimpsed]
  BY <1>1 DEF FormRecord
<1>3. /\ form.pc \in {"verify", "compare"} /\ reported # "applied"
      /\ UNCHANGED <<records, click, hit, since>>
  BY <1>1 DEF FormRecord, ReadRows, CompareValues, LookForDeleted, LoseReadBack
<1>4. CASE ReadRows
  <2>1. PICK rows \in Loading :
          LET ids == IF form.op = "create" THEN NewRows(rows) ELSE {form.target} IN
          /\ onPage' = rows
          /\ form' = [form EXCEPT !.pc = "compare", !.found = {i \in DOMAIN rows : rows[i][1] \in ids}]
    BY <1>4 DEF ReadRows
  <2> DEFINE ids == IF form.op = "create" THEN NewRows(rows) ELSE {form.target}
             there == {i \in DOMAIN rows : rows[i][1] \in ids}
  <2>2. onPage' = rows /\ form' = [form EXCEPT !.pc = "compare", !.found = there] /\ form.op # "delete"
    BY <1>4, <2>1 DEF ReadRows
  <2>3. \A i \in there : rows[i][1] \in ids /\ rows[i][1] \in Present /\ rows[i][2] = records[rows[i][1]]
    BY LoadedRows
  <2>4. ASSUME ~form.glimpsed, NEW i \in there, rows[i][2] = "asked"
        PROVE  /\ <<rows[i][1], "asked">> \in since
               /\ IF form.op = "create" THEN rows[i][1] \in Records \ form.known
                  ELSE rows[i][1] = form.target
    <3>1. /\ ~form.glimpsed => \A r \in Present \ form.known : <<r, records[r]>> \in since
          /\ form.op = "edit" /\ records[form.target] = "asked" => <<form.target, "asked">> \in since
      BY <1>1, <1>3 DEF SinceInv, Based, Sending
    <3>2. form.op \in {"create", "edit"}
      BY <1>1, <2>2 DEF Writes
    <3>3. CASE form.op = "create"
      <4>1. rows[i][1] \in Present \ form.known /\ records[rows[i][1]] = "asked"
        BY <2>3, <2>4, <3>3 DEF NewRows
      <4> QED
        BY <2>4, <3>1, <3>3, <4>1 DEF Present
    <3>4. CASE form.op = "edit"
      BY <2>3, <2>4, <3>1, <3>4
    <3> QED
      BY <3>2, <3>3, <3>4
  <2> HIDE DEF ids, there
  <2>5. /\ form'.pc = "compare" /\ form'.found = there /\ form'.glimpsed = form.glimpsed
        /\ form'.op = form.op /\ form'.target = form.target /\ form'.known = form.known
        /\ form'.open = form.open
        /\ form' = [pc |-> form'.pc, op |-> form.op, target |-> form.target, row |-> form'.row,
                    open |-> form'.open, known |-> form.known, before |-> form'.before,
                    found |-> form'.found, glimpsed |-> form'.glimpsed]
    BY ONLY <1>2, <2>2
  <2>6. FormStep
    BY <1>1, <1>3, <2>5 DEF FormStep, ClickInv, Based, Sending
  <2>7. RowsInv'
    BY <1>3, <2>2, <2>4, <2>5 DEF RowsInv
  <2>8. reported' # "applied"
    BY <1>3, <1>4 DEF ReadRows
  <2> QED
    BY <2>6, <2>7, <2>8, FormStepInv
<1>5. ASSUME NEW answer, Report(answer), answer = "applied" => AppliedIsThere' PROVE FormsInv'
  <2>1. form' = [form EXCEPT !.pc = "over"] /\ reported' = answer
    BY <1>5 DEF Report, GoOn
  <2>2. FormStep /\ form'.pc = "over"
    BY <1>1, <1>2, <1>3, <2>1 DEF FormStep, ClickInv, Based, Sending
  <2>3. RowsInv'
    BY <2>2 DEF RowsInv
  <2> QED
    BY <1>5, <2>1, <2>2, <2>3, FormStepInv
<1>6. /\ Report("applied") => UNCHANGED <<form.op, form.target, form.known, form.glimpsed, since>>
  BY <1>2, <1>3 DEF Report, GoOn
<1>7. CASE CompareValues
  <2>1. ASSUME Report("applied"),
               Cardinality(form.found) = 1,
               {i \in form.found \cap DOMAIN onPage : onPage[i][2] = "asked"} = form.found,
               ~form.glimpsed
        PROVE  CASE form.op = "create" -> \E r \in Records \ form.known : <<r, "asked">> \in since
                 [] form.op = "edit"   -> <<form.target, "asked">> \in since
                 [] form.op = "delete" -> <<form.target, "absent">> \in since
    <3>1. form.found # {}
      BY <2>1, FS_EmptySet
    <3>2. PICK i \in form.found \cap DOMAIN onPage : onPage[i][2] = "asked"
      BY <2>1, <3>1
    <3> QED
      BY <1>1, <1>7, <2>1, <3>2 DEF RowsInv, CompareValues, Writes
  <2>2. Report("unknown") \/ (/\ Report("applied") /\ Cardinality(form.found) = 1
                              /\ {i \in form.found \cap DOMAIN onPage : onPage[i][2] = "asked"}
                                   = form.found)
    BY <1>7 DEF CompareValues
  <2>3. CASE Report("unknown")
    BY <1>5, <2>3
  <2>4. CASE ~Report("unknown")
    BY <1>5, <1>6, <2>1, <2>2, <2>4 DEF AppliedIsThere
  <2> QED
    BY <2>3, <2>4
<1>8. CASE LookForDeleted
  <2>1. /\ form.op = "delete"
        /\ Report("not applied") \/ Report("unknown") \/ (Report("applied") /\ form.target \notin Present)
    BY <1>8 DEF LookForDeleted
  <2>2. form.target \notin Present => <<form.target, "absent">> \in since
    <3>1. /\ form.target \in form.known
          /\ records[form.target] = "absent" => <<form.target, "absent">> \in since
      BY <1>1, <1>3, <2>1 DEF SinceInv, Based, Sending
    <3>2. form.target \in Records /\ records[form.target] \in RecordValues \ {"unused"}
      BY <1>1, <3>1 DEF ClickInv, FormRecord
    <3> QED
      BY <3>1, <3>2 DEF Present, RecordValues
  <2> QED
    BY <1>5, <1>6, <2>1, <2>2 DEF AppliedIsThere
<1>9. CASE LoseReadBack
  BY <1>5, <1>9 DEF LoseReadBack
<1> QED
  BY <1>4, <1>7, <1>8, <1>9

LEMMA NextFormsInv == FormsInv /\ [FormsNext]_formVars => FormsInv'
<1> SUFFICES ASSUME FormsInv, [FormsNext]_formVars PROVE FormsInv'
  OBVIOUS
<1>1. CASE UNCHANGED formVars
  BY <1>1 DEF formVars, FormsInv, FormRecord, ClickInv, SinceInv, RowsInv, FormsAreSafe,
              OnlyTheApproved, AppliedIsThere, Present
<1>2. CASE FormsNext
  BY <1>2, RecordsChange, BaselineInv, DispatchInv, ReadBackInv DEF FormsNext
<1> QED
  BY <1>1, <1>2

(* The write pages: baseline, click and read-back agree in every behaviour. *)
THEOREM FormsInvariantHolds == FormsSpec => []FormsInv
<1>1. (\E writes \in BOOLEAN : FormsInit(writes)) => FormsInv
  BY InitFormsInv
<1> QED
  BY <1>1, NextFormsInv, PTL DEF FormsSpec
-----------------------------------------------------------------------------
(* The records a write in the pages is about. *)
Targets == Records \cup {NewRecord}

TargetsInv ==
    /\ Ids(onPage) \cup hit \subseteq Records
    /\ form.target \in Targets /\ form.open \in Targets
    /\ click \in {"none", "sent", "done"}
    /\ reported \in {"none", "refused", "applied", "not applied", "unknown"}
    /\ since \subseteq Records \X RecordValues
    /\ edits \in 0..RecordEdits

(* A step of the write that reads at most. *)
LEMMA TargetsStep ==
    ASSUME TargetsInv, UNCHANGED <<hit, edits>>, Ids(onPage') \subseteq Records,
           form'.target \in Targets, form'.open \in Targets,
           click' \in {"none", "sent", "done"},
           reported' \in {"none", "refused", "applied", "not applied", "unknown"},
           since' \in SUBSET since
    PROVE  TargetsInv'
BY DEF TargetsInv, Ids

LEMMA NextTargetsInv == FormsInv /\ TargetsInv /\ [FormsNext]_formVars => TargetsInv'
<1> SUFFICES ASSUME FormsInv, TargetsInv, [FormsNext]_formVars PROVE TargetsInv'
  OBVIOUS
<1>1. /\ form = [pc |-> form.pc, op |-> form.op, target |-> form.target, row |-> form.row,
                 open |-> form.open, known |-> form.known, before |-> form.before,
                 found |-> form.found, glimpsed |-> form.glimpsed]
      /\ form.target \in Targets /\ form.open \in Targets /\ Ids(onPage) \subseteq Records
      /\ records \in [Records -> RecordValues] /\ edits \in 0..RecordEdits /\ RecordEdits \in Nat
      /\ since \in SUBSET since /\ Present \subseteq Records
  BY FormsAssumption DEF FormsInv, FormRecord, TargetsInv, Present
<1>2. \A rows \in Loading : Ids(rows) \subseteq Records
  BY <1>1, LoadedRows
<1>3. Ids(Listed) \subseteq Records
  BY <1>1, ListedRows
<1>4. ASSUME NEW pc, GoOn(pc) PROVE form'.target = form.target /\ form'.open = form.open
  BY <1>1, <1>4 DEF GoOn
<1>5. NoForm.target \in Targets /\ NoForm.open \in Targets
  BY DEF NoForm, Targets
<1>6. ASSUME RefuseWrite
      PROVE  form'.target \in Targets /\ form'.open \in Targets /\ reported' = "refused"
  BY <1>5, <1>6 DEF RefuseWrite
<1>7. ASSUME NEW verdict \in {"applied", "not applied", "unknown"}, Report(verdict)
      PROVE  reported' = verdict /\ form'.target = form.target /\ form'.open = form.open
  BY <1>4, <1>7 DEF Report
<1>8. ASSUME UNCHANGED <<onPage, hit, since, edits>>,
             form'.target = form.target, form'.open = form.open,
             click' \in {"none", "sent", "done"},
             reported' \in {"none", "refused", "applied", "not applied", "unknown"}
      PROVE  TargetsInv'
  BY <1>1, <1>8, TargetsStep
<1>9. ASSUME NEW r \in Records, NEW v \in RecordValues, Becomes(r, v), UNCHANGED <<onPage, form, reported>>,
             click' \in {"none", "sent", "done"}, edits' \in 0..RecordEdits, hit' \subseteq hit \cup {r}
      PROVE  TargetsInv'
  <2>1. since' \subseteq Records \X RecordValues
    <3>1. since' = since \cup {<<r, v>>} /\ <<r, v>> \in Records \X RecordValues
      BY <1>9 DEF Becomes
    <3> QED
      BY <3>1 DEF TargetsInv
  <2>2. hit' \subseteq Records /\ Ids(onPage)' \subseteq Records
    BY <1>9 DEF TargetsInv, Ids
  <2> QED
    BY <1>9, <2>1, <2>2 DEF TargetsInv
<1>10. ASSUME NEW r \in Records, NEW v \in RecordValues, EditRecord(r, v) PROVE TargetsInv'
  <2>1. /\ edits > 0 /\ edits' = edits - 1 /\ Becomes(r, v) /\ UNCHANGED <<onPage, form, click, reported, hit>>
    BY <1>10 DEF EditRecord, formPageVars
  <2>2. edits' \in 0..RecordEdits
    BY <1>1, <2>1
  <2>3. hit' \subseteq hit \cup {r} /\ click' \in {"none", "sent", "done"}
    BY <2>1 DEF TargetsInv
  <2> QED
    BY <1>9, <2>1, <2>2, <2>3
<1>11. CASE ApplyForm
  <2> DEFINE wanted == IF form.op = "delete" THEN "absent" ELSE "asked"
  <2>1. PICK r \in Records : Becomes(r, wanted) /\ hit' = hit \cup {r}
    BY <1>1, <1>11 DEF ApplyForm
  <2>2. wanted \in RecordValues
    BY DEF RecordValues
  <2>3. UNCHANGED <<onPage, form, reported, edits>> /\ click' = "done"
    BY <1>11 DEF ApplyForm, formPageVars
  <2> HIDE DEF wanted
  <2> QED
    BY <1>1, <1>9, <2>1, <2>2, <2>3
<1>12. CASE ShowAgain
  <2>1. /\ onPage' = Listed /\ UNCHANGED <<click, reported, hit, since, edits>>
        /\ form'.target = form.target /\ form'.open = form.open
    BY <1>1, <1>12 DEF ShowAgain
  <2> QED
    BY <1>1, <1>3, <2>1, TargetsStep DEF TargetsInv
<1>13. ASSUME NEW op, NEW r \in Targets, StartWrite(op, r) PROVE TargetsInv'
  <2>1. /\ UNCHANGED <<onPage, click, reported, hit, since, edits>>
        /\ form'.target = r /\ form'.open = NewRecord
    BY <1>13 DEF StartWrite, NoForm
  <2> QED
    BY <1>1, <2>1, TargetsStep DEF TargetsInv, Targets
<1>14. CASE ReadBaseline
  <2>1. PICK rows \in Loading :
          /\ onPage' = rows
          /\ \/ /\ form' = [form EXCEPT !.pc = "find", !.known = Ids(rows), !.before = rows,
                                        !.glimpsed = rows # Listed]
                /\ since' = {} /\ UNCHANGED reported
             \/ RefuseWrite /\ UNCHANGED since
    BY <1>14 DEF ReadBaseline
  <2>2. UNCHANGED <<click, hit, edits>>
    BY <1>14 DEF ReadBaseline
  <2>3. form'.target \in Targets /\ form'.open \in Targets
    BY <1>1, <1>6, <2>1
  <2>4. since' \in SUBSET since /\ reported' \in {reported, "refused"}
    BY <1>6, <2>1
  <2> QED
    BY <1>2, <2>1, <2>2, <2>3, <2>4, TargetsStep DEF TargetsInv
<1>15. CASE FindRow
  <2>1. PICK rows \in Loading :
          /\ onPage' = rows
          /\ \/ GoOn("save") /\ UNCHANGED reported
             \/ RefuseWrite
             \/ /\ form' = [form EXCEPT !.pc = "row",
                                        !.row = CHOOSE i \in DOMAIN rows : rows[i][1] = form.target]
                /\ UNCHANGED reported
    BY <1>15 DEF FindRow
  <2>2. UNCHANGED <<click, hit, since, edits>>
    BY <1>15 DEF FindRow
  <2>3. form'.target \in Targets /\ form'.open \in Targets /\ reported' \in {reported, "refused"}
    BY <1>1, <1>4, <1>6, <2>1
  <2> QED
    BY <1>2, <2>1, <2>2, <2>3, TargetsStep DEF TargetsInv
<1>16. CASE ClickRow
  <2>1. UNCHANGED <<onPage, click, reported, hit, since, edits>>
    BY <1>16 DEF ClickRow
  <2>2. form.row \in DOMAIN onPage => onPage[form.row][1] \in Targets
    BY <1>1 DEF Ids, Targets
  <2>3. form'.target \in Targets /\ form'.open \in Targets
    BY <1>1, <1>16, <2>2 DEF ClickRow
  <2> QED
    BY <1>1, <2>1, <2>3, TargetsStep DEF TargetsInv
<1>17. CASE SaveForm \/ LoseDispatch
  BY <1>4, <1>8, <1>17 DEF SaveForm, LoseDispatch, TargetsInv
<1>18. ASSUME NEW visible, ConfirmDialog(visible) PROVE TargetsInv'
  <2>1. /\ UNCHANGED <<onPage, reported, hit, since, edits>> /\ GoOn("verify")
        /\ click' \in {"none", "sent", "done"}
    BY <1>18 DEF ConfirmDialog, TargetsInv
  <2> QED
    BY <1>4, <1>8, <2>1 DEF TargetsInv
<1>19. CASE ReadRows
  <2>1. PICK rows \in Loading :
          /\ onPage' = rows
          /\ \E found : form' = [form EXCEPT !.pc = "compare", !.found = found]
    BY <1>19 DEF ReadRows
  <2>2. UNCHANGED <<click, reported, hit, since, edits>>
    BY <1>19 DEF ReadRows
  <2>3. form'.target = form.target /\ form'.open = form.open
    BY <1>1, <2>1
  <2> QED
    BY <1>1, <1>2, <2>1, <2>2, <2>3, TargetsStep DEF TargetsInv
<1>20. CASE CompareValues \/ LookForDeleted \/ LoseReadBack
  <2>1. UNCHANGED <<onPage, click, hit, since, edits>>
    BY <1>20 DEF CompareValues, LookForDeleted, LoseReadBack
  <2>2. PICK verdict \in {"applied", "not applied", "unknown"} : Report(verdict)
    BY <1>20 DEF CompareValues, LookForDeleted, LoseReadBack
  <2> QED
    BY <1>7, <1>8, <2>1, <2>2 DEF TargetsInv
<1>21. CASE UNCHANGED formVars
  BY <1>21 DEF formVars, TargetsInv, Ids
<1> QED
  BY <1>10, <1>11, <1>12, <1>13, <1>14, <1>15, <1>16, <1>17, <1>18, <1>19, <1>20, <1>21 DEF FormsNext, Targets

LEMMA FormsTyped ==
    /\ (\E writes \in BOOLEAN : FormsInit(writes)) => TargetsInv
    /\ FormsInv /\ TargetsInv => FormsTypeOK
<1>1. ASSUME NEW writes \in BOOLEAN, FormsInit(writes) PROVE TargetsInv
  <2>1. onPage = << >> /\ DOMAIN << >> = {} /\ hit = {} /\ since = {} /\ click = "none" /\ reported = "none"
        /\ edits \in {0, RecordEdits}
    BY <1>1 DEF FormsInit
  <2>2. edits \in 0..RecordEdits
    BY <2>1, FormsAssumption
  <2>3. form.target = NewRecord /\ form.open = NewRecord
    BY <1>1 DEF FormsInit, NoForm
  <2>4. Ids(onPage) = {}
    BY <2>1 DEF Ids
  <2> QED
    BY <2>1, <2>2, <2>3, <2>4 DEF TargetsInv, Targets
<1>2. ASSUME FormsInv, TargetsInv PROVE FormsTypeOK
  BY <1>2 DEF FormsInv, FormRecord, ClickInv, TargetsInv, Targets, FormsTypeOK
<1> QED
  BY <1>1, <1>2
-----------------------------------------------------------------------------
LEMMA InitYearInv ==
    ASSUME NEW reading \in BOOLEAN, YearInit(reading)
    PROVE  YearInv
<1>1. ThisYear \in Int
  BY YearAssumption
<1>2. yearPage \in YearAnswers
  BY <1>1 DEF YearInit, YearAnswers
<1>3. << >> \in Seq(Nat \X YearAnswers) /\ Len(<< >>) = 0
  OBVIOUS
<1>4. yearRead.queue = << >>
  BY DEF YearInit, NoYearRead
<1>5. YearQueueInv
  BY <1>2, <1>3, <1>4 DEF YearInit, YearQueueInv, NoYearRead
<1>6. TakenInv
  BY DEF YearInit, TakenInv, NoYearTaken, NoYearRead
<1> QED
  BY <1>5, <1>6 DEF YearInv

(* A read that ends leaves an empty capture. *)
LEMMA ReturnKeepsYear ==
    ASSUME YearInv, NEW taken, ReturnYear(taken), UNCHANGED yearPage,
           answers' \subseteq answers, TakenInv'
    PROVE  YearInv'
<1>1. << >> \in Seq(Nat \X YearAnswers) /\ Len(<< >>) = 0
  OBVIOUS
<1>2. yearRead' = NoYearRead
  BY DEF ReturnYear
<1>3. yearRead'.queue = << >>
  BY <1>2 DEF NoYearRead
<1>4. YearQueueInv'
  BY <1>1, <1>2, <1>3 DEF YearInv, YearQueueInv, NoYearRead
<1> QED
  BY <1>4 DEF YearInv

LEMMA OpeningKeepsYear ==
    ASSUME YearInv,
           \/ \E kind \in ReadKinds, who \in Staff, year \in Years \cup {ShownYear} :
                StartYearRead(kind, who, year)
           \/ OpenYearPage \/ SeeYearControl \/ StepYear
    PROVE  YearInv'
<1> USE DEF YearInv
<1>1. ASSUME NEW kind \in ReadKinds, NEW who \in Staff, NEW year \in Years \cup {ShownYear},
             StartYearRead(kind, who, year)
      PROVE  YearInv'
  <2>1. << >> \in Seq(Nat \X YearAnswers) /\ Len(<< >>) = 0
    OBVIOUS
  <2>2. yearRead' = [pc |-> "open", kind |-> kind, who |-> who, year |-> year,
                     selected |-> FALSE, mark |-> 0, heard |-> 0, queue |-> <<>>,
                     counters |-> 0, overflow |-> FALSE]
    BY <1>1 DEF StartYearRead, NoYearRead
  <2>3. UNCHANGED <<yearPage, answers, yearTaken>>
    BY <1>1 DEF StartYearRead
  <2>4. yearRead'.queue = << >>
    BY <2>2
  <2>5. YearQueueInv'
    BY <2>1, <2>2, <2>3, <2>4 DEF YearQueueInv
  <2>6. TakenInv'
    BY <2>2, <2>3 DEF TakenInv
  <2> QED
    BY <2>5, <2>6
<1>2. CASE OpenYearPage
  <2>1. yearPage' = [doc |-> yearPage.doc + 1, kind |-> yearRead.kind, who |-> yearRead.who,
                     year |-> ThisYear]
    BY <1>2 DEF OpenYearPage
  <2>2. yearPage' \in YearAnswers
    <3>1. ThisYear \in Int
      BY YearAssumption
    <3>2. yearPage.doc + 1 \in Nat
      BY DEF YearQueueInv, YearAnswers
    <3> QED
      BY <2>1, <3>1, <3>2 DEF YearQueueInv, YearAnswers
  <2>3. /\ Asked(yearPage') \in YearAnswers /\ Asked(yearPage').doc = yearPage'.doc
        /\ Counters(yearPage') \in YearAnswers /\ Counters(yearPage').doc = yearPage'.doc
    BY <2>2 DEF YearAnswers, Asked, Counters, ShownYear
  <2>4. answers' \subseteq YearAnswers /\ \A a \in answers' : a.doc = yearPage'.doc
    BY <1>2, <2>3, Zenon DEF OpenYearPage
  <2>5. ~yearRead.selected /\ yearRead' = [yearRead EXCEPT !.pc = "control"]
    BY <1>2 DEF OpenYearPage, ReadAt, YearQueueInv
  <2>6. /\ yearRead' = [pc |-> "control", kind |-> yearRead.kind, who |-> yearRead.who,
                        year |-> yearRead.year, selected |-> yearRead.selected,
                        mark |-> yearRead.mark, heard |-> yearRead.heard,
                        queue |-> yearRead.queue, counters |-> yearRead.counters,
                        overflow |-> yearRead.overflow]
    BY <2>5 DEF YearQueueInv
  <2>7. YearQueueInv'
    BY <2>1, <2>2, <2>4, <2>5, <2>6 DEF YearQueueInv
  <2>8. TakenInv'
    BY <1>2, <2>6 DEF TakenInv, OpenYearPage
  <2> QED
    BY <2>7, <2>8
<1>3. CASE SeeYearControl
  <2>1. ~yearRead.selected /\ UNCHANGED <<yearPage, answers, yearTaken>>
    BY <1>3 DEF SeeYearControl, YearQueueInv
  <2>2. CASE WantedYear = yearPage.year
    <3>1. yearRead' = [yearRead EXCEPT !.pc = "wait", !.year = WantedYear]
      BY <1>3, <2>2 DEF SeeYearControl
    <3>2. yearRead' = [pc |-> "wait", kind |-> yearRead.kind, who |-> yearRead.who,
                       year |-> WantedYear, selected |-> yearRead.selected,
                       mark |-> yearRead.mark, heard |-> yearRead.heard,
                       queue |-> yearRead.queue, counters |-> yearRead.counters,
                       overflow |-> yearRead.overflow]
      BY <3>1 DEF YearQueueInv
    <3>3. YearQueueInv'
      BY <2>1, <3>2 DEF YearQueueInv
    <3> QED
      BY <2>1, <3>2, <3>3 DEF TakenInv
  <2>3. CASE WantedYear # yearPage.year
    <3>1. yearRead' = [yearRead EXCEPT !.pc = "select", !.selected = TRUE, !.mark = yearRead.heard]
      BY <1>3, <2>3 DEF SeeYearControl, MarkSelection
    <3>2. yearRead' = [pc |-> "select", kind |-> yearRead.kind, who |-> yearRead.who,
                       year |-> yearRead.year, selected |-> TRUE,
                       mark |-> yearRead.heard, heard |-> yearRead.heard,
                       queue |-> yearRead.queue, counters |-> yearRead.counters,
                       overflow |-> yearRead.overflow]
      BY <3>1 DEF YearQueueInv
    <3>3. \A i \in 1..Len(yearRead.queue) : yearRead.queue[i][1] \in Nat
      BY DEF YearQueueInv
    <3>4. YearQueueInv'
      BY <2>1, <3>2, <3>3 DEF YearQueueInv
    <3> QED
      BY <2>1, <3>2, <3>4 DEF TakenInv
  <2> QED
    BY <2>2, <2>3
<1>4. CASE StepYear
  <2> DEFINE stepped == IF yearRead.year > yearPage.year THEN yearPage.year + 1 ELSE yearPage.year - 1
  <2>1. yearPage' = [doc |-> yearPage.doc, kind |-> yearPage.kind, who |-> yearPage.who,
                     year |-> stepped]
    BY <1>4 DEF StepYear, YearQueueInv
  <2>2. stepped \in Int
    BY DEF YearQueueInv, YearAnswers
  <2>3. yearPage' \in YearAnswers /\ yearPage'.doc = yearPage.doc
    <3> HIDE DEF stepped
    <3> QED
      BY <2>1, <2>2 DEF YearQueueInv, YearAnswers
  <2>4. Asked(yearPage') \in YearAnswers /\ Asked(yearPage').doc = yearPage.doc
    BY <2>3 DEF YearAnswers, Asked
  <2>5. answers' \subseteq YearAnswers /\ \A a \in answers' : a.doc = yearPage'.doc
    BY <1>4, <2>3, <2>4 DEF StepYear, YearQueueInv
  <2>6. PICK pc \in {"wait", "select"} : yearRead' = [yearRead EXCEPT !.pc = pc]
    BY <1>4 DEF StepYear, ReadAt
  <2>7. /\ yearRead' = [pc |-> pc, kind |-> yearRead.kind, who |-> yearRead.who,
                        year |-> yearRead.year, selected |-> yearRead.selected,
                        mark |-> yearRead.mark, heard |-> yearRead.heard,
                        queue |-> yearRead.queue, counters |-> yearRead.counters,
                        overflow |-> yearRead.overflow]
    BY <2>6 DEF YearQueueInv
  <2>8. YearQueueInv'
    <3> HIDE DEF stepped
    <3> QED
      BY <2>1, <2>3, <2>5, <2>7 DEF YearQueueInv
  <2>9. TakenInv'
    BY <1>4, <2>7 DEF TakenInv, StepYear
  <2> QED
    BY <2>8, <2>9
<1> QED
  BY <1>1, <1>2, <1>3, <1>4

(* What is heard answers this document. *)
LEMMA HearingKeepsYear ==
    ASSUME YearInv, NEW a \in answers, HearAnswer(a)
    PROVE  YearInv'
<1> USE DEF YearInv
<1> DEFINE fits == Listening /\ a.kind = yearRead.kind
           room == Len(yearRead.queue) < YearCapacity
           entry == <<yearRead.heard + 1, a>>
<1>1. answers' \subseteq answers /\ UNCHANGED <<yearPage, yearTaken>>
  BY DEF HearAnswer
<1>2. entry \in Nat \X YearAnswers /\ a.doc = yearPage.doc
  BY DEF YearQueueInv
<1>3. CASE fits /\ room
  <2>1. yearRead' = [yearRead EXCEPT !.heard = @ + 1, !.queue = Append(@, entry)]
    BY <1>3 DEF HearAnswer
  <2> HIDE DEF entry
  <2>2. yearRead' = [pc |-> yearRead.pc, kind |-> yearRead.kind, who |-> yearRead.who,
                     year |-> yearRead.year, selected |-> yearRead.selected,
                     mark |-> yearRead.mark, heard |-> yearRead.heard + 1,
                     queue |-> Append(yearRead.queue, entry), counters |-> yearRead.counters,
                     overflow |-> yearRead.overflow]
    BY <2>1 DEF YearQueueInv
  <2>3. /\ Append(yearRead.queue, entry) \in Seq(Nat \X YearAnswers)
        /\ Len(Append(yearRead.queue, entry)) = Len(yearRead.queue) + 1
        /\ \A i \in 1..Len(yearRead.queue) :
             Append(yearRead.queue, entry)[i] = yearRead.queue[i]
        /\ Append(yearRead.queue, entry)[Len(yearRead.queue) + 1] = entry
    BY <1>2, AppendProperties DEF YearQueueInv
  <2>4. entry[1] = yearRead.heard + 1 /\ entry[2] = a
    BY DEF entry
  <2>5. \A i \in 1..Len(yearRead'.queue) :
          /\ yearRead'.queue[i][1] <= yearRead'.heard
          /\ yearRead'.selected /\ yearRead'.queue[i][1] > yearRead'.mark =>
               yearRead'.queue[i][2].doc = yearPage'.doc
    <3> TAKE i \in 1..Len(yearRead'.queue)
    <3>1. CASE i \in 1..Len(yearRead.queue)
      <4>1. yearRead'.queue[i] = yearRead.queue[i] /\ yearRead.queue[i][1] \in Nat
        BY <2>2, <2>3, <3>1 DEF YearQueueInv
      <4> QED
        BY <1>1, <2>2, <3>1, <4>1 DEF YearQueueInv
    <3>2. CASE i = Len(yearRead.queue) + 1
      BY <1>1, <1>2, <2>2, <2>3, <2>4, <3>2 DEF YearQueueInv
    <3>3. Len(yearRead.queue) \in Nat
      BY DEF YearQueueInv
    <3> QED
      BY <2>2, <2>3, <3>1, <3>2, <3>3
  <2>6. YearQueueInv'
    BY <1>1, <2>2, <2>3, <2>5 DEF YearQueueInv
  <2>7. TakenInv'
    BY <1>1, <2>2 DEF TakenInv
  <2> QED
    BY <2>6, <2>7
<1>4. CASE ~(fits /\ room)
  <2> DEFINE Heard(h, n, full) ==
               [pc |-> yearRead.pc, kind |-> yearRead.kind, who |-> yearRead.who,
                year |-> yearRead.year, selected |-> yearRead.selected, mark |-> yearRead.mark,
                heard |-> h, queue |-> yearRead.queue, counters |-> n, overflow |-> full]
  <2>1. \E h \in {yearRead.heard, yearRead.heard + 1} : \E n, full : yearRead' = Heard(h, n, full)
    <3>1. CASE fits
      <4>1. yearRead' = [yearRead EXCEPT !.heard = @ + 1, !.overflow = TRUE]
        BY <1>4, <3>1 DEF HearAnswer
      <4>2. yearRead' = Heard(yearRead.heard + 1, yearRead.counters, TRUE)
        BY <4>1 DEF YearQueueInv
      <4> HIDE DEF Heard
      <4> QED
        BY <4>2
    <3>2. CASE ~fits
      <4>1. \/ yearRead' = yearRead
            \/ yearRead' = [yearRead EXCEPT !.counters = @ + 1]
            \/ yearRead' = [yearRead EXCEPT !.overflow = TRUE]
        BY <3>2 DEF HearAnswer
      <4>2. \/ yearRead' = Heard(yearRead.heard, yearRead.counters, yearRead.overflow)
            \/ yearRead' = Heard(yearRead.heard, yearRead.counters + 1, yearRead.overflow)
            \/ yearRead' = Heard(yearRead.heard, yearRead.counters, TRUE)
        BY <4>1 DEF YearQueueInv
      <4> HIDE DEF Heard
      <4> QED
        BY <4>2
    <3> QED
      BY <3>1, <3>2
  <2>2. PICK h \in {yearRead.heard, yearRead.heard + 1} : \E n, full : yearRead' = Heard(h, n, full)
    BY <2>1
  <2>3. h \in Nat /\ \A i \in 1..Len(yearRead.queue) : yearRead.queue[i][1] <= h
    <3>1. \A i \in 1..Len(yearRead.queue) : yearRead.queue[i][1] \in Nat
      BY DEF YearQueueInv
    <3> QED
      BY <2>2, <3>1 DEF YearQueueInv
  <2>4. YearQueueInv'
    BY <1>1, <2>2, <2>3 DEF YearQueueInv
  <2>5. TakenInv'
    BY <1>1, <2>2 DEF TakenInv
  <2> QED
    BY <2>4, <2>5
<1> QED
  BY <1>3, <1>4

(* An answer up to the mark, or to another question, is dropped. *)
LEMMA TakingKeepsYear ==
    ASSUME YearInv, TakeAnswer \/ TakeCounters
    PROVE  YearInv'
<1> USE DEF YearInv
<1>1. CASE TakeAnswer
  <2> DEFINE sequence == Head(yearRead.queue)[1]
             a        == Head(yearRead.queue)[2]
             taken    == [via |-> "answer", answer |-> a, who |-> yearRead.who,
                          year |-> yearRead.year, doc |-> yearPage.doc,
                          selected |-> yearRead.selected]
             dropped  == sequence <= yearRead.mark \/ ~AnswerMatches(a)
  <2>1. yearRead.queue \in Seq(Nat \X YearAnswers) /\ yearRead.queue # << >>
    BY <1>1 DEF TakeAnswer, YearQueueInv
  <2>2. UNCHANGED <<yearPage, answers>>
    BY <1>1 DEF TakeAnswer
  <2>3. /\ Tail(yearRead.queue) \in Seq(Nat \X YearAnswers)
        /\ Len(Tail(yearRead.queue)) = Len(yearRead.queue) - 1
        /\ \A i \in 1..Len(Tail(yearRead.queue)) :
             Tail(yearRead.queue)[i] = yearRead.queue[i + 1]
    BY <2>1, HeadTailProperties
  <2>4. Len(yearRead.queue) \in Nat /\ 1 \in 1..Len(yearRead.queue) /\ Head(yearRead.queue) = yearRead.queue[1]
    BY <2>1
  <2>5. CASE dropped
    <3>1. yearRead' = [yearRead EXCEPT !.queue = Tail(@)] /\ UNCHANGED yearTaken
      BY <1>1, <2>5 DEF TakeAnswer
    <3>2. yearRead' = [pc |-> yearRead.pc, kind |-> yearRead.kind, who |-> yearRead.who,
                       year |-> yearRead.year, selected |-> yearRead.selected,
                       mark |-> yearRead.mark, heard |-> yearRead.heard,
                       queue |-> Tail(yearRead.queue), counters |-> yearRead.counters,
                       overflow |-> yearRead.overflow]
      BY <3>1 DEF YearQueueInv
    <3>3. \A i \in 1..Len(Tail(yearRead.queue)) : i + 1 \in 1..Len(yearRead.queue)
      BY <2>3, <2>4
    <3>4. YearQueueInv'
      BY <2>2, <2>3, <3>2, <3>3 DEF YearQueueInv
    <3> QED
      BY <3>1, <3>2, <3>4 DEF TakenInv
  <2>6. CASE ~dropped
    <3>1. a.who = yearRead.who /\ a.year = yearRead.year /\ ~(sequence <= yearRead.mark)
      BY <2>6 DEF AnswerMatches
    <3>2. yearRead.selected => a.doc = yearPage.doc
      <4>1. sequence \in Nat /\ sequence > yearRead.mark
        BY <2>1, <2>4, <3>1 DEF YearQueueInv
      <4> QED
        BY <2>4, <4>1 DEF YearQueueInv
    <3> HIDE DEF sequence, a, dropped
    <3>3. CASE yearRead.kind = "payroll"
      <4>1. ReturnYear(taken)
        BY <1>1, <2>6, <3>3 DEF TakeAnswer, sequence, a, dropped
      <4>2. TakenInv'
        BY <3>1, <3>2, <4>1 DEF ReturnYear, TakenInv, NoYearRead
      <4> QED
        BY <2>2, <4>1, <4>2, ReturnKeepsYear
    <3>4. CASE yearRead.kind # "payroll"
      <4>1. yearTaken' = [taken EXCEPT !.via = "names"] /\ ReadAt("counters")
        BY <1>1, <2>6, <3>4 DEF TakeAnswer, sequence, a, dropped
      <4>2. yearRead' = [pc |-> "counters", kind |-> yearRead.kind, who |-> yearRead.who,
                         year |-> yearRead.year, selected |-> yearRead.selected,
                         mark |-> yearRead.mark, heard |-> yearRead.heard,
                         queue |-> yearRead.queue, counters |-> yearRead.counters,
                         overflow |-> yearRead.overflow]
        BY <4>1 DEF ReadAt, YearQueueInv
      <4>3. YearQueueInv'
        BY <2>2, <4>2 DEF YearQueueInv
      <4>4. TakenInv'
        BY <3>1, <3>2, <4>1 DEF TakenInv
      <4> QED
        BY <4>3, <4>4
    <3> QED
      BY <3>3, <3>4
  <2> QED
    BY <2>5, <2>6
<1>2. CASE TakeCounters
  <2>1. yearTaken.via = "names" /\ UNCHANGED <<yearPage, answers>>
    BY <1>2 DEF TakeCounters, TakenInv
  <2>2. ReturnYear([yearTaken EXCEPT !.via = "answer"])
    BY <1>2 DEF TakeCounters
  <2>3. TakenInv'
    BY <2>1, <2>2 DEF ReturnYear, TakenInv, NoYearRead
  <2> QED
    BY <2>1, <2>2, <2>3, ReturnKeepsYear
<1> QED
  BY <1>1, <1>2

LEMMA NextYearInv == YearInv /\ [YearNext]_yearVars => YearInv'
<1> SUFFICES ASSUME YearInv, [YearNext]_yearVars PROVE YearInv'
  OBVIOUS
<1>1. CASE ReadLegacyRows \/ FailYear
  <2>1. PICK taken : ReturnYear(taken) /\ taken.via \in {"rows", "none"}
    BY <1>1 DEF ReadLegacyRows, FailYear, NoYearTaken
  <2>2. UNCHANGED <<yearPage, answers>>
    BY <1>1 DEF ReadLegacyRows, FailYear
  <2>3. TakenInv'
    BY <2>1 DEF ReturnYear, TakenInv, NoYearRead
  <2> QED
    BY <2>1, <2>2, <2>3, ReturnKeepsYear
<1>2. CASE UNCHANGED yearVars
  BY <1>2 DEF YearInv, YearQueueInv, TakenInv, yearVars
<1> QED
  BY <1>1, <1>2, OpeningKeepsYear, HearingKeepsYear, TakingKeepsYear DEF YearNext

(* EmployeeBalancePage and EmployeePayrollsPage: the capture, its mark and the
   document agree in every behaviour. *)
THEOREM YearInvariantHolds == YearSpec => []YearInv
<1>1. (\E reading \in BOOLEAN : YearInit(reading)) => YearInv
  BY InitYearInv
<1> QED
  BY <1>1, NextYearInv, PTL DEF YearSpec
-----------------------------------------------------------------------------
(* The selection only passes through years that are there. *)
YearPlacesInv ==
    /\ yearRead.pc \in {"idle", "open", "control", "select", "wait", "counters"}
    /\ yearPage.year \in Years
    /\ yearRead.pc \in {"open", "control"} => yearRead.year \in Years \cup {ShownYear}
    /\ yearRead.pc = "select" => yearRead.year \in Years /\ yearRead.year # yearPage.year
    /\ yearRead.heard >= yearRead.mark /\ Len(yearRead.queue) <= YearCapacity
    /\ yearRead.counters \in 0..YearCapacity
    /\ yearTaken.via \in {"none", "rows", "names", "answer"}
    /\ yearReads \in 0..YearReads

LEMMA NextYearPlacesInv == YearInv /\ YearPlacesInv /\ [YearNext]_yearVars => YearPlacesInv'
<1> SUFFICES ASSUME YearInv, YearPlacesInv, [YearNext]_yearVars PROVE YearPlacesInv'
  OBVIOUS
<1>1. /\ yearRead = [pc |-> yearRead.pc, kind |-> yearRead.kind, who |-> yearRead.who,
                     year |-> yearRead.year, selected |-> yearRead.selected, mark |-> yearRead.mark,
                     heard |-> yearRead.heard, queue |-> yearRead.queue,
                     counters |-> yearRead.counters, overflow |-> yearRead.overflow]
      /\ yearPage = [doc |-> yearPage.doc, kind |-> yearPage.kind, who |-> yearPage.who,
                     year |-> yearPage.year]
      /\ yearRead.heard \in Nat /\ yearRead.mark \in Nat /\ yearRead.mark <= yearRead.heard
      /\ yearRead.queue \in Seq(Nat \X YearAnswers) /\ Len(yearRead.queue) \in Nat
      /\ Len(yearRead.queue) <= YearCapacity
      /\ Years \in SUBSET Nat /\ ShownYear \notin Years /\ ThisYear \in Years
      /\ YearCapacity \in Nat \ {0} /\ YearReads \in Nat
      /\ yearReads \in 0..YearReads /\ yearRead.counters \in 0..YearCapacity
  <2>1. yearRead.queue \in Seq(Nat \X YearAnswers) /\ Len(yearRead.queue) <= YearCapacity
        /\ yearRead.heard \in Nat /\ yearRead.mark \in Nat /\ yearRead.mark <= yearRead.heard
    BY DEF YearInv, YearQueueInv, YearPlacesInv
  <2>2. Len(yearRead.queue) \in Nat
    BY <2>1
  <2>3. Years \in SUBSET Nat /\ ShownYear \notin Years
    BY YearAssumption DEF ShownYear
  <2> QED
    BY <2>1, <2>2, <2>3, YearAssumption DEF YearInv, YearQueueInv, YearPlacesInv
<1>2. /\ NoYearRead.pc = "idle" /\ NoYearRead.mark = 0 /\ NoYearRead.heard = 0
      /\ NoYearRead.queue = << >> /\ Len(<< >>) = 0 /\ NoYearRead.counters = 0
      /\ 0 <= YearCapacity /\ 0 \in 0..YearCapacity
  BY <1>1 DEF NoYearRead
(* A read that ends. *)
<1>3. ASSUME NEW taken, ReturnYear(taken), taken.via \in {"none", "rows", "names", "answer"},
             UNCHANGED <<yearPage, yearReads>>
      PROVE  YearPlacesInv'
  <2>1. yearRead' = NoYearRead /\ yearTaken' = taken
    BY <1>3 DEF ReturnYear
  <2>2. 0 >= 0
    OBVIOUS
  <2> QED
    BY <1>2, <1>3, <2>1, <2>2 DEF YearPlacesInv
(* One that goes on, without a change of what it has heard. *)
<1>4. ASSUME NEW pc \in {"control", "select", "wait", "counters"}, ReadAt(pc)
      PROVE  /\ yearRead'.pc = pc /\ yearRead'.year = yearRead.year /\ yearRead'.heard = yearRead.heard
             /\ yearRead'.mark = yearRead.mark /\ yearRead'.queue = yearRead.queue
             /\ yearRead'.counters = yearRead.counters
  BY <1>1, <1>4 DEF ReadAt
<1>5. ASSUME NEW kind, NEW who, NEW year \in Years \cup {ShownYear}, StartYearRead(kind, who, year)
      PROVE  YearPlacesInv'
  <2>1. /\ yearRead'.pc = "open" /\ yearRead'.year = year /\ yearRead'.mark = 0 /\ yearRead'.heard = 0
        /\ yearRead'.queue = << >> /\ yearRead'.counters = 0
    BY <1>5 DEF StartYearRead, NoYearRead
  <2>2. yearReads > 0 /\ yearReads' = yearReads - 1 /\ UNCHANGED <<yearPage, yearTaken>>
    BY <1>5 DEF StartYearRead
  <2>3. yearReads' \in 0..YearReads /\ 0 >= 0
    BY <1>1, <2>2
  <2> QED
    BY <1>2, <2>1, <2>2, <2>3 DEF YearPlacesInv
<1>6. CASE OpenYearPage
  <2>1. yearPage'.year = ThisYear /\ UNCHANGED <<yearTaken, yearReads>> /\ yearRead.pc = "open" /\ ReadAt("control")
    BY <1>6 DEF OpenYearPage
  <2> QED
    BY <1>1, <1>4, <2>1 DEF YearPlacesInv
<1>7. CASE SeeYearControl
  <2>1. UNCHANGED <<yearPage, yearTaken, yearReads>> /\ yearRead.pc = "control"
    BY <1>7 DEF SeeYearControl
  <2>2. CASE yearRead' = [yearRead EXCEPT !.pc = "wait", !.year = WantedYear]
    BY <1>1, <2>1, <2>2 DEF YearPlacesInv
  <2>3. CASE /\ WantedYear # yearPage.year
             /\ yearRead' = [yearRead EXCEPT !.pc = "select", !.selected = TRUE, !.mark = MarkSelection]
    <3>1. yearRead.year \in Years /\ yearRead.year # yearPage.year
      BY <2>1, <2>3 DEF WantedYear, YearPlacesInv
    <3>2. /\ yearRead'.pc = "select" /\ yearRead'.year = yearRead.year /\ yearRead'.mark = yearRead.heard
          /\ yearRead'.heard = yearRead.heard /\ yearRead'.queue = yearRead.queue
          /\ yearRead'.counters = yearRead.counters
      BY <1>1, <2>3 DEF MarkSelection
    <3>3. yearRead.heard >= yearRead.heard
      BY <1>1
    <3> QED
      BY <2>1, <3>1, <3>2, <3>3 DEF YearPlacesInv
  <2> QED
    BY <1>7, <2>2, <2>3 DEF SeeYearControl
<1>8. CASE ReadLegacyRows
  BY <1>3, <1>8 DEF ReadLegacyRows
<1>9. CASE StepYear
  <2> DEFINE there == yearPage.year
             wanted == yearRead.year
             next == IF wanted > there THEN there + 1 ELSE there - 1
  <2>1. /\ yearRead.pc = "select" /\ UNCHANGED <<yearTaken, yearReads>>
        /\ yearPage' = [yearPage EXCEPT !.year = next]
        /\ ReadAt(IF yearPage'.year = wanted THEN "wait" ELSE "select")
    BY <1>9 DEF StepYear
  <2>2. wanted \in Years /\ there \in Years /\ wanted # there
    BY <2>1 DEF YearPlacesInv
  <2>3. next \in Years
    <3>1. wanted \in Nat /\ there \in Nat
      BY <1>1, <2>2
    <3>2. next \in there..wanted \/ next \in wanted..there
      BY <2>2, <3>1
    <3> HIDE DEF next, there, wanted
    <3> QED
      BY <2>2, <3>2, YearAssumption
  <2>4. yearPage'.year = next
    BY <1>1, <2>1
  <2> HIDE DEF next
  <2>5. CASE next = wanted
    <3>1. ReadAt("wait")
      BY <2>1, <2>4, <2>5
    <3> QED
      BY <1>1, <1>4, <2>1, <2>3, <2>4, <3>1 DEF YearPlacesInv
  <2>6. CASE next # wanted
    <3>1. ReadAt("select")
      BY <2>1, <2>4, <2>6
    <3> QED
      BY <1>1, <1>4, <2>1, <2>2, <2>3, <2>4, <2>6, <3>1 DEF YearPlacesInv
  <2> QED
    BY <2>5, <2>6
<1>10. ASSUME NEW a \in answers, HearAnswer(a) PROVE YearPlacesInv'
  <2>1. UNCHANGED <<yearPage, yearTaken, yearReads>>
    BY <1>10 DEF HearAnswer
  <2>2. a \in YearAnswers
    BY DEF YearInv, YearQueueInv
  <2>3. CASE /\ Len(yearRead.queue) < YearCapacity
             /\ yearRead' = [yearRead EXCEPT !.heard = @ + 1, !.queue = Append(@, <<yearRead.heard + 1, a>>)]
    <3>1. /\ yearRead'.pc = yearRead.pc /\ yearRead'.year = yearRead.year /\ yearRead'.heard = yearRead.heard + 1
          /\ yearRead'.mark = yearRead.mark /\ yearRead'.counters = yearRead.counters
          /\ yearRead'.queue = Append(yearRead.queue, <<yearRead.heard + 1, a>>)
      BY <1>1, <2>3
    <3>2. <<yearRead.heard + 1, a>> \in Nat \X YearAnswers
      BY <1>1, <2>2
    <3>3. Len(yearRead'.queue) = Len(yearRead.queue) + 1
      BY <1>1, <3>1, <3>2
    <3>4. Len(yearRead'.queue) <= YearCapacity /\ yearRead'.heard >= yearRead'.mark
      BY <1>1, <2>3, <3>1, <3>3
    <3> QED
      BY <2>1, <3>1, <3>4 DEF YearPlacesInv
  <2>4. CASE yearRead' = [yearRead EXCEPT !.heard = @ + 1, !.overflow = TRUE]
    <3>1. /\ yearRead'.pc = yearRead.pc /\ yearRead'.year = yearRead.year /\ yearRead'.heard = yearRead.heard + 1
          /\ yearRead'.mark = yearRead.mark /\ yearRead'.counters = yearRead.counters
          /\ yearRead'.queue = yearRead.queue
      BY <1>1, <2>4
    <3>2. yearRead'.heard >= yearRead'.mark
      BY <1>1, <3>1
    <3> QED
      BY <2>1, <3>1, <3>2 DEF YearPlacesInv
  <2>5. CASE yearRead.counters < YearCapacity /\ yearRead' = [yearRead EXCEPT !.counters = @ + 1]
    <3>1. /\ yearRead'.pc = yearRead.pc /\ yearRead'.year = yearRead.year /\ yearRead'.heard = yearRead.heard
          /\ yearRead'.mark = yearRead.mark /\ yearRead'.counters = yearRead.counters + 1
          /\ yearRead'.queue = yearRead.queue
      BY <1>1, <2>5
    <3>2. yearRead'.counters \in 0..YearCapacity
      BY <1>1, <2>5, <3>1
    <3> QED
      BY <2>1, <3>1, <3>2 DEF YearPlacesInv
  <2>6. CASE yearRead' = [yearRead EXCEPT !.overflow = TRUE]
    BY <1>1, <2>1, <2>6 DEF YearPlacesInv
  <2>7. CASE yearRead' = yearRead
    BY <2>1, <2>7 DEF YearPlacesInv
  <2> QED
    BY <1>10, <2>3, <2>4, <2>5, <2>6, <2>7 DEF HearAnswer
<1>11. CASE TakeAnswer
  <2> DEFINE taken == [via |-> "answer", answer |-> Head(yearRead.queue)[2], who |-> yearRead.who,
                       year |-> yearRead.year, doc |-> yearPage.doc, selected |-> yearRead.selected]
  <2>1. UNCHANGED <<yearPage, yearReads>> /\ yearRead.pc = "wait" /\ yearRead.queue # << >>
    BY <1>11 DEF TakeAnswer
  <2>2. CASE yearRead' = [yearRead EXCEPT !.queue = Tail(@)] /\ yearTaken' = yearTaken
    <3>1. /\ yearRead'.pc = yearRead.pc /\ yearRead'.year = yearRead.year /\ yearRead'.heard = yearRead.heard
          /\ yearRead'.mark = yearRead.mark /\ yearRead'.counters = yearRead.counters
          /\ yearRead'.queue = Tail(yearRead.queue)
      BY <1>1, <2>2
    <3>2. Len(Tail(yearRead.queue)) = Len(yearRead.queue) - 1
      BY <1>1, <2>1
    <3>3. Len(yearRead'.queue) <= YearCapacity
      BY <1>1, <3>1, <3>2
    <3> QED
      BY <2>1, <2>2, <3>1, <3>3 DEF YearPlacesInv
  <2>3. CASE ReturnYear(taken)
    BY <1>3, <2>1, <2>3
  <2>4. CASE yearTaken' = [taken EXCEPT !.via = "names"] /\ ReadAt("counters")
    <3>1. yearTaken'.via = "names"
      BY <2>4
    <3> QED
      BY <1>4, <2>1, <2>4, <3>1 DEF YearPlacesInv
  <2> QED
    BY <1>11, <2>2, <2>3, <2>4 DEF TakeAnswer
<1>12. CASE TakeCounters
  <2> DEFINE taken == [yearTaken EXCEPT !.via = "answer"]
  <2>1. taken.via = "answer" /\ ReturnYear(taken) /\ UNCHANGED <<yearPage, yearReads>>
    BY <1>12 DEF TakeCounters, YearInv, TakenInv
  <2> QED
    BY <1>3, <2>1
<1>13. CASE FailYear
  <2>1. NoYearTaken.via = "none" /\ ReturnYear(NoYearTaken) /\ UNCHANGED <<yearPage, yearReads>>
    BY <1>13 DEF FailYear, NoYearTaken
  <2> QED
    BY <1>3, <2>1
<1>14. CASE UNCHANGED yearVars
  BY <1>14 DEF yearVars, YearPlacesInv
<1> QED
  BY <1>5, <1>6, <1>7, <1>8, <1>9, <1>10, <1>11, <1>12, <1>13, <1>14 DEF YearNext

LEMMA YearTyped ==
    /\ (\E reading \in BOOLEAN : YearInit(reading)) => YearPlacesInv
    /\ YearPlacesInv => YearTypeOK
<1>1. ASSUME NEW reading \in BOOLEAN, YearInit(reading) PROVE YearPlacesInv
  <2>1. /\ yearRead.pc = "idle" /\ yearRead.heard = 0 /\ yearRead.mark = 0 /\ yearRead.queue = << >>
        /\ yearRead.counters = 0 /\ Len(<< >>) = 0
    BY <1>1 DEF YearInit, NoYearRead
  <2>2. yearPage.year = ThisYear /\ yearTaken.via = "none" /\ yearReads \in {0, YearReads}
    BY <1>1 DEF YearInit, NoYearTaken
  <2>3. 0 >= 0 /\ 0 <= YearCapacity /\ 0 \in 0..YearCapacity /\ yearReads \in 0..YearReads /\ ThisYear \in Years
    BY <2>2, YearAssumption
  <2> QED
    BY <2>1, <2>2, <2>3 DEF YearPlacesInv
<1>2. YearPlacesInv => YearTypeOK
  BY DEF YearPlacesInv, YearTypeOK
<1> QED
  BY <1>1, <1>2
-----------------------------------------------------------------------------
(* The parts in the run of MCParts: each stays as it was unless it works. *)
LEMMA PartsSteps ==
    ASSUME [PartsNext]_partsVars
    PROVE  /\ [PagedNext]_pagedVars /\ [YearNext]_yearVars
           /\ [PreviewNext]_previewVars /\ [FormsNext]_formVars
           /\ [BrowserNext]_browserVars /\ [SessionNext]_sessionVars /\ [LifecycleNext]_lifeVars
           /\ [AudienceNext]_audienceVars /\ [FlowNext]_flowVars
           /\ [OnboardingNext]_onboardingVars /\ [ConversationNext]_conversationVars
<1>1. [PagedNext]_pagedVars
  BY DEF PartsNext, partsVars
<1>2. [YearNext]_yearVars
  BY DEF PartsNext, partsVars
<1>3. [PreviewNext]_previewVars
  BY DEF PartsNext, partsVars
<1>4. [FormsNext]_formVars
  BY DEF PartsNext, partsVars
<1>5. [BrowserNext]_browserVars
  BY DEF PartsNext, partsVars
<1>6. [SessionNext]_sessionVars
  BY DEF PartsNext, partsVars
<1>7. [LifecycleNext]_lifeVars
  BY DEF PartsNext, partsVars
<1>8. [AudienceNext]_audienceVars
  BY DEF PartsNext, partsVars
<1>9. [FlowNext]_flowVars
  BY DEF PartsNext, partsVars
<1>10. [OnboardingNext]_onboardingVars
  BY DEF PartsNext, partsVars
<1>11. [ConversationNext]_conversationVars
  BY DEF PartsNext, partsVars
<1> QED
  BY <1>1, <1>2, <1>3, <1>4, <1>5, <1>6, <1>7, <1>8, <1>9, <1>10, <1>11

LEMMA PartsStart ==
    ASSUME PartsInit
    PROVE  /\ \E reads \in BOOLEAN : PagedInit(reads)
           /\ \E reading \in BOOLEAN : YearInit(reading)
           /\ \E asked \in BOOLEAN : PreviewInit(asked)
           /\ \E writes \in BOOLEAN : FormsInit(writes)
           /\ \E expected \in SUBSET Calls : BrowserInit(expected)
           /\ \E expected \in SUBSET Requests : SessionInit(expected)
           /\ \E builds \in BOOLEAN : LifecycleInit(builds)
           /\ \E asked \in BOOLEAN : AudienceInit(asked)
           /\ FlowInit /\ OnboardingInit /\ ConversationInit
<1>1. \E expected \in SUBSET Calls : BrowserInit(expected)
  <2>1. PICK calls \in {{c1, c2, c3}, {c1, c4}} : BrowserInit(IF part = "runtime" THEN calls ELSE {})
    BY DEF PartsInit
  <2>2. (IF part = "runtime" THEN calls ELSE {}) \in SUBSET Calls
    BY PartsAssumption
  <2> QED
    BY <2>1, <2>2
<1>2. \E expected \in SUBSET Requests : SessionInit(expected)
  BY DEF PartsInit
<1>3. /\ \E reads \in BOOLEAN : PagedInit(reads)
      /\ \E reading \in BOOLEAN : YearInit(reading)
      /\ \E asked \in BOOLEAN : PreviewInit(asked)
      /\ \E writes \in BOOLEAN : FormsInit(writes)
  BY DEF PartsInit
<1>4. /\ \E builds \in BOOLEAN : LifecycleInit(builds)
      /\ \E asked \in BOOLEAN : AudienceInit(asked)
      /\ FlowInit /\ OnboardingInit /\ ConversationInit
  BY DEF PartsInit
<1> QED
  BY <1>1, <1>2, <1>3, <1>4

(* DicService.list_all_employees, collect_complete_pages and the balance and
   payroll pages: a list that is returned has no entry twice and misses none
   that was there all along (unless one left and another joined meanwhile), a
   roster is read after its request, and figures belong to the employee and
   the year asked. *)
THEOREM ReadsAreRight == PartsSpec => []ReadsAreTrue
<1> DEFINE Inv == PagedInv /\ YearInv
<1>1. PartsInit => Inv
  BY PartsStart, InitPagedInv, InitYearInv
<1>2. Inv /\ [PartsNext]_partsVars => Inv'
  BY PartsSteps, NextPagedInv, NextYearInv
<1>3. Inv => ReadsAreTrue
  BY DEF PagedInv, YearInv, TakenInv, YearIsTheirs, ReadsAreTrue
<1> HIDE DEF Inv
<1> QED
  BY <1>1, <1>2, <1>3, PTL DEF PartsSpec

(* execute_approved and the write pages: what is written stands as its preview
   showed it (unless it changed and changed back under the preview) and is
   still allowed, and our confirmation changes no other record that was there
   than the approved one. *)
THEOREM WritesAreRight == PartsSpec => []WritesAreAsApproved
<1> DEFINE Inv == PreviewInv /\ FormsInv
<1>1. PartsInit => Inv
  BY PartsStart, InitPreviewInv, InitFormsInv
<1>2. Inv /\ [PartsNext]_partsVars => Inv'
  BY PartsSteps, NextPreviewInv, NextFormsInv
<1>3. Inv => WritesAreAsApproved
  BY DEF PreviewInv, FormsInv, WritesAreAsApproved
<1> HIDE DEF Inv
<1> QED
  BY <1>1, <1>2, <1>3, PTL DEF PartsSpec

(* The inductive invariants of the eleven parts. *)
TypesInv ==
    /\ BrowserInv /\ AccountInv /\ SessionInv /\ LifecycleInv /\ KeptInv
    /\ AudienceInv /\ UsageInv /\ FloodInv /\ DraftInv /\ StoreInv /\ ContextInv /\ BoundsInv
    /\ PagedInv /\ HeardInv /\ YearInv /\ YearPlacesInv /\ PreviewInv /\ EditsInv /\ FormsInv /\ TargetsInv

(* The eleven parts keep their types, and with them the bounds the code sets
   (MAX_CAPTURED_RESPONSES, max_drafts, the menus of a conversation store, the
   slots for public answers), and one entry per draft and per conversation. *)
THEOREM PartsAreTyped == PartsSpec => []PartsTypeOK
<1>1. ASSUME PartsInit PROVE TypesInv
  <2>1. BrowserInv /\ AccountInv
    BY <1>1, PartsStart, InitBrowserInv, InitAccountInv
  <2>2. SessionInv /\ LifecycleInv /\ KeptInv
    BY <1>1, PartsStart, InitSessionInv, InitLifecycleInv, LifecycleTyped
  <2>3. AudienceInv /\ UsageInv /\ FloodInv
    BY <1>1, PartsStart, InitAudienceInv, InitUsageInv, InitFloodInv
  <2>4. DraftInv /\ StoreInv /\ ContextInv /\ BoundsInv
    BY <1>1, PartsStart, InitDraftInv, InitStoreInv, InitContextInv, InitBoundsInv
  <2>5. PagedInv /\ HeardInv /\ YearInv /\ YearPlacesInv
    BY <1>1, PartsStart, InitPagedInv, PagedTyped, InitYearInv, YearTyped
  <2>6. PreviewInv /\ EditsInv /\ FormsInv /\ TargetsInv
    BY <1>1, PartsStart, InitPreviewInv, PreviewTyped, InitFormsInv, FormsTyped
  <2> QED
    BY <2>1, <2>2, <2>3, <2>4, <2>5, <2>6 DEF TypesInv
<1>2. ASSUME TypesInv, [PartsNext]_partsVars PROVE TypesInv'
  <2>1. BrowserInv' /\ AccountInv'
    BY <1>2, PartsSteps, StepBrowserInv, NextAccountInv DEF TypesInv
  <2>2. SessionInv' /\ LifecycleInv' /\ KeptInv'
    BY <1>2, PartsSteps, StepSessionInv, NextLifecycleInv, NextKeptInv DEF TypesInv
  <2>3. AudienceInv' /\ UsageInv' /\ FloodInv'
    <3>1. UsageInv => UsageTypes
      BY DEF UsageInv
    <3> QED
      BY <1>2, <3>1, PartsSteps, NextAudienceInv, NextUsageInv, NextFloodInv DEF TypesInv
  <2>4. DraftInv' /\ StoreInv' /\ ContextInv' /\ BoundsInv'
    BY <1>2, PartsSteps, NextDraftInv, NextStoreInv, NextContextInv, NextBoundsInv DEF TypesInv
  <2>5. PagedInv' /\ HeardInv' /\ YearInv' /\ YearPlacesInv'
    BY <1>2, PartsSteps, NextPagedInv, NextHeardInv, NextYearInv, NextYearPlacesInv DEF TypesInv
  <2>6. PreviewInv' /\ EditsInv' /\ FormsInv' /\ TargetsInv'
    BY <1>2, PartsSteps, NextPreviewInv, NextEditsInv, NextFormsInv, NextTargetsInv DEF TypesInv
  <2> QED
    BY <2>1, <2>2, <2>3, <2>4, <2>5, <2>6 DEF TypesInv
<1>3. ASSUME TypesInv PROVE PartsTypeOK
  <2>1. SessionTypeOK /\ AudienceTypeOK
    BY <1>3 DEF TypesInv, SessionInv, AudienceInv
  <2> QED
    BY <1>3, <2>1, BrowserTyped, LifecycleTyped, ConversationTyped, OnboardingTyped, FlowTyped, PagedTyped,
       YearTyped, PreviewTyped, FormsTyped DEF TypesInv, PartsTypeOK
<1> QED
  BY <1>1, <1>2, <1>3, PTL DEF PartsSpec
=============================================================================
