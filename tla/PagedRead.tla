------------------------------ MODULE PagedRead ------------------------------
(***************************************************************************)
(* Reading a collection that DIC shows in pages, by overhearing the        *)
(* answers to the requests its own web application makes.                  *)
(*                                                                         *)
(* A "roster" read is DicService.list_all_employees: every page is one     *)
(* EmployeesListPage.list, which drives the list to that page.  A          *)
(* "resource" read (contracts, maturations, documents, notifications)      *)
(* overhears the first page and fetches the others.  People edit DIC       *)
(* meanwhile, and the application repeats requests as it likes.            *)
(*                                                                         *)
(* Data: an entry is a number, shown in ascending order; some entries are  *)
(* "plain" and shown by the list's initial filter, which may be all that   *)
(* is asked for.  DIC answers a request at once, but the answer may be     *)
(* under way for long.                                                     *)
(***************************************************************************)
EXTENDS Subsequences

CONSTANTS
    Entries,    \* what may be in the collection
    Plain,      \* what the initial view of the list shows of it
    Initially,  \* what is there at first
    PageSize,   \* entries per page
    Capacity,   \* MAX_CAPTURED_EMPLOYEE_RESPONSES, MAX_CAPTURED_RESPONSES
    Edits,      \* edits of the collection that are looked at
    Refreshes,  \* requests the application repeats by itself
    Reads       \* reads, one after the other

ASSUME PagedAssumption ==
    /\ Entries \in SUBSET Nat /\ IsFiniteSet(Entries)
    /\ Plain \subseteq Entries /\ Initially \subseteq Entries
    /\ {PageSize, Capacity} \subseteq Nat \ {0}
    /\ {Edits, Refreshes, Reads} \subseteq Nat

VARIABLES
    collection, \* what is in DIC now
    underway,   \* answers on their way to the page
    captured,   \* the listener's queue
    marked,     \* how many of the captured answers are older than the mark
    overflow,   \* the queue was full
    read,       \* the read: its program counter and what it has gathered
    result,     \* what the last read returned
    budget      \* edits, refreshes and reads still to come

pagedVars == <<collection, underway, captured, marked, overflow, read, result, budget>>
captureVars == <<underway, captured, marked, overflow>>

Views == {"initial", "wanted"}

NoRead == [pc |-> "idle", mode |-> "none", view |-> "initial", target |-> "initial",
           shown |-> 1, page |-> 1, total |-> -1, items |-> <<>>, stayed |-> {}, changes |-> {}, ever |-> {}]
NoResult == [mode |-> "none", items |-> <<>>, stayed |-> {}, changes |-> {}, ever |-> {}]

PagedInit(reads) ==
    /\ collection = Initially
    /\ underway = {} /\ captured = <<>> /\ marked = 0 /\ overflow = FALSE
    /\ read = NoRead
    /\ result = NoResult
    /\ budget = IF reads THEN [edits |-> Edits, refreshes |-> Refreshes, reads |-> Reads]
                ELSE [edits |-> 0, refreshes |-> 0, reads |-> 0]
-----------------------------------------------------------------------------
(* DIC's answer: one page of what the view shows.  "stayed" and "changes"
   follow what happens to the collection after the answer was made. *)
Shown(view) == IF view = "initial" THEN collection \cap Plain ELSE collection

Page(S, n) ==
    Ascending({x \in S : Rank(S, x) > (n - 1) * PageSize /\ Rank(S, x) <= n * PageSize})

LastPage(total) == IF total = 0 THEN 1 ELSE (total + PageSize - 1) \div PageSize

Answer(view, n) ==
    [view |-> view, page |-> n, ids |-> Page(Shown(view), n), total |-> Cardinality(Shown(view)),
     stayed |-> Shown(view), changes |-> {}]

(* Somebody adds or removes an entry in DIC. *)
Edit(x) ==
    LET change == IF x \in collection THEN "left" ELSE "joined"
        After(r) == [r EXCEPT !.stayed = @ \ {x}, !.changes = @ \cup {change}]
    IN
    /\ budget.edits > 0
    /\ budget' = [budget EXCEPT !.edits = @ - 1]
    /\ collection' = IF x \in collection THEN collection \ {x} ELSE collection \cup {x}
    /\ underway' = {After(r) : r \in underway}
    /\ captured' = [i \in DOMAIN captured |-> After(captured[i])]
    /\ read' = IF read.pc = "idle" THEN read
               ELSE [After(read) EXCEPT !.ever = @ \cup collection']
    /\ UNCHANGED <<marked, overflow, result>>

(* _on_response of the listener; without one nobody hears the answer. *)
Hear(r) ==
    /\ r \in underway
    /\ underway' = underway \ {r}
    /\ IF read.pc \in {"idle", "reset", "fetch"} THEN UNCHANGED <<captured, overflow>>
       ELSE IF Len(captured) < Capacity THEN captured' = Append(captured, r) /\ UNCHANGED overflow
       ELSE overflow' = TRUE /\ UNCHANGED captured
    /\ UNCHANGED <<collection, marked, read, result, budget>>

(* The application repeats the request of what it shows. *)
Refresh ==
    /\ budget.refreshes > 0 /\ read.pc = "wait"
    /\ budget' = [budget EXCEPT !.refreshes = @ - 1]
    /\ underway' = underway \cup {Answer(read.view, read.shown)}
    /\ UNCHANGED <<collection, captured, marked, overflow, read, result>>
-----------------------------------------------------------------------------
StartRead(mode, target) ==
    /\ read.pc = "idle" /\ budget.reads > 0
    /\ mode = "resource" => target = "wanted"
    /\ budget' = [budget EXCEPT !.reads = @ - 1]
    /\ read' = [NoRead EXCEPT !.pc = IF mode = "roster" THEN "reset" ELSE "install",
                              !.mode = mode, !.target = target, !.ever = collection,
                              !.view = IF mode = "roster" THEN "initial" ELSE "wanted"]
    /\ result' = NoResult
    /\ UNCHANGED <<collection, captureVars>>

KeepsOldDocument == underway    \* fault: the listener hears the previous document

(* _reset_response_generation: about:blank ends the old document's requests. *)
AfterNewDocument == {}

ResetGeneration ==
    /\ read.pc = "reset"
    /\ underway' = AfterNewDocument
    /\ read' = [read EXCEPT !.pc = "install"]
    /\ UNCHANGED <<collection, captured, marked, overflow, result, budget>>

(* The listener is installed while the page still shows the old document. *)
InstallCapture ==
    /\ read.pc = "install"
    /\ captured' = <<>> /\ marked' = 0 /\ overflow' = FALSE
    /\ read' = [read EXCEPT !.pc = "navigate"]
    /\ UNCHANGED <<collection, underway, result, budget>>

(* navigate and _wait_for_hydration; the new document asks for the first
   page and drops the old document's requests. *)
Navigate ==
    /\ read.pc = "navigate"
    /\ underway' = {Answer(read.view, 1)}
    /\ read' = [read EXCEPT !.pc = "wait", !.shown = 1]
    /\ UNCHANGED <<collection, captured, marked, overflow, result, budget>>

-----------------------------------------------------------------------------
(* validate_employee_response_metadata, _validate_response_metadata: is it
   the answer to the request this wait is about? *)
QueryMatches(r) == r.view = read.view /\ (read.mode = "roster" => r.page = read.shown)

Stale == marked > 0

Skip ==
    /\ captured' = Tail(captured)
    /\ marked' = IF marked > 0 THEN marked - 1 ELSE 0
    /\ UNCHANGED <<underway, overflow>>

(* wait_for discards answers older than the mark and to other queries. *)
DiscardAnswer ==
    /\ read.pc = "wait" /\ ~overflow /\ captured # <<>>
    /\ Stale \/ ~QueryMatches(Head(captured))
    /\ Skip
    /\ UNCHANGED <<collection, read, result, budget>>

IgnoresTotal(r) == TRUE    \* fault: a total that changes between pages is not noticed

(* The total of the first page holds for every page. *)
SameTotal(r) == read.total \in {-1, r.total}

(* Page bounds, stable identifiers and totals; whatever does not fit ends the
   read with an error. *)
PageFits(r) ==
    /\ r.page <= LastPage(r.total)
    /\ SameTotal(r)
    /\ ToSet(r.ids) \cap ToSet(read.items) = {}

Gathered(r) ==
    LET first == read.total = -1 IN
    [read EXCEPT !.items = @ \o r.ids, !.total = r.total,
                 !.stayed = IF first THEN r.stayed ELSE @,
                 !.changes = IF first THEN r.changes ELSE @]

(* All pages are there: their entries must be as many as the total says. *)
Return(r) ==
    LET done == Gathered(r) IN
    /\ read' = NoRead
    /\ result' = IF Len(done.items) = done.total
                 THEN [mode |-> done.mode, items |-> done.items, stayed |-> done.stayed,
                       changes |-> done.changes, ever |-> done.ever]
                 ELSE NoResult

(* The page asked for is there: return, or go on with the next one. *)
TakePage(r) ==
    IF r.page = LastPage(r.total) THEN Return(r)
    ELSE /\ read' = [Gathered(r) EXCEPT !.pc = IF read.mode = "roster" THEN "reset" ELSE "fetch",
                                      !.view = IF read.mode = "roster" THEN "initial" ELSE @,
                                      !.page = read.page + 1]
         /\ UNCHANGED result

Wanted(r) == read.mode = "resource" \/ (read.view = read.target /\ r.page = read.page)

(* An answer to an earlier step of the way: the search, filter or sort
   control, or the next button if there is one, is used; mark, then click. *)
UiAction(r) ==
    LET n == IF read.view # read.target THEN 1 ELSE read.shown + 1 IN
    /\ read.view # read.target \/ r.page < LastPage(r.total)
    /\ captured' = Tail(captured) /\ marked' = Len(captured) - 1
    /\ underway' = underway \cup {Answer(read.target, n)}
    /\ read' = [read EXCEPT !.view = read.target, !.shown = n]
    /\ UNCHANGED <<overflow, result>>

AcceptAnswer ==
    LET r == Head(captured) IN
    /\ read.pc = "wait" /\ ~overflow /\ captured # <<>> /\ ~Stale /\ QueryMatches(r)
    /\ IF Wanted(r) THEN PageFits(r) /\ TakePage(r) /\ Skip
       ELSE r.page <= LastPage(r.total) /\ UiAction(r)
    /\ UNCHANGED <<collection, budget>>

(* collect_complete_pages: the next page is fetched with the same query. *)
FetchPage ==
    LET r == Answer("wanted", read.page) IN
    /\ read.pc = "fetch"
    /\ PageFits(r) /\ TakePage(r)
    /\ UNCHANGED <<collection, captureVars, budget>>

(* A time-out, an overflow, an answer that does not fit, any other error. *)
FailRead ==
    /\ read.pc # "idle"
    /\ read' = NoRead
    /\ UNCHANGED <<collection, captureVars, result, budget>>

PagedNext ==
    \/ \E x \in Entries : Edit(x)
    \/ \E r \in underway : Hear(r)
    \/ \E mode \in {"roster", "resource"}, target \in Views : StartRead(mode, target)
    \/ Refresh \/ ResetGeneration \/ InstallCapture \/ Navigate
    \/ DiscardAnswer \/ AcceptAnswer \/ FetchPage \/ FailRead
-----------------------------------------------------------------------------
PagedTypeOK ==
    /\ collection \subseteq Entries
    /\ Len(captured) <= Capacity /\ marked \in 0..Len(captured)
    /\ overflow \in BOOLEAN
    /\ read.pc \in {"idle", "reset", "install", "navigate", "wait", "fetch"}
    /\ read.view \in Views /\ ToSet(read.items) \subseteq Entries
    /\ ToSet(result.items) \subseteq Entries

(* "fail closed on drift, duplicates, or incomplete pagination": what is
   returned has no entry twice and none missing that was there all the time,
   unless one entry left and another joined while it was read, which leaves
   every total as it was. *)
NothingIsMissed ==
    /\ Len(result.items) = Cardinality(ToSet(result.items))
    /\ result.changes # {"left", "joined"} => result.stayed \subseteq ToSet(result.items)

(* A roster is read from answers given after the reading began: nobody is in
   it who had left DIC before, whatever the previous document still awaited. *)
RosterIsFresh ==
    result.mode = "roster" => ToSet(result.items) \subseteq result.ever
=============================================================================
