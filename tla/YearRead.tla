------------------------------ MODULE YearRead ------------------------------
(***************************************************************************)
(* Reads of an employee's balances and payrolls (EmployeeBalancePage and   *)
(* EmployeePayrollsPage in dic/pages/routes.py, dic/balance_capture.py and *)
(* dic/payroll_capture.py).  The page opens on the current year and asks   *)
(* DIC for it; for another year the application steps the year control one *)
(* year at a time, each step asking DIC again.  The answers are overheard  *)
(* and the first that fits is taken, whichever request it answers.         *)
(*                                                                         *)
(* Unlike the list of employees, the page is opened over the previous one: *)
(* an answer to the previous document may still be overheard, until the    *)
(* navigation ends that document.                                          *)
(*                                                                         *)
(* Data: an answer is the request it answers.  An answer that does not     *)
(* parse, a wrong origin or method, a time-out: FailYear.                  *)
(***************************************************************************)
EXTENDS Integers, Sequences

CONSTANTS
    Staff,        \* employees
    Years,        \* an interval of years
    ThisYear,     \* the year a page opens on
    YearCapacity, \* MAX_CAPTURED_RESPONSES
    YearReads     \* reads that are looked at

ASSUME YearAssumption ==
    /\ Years \subseteq Nat \ {0} /\ ThisYear \in Years
    /\ \A y, z \in Years : y..z \subseteq Years
    /\ YearCapacity \in Nat \ {0} /\ YearReads \in Nat

VARIABLES
    yearRead,   \* the read under way: program counter, target, capture
    yearPage,   \* the document: its number, employee and year shown
    answers,    \* answers on their way to the page
    yearTaken,  \* the read that returned last, with what it took
    yearReads   \* reads to come

yearVars == <<yearRead, yearPage, answers, yearTaken, yearReads>>

ShownYear == 0    \* year=None: whatever year the page shows
ReadKinds == {"balance", "payroll"}

NoYearRead == [pc |-> "idle", kind |-> "none", who |-> "none", year |-> ShownYear, selected |-> FALSE,
               mark |-> 0, heard |-> 0, queue |-> <<>>, counters |-> 0, overflow |-> FALSE]
NoYearTaken == [via |-> "none"]

YearInit(reads) ==
    /\ yearRead = NoYearRead
    /\ yearPage = [doc |-> 0, kind |-> "none", who |-> "none", year |-> ThisYear]
    /\ answers = {} /\ yearTaken = NoYearTaken
    /\ yearReads = IF reads THEN YearReads ELSE 0
-----------------------------------------------------------------------------
Asked(page) == [kind |-> page.kind, who |-> page.who, year |-> page.year, doc |-> page.doc]
Counters(page) == [kind |-> "counters", who |-> "none", year |-> ShownYear, doc |-> page.doc]

ReadAt(pc) == yearRead' = [yearRead EXCEPT !.pc = pc]

(* read: the capture is installed and marked before the page is opened. *)
StartYearRead(kind, who, year) ==
    /\ yearRead.pc = "idle" /\ yearReads > 0
    /\ year = ShownYear => kind = "payroll"
    /\ yearReads' = yearReads - 1
    /\ yearRead' = [NoYearRead EXCEPT !.pc = "open", !.kind = kind, !.who = who, !.year = year]
    /\ UNCHANGED <<yearPage, answers, yearTaken>>

(* The navigation: the previous document's requests end with it. *)
OpenYearPage ==
    /\ yearRead.pc = "open"
    /\ yearPage' = [doc |-> yearPage.doc + 1, kind |-> yearRead.kind, who |-> yearRead.who, year |-> ThisYear]
    /\ answers' = {Asked(yearPage')} \cup IF yearRead.kind = "balance" THEN {Counters(yearPage')} ELSE {}
    /\ ReadAt("control")
    /\ UNCHANGED <<yearTaken, yearReads>>

WantedYear == IF yearRead.year = ShownYear THEN yearPage.year ELSE yearRead.year

MarkNavigation == 0           \* fault: the mark of the navigation is kept
MarkSelection == yearRead.heard

(* _wait_for_year_control, and the mark set again if a year must be selected. *)
SeeYearControl ==
    /\ yearRead.pc = "control"
    /\ yearRead' = IF WantedYear = yearPage.year
                   THEN [yearRead EXCEPT !.pc = "wait", !.year = WantedYear]
                   ELSE [yearRead EXCEPT !.pc = "select", !.selected = TRUE, !.mark = MarkSelection]
    /\ UNCHANGED <<yearPage, answers, yearTaken, yearReads>>

ReturnYear(taken) ==
    /\ yearTaken' = taken
    /\ yearRead' = NoYearRead

(* _read_legacy: a page with the old control is read as it stands. *)
ReadLegacyRows ==
    /\ yearRead.pc = "control"
    /\ ReturnYear([via |-> "rows"])
    /\ UNCHANGED <<yearPage, answers, yearReads>>

(* _select_custom_year: a click, the new year shown, and its request. *)
StepYear ==
    /\ yearRead.pc = "select"
    /\ yearPage' = [yearPage EXCEPT !.year = IF yearRead.year > @ THEN @ + 1 ELSE @ - 1]
    /\ answers' = answers \cup {Asked(yearPage')}
    /\ ReadAt(IF yearPage'.year = yearRead.year THEN "wait" ELSE "select")
    /\ UNCHANGED <<yearTaken, yearReads>>
-----------------------------------------------------------------------------
Listening == yearRead.pc # "idle"

(* _on_response: balances and counters have a queue each, a payroll capture
   ignores counters. *)
HearAnswer(a) ==
    /\ a \in answers /\ answers' = answers \ {a}
    /\ yearRead' =
         IF Listening /\ a.kind = yearRead.kind
         THEN IF Len(yearRead.queue) < YearCapacity
              THEN [yearRead EXCEPT !.heard = @ + 1, !.queue = Append(@, <<yearRead.heard + 1, a>>)]
              ELSE [yearRead EXCEPT !.heard = @ + 1, !.overflow = TRUE]
         ELSE IF Listening /\ a.kind = "counters" /\ yearRead.kind = "balance"
         THEN IF yearRead.counters < YearCapacity
              THEN [yearRead EXCEPT !.counters = @ + 1]
              ELSE [yearRead EXCEPT !.overflow = TRUE]
         ELSE yearRead
    /\ UNCHANGED <<yearPage, yearTaken, yearReads>>

AnyYear(a) == a.who = yearRead.who    \* fault: the year of the answer is not compared
AnyPerson(a) == a.year = yearRead.year    \* fault: nor, here, its employee

(* _validate_metadata and _metadata, before the answer is read and again when
   it is. *)
AnswerMatches(a) == a.who = yearRead.who /\ a.year = yearRead.year

(* wait_for: answers up to the mark and answers to other questions are
   dropped. *)
TakeAnswer ==
    /\ yearRead.pc = "wait" /\ ~yearRead.overflow /\ yearRead.queue # <<>>
    /\ LET sequence == Head(yearRead.queue)[1]
           a        == Head(yearRead.queue)[2]
           taken    == [via |-> "answer", answer |-> a, who |-> yearRead.who, year |-> yearRead.year,
                        doc |-> yearPage.doc, selected |-> yearRead.selected]
       IN IF sequence <= yearRead.mark \/ ~AnswerMatches(a)
          THEN yearRead' = [yearRead EXCEPT !.queue = Tail(@)] /\ UNCHANGED yearTaken
          ELSE IF yearRead.kind = "payroll" THEN ReturnYear(taken)
          ELSE yearTaken' = [taken EXCEPT !.via = "names"] /\ ReadAt("counters")
    /\ UNCHANGED <<yearPage, answers, yearReads>>

(* wait_for_counters: the names of the counters complete a balance. *)
TakeCounters ==
    /\ yearRead.pc = "counters" /\ ~yearRead.overflow /\ yearRead.counters > 0
    /\ ReturnYear([yearTaken EXCEPT !.via = "answer"])
    /\ UNCHANGED <<yearPage, answers, yearReads>>

FailYear ==
    /\ Listening
    /\ ReturnYear(NoYearTaken)
    /\ UNCHANGED <<yearPage, answers, yearReads>>

YearNext ==
    \/ \E kind \in ReadKinds, who \in Staff, year \in Years \cup {ShownYear} : StartYearRead(kind, who, year)
    \/ OpenYearPage \/ SeeYearControl \/ ReadLegacyRows \/ StepYear
    \/ \E a \in answers : HearAnswer(a)
    \/ TakeAnswer \/ TakeCounters \/ FailYear
-----------------------------------------------------------------------------
YearTypeOK ==
    /\ yearRead.pc \in {"idle", "open", "control", "select", "wait", "counters"}
    /\ yearPage.year \in Years
    /\ yearRead.heard >= yearRead.mark /\ Len(yearRead.queue) <= YearCapacity
    /\ yearRead.counters \in 0..YearCapacity
    /\ yearTaken.via \in {"none", "rows", "names", "answer"}
    /\ yearReads \in 0..YearReads

(* "response does not match requested employee", "... year": what a read
   returns belongs to the employee and the year that were asked, and if the
   year had to be selected it answers a request of this document: a late
   answer of the years passed on the way or of an earlier read is not it. *)
YearIsTheirs ==
    yearTaken.via = "answer" =>
        /\ yearTaken.answer.who = yearTaken.who
        /\ yearTaken.answer.year = yearTaken.year
        /\ yearTaken.selected => yearTaken.answer.doc = yearTaken.doc
=============================================================================
