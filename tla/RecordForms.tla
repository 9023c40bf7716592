----------------------------- MODULE RecordForms -----------------------------
(***************************************************************************)
(* One approved write in DIC's web pages, from the reading of its baseline *)
(* to the read-back: what WriteExecution takes as one click.  A record (a  *)
(* contract, a maturation, a document, an employee) is created, edited or  *)
(* deleted: its row is found, a control of the row clicked, the form       *)
(* filled and saved, and DIC's confirmation answered.                      *)
(*                                                                         *)
(* A row is a position in the list the page shows; the application shows   *)
(* the list anew when it likes, and people edit DIC meanwhile.  A click is *)
(* on what stands at the position then.  Assumed of DIC: nothing changes   *)
(* before its dialog is confirmed, and the dialog names the record whose   *)
(* form is open.                                                           *)
(*                                                                         *)
(* Data: a record has one value, "asked" is what the write wants.  The     *)
(* pages of one employee with a fixed address (summary, roles, balance)    *)
(* are the case of a list with one row.                                    *)
(***************************************************************************)
EXTENDS Subsequences

CONSTANTS
    Records,      \* ids of records, in the order the list shows them
    RecordEdits   \* edits by people that are looked at

ASSUME FormsAssumption == Records \subseteq Nat /\ IsFiniteSet(Records) /\ RecordEdits \in Nat

VARIABLES
    records,  \* DIC: the value of each record
    onPage,   \* the rows of the page: records with the values they show
    form,     \* the write: its program counter and what it has read
    click,    \* the confirmation on its way to DIC: the record it is about
    reported, \* refused before anything was asked of DIC, or what the read-back found
    hit,      \* records changed by the confirmation
    since,    \* values taken in DIC since the baseline was read
    edits     \* edits to come

formVars == <<records, onPage, form, click, reported, hit, since, edits>>
formPageVars == <<onPage, form>>

Writes == {"create", "edit", "delete"}
RecordValues == {"asked", "other", "absent", "unused"}   \* an id is never used again
NewRecord == 0

NoForm == [pc |-> "idle", op |-> "none", target |-> NewRecord, row |-> 0, open |-> NewRecord,
           known |-> {}, before |-> <<>>, found |-> {}, glimpsed |-> FALSE]

FormsInit(writes) ==
    /\ records \in IF writes THEN [Records -> RecordValues \ {"absent"}] ELSE {[r \in Records |-> "unused"]}
    /\ onPage = <<>> /\ click = "none" /\ reported = "none"
    /\ hit = {} /\ since = {}
    /\ edits = IF writes THEN RecordEdits ELSE 0
    /\ form = [NoForm EXCEPT !.pc = IF writes THEN "ready" ELSE "idle"]
-----------------------------------------------------------------------------
Present == {r \in Records : records[r] \in {"asked", "other"}}

(* The list as DIC has it. *)
Listed ==
    [i \in 1..Cardinality(Present) |-> <<Ascending(Present)[i], records[Ascending(Present)[i]]>>]

(* open: the container is there, but maybe not all of its rows. *)
Loading == {SubSeq(Listed, 1, n) : n \in 0..Len(Listed)}

Ids(rows) == {rows[i][1] : i \in DOMAIN rows}

Becomes(r, v) ==
    /\ records' = [records EXCEPT ![r] = v]
    /\ since' = since \cup {<<r, v>>}

EditRecord(r, v) ==
    /\ edits > 0 /\ records[r] \notin {v, "absent"} /\ v # "unused"
    /\ v = "absent" => r \in Present
    /\ edits' = edits - 1
    /\ Becomes(r, v)
    /\ UNCHANGED <<formPageVars, click, reported, hit>>

(* The application shows its list again. *)
ShowAgain ==
    /\ form.pc \in {"find", "row", "compare"} /\ onPage # Listed
    /\ onPage' = Listed
    /\ form' = [form EXCEPT !.glimpsed = @ \/ form.pc = "compare"]
    /\ UNCHANGED <<records, click, reported, hit, since, edits>>
-----------------------------------------------------------------------------
GoOn(pc) == form' = [form EXCEPT !.pc = pc]

(* DicValidationError, DicNotFoundError and the like, before any click. *)
RefuseWrite ==
    /\ form' = NoForm
    /\ reported' = "refused"

(* The digest of the target's state, taken when the write is prepared and
   before it is executed, refuses what is not there or already as asked. *)
Actionable(op, r) ==
    CASE op = "create" -> r = NewRecord
      [] op = "edit"   -> r \in Present /\ records[r] # "asked"
      [] op = "delete" -> r \in Present

StartWrite(op, r) ==
    /\ form.pc = "ready" /\ Actionable(op, r)
    /\ form' = [NoForm EXCEPT !.pc = "baseline", !.op = op, !.target = r]
    /\ UNCHANGED <<records, onPage, click, reported, hit, since, edits>>

(* _capture_write_baseline: the ids that are there, and for an edit what the
   page looks like. *)
ReadBaseline ==
    /\ form.pc = "baseline"
    /\ \E rows \in Loading :
         LET usable == /\ form.op # "create" => form.target \in Ids(rows)
                       /\ form.op = "edit" => <<form.target, "asked">> \notin {rows[i] : i \in DOMAIN rows}
         IN /\ onPage' = rows
            /\ IF usable
               THEN /\ form' = [form EXCEPT !.pc = "find", !.known = Ids(rows), !.before = rows,
                                            !.glimpsed = rows # Listed]
                    /\ since' = {} /\ UNCHANGED reported
               ELSE RefuseWrite /\ UNCHANGED since
    /\ UNCHANGED <<records, click, hit, edits>>

(* Opens the page again; _find_row remembers the position of the row whose
   id is the target's.  A new record's form needs no row. *)
FindRow ==
    /\ form.pc = "find"
    /\ \E rows \in Loading :
         /\ onPage' = rows
         /\ IF form.op = "create" THEN GoOn("save") /\ UNCHANGED reported
            ELSE IF form.target \notin Ids(rows) THEN RefuseWrite
            ELSE /\ form' = [form EXCEPT !.pc = "row",
                                         !.row = CHOOSE i \in DOMAIN rows : rows[i][1] = form.target]
                 /\ UNCHANGED reported
    /\ UNCHANGED <<records, click, hit, since, edits>>

(* The click is on what stands at the position by now: the form of that
   record opens, or DIC asks whether to delete it. *)
ClickRow ==
    /\ form.pc = "row"
    /\ form' = IF form.row \notin DOMAIN onPage THEN [form EXCEPT !.pc = "verify"]
               ELSE [form EXCEPT !.open = onPage[form.row][1],
                                 !.pc = IF form.op = "edit" THEN "save" ELSE "confirm"]
    /\ UNCHANGED <<records, onPage, click, reported, hit, since, edits>>

(* The fields are filled in and the form is saved. *)
SaveForm ==
    /\ form.pc = "save" /\ GoOn("confirm")
    /\ UNCHANGED <<records, onPage, click, reported, hit, since, edits>>

AnyDialog == TRUE    \* fault: whatever dialog appears is confirmed

(* confirm_if_present with an expected identity. *)
NamesTarget == form.open = form.target

(* The dialog must be visible and name the target; otherwise the write ends
   here, after its first click, and is read back. *)
ConfirmDialog(visible) ==
    /\ form.pc = "confirm"
    /\ click' = IF visible /\ NamesTarget THEN "sent" ELSE click
    /\ GoOn("verify")
    /\ UNCHANGED <<records, onPage, reported, hit, since, edits>>

(* A time-out or a lost connection in any of these steps. *)
LoseDispatch ==
    /\ form.pc \in {"find", "row", "save", "confirm"}
    /\ GoOn("verify")
    /\ UNCHANGED <<records, onPage, click, reported, hit, since, edits>>

(* DIC, any time after the confirmation. *)
ApplyForm ==
    /\ click = "sent" /\ click' = "done"
    /\ LET wanted == IF form.op = "delete" THEN "absent" ELSE "asked" IN
       \E r \in IF form.open = NewRecord THEN {n \in Records : records[n] = "unused"} ELSE {form.open} \cap Present :
         Becomes(r, wanted) /\ hit' = hit \cup {r}
    /\ UNCHANGED <<formPageVars, reported, edits>>
-----------------------------------------------------------------------------
EveryRow(rows) == Ids(rows)    \* fault: the baseline is not taken off

(* verify_created_*: the rows whose ids the baseline did not have. *)
NewRows(rows) == Ids(rows) \ form.known

(* The positions whose values will be read next. *)
ReadRows ==
    /\ form.pc = "verify" /\ form.op # "delete"
    /\ \E rows \in Loading :
         LET ids == IF form.op = "create" THEN NewRows(rows) ELSE {form.target} IN
         /\ onPage' = rows
         /\ form' = [form EXCEPT !.pc = "compare", !.found = {i \in DOMAIN rows : rows[i][1] \in ids}]
    /\ UNCHANGED <<records, click, reported, hit, since, edits>>

Report(result) ==
    /\ reported' = result
    /\ GoOn("over")

(* Exactly one row, with the values asked for; for an edit the page must also
   look different from before.  Anything else proves nothing. *)
CompareValues ==
    LET matching == {i \in form.found \cap DOMAIN onPage : onPage[i][2] = "asked"}
        proved   == /\ Cardinality(form.found) = 1 /\ matching = form.found
                    /\ form.op = "edit" => onPage # form.before
    IN
    /\ form.pc = "compare"
    /\ Report(IF proved THEN "applied" ELSE "unknown")
    /\ UNCHANGED <<records, onPage, click, hit, since, edits>>

(* A deletion is looked up in the complete list: a record that is there was
   not deleted; that it is gone proves the deletion of an employee only. *)
LookForDeleted ==
    /\ form.pc = "verify" /\ form.op = "delete"
    /\ \E answer \in IF form.target \in Present THEN {"not applied"} ELSE {"applied", "unknown"} :
         Report(answer)
    /\ UNCHANGED <<records, onPage, click, hit, since, edits>>

(* A read-back that fails. *)
LoseReadBack ==
    /\ form.pc \in {"verify", "compare"}
    /\ Report("unknown")
    /\ UNCHANGED <<records, onPage, click, hit, since, edits>>

FormsNext ==
    \/ \E r \in Records, v \in RecordValues : EditRecord(r, v)
    \/ \E op \in Writes, r \in Records \cup {NewRecord} : StartWrite(op, r)
    \/ ShowAgain \/ ReadBaseline \/ FindRow \/ ClickRow \/ SaveForm
    \/ \E visible \in BOOLEAN : ConfirmDialog(visible)
    \/ LoseDispatch \/ ApplyForm
    \/ ReadRows \/ CompareValues \/ LookForDeleted \/ LoseReadBack
-----------------------------------------------------------------------------
FormsTypeOK ==
    /\ records \in [Records -> RecordValues]
    /\ Ids(onPage) \cup form.known \cup hit \subseteq Records
    /\ form.target \in Records \cup {NewRecord} /\ form.open \in Records \cup {NewRecord}
    /\ click \in {"none", "sent", "done"}
    /\ reported \in {"none", "refused", "applied", "not applied", "unknown"}
    /\ since \subseteq Records \X RecordValues
    /\ edits \in 0..RecordEdits

(* "the approved target": of the records that were there, our confirmation
   changes no other than the approved one, although the list may have moved
   under the click. *)
OnlyTheApproved == hit \cap form.known \subseteq {form.target}

(* "one new stable ID and exact values": a write reported as applied is in
   DIC since its baseline, unless a list was read while it was being shown. *)
AppliedIsThere ==
    reported = "applied" /\ ~form.glimpsed =>
        CASE form.op = "create" -> \E r \in Records \ form.known : <<r, "asked">> \in since
          [] form.op = "edit"   -> <<form.target, "asked">> \in since
          [] form.op = "delete" -> <<form.target, "absent">> \in since

FormsAreSafe == OnlyTheApproved /\ AppliedIsThere
=============================================================================
