------------------------------ MODULE Attendance ------------------------------
(***************************************************************************)
(* The attendance sheet and the leave requests that write on it:           *)
(* AttendanceService and LeavesService.  Staff record one row per employee *)
(* and day; approving a paid leave marks its days, deleting an approved    *)
(* request takes marks away.  A decision and a deletion read the request   *)
(* before their transaction (handling).                                    *)
(***************************************************************************)
EXTENDS Integers, FiniteSets

CONSTANTS
    Employees,
    Days,
    Marks,      \* what staff record on a row: "present", "absent", "half_day", ...
    None,       \* no row
    Rows,       \* <<employee, day>>: the rows that staff work on
    Requests,   \* ids of leave requests
    Leave,      \* request -> [employee, days, paid]: what the form says
    Clerks      \* decisions and deletions that may be in progress at the same time

ASSUME AttendanceAssumption ==
    /\ Leave \in [Requests -> [employee : Employees, days : SUBSET Days, paid : BOOLEAN]]
    /\ None \notin Marks \cup {"leave"}
    /\ Rows \subseteq Employees \X Days

VARIABLES
    attendance,  \* table HrAttendance, one row per employee and day
    leaves,      \* table HrLeaveRequest: the status of each request
    handling     \* what a clerk decides or deletes, as read; None if there is no such

attendanceVars == <<attendance, leaves, handling>>

Statuses == {"pending", "approved", "rejected"}

AttendanceTypeOK ==
    /\ attendance \in [Employees \X Days -> Marks \cup {"leave", None}]
    /\ leaves \in [Requests -> Statuses \cup {None, "deleted"}]
    /\ handling \in [Clerks -> {None} \cup [op : {"decide", "remove"}, request : Requests,
                                            status : Statuses]]

AttendanceInit ==
    /\ attendance = [x \in Employees \X Days |-> None]
    /\ leaves = [q \in Requests |-> None]
    /\ handling = [c \in Clerks |-> None]

-------------------------------------------------------------------------------
\* One row is recorded, corrected or removed; a bulk entry is one such step per row.
Record(e, d, mark) ==
    /\ attendance' = [attendance EXCEPT ![<<e, d>>] = mark]
    /\ UNCHANGED <<leaves, handling>>

ClearRow(e, d) == attendance[<<e, d>>] # None /\ Record(e, d, None)

\* All rows of a day are removed.
ClearDay(d) ==
    /\ attendance' = [x \in Employees \X Days |-> IF x[2] = d THEN None ELSE attendance[x]]
    /\ UNCHANGED <<leaves, handling>>

CreateRequest(q) ==
    /\ leaves[q] = None
    /\ leaves' = [leaves EXCEPT ![q] = "pending"]
    /\ UNCHANGED <<attendance, handling>>

\* A clerk's call has read the request, which exists.
Take(c, op, q) ==
    /\ handling[c] = None
    /\ leaves[q] \in Statuses
    /\ handling' = [handling EXCEPT ![c] = [op |-> op, request |-> q, status |-> leaves[q]]]
    /\ UNCHANGED <<attendance, leaves>>

DecideRead(c, q) == leaves[q] = "pending" /\ Take(c, "decide", q)
RemoveRequestRead(c, q) == Take(c, "remove", q)

\* Its transaction finds the row, and ends the call.
Handles(c, op) ==
    /\ handling[c] # None
    /\ handling[c].op = op
    /\ leaves[handling[c].request] # "deleted"
    /\ handling' = [handling EXCEPT ![c] = None]

RowsOf(q) == {Leave[q].employee} \X Leave[q].days

\* Mutant: the mark replaces what was recorded.
MutantMarked(q) == [x \in Employees \X Days |-> IF x \in RowsOf(q) THEN "leave" ELSE attendance[x]]

\* The upsert only creates the rows that are missing.
Marked(q) ==
    [x \in Employees \X Days |->
        IF x \in RowsOf(q) /\ attendance[x] = None THEN "leave" ELSE attendance[x]]

\* The decision is written, whatever the status is by now.
DecideCommit(c, decision) ==
    LET q == handling[c].request
    IN  /\ Handles(c, "decide")
        /\ leaves' = [leaves EXCEPT ![q] = decision]
        /\ attendance' = IF decision = "approved" /\ Leave[q].paid THEN Marked(q) ELSE attendance

\* It fails, or the row is gone.
CallFails(c) ==
    /\ handling[c] # None
    /\ handling' = [handling EXCEPT ![c] = None]
    /\ UNCHANGED <<attendance, leaves>>

\* Deleting an approved request removes the rows that say leave on its days.
Unmarked(q) ==
    [x \in Employees \X Days |->
        IF x \in RowsOf(q) /\ attendance[x] = "leave" THEN None ELSE attendance[x]]

\* Whether there are rows to remove is what the request was when it was read.
RemoveRequestCommit(c) ==
    LET q == handling[c].request
    IN  /\ Handles(c, "remove")
        /\ attendance' = IF handling[c].status = "approved" THEN Unmarked(q) ELSE attendance
        /\ leaves' = [leaves EXCEPT ![q] = "deleted"]

AttendanceNext ==
    \/ \E x \in Rows : ClearRow(x[1], x[2]) \/ \E mark \in Marks : Record(x[1], x[2], mark)
    \/ \E d \in Days : ClearDay(d)
    \/ \E q \in Requests : CreateRequest(q)
    \/ \E c \in Clerks :
          \/ \E q \in Requests : DecideRead(c, q) \/ RemoveRequestRead(c, q)
          \/ \E decision \in {"approved", "rejected"} : DecideCommit(c, decision)
          \/ RemoveRequestCommit(c)
          \/ CallFails(c)

AttendanceSpec == AttendanceInit /\ [][AttendanceNext]_attendanceVars

-------------------------------------------------------------------------------
\* Approving, rejecting and deleting requests never overwrites or removes what staff
\* recorded, a leave they marked themselves excepted: "rows the user has since changed
\* to another status are left alone".
RecordedSurvives ==
    [][leaves' # leaves =>
          \A x \in Employees \X Days :
              attendance[x] \in Marks \ {"leave"} => attendance'[x] = attendance[x]]_attendanceVars

\* The days of an approved paid leave keep their rows whatever happens to other requests.
\* The code has it while no two requests share a day.
LeavesIndependent ==
    [][\A q \in Requests :
          (leaves[q] = "approved" /\ leaves'[q] = "approved" /\ leaves' # leaves /\ Leave[q].paid)
             => \A x \in RowsOf(q) : attendance[x] # None => attendance'[x] # None]_attendanceVars
=============================================================================
