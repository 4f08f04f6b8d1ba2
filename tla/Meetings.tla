------------------------------- MODULE Meetings --------------------------------
(***************************************************************************)
(* The activation meetings of one case (applications.service.ts): staff     *)
(* schedule them and set their status at will, a meeting that is moved gets *)
(* a row of its own, and the student and the guarantor are told by mail.    *)
(* The case itself is approved and its guarantor, if any, is active.        *)
(***************************************************************************)
EXTENDS Handlers, Views

VARIABLES
  meeting,   \* table case_meetings, in the order of created_at
  mailed     \* the mails sent: to whom, the template, and the meeting in it

meetings == <<meeting, mailed>>

MeetingOps    == {"schedule", "update"}
MeetingStatus == {"scheduled", "confirmed", "completed", "rescheduled", "cancelled"}
Nothing       == 0   \* no meeting

MeetingsInit == meeting = <<>> /\ mailed = {}

MeetingCall(op, pc, m, status) ==
  [op |-> op, pc |-> pc, catch |-> "failed", back |-> "done", meeting |-> m, status |-> status,
   news |-> None]

\* getCurrentMeeting: the latest that is not cancelled.
CurrentMeeting ==
  LET standing == {m \in DOMAIN meeting : meeting[m].status # "cancelled"} IN
  IF standing = {} THEN Nothing ELSE CHOOSE m \in standing : \A n \in standing : n <= m

Shown == IF CurrentMeeting = Nothing THEN "none" ELSE meeting[CurrentMeeting].status

(***************************************************************************)
(* scheduleMeeting: also when one is already scheduled.                     *)
(***************************************************************************)
Schedule(r) ==
  /\ CanStart(r, "schedule")
  /\ Begin(r, MeetingCall("schedule", "book", Nothing, None))
  /\ UNCHANGED meetings

InsertMeeting(r, from, news) ==
  /\ meeting' = Append(meeting, [status |-> "scheduled", from |-> from])
  /\ req' = [req EXCEPT ![r].meeting = Len(meeting) + 1, ![r].news = news,
                        ![r].pc = "tellStudent"]
  /\ UNCHANGED <<desk, holding, mailed>>

Book(r) == At(r, "book") /\ InsertMeeting(r, Nothing, "meeting_scheduled")

(***************************************************************************)
(* updateMeetingStatus: any status from any other.  "rescheduled" leaves    *)
(* the row and inserts its copy with the new date.                          *)
(***************************************************************************)
FindMeeting(r) ==
  /\ CanStart(r, "update")
  /\ \E m \in DOMAIN meeting, status \in MeetingStatus :
        Begin(r, MeetingCall("update", IF status = "rescheduled" THEN "leave" ELSE "mark",
                             m, status))
  /\ UNCHANGED meetings

LeaveMeeting(r) ==
  /\ At(r, "leave")
  /\ meeting' = [meeting EXCEPT ![req[r].meeting].status = "rescheduled"]
  /\ Goto(r, "rebook")
  /\ UNCHANGED mailed

Rebook(r) == At(r, "rebook") /\ InsertMeeting(r, req[r].meeting, "meeting_rescheduled")

\* The row an UPDATE ... RETURNING gives back is inside a pair: the mail of a
\* cancellation is filled in from no meeting.
MarkMeeting(r) ==
  /\ At(r, "mark")
  /\ meeting' = [meeting EXCEPT ![req[r].meeting].status = req[r].status]
  /\ IF req[r].status = "cancelled"
     THEN req' = [req EXCEPT ![r].meeting = Nothing, ![r].news = "meeting_cancelled",
                             ![r].pc = "tellStudent"]
     ELSE req' = [req EXCEPT ![r].pc = "done"]
  /\ UNCHANGED <<desk, holding, mailed>>

(***************************************************************************)
(* notifyMeeting: the student, then the guarantor active by then.           *)
(***************************************************************************)
Told_Left(r) ==
  IF req[r].news = "meeting_rescheduled" THEN meeting[req[r].meeting].from ELSE req[r].meeting
Told(r) == req[r].meeting

Mail(r, who) == mailed' = mailed \cup {[to |-> who, news |-> req[r].news, about |-> Told(r)]}

TellStudent(r) ==
  /\ At(r, "tellStudent")
  /\ Mail(r, "student")
  /\ Goto(r, "tellGuarantor")
  /\ UNCHANGED meeting

TellGuarantor(r) ==
  /\ At(r, "tellGuarantor")
  /\ Mail(r, "guarantor") \/ UNCHANGED mailed
  /\ Goto(r, "done")
  /\ UNCHANGED meeting

MeetingsStep(r) ==
  \/ Schedule(r) \/ Book(r)
  \/ FindMeeting(r) \/ LeaveMeeting(r) \/ Rebook(r) \/ MarkMeeting(r)
  \/ TellStudent(r) \/ TellGuarantor(r)

-------------------------------------------------------------------------------
MeetingsTypeOK ==
  /\ \A m \in DOMAIN meeting : /\ meeting[m].status \in MeetingStatus
                               /\ meeting[m].from \in 0..(m - 1)
  /\ \A mail \in mailed : mail.to \in {"student", "guarantor"} /\ mail.about \in Nat

\* However staff schedule, move, cancel and reopen meetings at once: a student
\* whose timeline says to attend a meeting has been mailed that one, and a
\* meeting that was moved has the row it was moved to ("Both student and
\* guarantor are notified"; "a clean history of every meeting it ever had").
AttendanceIsAnnounced ==
  AllServed =>
    /\ NextAction("approved_level1", "active", Shown) = "attend_meeting" =>
         \E mail \in mailed : mail.to = "student" /\ mail.about = CurrentMeeting
    /\ \A m \in DOMAIN meeting : meeting[m].status = "rescheduled" =>
         \E n \in DOMAIN meeting : meeting[n].from = m
===============================================================================
