--------------------------- MODULE Delivery_proofs ---------------------------
(***************************************************************************)
(* Proofs about the delivery of reports and reminders, for any reports and *)
(* rounds, any size of a batch, any number of faults and stops.            *)
(***************************************************************************)
EXTENDS Delivery, TLAPS

\* The three kinds of notices: what they are of, and that they are different.
LEMMA NoticeKinds ==
    /\ \A i \in Reports : /\ AppendOf(i) \in Notices /\ Is(AppendOf(i), "append")
                          /\ ~Is(AppendOf(i), "remind")
                          /\ AppendOf(i)[2] = i
    /\ \A i \in Reports : /\ Trigger(i) \in Notices
                          /\ ~Is(Trigger(i), "append") /\ ~Is(Trigger(i), "remind")
    /\ \A r \in Rounds : /\ Remind(r) \in Notices /\ Is(Remind(r), "remind")
                         /\ ~Is(Remind(r), "append")
                         /\ Remind(r)[2] = r
    /\ \A i, j \in Reports : /\ AppendOf(i) # Trigger(j)
                             /\ AppendOf(i) = AppendOf(j) => i = j
                             /\ Trigger(i) = Trigger(j) => i = j
    /\ \A i \in Reports, r \in Rounds : AppendOf(i) # Remind(r) /\ Trigger(i) # Remind(r)
    /\ \A r, s \in Rounds : Remind(r) = Remind(s) => r = s
    /\ \A n \in Notices : /\ Is(n, "append") => n[2] \in Reports /\ n = AppendOf(n[2])
                          /\ Is(n, "remind") => n[2] \in Rounds /\ n = Remind(n[2])
                          /\ ~Is(n, "append") /\ ~Is(n, "remind") =>
                                n[2] \in Reports /\ n = Trigger(n[2])
                          /\ ~(Is(n, "append") /\ Is(n, "remind"))
BY DEF Notices, AppendOf, Trigger, Remind, Is

\* The invariant holds before any report is written.
LEMMA InitInvariant == Init => IInv
<1>. SUFFICES ASSUME Init PROVE IInv  OBVIOUS
<1>. USE NoticeKinds
<1>1. TypeOK  BY DEF Init, TypeOK
<1>2. BatchIsLeased /\ WorkerKnows  BY DEF Init, BatchIsLeased, WorkerKnows
<1>3. RemindersFollow  BY DEF Init, RemindersFollow, Pending
<1>4. TriggersFollow  BY DEF Init, TriggersFollow
<1>5. GivenAsRecorded  BY DEF Init, GivenAsRecorded
<1>6. LateOnce  BY DEF Init, LateOnce
<1>. QED  BY <1>1, <1>2, <1>3, <1>4, <1>5, <1>6 DEF IInv

\* Types.
LEMMA TypeStep == IInv /\ [Next]_vars => TypeOK'
<1>. SUFFICES ASSUME IInv, [Next]_vars PROVE TypeOK'  OBVIOUS
<1>. USE NoticeKinds DEF IInv, TypeOK, rounds, process, worker, history, Pending, InFlight
<1>1. ASSUME NEW i \in Reports, WriteReport(i) PROVE TypeOK'
  BY <1>1 DEF WriteReport
<1>2. ASSUME NEW r \in Rounds, EndRound(r) PROVE TypeOK'
  BY <1>2 DEF EndRound, Scheduled
<1>3. ASSUME NEW r \in Rounds, EndQuietly(r) PROVE TypeOK'
  BY <1>3 DEF EndQuietly
<1>4. ASSUME NEW r \in Rounds, Continue(r) PROVE TypeOK'
  BY <1>4 DEF Continue
<1>5. ASSUME NEW r \in Rounds, Submit(r) PROVE TypeOK'
  BY <1>5 DEF Submit
<1>6. CASE ProcessDue  BY <1>6 DEF ProcessDue
<1>7. CASE Claim  BY <1>7 DEF Claim, Claimable
<1>8. CASE Skip  BY <1>8 DEF Skip, NextRow
<1>9. CASE CallReturns  BY <1>9 DEF CallReturns, Reaches, WorkerKnows
<1>10. CASE CallRaises  BY <1>10 DEF CallRaises, Reaches, WorkerKnows
<1>11. CASE Record  BY <1>11 DEF Record, Recorded, NextRow
<1>12. CASE RecordFails  BY <1>12 DEF RecordFails, WorkerKnows
<1>13. CASE GiveUp  BY <1>13 DEF GiveUp, NextRow
<1>14. CASE AbandonBatch  BY <1>14 DEF AbandonBatch
<1>15. ASSUME NEW n \in Notices, Begin(n) PROVE TypeOK'
  BY <1>15 DEF Begin
<1>16. ASSUME NEW n \in Notices, RowFallsDue(n) PROVE TypeOK'
  BY <1>16 DEF RowFallsDue
<1>17. ASSUME NEW r \in Rounds, ReminderFallsDue(r) PROVE TypeOK'
  BY <1>17 DEF ReminderFallsDue
<1>18. CASE Stop  BY <1>18 DEF Stop, Reaches
<1>19. CASE Start  BY <1>19 DEF Start
<1>20. CASE UNCHANGED vars  BY <1>20 DEF vars
<1>. QED
  BY <1>1, <1>2, <1>3, <1>4, <1>5, <1>6, <1>7, <1>8, <1>9, <1>10, <1>11, <1>12, <1>13,
     <1>14, <1>15, <1>16, <1>17, <1>18, <1>19, <1>20
     DEF Next, Users, Work, Time

\* A row that is claimed stays in flight.
LEMMA BatchStep == IInv /\ [Next]_vars => BatchIsLeased'
<1>. SUFFICES ASSUME IInv, [Next]_vars, TypeOK' PROVE BatchIsLeased'  BY TypeStep
<1>. USE NoticeKinds DEF IInv, TypeOK, rounds, process, worker, history, Pending, InFlight,
           BatchIsLeased, Found
<1>1. ASSUME NEW i \in Reports, WriteReport(i) PROVE BatchIsLeased'
  BY <1>1 DEF WriteReport
<1>2. ASSUME NEW r \in Rounds, EndRound(r) PROVE BatchIsLeased'
  BY <1>2 DEF EndRound, Scheduled
<1>3. ASSUME NEW r \in Rounds, EndQuietly(r) PROVE BatchIsLeased'
  BY <1>3 DEF EndQuietly
<1>4. ASSUME NEW r \in Rounds, Continue(r) PROVE BatchIsLeased'
  BY <1>4 DEF Continue
<1>5. ASSUME NEW r \in Rounds, Submit(r) PROVE BatchIsLeased'
  BY <1>5 DEF Submit
<1>6. CASE ProcessDue  BY <1>6 DEF ProcessDue
<1>7. CASE Claim  BY <1>7 DEF Claim, Claimable
<1>8. CASE Skip  BY <1>8 DEF Skip, NextRow
<1>9. CASE CallReturns  BY <1>9 DEF CallReturns, Reaches
<1>10. CASE CallRaises  BY <1>10 DEF CallRaises, Reaches
<1>11. CASE Record  BY <1>11 DEF Record, Recorded, NextRow
<1>12. CASE RecordFails  BY <1>12 DEF RecordFails
<1>13. CASE GiveUp  BY <1>13 DEF GiveUp, NextRow
<1>14. CASE AbandonBatch  BY <1>14 DEF AbandonBatch
<1>15. ASSUME NEW n \in Notices, Begin(n) PROVE BatchIsLeased'
  BY <1>15 DEF Begin
<1>16. ASSUME NEW n \in Notices, RowFallsDue(n) PROVE BatchIsLeased'
  BY <1>16 DEF RowFallsDue
<1>17. ASSUME NEW r \in Rounds, ReminderFallsDue(r) PROVE BatchIsLeased'
  BY <1>17 DEF ReminderFallsDue
<1>18. CASE Stop  BY <1>18 DEF Stop, Reaches
<1>19. CASE Start  BY <1>19 DEF Start
<1>20. CASE UNCHANGED vars  BY <1>20 DEF vars
<1>. QED
  BY <1>1, <1>2, <1>3, <1>4, <1>5, <1>6, <1>7, <1>8, <1>9, <1>10, <1>11, <1>12, <1>13,
     <1>14, <1>15, <1>16, <1>17, <1>18, <1>19, <1>20
     DEF Next, Users, Work, Time

\* What the worker knows of the row at hand.
LEMMA WorkerStep == IInv /\ [Next]_vars => WorkerKnows'
<1>. SUFFICES ASSUME IInv, [Next]_vars, TypeOK' PROVE WorkerKnows'  BY TypeStep
<1>. USE NoticeKinds DEF IInv, TypeOK, rounds, process, worker, history, Pending, InFlight,
           WorkerKnows, BatchIsLeased, Found
<1>1. ASSUME NEW i \in Reports, WriteReport(i) PROVE WorkerKnows'
  BY <1>1 DEF WriteReport
<1>2. ASSUME NEW r \in Rounds, EndRound(r) PROVE WorkerKnows'
  BY <1>2 DEF EndRound, Scheduled
<1>3. ASSUME NEW r \in Rounds, EndQuietly(r) PROVE WorkerKnows'
  BY <1>3 DEF EndQuietly
<1>4. ASSUME NEW r \in Rounds, Continue(r) PROVE WorkerKnows'
  BY <1>4 DEF Continue
<1>5. ASSUME NEW r \in Rounds, Submit(r) PROVE WorkerKnows'
  BY <1>5 DEF Submit
<1>6. CASE ProcessDue  BY <1>6 DEF ProcessDue
<1>7. CASE Claim  BY <1>7 DEF Claim, Claimable
<1>8. CASE Skip  BY <1>8 DEF Skip, NextRow
<1>9. CASE CallReturns  BY <1>9 DEF CallReturns, Reaches
<1>10. CASE CallRaises  BY <1>10 DEF CallRaises, Reaches
<1>11. CASE Record  BY <1>11 DEF Record, Recorded, NextRow
<1>12. CASE RecordFails  BY <1>12 DEF RecordFails
<1>13. CASE GiveUp  BY <1>13 DEF GiveUp, NextRow
<1>14. CASE AbandonBatch  BY <1>14 DEF AbandonBatch
<1>15. ASSUME NEW n \in Notices, Begin(n) PROVE WorkerKnows'
  BY <1>15 DEF Begin
<1>16. ASSUME NEW n \in Notices, RowFallsDue(n) PROVE WorkerKnows'
  BY <1>16 DEF RowFallsDue
<1>17. ASSUME NEW r \in Rounds, ReminderFallsDue(r) PROVE WorkerKnows'
  BY <1>17 DEF ReminderFallsDue
<1>18. CASE Stop  BY <1>18 DEF Stop, Reaches
<1>19. CASE Start  BY <1>19 DEF Start
<1>20. CASE UNCHANGED vars  BY <1>20 DEF vars
<1>. QED
  BY <1>1, <1>2, <1>3, <1>4, <1>5, <1>6, <1>7, <1>8, <1>9, <1>10, <1>11, <1>12, <1>13,
     <1>14, <1>15, <1>16, <1>17, <1>18, <1>19, <1>20
     DEF Next, Users, Work, Time

\* One row for each reminder.
LEMMA RemindersStep == IInv /\ [Next]_vars => RemindersFollow'
<1>. SUFFICES ASSUME IInv, [Next]_vars, TypeOK' PROVE RemindersFollow'  BY TypeStep
<1>. USE NoticeKinds DEF IInv, TypeOK, rounds, process, worker, history, Pending, InFlight,
           RemindersFollow, BatchIsLeased, WorkerKnows, Found
<1>1. ASSUME NEW i \in Reports, WriteReport(i) PROVE RemindersFollow'
  BY <1>1 DEF WriteReport
<1>2. ASSUME NEW r \in Rounds, EndRound(r) PROVE RemindersFollow'
  BY <1>2 DEF EndRound, Scheduled
<1>3. ASSUME NEW r \in Rounds, EndQuietly(r) PROVE RemindersFollow'
  BY <1>3 DEF EndQuietly
<1>4. ASSUME NEW r \in Rounds, Continue(r) PROVE RemindersFollow'
  BY <1>4 DEF Continue
<1>5. ASSUME NEW r \in Rounds, Submit(r) PROVE RemindersFollow'
  BY <1>5 DEF Submit
<1>6. CASE ProcessDue  BY <1>6 DEF ProcessDue
<1>7. CASE Claim  BY <1>7 DEF Claim, Claimable
<1>8. CASE Skip  BY <1>8 DEF Skip, NextRow
<1>9. CASE CallReturns  BY <1>9 DEF CallReturns, Reaches
<1>10. CASE CallRaises  BY <1>10 DEF CallRaises, Reaches
<1>11. CASE Record  BY <1>11 DEF Record, Recorded, NextRow
<1>12. CASE RecordFails  BY <1>12 DEF RecordFails
<1>13. CASE GiveUp  BY <1>13 DEF GiveUp, NextRow
<1>14. CASE AbandonBatch  BY <1>14 DEF AbandonBatch
<1>15. ASSUME NEW n \in Notices, Begin(n) PROVE RemindersFollow'
  BY <1>15 DEF Begin
<1>16. ASSUME NEW n \in Notices, RowFallsDue(n) PROVE RemindersFollow'
  BY <1>16 DEF RowFallsDue
<1>17. ASSUME NEW r \in Rounds, ReminderFallsDue(r) PROVE RemindersFollow'
  BY <1>17 DEF ReminderFallsDue
<1>18. CASE Stop  BY <1>18 DEF Stop, Reaches
<1>19. CASE Start  BY <1>19 DEF Start
<1>20. CASE UNCHANGED vars  BY <1>20 DEF vars
<1>. QED
  BY <1>1, <1>2, <1>3, <1>4, <1>5, <1>6, <1>7, <1>8, <1>9, <1>10, <1>11, <1>12, <1>13,
     <1>14, <1>15, <1>16, <1>17, <1>18, <1>19, <1>20
     DEF Next, Users, Work, Time

\* A review follows its report.
LEMMA TriggersStep == IInv /\ [Next]_vars => TriggersFollow'
<1>. SUFFICES ASSUME IInv, [Next]_vars, TypeOK' PROVE TriggersFollow'  BY TypeStep
<1>. USE NoticeKinds DEF IInv, TypeOK, rounds, process, worker, history, Pending, InFlight,
           TriggersFollow, BatchIsLeased, WorkerKnows, Found
<1>1. ASSUME NEW i \in Reports, WriteReport(i) PROVE TriggersFollow'
  BY <1>1 DEF WriteReport
<1>2. ASSUME NEW r \in Rounds, EndRound(r) PROVE TriggersFollow'
  BY <1>2 DEF EndRound, Scheduled
<1>3. ASSUME NEW r \in Rounds, EndQuietly(r) PROVE TriggersFollow'
  BY <1>3 DEF EndQuietly
<1>4. ASSUME NEW r \in Rounds, Continue(r) PROVE TriggersFollow'
  BY <1>4 DEF Continue
<1>5. ASSUME NEW r \in Rounds, Submit(r) PROVE TriggersFollow'
  BY <1>5 DEF Submit
<1>6. CASE ProcessDue  BY <1>6 DEF ProcessDue
<1>7. CASE Claim  BY <1>7 DEF Claim, Claimable
<1>8. CASE Skip  BY <1>8 DEF Skip, NextRow
<1>9. CASE CallReturns  BY <1>9 DEF CallReturns, Reaches
<1>10. CASE CallRaises  BY <1>10 DEF CallRaises, Reaches
<1>11. CASE Record  BY <1>11 DEF Record, Recorded, NextRow
<1>12. CASE RecordFails  BY <1>12 DEF RecordFails
<1>13. CASE GiveUp  BY <1>13 DEF GiveUp, NextRow
<1>14. CASE AbandonBatch  BY <1>14 DEF AbandonBatch
<1>15. ASSUME NEW n \in Notices, Begin(n) PROVE TriggersFollow'
  BY <1>15 DEF Begin
<1>16. ASSUME NEW n \in Notices, RowFallsDue(n) PROVE TriggersFollow'
  BY <1>16 DEF RowFallsDue
<1>17. ASSUME NEW r \in Rounds, ReminderFallsDue(r) PROVE TriggersFollow'
  BY <1>17 DEF ReminderFallsDue
<1>18. CASE Stop  BY <1>18 DEF Stop, Reaches
<1>19. CASE Start  BY <1>19 DEF Start
<1>20. CASE UNCHANGED vars  BY <1>20 DEF vars
<1>. QED
  BY <1>1, <1>2, <1>3, <1>4, <1>5, <1>6, <1>7, <1>8, <1>9, <1>10, <1>11, <1>12, <1>13,
     <1>14, <1>15, <1>16, <1>17, <1>18, <1>19, <1>20
     DEF Next, Users, Work, Time

\* Repetitions are counted.
LEMMA GivenStep == IInv /\ [Next]_vars => GivenAsRecorded'
<1>. SUFFICES ASSUME IInv, [Next]_vars, TypeOK' PROVE GivenAsRecorded'  BY TypeStep
<1>. USE NoticeKinds DEF IInv, TypeOK, rounds, process, worker, history, Pending, InFlight,
           GivenAsRecorded, BatchIsLeased, WorkerKnows, Found
<1>1. ASSUME NEW i \in Reports, WriteReport(i) PROVE GivenAsRecorded'
  BY <1>1 DEF WriteReport
<1>2. ASSUME NEW r \in Rounds, EndRound(r) PROVE GivenAsRecorded'
  BY <1>2 DEF EndRound, Scheduled
<1>3. ASSUME NEW r \in Rounds, EndQuietly(r) PROVE GivenAsRecorded'
  BY <1>3 DEF EndQuietly
<1>4. ASSUME NEW r \in Rounds, Continue(r) PROVE GivenAsRecorded'
  BY <1>4 DEF Continue
<1>5. ASSUME NEW r \in Rounds, Submit(r) PROVE GivenAsRecorded'
  BY <1>5 DEF Submit
<1>6. CASE ProcessDue  BY <1>6 DEF ProcessDue
<1>7. CASE Claim  BY <1>7 DEF Claim, Claimable
<1>8. CASE Skip  BY <1>8 DEF Skip, NextRow
<1>9. CASE CallReturns  BY <1>9 DEF CallReturns, Reaches
<1>10. CASE CallRaises  BY <1>10 DEF CallRaises, Reaches
<1>11. CASE Record  BY <1>11 DEF Record, Recorded, NextRow
<1>12. CASE RecordFails  BY <1>12 DEF RecordFails
<1>13. CASE GiveUp  BY <1>13 DEF GiveUp, NextRow
<1>14. CASE AbandonBatch  BY <1>14 DEF AbandonBatch
<1>15. ASSUME NEW n \in Notices, Begin(n) PROVE GivenAsRecorded'
  BY <1>15 DEF Begin
<1>16. ASSUME NEW n \in Notices, RowFallsDue(n) PROVE GivenAsRecorded'
  BY <1>16 DEF RowFallsDue
<1>17. ASSUME NEW r \in Rounds, ReminderFallsDue(r) PROVE GivenAsRecorded'
  BY <1>17 DEF ReminderFallsDue
<1>18. CASE Stop  BY <1>18 DEF Stop, Reaches
<1>19. CASE Start  BY <1>19 DEF Start
<1>20. CASE UNCHANGED vars  BY <1>20 DEF vars
<1>. QED
  BY <1>1, <1>2, <1>3, <1>4, <1>5, <1>6, <1>7, <1>8, <1>9, <1>10, <1>11, <1>12, <1>13,
     <1>14, <1>15, <1>16, <1>17, <1>18, <1>19, <1>20
     DEF Next, Users, Work, Time

\* Late reminders are counted.
LEMMA LateStep == IInv /\ [Next]_vars => LateOnce'
<1>. SUFFICES ASSUME IInv, [Next]_vars, TypeOK' PROVE LateOnce'  BY TypeStep
<1>. USE NoticeKinds DEF IInv, TypeOK, rounds, process, worker, history, Pending, InFlight,
           LateOnce, BatchIsLeased, WorkerKnows, Found
<1>1. ASSUME NEW i \in Reports, WriteReport(i) PROVE LateOnce'
  BY <1>1 DEF WriteReport
<1>2. ASSUME NEW r \in Rounds, EndRound(r) PROVE LateOnce'
  BY <1>2 DEF EndRound, Scheduled
<1>3. ASSUME NEW r \in Rounds, EndQuietly(r) PROVE LateOnce'
  BY <1>3 DEF EndQuietly
<1>4. ASSUME NEW r \in Rounds, Continue(r) PROVE LateOnce'
  BY <1>4 DEF Continue
<1>5. ASSUME NEW r \in Rounds, Submit(r) PROVE LateOnce'
  BY <1>5 DEF Submit
<1>6. CASE ProcessDue  BY <1>6 DEF ProcessDue
<1>7. CASE Claim  BY <1>7 DEF Claim, Claimable
<1>8. CASE Skip  BY <1>8 DEF Skip, NextRow
<1>9. CASE CallReturns  BY <1>9 DEF CallReturns, Reaches
<1>10. CASE CallRaises  BY <1>10 DEF CallRaises, Reaches
<1>11. CASE Record  BY <1>11 DEF Record, Recorded, NextRow
<1>12. CASE RecordFails  BY <1>12 DEF RecordFails
<1>13. CASE GiveUp  BY <1>13 DEF GiveUp, NextRow
<1>14. CASE AbandonBatch  BY <1>14 DEF AbandonBatch
<1>15. ASSUME NEW n \in Notices, Begin(n) PROVE LateOnce'
  BY <1>15 DEF Begin
<1>16. ASSUME NEW n \in Notices, RowFallsDue(n) PROVE LateOnce'
  BY <1>16 DEF RowFallsDue
<1>17. ASSUME NEW r \in Rounds, ReminderFallsDue(r) PROVE LateOnce'
  BY <1>17 DEF ReminderFallsDue
<1>18. CASE Stop  BY <1>18 DEF Stop, Reaches
<1>19. CASE Start  BY <1>19 DEF Start
<1>20. CASE UNCHANGED vars  BY <1>20 DEF vars
<1>. QED
  BY <1>1, <1>2, <1>3, <1>4, <1>5, <1>6, <1>7, <1>8, <1>9, <1>10, <1>11, <1>12, <1>13,
     <1>14, <1>15, <1>16, <1>17, <1>18, <1>19, <1>20
     DEF Next, Users, Work, Time

-----------------------------------------------------------------------------
(***************************************************************************)
(* The theorems.                                                           *)
(***************************************************************************)

\* The inductive invariant holds for any reports, rounds, faults and stops.
THEOREM Invariant == Spec => []IInv
<1>1. IInv /\ [Next]_vars => IInv'
  BY TypeStep, BatchStep, WorkerStep, RemindersStep, TriggersStep, GivenStep, LateStep DEF IInv
<1>. QED  BY <1>1, InitInvariant, PTL DEF Spec

\* Whatever the worker holds is leased to it, or has been, and no reminder that
\* waits has a row, whichever of users, worker, timers and stops are faster.
THEOREM RowsAreInOrder == Spec => []RowsInv
<1>1. IInv => RowsInv
  BY DEF IInv, RowsInv, DueNeverConflicts, RemindersFollow
<1>. QED  BY <1>1, Invariant, PTL

\* A notice comes again only after a loss, and of the reminders of a round at
\* most one after its feedback, whatever is lost and however often it is tried.
THEOREM RepeatsAreExcused == Spec => []NothingTwice
<1>1. IInv => NothingTwice
  BY DEF IInv, NothingTwice, RepeatsHaveReasons, OneLateReminder, GivenAsRecorded, LateOnce
<1>. QED  BY <1>1, Invariant, PTL

\* Names that Notices and Delivery share.
LEMMA PromisedNotices ==
    /\ \A i : Promise!AppendOf(i) = AppendOf(i) /\ Promise!Trigger(i) = Trigger(i)
    /\ \A r : Promise!Remind(r) = Remind(r)
    /\ Promise!Reminders = {Remind(r) : r \in Rounds}
    /\ Promise!Appends = {AppendOf(i) : i \in Reports}
    /\ Promise!All = Notices
<1>1. /\ \A i : Promise!AppendOf(i) = AppendOf(i) /\ Promise!Trigger(i) = Trigger(i)
      /\ \A r : Promise!Remind(r) = Remind(r)
  BY DEF Promise!AppendOf, Promise!Trigger, Promise!Remind, AppendOf, Trigger, Remind
<1>2. /\ Promise!Reminders = {Remind(r) : r \in Rounds}
      /\ Promise!Appends = {AppendOf(i) : i \in Reports}
      /\ Promise!Triggers = {Trigger(i) : i \in Reports}
  BY <1>1 DEF Promise!Reminders, Promise!Appends, Promise!Triggers
<1>3. Promise!All = Notices  BY <1>2, NoticeKinds DEF Promise!All
<1>. QED  BY <1>1, <1>2, <1>3

\* Reminders fall due one round at a time: those of earlier rounds are unneeded.
LEMMA OneIsWanted ==
    ASSUME IInv, NEW r \in Rounds, reminder[r] = "due", ~Unneeded(r)
    PROVE  r = Current
<1>1. Opened(r)  BY DEF IInv, RemindersFollow, Opened
<1>2. \A q \in Rounds : Opened(q) => q <= r  BY DeliveryAssumption DEF Unneeded
<1>3. \A q \in Rounds : Opened(q) /\ (\A t \in Rounds : Opened(t) => t <= q) => q = r
  BY <1>1, <1>2, DeliveryAssumption
<1>. QED  BY <1>1, <1>2, <1>3 DEF Current

\* What the host is owed and has got changes only as Notices promises.
LEMMA PromiseStep ==
    IInv /\ IInv' /\ [Next]_vars =>
        [Promise!Next]_<<{n \in Notices : row[n] \in Pending \cup InFlight},
                         {n \in Notices : got[n] > 0}>>
<1>. DEFINE owed == {n \in Notices : row[n] \in Pending \cup InFlight}
            seen == {n \in Notices : got[n] > 0}
<1>. SUFFICES ASSUME IInv, IInv', [Next]_vars PROVE Promise!Next \/ UNCHANGED <<owed, seen>>
  OBVIOUS
<1>. USE PromisedNotices, NoticeKinds DEF rounds, process, worker, history
<1>1. ASSUME NEW i \in Reports, WriteReport(i) PROVE Promise!Owe(AppendOf(i))
  BY <1>1 DEF WriteReport, Promise!Owe, IInv, TypeOK, Pending, InFlight
<1>2. ASSUME NEW r \in Rounds, Submit(r) 
      PROVE  Promise!Withdraw(Remind(r)) \/ UNCHANGED <<owed, seen>>
  BY <1>2 DEF Submit, Promise!Withdraw, IInv, TypeOK, Pending, InFlight
<1>3. CASE Skip
  <2>1. PICK n \in Notices : n = atHand  BY <1>3 DEF Skip, IInv, TypeOK, WorkerKnows
  <2>2. Promise!Withdraw(n)
    BY <1>3, <2>1 DEF Skip, NextRow, Promise!Withdraw, IInv, TypeOK, WorkerKnows, Pending, InFlight
  <2>. QED  BY <2>1, <2>2 DEF Promise!Next
<1>4. CASE ProcessDue
  <2>. DEFINE wanted == {r \in Rounds : reminder[r] = "due" /\ ~Unneeded(r)}
  <2>1. \A r \in wanted : r = Current /\ row[Remind(r)] = "absent"
    BY OneIsWanted DEF IInv, RemindersFollow, Pending
  <2>2. \A n \in Notices : row'[n] = IF n \in {Remind(r) : r \in wanted} THEN "due" ELSE row[n]
    BY <1>4 DEF ProcessDue
  <2>3. UNCHANGED seen  BY <1>4 DEF ProcessDue
  <2>. HIDE DEF wanted
  <2>4. CASE wanted = {}  BY <2>2, <2>3, <2>4
  <2>5. CASE wanted # {}
    <3>1. PICK r \in wanted : TRUE  BY <2>5
    <3>2. wanted = {r} /\ r \in Rounds  BY <2>1, <3>1 DEF wanted
    <3>3. Promise!Owe(Remind(r))
      BY <2>2, <2>3, <3>2 DEF Promise!Owe, Pending
    <3>. QED  BY <3>2, <3>3 DEF Promise!Next
  <2>. QED  BY <2>4, <2>5
<1>5. ASSUME Reaches(atHand), atHand \in batch, UNCHANGED row PROVE Promise!Next
  <2>1. PICK n \in batch : n = atHand  BY <1>5
  <2>2. n \in Notices /\ Promise!Give(n)
    BY <1>5, <2>1 DEF Reaches, Promise!Give, IInv, TypeOK, BatchIsLeased, Found
  <2>. QED  BY <2>2 DEF Promise!Next
<1>6. CASE CallReturns  BY <1>5, <1>6 DEF CallReturns, IInv, WorkerKnows
<1>7. CASE CallRaises  BY <1>5, <1>7 DEF CallRaises, IInv, WorkerKnows
<1>8. CASE Stop  BY <1>5, <1>8 DEF Stop, IInv, WorkerKnows
<1>9. CASE Record
  <2>1. PICK a \in Notices : a = atHand  BY <1>9 DEF Record, IInv, TypeOK, WorkerKnows
  <2>2. got[a] > 0 /\ row[a] \in InFlight
    BY <1>9, <2>1 DEF Record, Found, IInv, WorkerKnows
  <2>3. \A n \in Notices :
           row'[n] = IF n = a THEN "delivered"
                     ELSE IF Is(a, "append") /\ n = Trigger(a[2]) /\ row[n] = "absent"
                     THEN "due" ELSE row[n]
    BY <1>9, <2>1 DEF Record, Recorded
  <2>4. UNCHANGED seen  BY <1>9 DEF Record
  <2>5. a \in owed \cap seen  BY <2>1, <2>2
  <2>6. CASE Is(a, "append")
    <3>1. a[2] \in Reports /\ a = AppendOf(a[2])  BY <2>1, <2>6
    <3>2. {Trigger(i) : i \in {j \in Reports : AppendOf(j) = a}} = {Trigger(a[2])}  BY <3>1
    <3>3. row[Trigger(a[2])] = "absent"  BY <2>2, <3>1 DEF IInv, TriggersFollow, InFlight
    <3>4. owed' = (owed \ {a}) \cup {Trigger(a[2])}
      BY <2>1, <2>3, <2>6, <3>1, <3>3 DEF Pending, InFlight
    <3>5. Promise!Settle(a)  BY <2>4, <2>5, <3>2, <3>4 DEF Promise!Settle
    <3>. QED  BY <2>1, <3>5 DEF Promise!Next
  <2>7. CASE ~Is(a, "append")
    <3>1. {Trigger(i) : i \in {j \in Reports : AppendOf(j) = a}} = {}  BY <2>7
    <3>2. owed' = owed \ {a}  BY <2>1, <2>3, <2>7 DEF Pending, InFlight
    <3>3. Promise!Settle(a)  BY <2>4, <2>5, <3>1, <3>2 DEF Promise!Settle
    <3>. QED  BY <2>1, <3>3 DEF Promise!Next
  <2>. QED  BY <2>6, <2>7
<1>10. ASSUME \/ \E r \in Rounds : EndRound(r) \/ EndQuietly(r) \/ Continue(r) \/ ReminderFallsDue(r)
              \/ RecordFails \/ AbandonBatch \/ Start \/ \E n \in Notices : Begin(n)
              \/ UNCHANGED vars
       PROVE  UNCHANGED <<owed, seen>>
  BY <1>10 DEF EndRound, EndQuietly, Continue, ReminderFallsDue, RecordFails, AbandonBatch,
               Start, Begin, vars
<1>11. CASE Claim
  <2>1. \A n \in Notices : row'[n] = row[n] \/ (row[n] \in {"due", "expired"} /\ row'[n] = "leased")
    BY <1>11 DEF Claim, Claimable
  <2>2. UNCHANGED got  BY <1>11 DEF Claim
  <2>. QED  BY <2>1, <2>2 DEF Pending, InFlight
<1>12. CASE GiveUp
  BY <1>12 DEF GiveUp, NextRow, Found, IInv, TypeOK, WorkerKnows, Pending, InFlight
<1>13. ASSUME NEW n \in Notices, RowFallsDue(n) PROVE UNCHANGED <<owed, seen>>
  BY <1>13 DEF RowFallsDue, IInv, TypeOK, Pending, InFlight
<1>. QED
  BY <1>1, <1>2, <1>3, <1>4, <1>6, <1>7, <1>8, <1>9, <1>10, <1>11, <1>12, <1>13
     DEF Next, Users, Work, Time, Promise!Next

\* Delivery implements Notices: the host is given only what is owed, and asked
\* to review only a report it has, through every fault, retry and restart.
THEOREM ImplementsNotices == Spec => KeepsPromise
<1>1. Init => Promise!Init  BY DEF Init, Promise!Init, Pending, InFlight
<1>. QED  BY <1>1, PromiseStep, Invariant, PTL DEF Spec, KeepsPromise, Promise!Spec

=============================================================================
