------------------------------ MODULE Delivery ------------------------------
(***************************************************************************)
(* Reports and feedback reminders on their way to the host: the outbox     *)
(* (storage/outbox.py), the feedback service (feedback.py) and their rows  *)
(* in the store (storage/sqlite.py), with the rounds of one task that      *)
(* write and cancel them, and the process that stops and starts.           *)
(*                                                                         *)
(* A transaction of the store is one step.  A call to the host takes two:  *)
(* it is under way, and it returns, is refused, or has reached the host    *)
(* and its answer is lost.  Time only makes things due.  The wake-ups of   *)
(* the workers shorten a poll and are left out.                            *)
(***************************************************************************)
EXTENDS Naturals, FiniteSets, FiniteSetsExt

CONSTANTS Reports, Rounds,
          ClaimLimit, \* rows claimed at once
          MaxStops,   \* bound: ends of the process
          MaxFaults   \* bound: calls and transactions that fail

ASSUME DeliveryAssumption ==
    /\ Rounds \subseteq Nat /\ IsFiniteSet(Rounds) /\ Rounds # {} /\ IsFiniteSet(Reports)
    /\ ClaimLimit \in Nat \ {0} /\ MaxStops \in Nat /\ MaxFaults \in Nat

VARIABLES status,   \* of each round
          reminder, \* of each round: feedback_reminders
          feedback, \* rounds with a row in feedback_events
          row,      \* of each notice: maisaka_outbox
          up, delivering, \* the process runs, with an outbox
          batch, atHand, phase, \* the worker of the outbox
          stops, faults,
          got,      \* history: how often the host was given a notice
          broken,   \* history: how often the record of that went missing
          late      \* history: reminders given after the feedback
process == <<up, delivering, stops>>
worker == <<batch, atHand, phase>>
history == <<got, broken, late>>
rounds == <<status, reminder, feedback>>
vars == <<rounds, row, process, worker, faults, history>>

Is(n, kind) == n[1] = kind
AppendOf(i) == <<"append", i>>
Trigger(i) == <<"trigger", i>>
Remind(r) == <<"remind", r>>
Notices == ({"append", "trigger"} \X Reports) \cup ({"remind"} \X Rounds)
Nothing == <<"none", 0>>

\* "waiting" and "due" are PENDING before and after next_attempt_at, "leased"
\* and "expired" are IN_FLIGHT with a lease that lasts and one that does not.
Pending == {"waiting", "due"}
InFlight == {"leased", "expired"}

Init == /\ status = [r \in Rounds |-> IF r = Min(Rounds) THEN "active" ELSE "none"]
        /\ reminder = [r \in Rounds |-> "none"] /\ feedback = {}
        /\ row = [n \in Notices |-> "absent"]
        /\ up = TRUE /\ delivering \in BOOLEAN
        /\ batch = {} /\ atHand = Nothing /\ phase = "idle"
        /\ stops = 0 /\ faults = 0
        /\ got = [n \in Notices |-> 0] /\ broken = [n \in Notices |-> 0]
        /\ late = [r \in Rounds |-> 0]

Opened(r) == r \in Rounds /\ status[r] # "none"
\* current_round_number
Current == CHOOSE r \in Rounds : Opened(r) /\ \A q \in Rounds : Opened(q) => q <= r

-----------------------------------------------------------------------------
(***************************************************************************)
(* Rounds                                                                  *)
(***************************************************************************)

\* Mutant of WriteReport: the request for the review is written along with it.
WriteReportAndTrigger(i) ==
    /\ up /\ row[AppendOf(i)] = "absent"
    /\ row' = [row EXCEPT ![AppendOf(i)] = "due", ![Trigger(i)] = "due"]
    /\ UNCHANGED <<rounds, process, worker, faults, history>>

\* _persist_report_same_tx: a report and its row.  The coordinator of a round
\* that was stopped may still write one.
WriteReport(i) ==
    /\ up /\ row[AppendOf(i)] = "absent"
    /\ row' = [row EXCEPT ![AppendOf(i)] = "due"]
    /\ UNCHANGED <<rounds, process, worker, faults, history>>

\* insert_feedback_reminder
Scheduled(r) == IF reminder[r] = "none" THEN [reminder EXCEPT ![r] = "waiting"] ELSE reminder

\* An event whose next state is COMPLETED, COMPLETED_WITH_ERRORS or STOPPED
\* schedules a reminder: the one that ends the round, or a later one.
EndRound(r) ==
    /\ up /\ status[r] \in {"active", "ended"} /\ r = Current
    /\ status' = [status EXCEPT ![r] = "ended"]
    /\ reminder' = Scheduled(r)
    /\ UNCHANGED <<feedback, row, process, worker, faults, history>>

\* EXPIRED and FAILED schedule none.
EndQuietly(r) ==
    /\ up /\ status[r] = "active"
    /\ status' = [status EXCEPT ![r] = "quiet"]
    /\ UNCHANGED <<reminder, feedback, row, process, worker, faults, history>>

\* continue_task opens the next round and cancels the pending reminder of the
\* last in the same transaction.
Continue(r) ==
    /\ up /\ status[Current] \in {"ended", "quiet"} /\ r = Current + 1
    /\ status' = [status EXCEPT ![r] = "active"]
    /\ reminder' = IF reminder[Current] \in Pending
                   THEN [reminder EXCEPT ![Current] = "cancelled"] ELSE reminder
    /\ UNCHANGED <<feedback, row, process, worker, faults, history>>

-----------------------------------------------------------------------------
(***************************************************************************)
(* Feedback                                                                *)
(***************************************************************************)

\* Mutant of Submit: the row is cancelled whoever holds it.
SubmitOverLease(r) ==
    /\ up /\ status[r] # "none"
    /\ feedback' = feedback \cup {r}
    /\ reminder' = IF reminder[r] \in Pending THEN [reminder EXCEPT ![r] = "cancelled"] ELSE reminder
    /\ row' = IF row[Remind(r)] \in Pending \cup InFlight THEN [row EXCEPT ![Remind(r)] = "cancelled"] ELSE row
    /\ UNCHANGED <<status, process, worker, faults, history>>

\* submit: of any round of the task; the pending reminder goes, and its row while
\* nobody has claimed it.
Submit(r) ==
    /\ up /\ status[r] # "none"
    /\ feedback' = feedback \cup {r}
    /\ reminder' = IF reminder[r] \in Pending THEN [reminder EXCEPT ![r] = "cancelled"] ELSE reminder
    /\ row' = IF row[Remind(r)] \in Pending THEN [row EXCEPT ![Remind(r)] = "cancelled"] ELSE row
    /\ UNCHANGED <<status, process, worker, faults, history>>

\* There is feedback, or the current round is a newer one.
Unneeded(r) == r \in feedback \/ \E q \in Rounds : q > r /\ Opened(q)

\* Mutant of ProcessDue: a failed insertion loses the reminder.
ProcessDueEarly ==
    LET due == {r \in Rounds : reminder[r] = "due"}
    IN  /\ up /\ due # {}
        /\ reminder' = [r \in Rounds |-> IF r \in due THEN "triggered" ELSE reminder[r]]
        /\ UNCHANGED <<status, feedback, row, process, worker, faults, history>>

\* process_due: one transaction over all that is due.  A second row for a round
\* would violate the idempotency key and undo the whole of it, for ever.
ProcessDue ==
    LET due == {r \in Rounds : reminder[r] = "due"}
        wanted == {r \in due : ~Unneeded(r)}
    IN  /\ up /\ due # {}
        /\ \A r \in wanted : row[Remind(r)] = "absent"
        /\ reminder' = [r \in Rounds |-> CASE r \in wanted -> "triggered"
                                           [] r \in due \ wanted -> "cancelled"
                                           [] OTHER -> reminder[r]]
        /\ row' = [n \in Notices |-> IF n \in {Remind(r) : r \in wanted} THEN "due" ELSE row[n]]
        /\ UNCHANGED <<status, feedback, process, worker, faults, history>>

-----------------------------------------------------------------------------
(***************************************************************************)
(* The worker of the outbox                                                *)
(***************************************************************************)

\* claim_due_outbox: whatever is due is leased, expired leases among it.
Claimable == {n \in Notices : row[n] \in {"due", "expired"}}
Claim ==
    /\ up /\ delivering /\ phase = "idle" /\ Claimable # {}
    /\ \E some \in SUBSET Claimable :
          /\ Cardinality(some) = Min({ClaimLimit, Cardinality(Claimable)})
          /\ batch' = some
          /\ row' = [n \in Notices |-> IF n \in some THEN "leased" ELSE row[n]]
    /\ phase' = "choosing"
    /\ UNCHANGED <<rounds, process, atHand, faults, history>>

NextRow == batch' = batch \ {atHand} /\ atHand' = Nothing
           /\ phase' = IF batch' = {} THEN "idle" ELSE "choosing"

\* Mutant of Begin: whether there is feedback is not looked up.
BeginBlindly(n) ==
    /\ phase = "choosing" /\ n \in batch
    /\ atHand' = n /\ phase' = "calling"
    /\ UNCHANGED <<rounds, row, process, batch, faults, history>>

\* _deliver_row looks a reminder's feedback up, and only then calls the host.
Begin(n) ==
    /\ phase = "choosing" /\ n \in batch
    /\ atHand' = n
    /\ phase' = IF Is(n, "remind") /\ n[2] \in feedback THEN "skipping" ELSE "calling"
    /\ UNCHANGED <<rounds, row, process, batch, faults, history>>

\* A completion must find its row in flight (_require_single_target).
Found(n) == row[n] \in InFlight

\* The feedback is there: the row is marked as delivered.
Skip ==
    /\ phase = "skipping" /\ Found(atHand)
    /\ row' = [row EXCEPT ![atHand] = "delivered"]
    /\ NextRow
    /\ UNCHANGED <<rounds, process, faults, history>>

Reaches(n) == /\ got' = [got EXCEPT ![n] = @ + 1]
              /\ late' = IF Is(n, "remind") /\ n[2] \in feedback
                         THEN [late EXCEPT ![n[2]] = @ + 1] ELSE late

CallReturns ==
    /\ phase = "calling" /\ phase' = "recording"
    /\ Reaches(atHand)
    /\ UNCHANGED <<rounds, row, process, batch, atHand, faults, broken>>

\* The call raises, and has reached the host or not.
CallRaises ==
    /\ phase = "calling" /\ phase' = "failing"
    /\ faults < MaxFaults /\ faults' = faults + 1
    /\ \/ Reaches(atHand) /\ broken' = [broken EXCEPT ![atHand] = @ + 1]
       \/ UNCHANGED history
    /\ UNCHANGED <<rounds, row, process, batch, atHand>>

\* mark_outbox_delivered, complete_outbox_append: the trigger of an append is
\* inserted in the same transaction, unless there is one.
Recorded(n) ==
    [m \in Notices |-> CASE m = n -> "delivered"
                         [] Is(n, "append") /\ m = Trigger(n[2]) /\ row[m] = "absent" -> "due"
                         [] OTHER -> row[m]]

Record ==
    /\ phase = "recording" /\ Found(atHand)
    /\ row' = Recorded(atHand)
    /\ NextRow
    /\ UNCHANGED <<rounds, process, faults, history>>

\* The transaction fails: the row is treated as not delivered.
RecordFails ==
    /\ phase \in {"recording", "skipping"}
    /\ \/ ~Found(atHand) /\ UNCHANGED faults
       \/ faults < MaxFaults /\ faults' = faults + 1
    /\ phase' = "failing"
    /\ broken' = IF phase = "recording" THEN [broken EXCEPT ![atHand] = @ + 1] ELSE broken
    /\ UNCHANGED <<rounds, row, process, batch, atHand, got, late>>

\* Mutant of GiveUp: a row is not put back.
GiveUpForGood ==
    /\ phase = "failing"
    /\ row' = [row EXCEPT ![atHand] = "cancelled"]
    /\ NextRow
    /\ UNCHANGED <<rounds, process, faults, history>>

\* _record_failure: another attempt, after a delay.
GiveUp ==
    /\ phase = "failing" /\ Found(atHand)
    /\ row' = [row EXCEPT ![atHand] = "waiting"]
    /\ NextRow
    /\ UNCHANGED <<rounds, process, faults, history>>

\* That fails too, and with it deliver_once: the rest of the batch stays leased.
\* (Of two failures one after the other only the first is counted.)
AbandonBatch ==
    /\ phase = "failing"
    /\ batch' = {} /\ atHand' = Nothing /\ phase' = "idle"
    /\ UNCHANGED <<rounds, row, process, faults, history>>

-----------------------------------------------------------------------------
(***************************************************************************)
(* Time and the process                                                    *)
(***************************************************************************)

RowFallsDue(n) ==
    /\ row[n] \in {"waiting", "leased"}
    /\ row' = [row EXCEPT ![n] = IF @ = "waiting" THEN "due" ELSE "expired"]
    /\ UNCHANGED <<rounds, process, worker, faults, history>>

ReminderFallsDue(r) ==
    /\ reminder[r] = "waiting"
    /\ reminder' = [reminder EXCEPT ![r] = "due"]
    /\ UNCHANGED <<status, feedback, row, process, worker, faults, history>>

\* close() cancels the worker at any await, as a crash does.
Stop ==
    /\ up /\ stops < MaxStops
    /\ up' = FALSE /\ stops' = stops + 1
    /\ batch' = {} /\ atHand' = Nothing /\ phase' = "idle"
    /\ \/ phase = "calling" /\ Reaches(atHand) /\ broken' = [broken EXCEPT ![atHand] = @ + 1]
       \/ phase = "recording" /\ broken' = [broken EXCEPT ![atHand] = @ + 1] /\ UNCHANGED <<got, late>>
       \/ phase # "recording" /\ UNCHANGED history
    /\ UNCHANGED <<rounds, row, delivering, faults>>

\* Rounds that were active are INTERRUPTED; there is an outbox if the host offers
\* what it delivers to.
Start ==
    /\ ~up /\ up' = TRUE
    /\ delivering' \in BOOLEAN
    /\ status' = [r \in Rounds |-> IF status[r] = "active" THEN "quiet" ELSE status[r]]
    /\ UNCHANGED <<reminder, feedback, row, stops, worker, faults, history>>

-----------------------------------------------------------------------------
Work == \/ Claim \/ Skip \/ CallReturns \/ CallRaises
        \/ Record \/ RecordFails \/ GiveUp \/ AbandonBatch
        \/ \E n \in Notices : Begin(n)
Time == \/ \E n \in Notices : RowFallsDue(n)
        \/ \E r \in Rounds : ReminderFallsDue(r)
Users == \/ \E i \in Reports : WriteReport(i)
         \/ \E r \in Rounds : EndRound(r) \/ EndQuietly(r) \/ Continue(r) \/ Submit(r)
Next == Users \/ ProcessDue \/ Work \/ Time \/ Stop \/ Start

\* The loops of both services poll, calls have timeouts, time passes, and a
\* process that ended is started again.  Users need not do anything.
Fairness == /\ WF_vars(Work) /\ WF_vars(ProcessDue) /\ WF_vars(Start)
            /\ \A n \in Notices : WF_vars(RowFallsDue(n))
            /\ \A r \in Rounds : WF_vars(ReminderFallsDue(r))
Spec == Init /\ [][Next]_vars /\ Fairness

-----------------------------------------------------------------------------
(***************************************************************************)
(* Properties                                                              *)
(***************************************************************************)

\* The host is given only what is owed, and asked to review a report only once
\* it has it, across stops, faults and repetitions (class docstring of the outbox).
Promise == INSTANCE Notices WITH
    owed <- {n \in Notices : row[n] \in Pending \cup InFlight},
    seen <- {n \in Notices : got[n] > 0}
KeepsPromise == Promise!Spec

\* A notice is repeated only when the record of an earlier one went missing: an
\* answer, a transaction or the process was lost in between.
RepeatsHaveReasons == \A n \in Notices : got[n] <= 1 + broken[n]

\* The worker that holds a row finds it in flight: one claims, submit leaves what
\* is claimed alone, and no other lease is granted meanwhile.
BatchIsLeased == \A n \in batch : Found(n)

\* A reminder waits only while its round has no row in the outbox, or process_due
\* would fail on its key in every poll and hold back all other reminders.
DueNeverConflicts == \A r \in Rounds : reminder[r] \in Pending => row[Remind(r)] = "absent"

\* The rows of the outbox are where the worker and the poll of reminders take
\* them to be.
RowsInv == BatchIsLeased /\ DueNeverConflicts

\* After the feedback at most the one reminder comes that was already under way,
\* retries and restarts included ("never nudge Maisaka to call submit again").
OneLateReminder == \A r \in Rounds : late[r] <= 1

\* The host is not told anything twice without a loss, and not reminded of what
\* is done but for what was on its way.
NothingTwice == RepeatsHaveReasons /\ OneLateReminder

Delivers == []<>(up /\ delivering)

\* Every report reaches the host and is reviewed, if there is ever again an outbox.
ReportsArrive ==
    Delivers => \A i \in Reports : row[AppendOf(i)] # "absent" ~> got[Trigger(i)] > 0

\* A round that ends is followed by a reminder, unless the feedback or the next
\* round comes first.
RemindersCome ==
    Delivers => \A r \in Rounds : reminder[r] = "waiting" ~> got[Remind(r)] > 0 \/ Unneeded(r)
-----------------------------------------------------------------------------
(***************************************************************************)
(* The inductive invariant behind them                                     *)
(***************************************************************************)

TypeOK ==
    /\ status \in [Rounds -> {"none", "active", "ended", "quiet"}]
    /\ reminder \in [Rounds -> {"none", "waiting", "due", "triggered", "cancelled"}]
    /\ feedback \subseteq Rounds
    /\ row \in [Notices -> {"absent", "delivered", "cancelled"} \cup Pending \cup InFlight]
    /\ batch \subseteq Notices
    /\ phase \in {"idle", "choosing", "calling", "skipping", "recording", "failing"}
    /\ got \in [Notices -> Nat] /\ broken \in [Notices -> Nat] /\ late \in [Rounds -> Nat]

\* The row at hand is one of the batch; what is recorded as given was given.
WorkerKnows ==
    /\ phase \in {"calling", "skipping", "recording", "failing"} => atHand \in batch
    /\ phase = "recording" => got[atHand] > 0
    /\ phase = "skipping" => Is(atHand, "remind")

\* A reminder is made for a round that has begun, and its row after it.
RemindersFollow ==
    \A r \in Rounds : /\ reminder[r] \in {"none"} \cup Pending => row[Remind(r)] = "absent"
                      /\ reminder[r] # "none" => status[r] # "none"

\* The review of a report is asked for once the report is recorded as given.
TriggersFollow ==
    \A i \in Reports : row[Trigger(i)] # "absent" => row[AppendOf(i)] = "delivered"

\* Until it is delivered or cancelled, a notice was given once for each record
\* that went missing, and once more while the record is being written.
GivenAsRecorded ==
    \A n \in Notices :
        /\ got[n] <= 1 + broken[n]
        /\ row[n] \in {"absent"} \cup Pending \cup InFlight /\ ~(phase = "recording" /\ atHand = n) =>
              got[n] <= broken[n]

\* A reminder that is under way while the feedback comes is the first late one.
LateOnce ==
    \A r \in Rounds :
        /\ late[r] <= 1
        /\ r \notin feedback \/ (phase = "calling" /\ atHand = Remind(r)) => late[r] = 0

IInv == /\ TypeOK /\ BatchIsLeased /\ WorkerKnows /\ RemindersFollow /\ TriggersFollow
        /\ GivenAsRecorded /\ LateOnce
=============================================================================
