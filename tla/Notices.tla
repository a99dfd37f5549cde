------------------------------ MODULE Notices ------------------------------
(***************************************************************************)
(* What the delivery of reports and reminders promises the host, whatever  *)
(* stops or fails: a notice is given only while it is owed, at least once, *)
(* and the host is asked to review a report only after it has the report.  *)
(***************************************************************************)
CONSTANTS Reports, Rounds

AppendOf(i) == <<"append", i>>     \* the text of a report
Trigger(i) == <<"trigger", i>>   \* the request to review it
Remind(r) == <<"remind", r>>     \* the request for the feedback of a round
Appends == {AppendOf(i) : i \in Reports}
Triggers == {Trigger(i) : i \in Reports}
Reminders == {Remind(r) : r \in Rounds}
All == Appends \cup Triggers \cup Reminders

VARIABLES owed, \* notices to be given
          seen  \* notices the host has got

Init == owed = {} /\ seen = {}

Owe(n) == /\ n \in Appends \cup Reminders
          /\ owed' = owed \cup {n} /\ UNCHANGED seen

\* The first time a report is recorded as given its review becomes owed.
Settle(n) == /\ n \in owed \cap seen
             /\ owed' = (owed \ {n}) \cup {Trigger(i) : i \in {j \in Reports : AppendOf(j) = n}}
             /\ UNCHANGED seen

Give(n) == n \in owed /\ seen' = seen \cup {n} /\ UNCHANGED owed

\* Only a reminder may be withdrawn.
Withdraw(n) == n \in Reminders /\ owed' = owed \ {n} /\ UNCHANGED seen

Next == \E n \in All : Owe(n) \/ Settle(n) \/ Give(n) \/ Withdraw(n)
Spec == Init /\ [][Next]_<<owed, seen>>
=============================================================================
