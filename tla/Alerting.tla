------------------------------- MODULE Alerting -------------------------------
(***************************************************************************)
(* app/services/alerting: alerts, the suppression of repeated ones, the    *)
(* delivery of pending ones to their target and to the subscribers, and    *)
(* the store.  Only the delivery awaits: each sending to one target over   *)
(* one channel is a step, so two calls of process_pending interleave, and  *)
(* both see an alert that neither has settled.  The senders are plugged    *)
(* in; they answer yes or no, or raise.                                    *)
(***************************************************************************)
EXTENDS Naturals, FiniteSets

CONSTANTS Callers,     \* calls of process_pending
          Topics,      \* source and title of an alert
          Levels,      \* severities
          Channels, InApp, \* sets of channels of a request; the one that cannot fail
          Targets, NoTarget, DefaultTarget,
          Subscriptions, \* subscriptions that may be made: severities and a target
          DedupWindow, MaxClock, \* the window, and a bound of the clock
          MaxAlerts,
          AlertFaults, AlertCrashes \* bounds: failed appends, restarts

AlertStatus == {"PENDING", "DELIVERED", "FAILED", "SKIPPED"} \* SENT is never set
Alerts == [topic: Topics, severity: Levels, channels: SUBSET ({InApp} \cup UNION Channels),
           target: Targets \cup {NoTarget}, created: Nat, status: AlertStatus]

ASSUME AlertingAssumption ==
  /\ NoTarget \notin Targets /\ DefaultTarget \in Targets
  /\ Subscriptions \subseteq [severities: SUBSET Levels, target: Targets \cup {NoTarget}]
  /\ DedupWindow \in Nat /\ MaxClock \in Nat /\ MaxAlerts \in Nat
  /\ AlertFaults \in Nat /\ AlertCrashes \in Nat

VARIABLES clock,
          made,        \* alerts made so far; the next one takes the next number
          alerts,      \* the alerts in memory, by their number
          subscribed,  \* the subscriptions in memory
          sent,        \* history: what the senders were asked and answered
          alertFile,   \* the last line of each alert, and whether the file ends in a piece
          subFile,     \* subscriptions that have a line
          call,        \* what each call of process_pending is doing
          alFaults, alCrashes

alertingVars == <<clock, made, alerts, subscribed, sent, alertFile, subFile, call, alFaults, alCrashes>>

NoCall == [todo |-> {}, alert |-> 0, left |-> {}, ok |-> FALSE]

AlertingInit ==
  /\ clock = 0 /\ made = 0 /\ alerts = <<>> /\ subscribed = {} /\ sent = {}
  /\ alertFile = [torn |-> FALSE, last |-> <<>>] /\ subFile = {}
  /\ call = [c \in Callers |-> NoCall]
  /\ alFaults = 0 /\ alCrashes = 0

-----------------------------------------------------------------------------
(* InMemoryAlertStore.  One file for all kinds of records; a line that       *)
(* follows a torn one is lost, one that cannot be parsed is skipped.         *)

Recorded(table, i, alert) ==
  [j \in DOMAIN table \cup {i} |-> IF j = i THEN alert ELSE table[j]]

SaveLine(last, subs) ==
  \/ /\ ~alertFile.torn
     /\ alertFile' = [alertFile EXCEPT !.last = last] /\ subFile' = subs
     /\ UNCHANGED alFaults
  \/ /\ alertFile.torn
     /\ alertFile' = [alertFile EXCEPT !.torn = FALSE]
     /\ UNCHANGED <<subFile, alFaults>>
  \/ /\ alFaults < AlertFaults /\ alFaults' = alFaults + 1
     /\ alertFile' \in {alertFile, [alertFile EXCEPT !.torn = TRUE]}
     /\ UNCHANGED subFile

SaveAlert(i, alert) == SaveLine(Recorded(alertFile.last, i, alert), subFile)

-----------------------------------------------------------------------------
(* AlertManager.create_alert *)

\* Mutant of Repeated: only alerts that are still pending are counted.
RepeatedPending(topic) ==
  \E i \in DOMAIN alerts : /\ alerts[i].topic = topic /\ alerts[i].status = "PENDING"
                           /\ alerts[i].created + DedupWindow >= clock

Repeated(topic) ==
  \E i \in DOMAIN alerts : alerts[i].topic = topic /\ alerts[i].created + DedupWindow >= clock

CreateAlert ==
  /\ made < MaxAlerts /\ made' = made + 1
  /\ \E topic \in Topics, level \in Levels, chs \in Channels, to \in Targets \cup {NoTarget} :
       LET alert == [topic |-> topic, severity |-> level,
                     channels |-> IF chs = {} THEN {InApp} ELSE chs,
                     target |-> to, created |-> clock,
                     status |-> IF Repeated(topic) THEN "SKIPPED" ELSE "PENDING"]
       IN  alerts' = Recorded(alerts, made', alert) /\ SaveAlert(made', alert)
  /\ UNCHANGED <<clock, subscribed, sent, call, alCrashes>>

-----------------------------------------------------------------------------
(* SubscriptionService: a removal leaves no line. *)

\* Mutant of Subscribe: no line is written.
SubscribeInMemory(s) ==
  /\ subscribed' = subscribed \cup {s}
  /\ UNCHANGED <<clock, made, alerts, sent, alertFile, subFile, call, alFaults, alCrashes>>

Subscribe(s) ==
  /\ subscribed' = subscribed \cup {s}
  /\ SaveLine(alertFile.last, subFile \cup {s})
  /\ UNCHANGED <<clock, made, alerts, sent, call, alCrashes>>

Unsubscribe(s) ==
  /\ s \in subscribed /\ subscribed' = subscribed \ {s}
  /\ UNCHANGED <<clock, made, alerts, sent, alertFile, subFile, call, alFaults, alCrashes>>

-----------------------------------------------------------------------------
(* AlertManager.process_pending and NotificationDispatcher.dispatch *)

Matches(alert, s) == s.severities = {} \/ alert.severity \in s.severities

TargetsOf(alert) ==
  LET named == {alert.target} \cup {s.target : s \in {t \in subscribed : Matches(alert, t)}}
  IN  IF named \subseteq {NoTarget} THEN {DefaultTarget} ELSE named \ {NoTarget}

\* The list of alerts is copied once.
ProcessPending(c) ==
  /\ call[c] = NoCall /\ DOMAIN alerts # {}
  /\ call' = [call EXCEPT ![c].todo = DOMAIN alerts]
  /\ UNCHANGED <<clock, made, alerts, subscribed, sent, alertFile, subFile, alFaults, alCrashes>>

Upcoming(c) == {i \in call[c].todo : \A j \in call[c].todo : i <= j}

\* An alert that is not pending any more is passed over.
PassOver(c) ==
  /\ call[c].alert = 0
  /\ \E i \in Upcoming(c) :
       /\ alerts[i].status # "PENDING"
       /\ call' = [call EXCEPT ![c].todo = @ \ {i}]
  /\ UNCHANGED <<clock, made, alerts, subscribed, sent, alertFile, subFile, alFaults, alCrashes>>

TakeAlert(c) ==
  /\ call[c].alert = 0
  /\ \E i \in Upcoming(c) :
       /\ alerts[i].status = "PENDING"
       /\ call' = [call EXCEPT ![c] = [todo |-> @.todo \ {i}, alert |-> i, ok |-> FALSE,
                                       left |-> TargetsOf(alerts[i]) \X alerts[i].channels]]
  /\ UNCHANGED <<clock, made, alerts, subscribed, sent, alertFile, subFile, alFaults, alCrashes>>

\* One sending, to the targets and over the channels in any order; its
\* delivery is recorded in a line of its own.
SendOne(c) ==
  /\ \E p \in call[c].left : \E ok \in IF p[2] = InApp THEN {TRUE} ELSE BOOLEAN :
       /\ sent' = sent \cup {[alert |-> call[c].alert, target |-> p[1], channel |-> p[2], ok |-> ok]}
       /\ call' = [call EXCEPT ![c].left = @ \ {p}, ![c].ok = @ \/ ok]
  /\ SaveLine(alertFile.last, subFile)
  /\ UNCHANGED <<clock, made, alerts, subscribed, alCrashes>>

\* One sending that worked is enough.
Outcome(c) == IF call[c].ok THEN "DELIVERED" ELSE "FAILED"

SettleAlert(c) ==
  /\ call[c].alert # 0 /\ call[c].left = {}
  /\ LET i == call[c].alert
         alert == [alerts[i] EXCEPT !.status = Outcome(c)]
     IN  alerts' = Recorded(alerts, i, alert) /\ SaveAlert(i, alert)
  /\ call' = [call EXCEPT ![c] = [@ EXCEPT !.alert = 0, !.left = {}, !.ok = FALSE]]
  /\ UNCHANGED <<clock, made, subscribed, sent, alCrashes>>

AlertingTick ==
  /\ clock < MaxClock /\ clock' = clock + 1
  /\ UNCHANGED <<made, alerts, subscribed, sent, alertFile, subFile, call, alFaults, alCrashes>>

\* Calls are lost; the alerts that have a line come back, and with them
\* every subscription that was ever made.
AlertingRestart ==
  /\ alCrashes < AlertCrashes /\ alCrashes' = alCrashes + 1
  /\ alerts' = alertFile.last /\ subscribed' = subFile
  /\ call' = [c \in Callers |-> NoCall]
  /\ UNCHANGED <<clock, made, sent, alertFile, subFile, alFaults>>

AlertingNext ==
  \/ CreateAlert \/ AlertingTick \/ AlertingRestart
  \/ \E s \in Subscriptions : Subscribe(s) \/ Unsubscribe(s)
  \/ \E c \in Callers :
       ProcessPending(c) \/ PassOver(c) \/ TakeAlert(c) \/ SendOne(c) \/ SettleAlert(c)

AlertingSpec == AlertingInit /\ [][AlertingNext]_alertingVars

-----------------------------------------------------------------------------
(* Properties *)

AlertingTypeOK ==
  /\ clock \in 0..MaxClock /\ made \in 0..MaxAlerts
  /\ DOMAIN alerts \subseteq 1..made /\ \A i \in DOMAIN alerts : alerts[i] \in Alerts
  /\ DOMAIN alertFile.last \subseteq 1..made /\ alertFile.torn \in BOOLEAN
  /\ subscribed \subseteq Subscriptions /\ subFile \subseteq Subscriptions
  /\ alFaults = 0 => subscribed \subseteq subFile
  /\ \A c \in Callers : call[c].todo \subseteq 1..made /\ call[c].alert \in 0..made

\* What an alert's status says is so, however calls of process_pending
\* overlap and whenever the service starts again.  One that is delivered
\* reached somebody; and unless a line was lost, of the alerts of a topic
\* within a window only the first is not skipped, delivered or not, and one
\* that is skipped follows another closely.
AlertsAccountable ==
  /\ \A i \in DOMAIN alerts : alerts[i].status = "DELIVERED" =>
       \E d \in sent : d.alert = i /\ d.ok
  /\ alFaults = 0 => \A j \in DOMAIN alerts :
       alerts[j].status = "SKIPPED" <=>
         \E i \in DOMAIN alerts : /\ i < j /\ alerts[i].topic = alerts[j].topic
                                  /\ alerts[j].created - alerts[i].created <= DedupWindow
=============================================================================
