-------------------------------- MODULE Gateway --------------------------------
(***************************************************************************)
(* The way of a request through the middleware that app/main.py adds, from *)
(* the outermost to the innermost: CORS, the JWT guard, the API key gate,  *)
(* the audit log, the rate limit, the security headers and the tracing.    *)
(* Each waits for the next, so requests interleave.  With them the review  *)
(* of audit records and the threat detector, which only its endpoint and   *)
(* the content screening feed.                                             *)
(***************************************************************************)
EXTENDS Naturals, Sequences, FiniteSets, SequencesExt

CONSTANTS Sockets,        \* requests that may be under way at a time
          Peers,          \* client addresses
          ApiKeys,        \* secrets that a request may carry
          KeyQuota,       \* [secret -> its quota; 0 for one that is disabled]
          NoKey,
          ProductionAuth, KeyGate, \* which of the two guards is on
          DefaultLimit, RateWindow, ProbeThreshold, ProbeWindow,
          ProbePaths,     \* sensitive paths
          LogSize, EventSize, \* how much the log and the detector keep
          MaxCalls, MaxGatewayClock \* bounds

PathKinds == {"public", "api"}         \* exempt everywhere, or nowhere
Bearers   == {"access", "refresh", "none"}
Marks     == {"approved", "flagged"}

ASSUME GatewayAssumption ==
  /\ KeyQuota \in [ApiKeys -> Nat] /\ NoKey \notin ApiKeys
  /\ ProductionAuth \in BOOLEAN /\ KeyGate \in BOOLEAN
  /\ {DefaultLimit, RateWindow, ProbeThreshold, ProbeWindow, MaxCalls, MaxGatewayClock} \subseteq Nat
  /\ {LogSize, EventSize} \subseteq Nat \ {0}

VARIABLES sockets,    \* the request under way on each socket
          hits,       \* the limiter's times of admission by identity
          accessLog,  \* the audit log's last records
          marks,      \* review marks by request id
          probes,     \* the detector's sensitive paths by address, with times
          threats,    \* the detector's last events
          gatewayCalls, gatewayClock,
          admissions, \* history: every admission with the limit it met
          sightings   \* history: every sensitive path that was inspected

gatewayVars == <<sockets, hits, accessLog, marks, probes, threats, gatewayCalls, gatewayClock,
                 admissions, sightings>>

Identities == Peers \cup ApiKeys
ClosedSocket == [stage |-> "closed"]

GatewayInit ==
  /\ sockets = [s \in Sockets |-> ClosedSocket]
  /\ hits = [i \in Identities |-> <<>>]
  /\ accessLog = <<>> /\ marks = <<>>
  /\ probes = [p \in Peers |-> <<>>] /\ threats = <<>>
  /\ gatewayCalls = 0 /\ gatewayClock = 0
  /\ admissions = <<>> /\ sightings = <<>>

\* Mutant of Bounded: a list is grown instead of the deque.
Unbounded(s, n) == s

\* A deque with a maximal length drops its oldest members.
Bounded(s, n) == IF Len(s) <= n THEN s ELSE SubSeq(s, Len(s) - n + 1, Len(s))

-----------------------------------------------------------------------------
(* The guards: a request that they refuse reaches neither log nor limit. *)

PassesJWT(q) == ~ProductionAuth \/ q.path = "public" \/ q.bearer = "access"

PassesKey(q) ==
  \/ ~KeyGate \/ q.path = "public"
  \/ q.key # NoKey /\ KeyQuota[q.key] > 0

\* A preflight is answered by CORS.  A request names its id or gets one.
EnterGateway(s) ==
  /\ sockets[s] = ClosedSocket
  /\ gatewayCalls < MaxCalls /\ gatewayCalls' = gatewayCalls + 1
  /\ \E q \in [peer : Peers, key : ApiKeys \cup {NoKey}, path : PathKinds,
               bearer : Bearers, preflight : BOOLEAN, id : 1..(gatewayCalls + 1)] :
       LET passes == ~q.preflight /\ PassesJWT(q) /\ PassesKey(q)
           gated  == KeyGate /\ q.path = "api"
       IN  sockets' = [sockets EXCEPT ![s] =
             IF ~passes THEN ClosedSocket
             ELSE [stage |-> "admitted", path |-> q.path, id |-> q.id, named |-> gatewayCalls + 1,
                   identity |-> IF gated THEN q.key ELSE q.peer,
                   limit |-> IF gated THEN KeyQuota[q.key] ELSE DefaultLimit]]
  /\ UNCHANGED <<hits, accessLog, marks, probes, threats, gatewayClock, admissions, sightings>>

-----------------------------------------------------------------------------
(* SlidingWindowRateLimiter.allow *)

\* Mutant of InWindow: a hit as old as the window is dropped too.
InWindowShort(t, width) == t + width > gatewayClock

InWindow(t, width) == t + width >= gatewayClock

\* popleft, while the oldest has left the window; s has the given times.
FirstKept(times, width) ==
  CHOOSE n \in 1..Len(times) + 1 :
    /\ \A k \in 1..n - 1 : ~InWindow(times[k], width)
    /\ n \in DOMAIN times => InWindow(times[n], width)
Popleft(s, times, width) == SubSeq(s, FirstKept(times, width), Len(s))

\* Hits that left the window are dropped even when the request is refused.
RateLimit(s) ==
  LET q    == sockets[s]
      kept == Popleft(hits[q.identity], hits[q.identity], RateWindow)
      full == Len(kept) >= q.limit
  IN  /\ q.stage = "admitted"
      /\ IF q.path = "public" THEN UNCHANGED <<hits, admissions>>
         ELSE /\ hits' = [hits EXCEPT ![q.identity] =
                            IF full THEN kept ELSE Append(kept, gatewayClock)]
              /\ admissions' = IF full THEN admissions
                               ELSE Append(admissions, [identity |-> q.identity,
                                                        at |-> gatewayClock, limit |-> q.limit])
      /\ sockets' = [sockets EXCEPT ![s] =
           IF q.path = "api" /\ full
           THEN [stage |-> "answered", id |-> q.named, status |-> 429]
           ELSE [stage |-> "handled", id |-> q.id]]
      /\ UNCHANGED <<accessLog, marks, probes, threats, gatewayCalls, gatewayClock, sightings>>

\* An answer or an exception of the endpoint; the headers and the request id
\* are set on the way back.
Respond(s) ==
  /\ sockets[s].stage = "handled"
  /\ \E status \in {200, 500} :
       sockets' = [sockets EXCEPT ![s] = [stage |-> "answered", id |-> @.id, status |-> status]]
  /\ UNCHANGED <<hits, accessLog, marks, probes, threats, gatewayCalls, gatewayClock, admissions,
                 sightings>>

\* AuditLogMiddleware records in its finally.  A request that was refused
\* before the tracing has no id of its own and is recorded under a new one.
RecordAccess(s) ==
  /\ sockets[s].stage = "answered"
  /\ accessLog' = Bounded(Append(accessLog, [id |-> sockets[s].id, status |-> sockets[s].status]),
                          LogSize)
  /\ sockets' = [sockets EXCEPT ![s] = ClosedSocket]
  /\ UNCHANGED <<hits, marks, probes, threats, gatewayCalls, gatewayClock, admissions, sightings>>

-----------------------------------------------------------------------------
(* AuditReview.mark: for every record of the id, those to come included. *)

ReviewAccess ==
  /\ gatewayCalls < MaxCalls /\ gatewayCalls' = gatewayCalls + 1
  /\ \E k \in DOMAIN accessLog, mark \in Marks :
       marks' = [i \in DOMAIN marks \cup {accessLog[k].id} |->
                   IF i = accessLog[k].id THEN mark ELSE marks[i]]
  /\ UNCHANGED <<sockets, hits, accessLog, probes, threats, gatewayClock, admissions, sightings>>

-----------------------------------------------------------------------------
(* ThreatDetector *)

DistinctMarks(s) == Cardinality({s[k].path : k \in DOMAIN s})

\* inspect_request on a sensitive path.
InspectRequest(p) ==
  /\ gatewayCalls < MaxCalls /\ gatewayCalls' = gatewayCalls + 1
  /\ \E path \in ProbePaths :
       LET seen == [path |-> path, at |-> gatewayClock]
           all  == Append(probes[p], seen)
           kept == Popleft(all, [k \in DOMAIN all |-> all[k].at], ProbeWindow)
           hot  == DistinctMarks(kept) >= ProbeThreshold
       IN  /\ probes' = [probes EXCEPT ![p] = kept]
           /\ threats' = IF hot THEN Bounded(Append(threats, "path_probing"), EventSize) ELSE threats
           /\ sightings' = Append(sightings, [peer |-> p, path |-> path, at |-> gatewayClock,
                                              reported |-> hot])
  /\ UNCHANGED <<sockets, hits, accessLog, marks, gatewayClock, admissions>>

\* Payload, user agent, headers and screened content raise an event at once.
RaiseThreat ==
  /\ gatewayCalls < MaxCalls /\ gatewayCalls' = gatewayCalls + 1
  /\ threats' = Bounded(Append(threats, "single"), EventSize)
  /\ UNCHANGED <<sockets, hits, accessLog, marks, probes, gatewayClock, admissions, sightings>>

GatewayTick ==
  /\ gatewayClock < MaxGatewayClock /\ gatewayClock' = gatewayClock + 1
  /\ UNCHANGED <<sockets, hits, accessLog, marks, probes, threats, gatewayCalls, admissions, sightings>>

GatewayNext ==
  \/ \E s \in Sockets : EnterGateway(s) \/ RateLimit(s) \/ Respond(s) \/ RecordAccess(s)
  \/ \E p \in Peers : InspectRequest(p)
  \/ ReviewAccess \/ RaiseThreat \/ GatewayTick

GatewaySpec == GatewayInit /\ [][GatewayNext]_gatewayVars

-----------------------------------------------------------------------------
(* Properties *)

GatewayTypeOK ==
  /\ \A s \in Sockets : sockets[s].stage \in {"closed", "admitted", "handled", "answered"}
  /\ \A i \in Identities : \A k \in DOMAIN hits[i] : hits[i][k] \in 0..gatewayClock
  /\ Len(accessLog) <= LogSize /\ Len(threats) <= EventSize
  /\ DOMAIN marks \subseteq 1..MaxCalls /\ gatewayCalls \in 0..MaxCalls

\* What the windows promise over any stretch of time, although the deques
\* forget and requests overtake one another: no admission of an identity was
\* the one too many of the closed window that ends with it, and probing was
\* reported exactly when the address had touched enough different sensitive
\* paths within the window.
WindowsHeld ==
  /\ \A n \in DOMAIN admissions :
       LET a == admissions[n]
       IN  Cardinality({k \in 1..n : /\ admissions[k].identity = a.identity
                                     /\ admissions[k].at + RateWindow >= a.at}) <= a.limit
  /\ \A n \in DOMAIN sightings :
       LET e == sightings[n]
       IN  e.reported <=>
             Cardinality({sightings[k].path : k \in {j \in 1..n :
               /\ sightings[j].peer = e.peer
               /\ sightings[j].at + ProbeWindow >= e.at}}) >= ProbeThreshold
=============================================================================
