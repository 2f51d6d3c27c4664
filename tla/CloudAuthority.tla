---------------------------- MODULE CloudAuthority ----------------------------
(***************************************************************************)
(* DJI flight authority of one gateway: the registry of the adapter, the   *)
(* coordinator that asks the pilot for consent, and the remote controller  *)
(* (RC) on the other side of the MQTT broker.                              *)
(*                                                                         *)
(* A service call is a message in the RC's inbox and a reply correlated by *)
(* its transaction id, here the number of the call; the reply races the    *)
(* call's timer.  Events and state frames of the RC arrive in the order in *)
(* which it sends them, and are lost while the adapter is disconnected.    *)
(* The two timers are not ordered: authorityTimeoutMs is configurable.     *)
(***************************************************************************)
EXTENDS Naturals, Sequences

CONSTANTS
  MaxCalls,   \* bound: service calls in a behaviour
  MaxNews     \* bound: events and frames on the way

ASSUME CallsAssumption == MaxCalls \in Nat /\ MaxNews \in Nat

\* isTerminal
Terminal == {"authorized", "denied", "canceled", "released", "timeout"}
Statuses == Terminal \cup {"unknown", "pending"}
Phases   == {"idle", "reply", "outcome"}
Events   == {"ok", "canceled", "failed"}
News     == Events \cup {"flight", "no_flight"}
Messages == [op: {"request", "release"}, call: 1 .. MaxCalls]

VARIABLES
  status,     \* the registry's status
  phase,      \* what the pending requestFlightAuthority awaits
  waiter,     \* waitForTerminal: "none" yet, "waiting", or the status it resolved with
  asking,     \* the service call requestFlightAuthority made last, or 0
  releasing,  \* the service call a pending releaseFlightAuthority awaits, or 0
  calls,      \* service calls so far
  inbox,      \* calls the RC has not handled
  replies,    \* replies on the way: [call, ok]
  popup,      \* the RC shows the consent popup
  granted,    \* the RC has given cloud control to the backend
  news,       \* events and state frames on the way
  lost        \* history: an event or frame was lost

backend == <<status, phase, waiter, asking, releasing, calls>>
rc      == <<popup, granted>>
vars    == <<backend, inbox, replies, rc, news, lost>>

Init ==
  /\ status = "unknown"
  /\ phase = "idle"
  /\ waiter = "none"
  /\ asking = 0
  /\ releasing = 0
  /\ calls = 0
  /\ inbox = <<>>
  /\ replies = {}
  /\ popup = FALSE
  /\ granted \in BOOLEAN
  /\ news = <<>>
  /\ lost = FALSE

-------------------------------------------------------------------------------
(* The registry *)

\* set: subscribers are told; the first terminal status settles the waiter.
Set(s) ==
  /\ status' = s
  /\ waiter' = IF waiter = "waiting" /\ s \in Terminal THEN s ELSE waiter

\* A request that only awaits its outcome ends when the waiter settles.
Continue ==
  phase' = IF phase = "outcome" /\ waiter' # "waiting" THEN "idle" ELSE phase

\* Mutant of AfterFrame: an authorised gateway is exempted as well.
FrameKeeps(flight) ==
  IF flight THEN "authorized"
  ELSE IF status \in {"pending", "authorized"} THEN status ELSE "released"

\* applyState: while the popup is pending, a frame without "flight" is no denial.
AfterFrame(flight) ==
  IF flight THEN "authorized" ELSE IF status = "pending" THEN "pending" ELSE "released"

\* applyEvent
AfterEvent(event) ==
  CASE event = "ok"       -> "authorized"
    [] event = "canceled" -> "canceled"
    [] event = "failed"   -> "denied"

ReceiveNews ==
  /\ news # <<>>
  /\ LET n == Head(news)
     IN  IF n \in Events THEN Set(AfterEvent(n)) ELSE Set(AfterFrame(n = "flight"))
  /\ Continue
  /\ news' = Tail(news)
  /\ UNCHANGED <<asking, releasing, calls, inbox, replies, rc, lost>>

\* Mutant of ConsentTimeout: the reply clears the waiter's timer.
TimerClearedByReply ==
  /\ phase = "reply"
  /\ waiter = "waiting"
  /\ Set("timeout")
  /\ Continue
  /\ UNCHANGED <<asking, releasing, calls, inbox, replies, rc, news, lost>>

\* The waiter's timer: markTimeout.
ConsentTimeout ==
  /\ waiter = "waiting"
  /\ Set("timeout")
  /\ Continue
  /\ UNCHANGED <<asking, releasing, calls, inbox, replies, rc, news, lost>>

-------------------------------------------------------------------------------
(* The coordinator *)

\* requestService: a fresh call number, queued for the RC.
Call(op) ==
  /\ calls < MaxCalls
  /\ calls' = calls + 1
  /\ inbox' = Append(inbox, [op |-> op, call |-> calls'])

\* requestFlightAuthority: a second caller joins the pending operation.
RequestAuthority ==
  /\ phase = "idle"
  /\ status' = "pending"
  /\ waiter' = "waiting"
  /\ Call("request")
  /\ phase' = "reply"
  /\ asking' = calls'
  /\ UNCHANGED <<releasing, replies, rc, news, lost>>

\* The reply accepts the request; it does not replace the consent.
RequestAccepted ==
  /\ phase = "reply"
  /\ \E r \in replies : r.call = asking /\ r.ok /\ replies' = replies \ {r}
  /\ phase' = IF waiter = "waiting" THEN "outcome" ELSE "idle"
  /\ UNCHANGED <<status, waiter, asking, releasing, calls, inbox, rc, news, lost>>

\* The reply refuses the request, whatever the registry has heard since.
RequestRefused ==
  /\ phase = "reply"
  /\ \E r \in replies : r.call = asking /\ ~r.ok /\ replies' = replies \ {r}
  /\ Set("denied")
  /\ phase' = "idle"
  /\ UNCHANGED <<asking, releasing, calls, inbox, rc, news, lost>>

AfterError == IF status = "pending" THEN "denied" ELSE status

\* The service call times out or cannot be published.
RequestFails ==
  /\ phase = "reply"
  /\ Set(AfterError)
  /\ phase' = "idle"
  /\ UNCHANGED <<asking, releasing, calls, inbox, replies, rc, news, lost>>

ReleaseAuthority ==
  /\ releasing = 0
  /\ Call("release")
  /\ releasing' = calls'
  /\ UNCHANGED <<status, phase, waiter, asking, replies, rc, news, lost>>

ReleaseReplied ==
  /\ \E r \in replies :
       /\ r.call = releasing
       /\ replies' = replies \ {r}
       /\ IF r.ok THEN Set("released") ELSE UNCHANGED <<status, waiter>>
  /\ Continue
  /\ releasing' = 0
  /\ UNCHANGED <<asking, calls, inbox, rc, news, lost>>

ReleaseFails ==
  /\ releasing # 0
  /\ releasing' = 0
  /\ UNCHANGED <<status, phase, waiter, asking, calls, inbox, replies, rc, news, lost>>

-------------------------------------------------------------------------------
(* The remote controller and the broker *)

\* A change of the RC's grant is reported by a state frame, after the event.
Report(msgs) ==
  /\ Len(news) + Len(msgs) <= MaxNews
  /\ news' = news \o msgs

Reply(ok) ==
  /\ replies' = replies \cup {[call |-> Head(inbox).call, ok |-> ok]}
  /\ inbox' = Tail(inbox)

ShowPopup ==
  /\ inbox # <<>>
  /\ Head(inbox).op = "request"
  /\ popup' = TRUE
  /\ Reply(TRUE)
  /\ UNCHANGED <<backend, granted, news, lost>>

\* A nonzero result.
RefuseCall ==
  /\ inbox # <<>>
  /\ Reply(FALSE)
  /\ UNCHANGED <<backend, rc, news, lost>>

HandleRelease ==
  /\ inbox # <<>>
  /\ Head(inbox).op = "release"
  /\ granted' = FALSE
  /\ popup' \in {popup, FALSE}
  /\ Reply(TRUE)
  /\ Report(<<"no_flight">>)
  /\ UNCHANGED <<backend, lost>>

\* The pilot answers the popup.
Answer(event) ==
  /\ popup
  /\ popup' = FALSE
  /\ granted' = (granted \/ event = "ok")
  /\ Report(IF event = "ok" THEN <<"ok", "flight">> ELSE <<event>>)
  /\ UNCHANGED <<backend, inbox, replies, lost>>

\* The pilot takes control back on the RC.
TakeBack ==
  /\ granted
  /\ granted' = FALSE
  /\ Report(<<"no_flight">>)
  /\ UNCHANGED <<backend, inbox, replies, popup, lost>>

\* The RC reports its state unasked.
ReportState ==
  /\ Report(IF granted THEN <<"flight">> ELSE <<"no_flight">>)
  /\ UNCHANGED <<backend, inbox, replies, rc, lost>>

\* A reply gets lost, or comes after its call has been given up.
DropReply ==
  /\ \E r \in replies : replies' = replies \ {r}
  /\ UNCHANGED <<backend, inbox, rc, news, lost>>

\* The adapter is disconnected while the RC reports.
DropNews ==
  /\ news # <<>>
  /\ news' = Tail(news)
  /\ lost' = TRUE
  /\ UNCHANGED <<backend, inbox, replies, rc>>

RequestSettles == RequestAccepted \/ RequestRefused \/ RequestFails
Backend == \/ ReceiveNews \/ ConsentTimeout \/ RequestAuthority \/ RequestSettles
           \/ ReleaseAuthority \/ ReleaseReplied \/ ReleaseFails
RC == \/ ShowPopup \/ RefuseCall
      \/ HandleRelease
      \/ \E event \in Events : Answer(event)
      \/ TakeBack
      \/ ReportState
Broker == DropReply \/ DropNews

Next == Backend \/ RC \/ Broker

\* Both timers fire; nothing is assumed of the RC and the broker.
Fairness == WF_vars(RequestSettles) /\ WF_vars(ConsentTimeout)

Spec == Init /\ [][Next]_vars /\ Fairness

-------------------------------------------------------------------------------
(* Properties *)

\* Every variable stays within its declared range.
TypeOK ==
  /\ status \in Statuses
  /\ phase \in Phases
  /\ waiter \in Terminal \cup {"none", "waiting"}
  /\ asking \in 0 .. MaxCalls
  /\ releasing \in 0 .. MaxCalls
  /\ calls \in 0 .. MaxCalls
  /\ inbox \in Seq(Messages)
  /\ replies \subseteq [call: 1 .. MaxCalls, ok: BOOLEAN]
  /\ popup \in BOOLEAN
  /\ granted \in BOOLEAN
  /\ news \in Seq(News)
  /\ lost \in BOOLEAN

\* "pending" is shown exactly while somebody waits for the pilot: no path out of
\* a request leaves the registry pending, and no status change misses the waiter.
PendingIsAwaited ==
  /\ status = "pending" <=> waiter = "waiting"
  /\ waiter = "waiting" => phase # "idle"
  /\ phase = "outcome" => waiter = "waiting"

\* A state frame never turns a pending request down; only the pilot, a timeout, a
\* failed call or a release of the authority does.
FrameIsNoDenial ==
  [][ waiter = "waiting" /\ waiter' = "released" => releasing # releasing' ]_vars

\* The registry believes in an authority the RC has taken back only while the
\* frame that says so is still on its way.
StaleGrantIsCorrected ==
  ~lost /\ status = "authorized" /\ ~granted =>
     \E i \in 1 .. Len(news) : news[i] = "no_flight"

\* Every request for authority ends, whatever the RC and the broker do.
RequestEnds == phase # "idle" ~> phase = "idle"

===============================================================================
