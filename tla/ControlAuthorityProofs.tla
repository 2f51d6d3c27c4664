------------------------ MODULE ControlAuthorityProofs ------------------------
(***************************************************************************)
(* Who may fly, on both control paths.  The pilot's consent over DJI       *)
(* Cloud, for any number of calls and any number of messages on the way:   *)
(* types, who waits for a pending consent, and stale grants.  The MSDK     *)
(* session of hub and agent, for any number of sockets and sessions:       *)
(* types, the local dead-man, and the agreement of the two sides.          *)
(***************************************************************************)
EXTENDS CloudAuthority, MsdkControl, TLAPS

-------------------------------------------------------------------------------
(* The pilot's consent *)

\* The coordinator and the registry agree, and a call is numbered once.
BackendType ==
  /\ status \in Statuses
  /\ phase \in Phases
  /\ waiter \in Terminal \cup {"none", "waiting"}
  /\ asking \in 0 .. MaxCalls
  /\ releasing \in 0 .. MaxCalls
  /\ calls \in 0 .. MaxCalls

\* A status that is set is one of the registry's, and so is what the waiter gets.
LEMMA RegistrySet ==
  ASSUME BackendType, NEW s \in Statuses, Set(s)
  PROVE  status' \in Statuses /\ waiter' \in Terminal \cup {"none", "waiting"}
  BY DEF BackendType, Set, Statuses, Terminal

\* Whatever the RC reports leads to a status of the registry.
LEMMA AfterNewsType ==
  ASSUME BackendType, NEW n \in News
  PROVE  /\ n \in Events => AfterEvent(n) \in Statuses
         /\ AfterFrame(n = "flight") \in Statuses
  BY DEF AfterEvent, AfterFrame, Statuses, Terminal, News, Events

\* The call of a new request gets a number of its own.
LEMMA CallType ==
  ASSUME TypeOK, NEW op \in {"request", "release"}, Call(op)
  PROVE  /\ calls' \in 0 .. MaxCalls
         /\ inbox' \in Seq(Messages)
<1>1. calls' \in 1 .. MaxCalls
  BY CallsAssumption DEF CallsAssumption, TypeOK, Call
<1>2. [op |-> op, call |-> calls'] \in Messages
  BY <1>1 DEF Messages
<1> QED
  BY <1>1, <1>2 DEF Call, TypeOK

\* The RC answers the first call in its inbox.
LEMMA ReplyType ==
  ASSUME TypeOK, inbox # <<>>, NEW ok \in BOOLEAN, Reply(ok)
  PROVE  inbox' \in Seq(Messages) /\ replies' \subseteq [call: 1 .. MaxCalls, ok: BOOLEAN]
<1>1. Head(inbox) \in Messages /\ Tail(inbox) \in Seq(Messages)
  BY DEF TypeOK
<1> QED
  BY <1>1 DEF Reply, Messages, TypeOK

\* State frames are news.
LEMMA FrameType == <<"flight">> \in Seq(News) /\ <<"no_flight">> \in Seq(News)
<1>1. "flight" \in News /\ "no_flight" \in News
  BY DEF News
<1> QED
  BY <1>1

\* What the RC reports is queued behind what is on the way.
LEMMA ReportType ==
  ASSUME TypeOK, NEW msgs \in Seq(News), Report(msgs)
  PROVE  news' \in Seq(News)
  BY DEF Report, TypeOK

\* Every step of backend, RC and broker leaves the variables in range.
LEMMA TypeStep ==
  ASSUME TypeOK, [Next]_vars
  PROVE  TypeOK'
<1> USE DEF backend, rc
<1>1. BackendType
  BY DEF TypeOK, BackendType
<1>2. CASE ReceiveNews
  <2>1. Head(news) \in News /\ Tail(news) \in Seq(News)
    BY <1>2 DEF ReceiveNews, TypeOK
  <2>2. status' \in Statuses /\ waiter' \in Terminal \cup {"none", "waiting"}
    BY <1>1, <1>2, <2>1, AfterNewsType, RegistrySet DEF ReceiveNews
  <2>3. phase' \in Phases
    BY <1>2 DEF ReceiveNews, Continue, TypeOK, Phases
  <2> QED
    BY <1>2, <2>1, <2>2, <2>3 DEF ReceiveNews, TypeOK
<1>3. CASE ConsentTimeout
  BY <1>3 DEF ConsentTimeout, Set, Continue, TypeOK, Statuses, Terminal, Phases
<1>4. CASE RequestAuthority
  <2>1. calls' \in 0 .. MaxCalls /\ inbox' \in Seq(Messages)
    BY <1>4, CallType DEF RequestAuthority
  <2> QED
    BY <1>4, <2>1 DEF RequestAuthority, TypeOK, Statuses, Phases
<1>5. CASE RequestAccepted
  <2>1. replies' \subseteq replies
    BY <1>5 DEF RequestAccepted
  <2> QED
    BY <1>5, <2>1 DEF RequestAccepted, TypeOK, Phases
<1>6. CASE RequestRefused
  <2>1. replies' \subseteq replies
    BY <1>6 DEF RequestRefused
  <2> QED
    BY <1>6, <2>1 DEF RequestRefused, Set, TypeOK, Phases, Statuses, Terminal
<1>7. CASE RequestFails
  BY <1>7 DEF RequestFails, AfterError, Set, TypeOK, Phases, Statuses, Terminal
<1>8. CASE ReleaseAuthority
  <2>1. calls' \in 0 .. MaxCalls /\ inbox' \in Seq(Messages)
    BY <1>8, CallType DEF ReleaseAuthority
  <2> QED
    BY <1>8, <2>1 DEF ReleaseAuthority, TypeOK
<1>9. CASE ReleaseReplied
  <2>1. replies' \subseteq replies
    BY <1>9 DEF ReleaseReplied
  <2>2. status' \in Statuses /\ waiter' \in Terminal \cup {"none", "waiting"}
    BY <1>9 DEF ReleaseReplied, Set, TypeOK, Statuses, Terminal
  <2>3. releasing' \in 0 .. MaxCalls /\ phase' \in Phases
    BY <1>9, CallsAssumption DEF CallsAssumption, ReleaseReplied, Continue, TypeOK, Phases
  <2> QED
    BY <1>9, <2>1, <2>2, <2>3 DEF ReleaseReplied, TypeOK
<1>10. CASE ReleaseFails
  BY <1>10, CallsAssumption DEF CallsAssumption, ReleaseFails, TypeOK
<1>11. CASE ShowPopup
  BY <1>11, ReplyType DEF ShowPopup, TypeOK
<1>12. CASE RefuseCall
  BY <1>12, ReplyType DEF RefuseCall, TypeOK
<1>13. CASE HandleRelease
  <2>1. news' \in Seq(News)
    BY <1>13, FrameType, ReportType DEF HandleRelease
  <2>2. inbox' \in Seq(Messages) /\ replies' \subseteq [call: 1 .. MaxCalls, ok: BOOLEAN]
    BY <1>13, ReplyType DEF HandleRelease
  <2> QED
    BY <1>13, <2>1, <2>2 DEF HandleRelease, TypeOK
<1>14. ASSUME NEW event \in Events, Answer(event) PROVE TypeOK'
  <2>1. <<"ok", "flight">> \in Seq(News) /\ <<event>> \in Seq(News)
    BY DEF News, Events
  <2>2. news' \in Seq(News)
    BY <1>14, <2>1, ReportType DEF Answer
  <2>3. granted' \in BOOLEAN
    BY <1>14, Zenon DEF Answer, TypeOK
  <2> QED
    BY <1>14, <2>2, <2>3 DEF Answer, TypeOK
<1>15. CASE TakeBack
  <2>1. news' \in Seq(News)
    BY <1>15, FrameType, ReportType DEF TakeBack
  <2> QED
    BY <1>15, <2>1 DEF TakeBack, TypeOK
<1>16. CASE ReportState
  <2>1. news' \in Seq(News)
    BY <1>16, FrameType, ReportType DEF ReportState
  <2> QED
    BY <1>16, <2>1 DEF ReportState, TypeOK
<1>17. CASE DropReply
  <2>1. replies' \subseteq replies
    BY <1>17 DEF DropReply
  <2> QED
    BY <1>17, <2>1 DEF DropReply, TypeOK
<1>18. CASE DropNews
  BY <1>18 DEF DropNews, TypeOK
<1>19. CASE UNCHANGED vars
  BY <1>19 DEF vars, TypeOK
<1> QED
  BY <1>2, <1>3, <1>4, <1>5, <1>6, <1>7, <1>8, <1>9, <1>10, <1>11, <1>12, <1>13, <1>14, <1>15,
     <1>16, <1>17, <1>18, <1>19 DEF Next, Backend, RequestSettles, RC, Broker

\* The authority's variables keep their types, however many calls are made.
THEOREM TypeCorrect == Spec => []TypeOK
<1>1. ASSUME Init PROVE TypeOK
  <2>1. inbox \in Seq(Messages) /\ news \in Seq(News)
    BY <1>1 DEF Init
  <2>2. asking \in 0 .. MaxCalls /\ releasing \in 0 .. MaxCalls /\ calls \in 0 .. MaxCalls
    BY <1>1, CallsAssumption DEF CallsAssumption, Init
  <2> QED
    BY <1>1, <2>1, <2>2 DEF Init, TypeOK, Statuses, Phases
<1> QED
  BY <1>1, TypeStep, PTL DEF Spec

-------------------------------------------------------------------------------

\* The settled waiter and the status are written together, so they agree.
LEMMA AwaitedStep ==
  ASSUME TypeOK, PendingIsAwaited, [Next]_vars
  PROVE  PendingIsAwaited'
<1> USE DEF backend, rc, PendingIsAwaited
<1>1. CASE ReceiveNews
  <2>1. PICK s \in Terminal \cup {"pending"} :
          /\ Set(s)
          /\ s = "pending" => status = "pending"
    <3>1. Head(news) \in News
      BY <1>1 DEF ReceiveNews, TypeOK
    <3>2. CASE Head(news) \in Events
      <4>1. AfterEvent(Head(news)) \in Terminal
        BY <3>2 DEF AfterEvent, Events, Terminal
      <4> QED
        BY <1>1, <3>2, <4>1 DEF ReceiveNews, Terminal
    <3>3. CASE Head(news) \notin Events
      <4>1. /\ AfterFrame(Head(news) = "flight") \in Terminal \cup {"pending"}
            /\ AfterFrame(Head(news) = "flight") = "pending" => status = "pending"
        BY DEF AfterFrame, Terminal
      <4> QED
        BY <1>1, <3>3, <4>1 DEF ReceiveNews
    <3> QED
      BY <3>2, <3>3
  <2> QED
    BY <1>1, <2>1 DEF ReceiveNews, Set, Continue, Terminal
<1>2. CASE ConsentTimeout
  BY <1>2 DEF ConsentTimeout, Set, Continue, Terminal
<1>3. CASE RequestAuthority
  BY <1>3 DEF RequestAuthority
<1>4. CASE RequestAccepted
  BY <1>4 DEF RequestAccepted
<1>5. CASE RequestRefused
  BY <1>5 DEF RequestRefused, Set, Terminal
<1>6. CASE RequestFails
  BY <1>6 DEF RequestFails, AfterError, Set, TypeOK, Terminal, Statuses
<1>7. CASE ReleaseReplied
  BY <1>7 DEF ReleaseReplied, Set, Continue, Terminal
<1>8. CASE UNCHANGED <<status, phase, waiter>>
  BY <1>8
<1> QED
  BY <1>1, <1>2, <1>3, <1>4, <1>5, <1>6, <1>7, <1>8
  DEF Next, Backend, RequestSettles, RC, Broker, vars, ReleaseAuthority, ReleaseFails,
      ShowPopup, RefuseCall, HandleRelease, Answer, TakeBack, ReportState, DropReply, DropNews

\* The registry is pending exactly while a request waits for the pilot.
THEOREM PendingAwaited == Spec => []PendingIsAwaited
<1>1. Init => PendingIsAwaited
  BY DEF Init, PendingIsAwaited
<1> QED
  BY <1>1, AwaitedStep, TypeCorrect, PTL DEF Spec

-------------------------------------------------------------------------------

\* What says that the backend has the authority.
Grants == {"ok", "flight"}

\* Of what is on the way, each grant that the RC has taken back is followed by the
\* frame that says so.
GrantsFollowed(msgs) ==
  \A i \in 1 .. Len(msgs) : msgs[i] \in Grants =>
    \E j \in i + 1 .. Len(msgs) : msgs[j] = "no_flight"

Followed == ~lost /\ ~granted => GrantsFollowed(news)

GrantInv == Followed /\ StaleGrantIsCorrected

\* Once the first report has been applied, the others are still followed; if it was
\* a grant that has been taken back, its correction is among them.
LEMMA FollowedTail ==
  ASSUME NEW msgs \in Seq(News), msgs # <<>>, GrantsFollowed(msgs)
  PROVE  /\ GrantsFollowed(Tail(msgs))
         /\ Head(msgs) \in Grants => \E i \in 1 .. Len(Tail(msgs)) : Tail(msgs)[i] = "no_flight"
<1>1. \A i \in 1 .. Len(Tail(msgs)) : Tail(msgs)[i] = msgs[i + 1]
  OBVIOUS
<1>2. Len(Tail(msgs)) = Len(msgs) - 1 /\ Len(msgs) \in Nat
  OBVIOUS
<1>3. \A j \in 2 .. Len(msgs) : j - 1 \in 1 .. Len(Tail(msgs)) /\ Tail(msgs)[j - 1] = msgs[j]
  BY <1>1, <1>2
<1>4. ASSUME NEW i \in 1 .. Len(Tail(msgs)), Tail(msgs)[i] \in Grants
      PROVE  \E j \in i + 1 .. Len(Tail(msgs)) : Tail(msgs)[j] = "no_flight"
  <2>1. i + 1 \in 1 .. Len(msgs) /\ msgs[i + 1] \in Grants
    BY <1>1, <1>2, <1>4
  <2>2. PICK j \in i + 2 .. Len(msgs) : msgs[j] = "no_flight"
    BY <2>1 DEF GrantsFollowed
  <2>3. j - 1 \in i + 1 .. Len(Tail(msgs)) /\ Tail(msgs)[j - 1] = "no_flight"
    BY <1>2, <1>3, <2>2
  <2> QED
    BY <2>3
<1>5. ASSUME Head(msgs) \in Grants
      PROVE  \E i \in 1 .. Len(Tail(msgs)) : Tail(msgs)[i] = "no_flight"
  <2>1. 1 \in 1 .. Len(msgs) /\ msgs[1] \in Grants
    BY <1>2, <1>5
  <2>2. PICK j \in 2 .. Len(msgs) : msgs[j] = "no_flight"
    BY <2>1 DEF GrantsFollowed
  <2> QED
    BY <1>3, <2>2
<1> QED
  BY <1>4, <1>5 DEF GrantsFollowed

\* A report that grants nothing leaves every grant followed; "no_flight" follows all.
LEMMA FollowedReport ==
  ASSUME NEW msgs \in Seq(News), NEW n \in News,
         n = "no_flight" \/ (n \notin Grants /\ GrantsFollowed(msgs))
  PROVE  GrantsFollowed(msgs \o <<n>>)
<1> DEFINE all == msgs \o <<n>>
<1>1. /\ Len(all) = Len(msgs) + 1 /\ Len(msgs) \in Nat
      /\ all[Len(all)] = n
      /\ \A i \in 1 .. Len(msgs) : all[i] = msgs[i]
  OBVIOUS
<1> HIDE DEF all
<1>2. CASE n = "no_flight"
  <2>1. ASSUME NEW i \in 1 .. Len(all), all[i] \in Grants
        PROVE  Len(all) \in i + 1 .. Len(all)
    <3>1. i # Len(all)
      BY <1>1, <1>2, <2>1 DEF Grants
    <3> QED
      BY <1>1, <3>1
  <2> QED
    BY <1>1, <1>2, <2>1 DEF GrantsFollowed, all
<1>3. CASE n \notin Grants /\ GrantsFollowed(msgs)
  <2>1. ASSUME NEW i \in 1 .. Len(all), all[i] \in Grants
        PROVE  \E j \in i + 1 .. Len(all) : all[j] = "no_flight"
    <3>1. i \in 1 .. Len(msgs)
      BY <1>1, <1>3, <2>1
    <3>2. PICK j \in i + 1 .. Len(msgs) : msgs[j] = "no_flight"
      BY <1>1, <1>3, <2>1, <3>1 DEF GrantsFollowed
    <3> QED
      BY <1>1, <3>1, <3>2
  <2> QED
    BY <2>1 DEF GrantsFollowed, all
<1> QED
  BY <1>2, <1>3

\* A "no_flight" on the way stays there when the RC reports more.
LEMMA CorrectionStays ==
  ASSUME NEW msgs \in Seq(News), NEW n \in News,
         \E i \in 1 .. Len(msgs) : msgs[i] = "no_flight"
  PROVE  \E i \in 1 .. Len(msgs \o <<n>>) : (msgs \o <<n>>)[i] = "no_flight"
<1>1. PICK i \in 1 .. Len(msgs) : msgs[i] = "no_flight"
  OBVIOUS
<1>2. i \in 1 .. Len(msgs \o <<n>>) /\ (msgs \o <<n>>)[i] = "no_flight"
  BY <1>1
<1> QED
  BY <1>2

\* A report of an RC that has not given the authority.
LEMMA ReportKeepsGrants ==
  ASSUME TypeOK, GrantInv, NEW n \in News \ Grants, Report(<<n>>), UNCHANGED <<status, lost>>,
         granted' => granted,
         granted /\ ~granted' => n = "no_flight"
  PROVE  GrantInv'
<1> SUFFICES ASSUME ~lost', ~granted'
             PROVE  /\ GrantsFollowed(news')
                    /\ status' = "authorized" => \E i \in 1 .. Len(news') : news'[i] = "no_flight"
  BY DEF GrantInv, Followed, StaleGrantIsCorrected, GrantsFollowed
<1>1. news \in Seq(News) /\ news' = news \o <<n>>
  BY DEF TypeOK, Report
<1>2. CASE n = "no_flight"
  <2>1. Len(news') \in 1 .. Len(news') /\ news'[Len(news')] = "no_flight"
    BY <1>1, <1>2
  <2>2. GrantsFollowed(news')
    BY <1>1, <1>2, FollowedReport
  <2> QED
    BY <2>1, <2>2
<1>3. CASE n # "no_flight"
  <2>1. ~granted /\ ~lost
    BY <1>3
  <2>2. GrantsFollowed(news')
    BY <1>1, <2>1, FollowedReport DEF GrantInv, Followed
  <2>3. ASSUME status' = "authorized"
        PROVE  \E i \in 1 .. Len(news') : news'[i] = "no_flight"
    BY <1>1, <2>1, <2>3, CorrectionStays DEF GrantInv, StaleGrantIsCorrected
  <2> QED
    BY <2>2, <2>3
<1> QED
  BY <1>2, <1>3

\* The registry and the RC drift apart only by what is on the way.
LEMMA GrantStep ==
  ASSUME TypeOK, GrantInv, [Next]_vars
  PROVE  GrantInv'
<1> USE DEF backend, rc
<1>1. CASE ReceiveNews
  <2>1. news \in Seq(News) /\ news # <<>> /\ news' = Tail(news) /\ UNCHANGED <<granted, lost>>
    BY <1>1 DEF ReceiveNews, TypeOK
  <2>2. status' = "authorized" => Head(news) \in Grants
    <3>1. Head(news) \in News
      BY <2>1
    <3> QED
      BY <1>1, <3>1 DEF ReceiveNews, Set, AfterEvent, AfterFrame, Events, News, Grants
  <2> SUFFICES ASSUME ~lost, ~granted
               PROVE  /\ GrantsFollowed(news')
                      /\ status' = "authorized" =>
                           \E j \in 1 .. Len(news') : news'[j] = "no_flight"
    BY <2>1 DEF GrantInv, Followed, StaleGrantIsCorrected, GrantsFollowed
  <2> QED
    BY <2>1, <2>2, FollowedTail DEF GrantInv, Followed
<1>2. CASE UNCHANGED <<granted, news, lost>> /\ (status' = "authorized" => status = "authorized")
  BY <1>2 DEF GrantInv, Followed, StaleGrantIsCorrected, GrantsFollowed
<1>3. CASE ConsentTimeout \/ RequestAuthority \/ RequestSettles \/ ReleaseAuthority
             \/ ReleaseReplied \/ ReleaseFails
  <2>1. UNCHANGED <<granted, news, lost>>
    BY <1>3 DEF ConsentTimeout, RequestAuthority, RequestSettles, RequestAccepted, RequestRefused,
                RequestFails, ReleaseAuthority, ReleaseReplied, ReleaseFails
  <2>2. status' = "authorized" => status = "authorized"
    BY <1>3 DEF ConsentTimeout, RequestAuthority, RequestSettles, RequestAccepted, RequestRefused,
                RequestFails, ReleaseAuthority, ReleaseReplied, ReleaseFails, Set, AfterError
  <2> QED
    BY <1>2, <2>1, <2>2
<1>4. CASE ShowPopup \/ RefuseCall \/ DropReply \/ UNCHANGED vars
  BY <1>2, <1>4 DEF ShowPopup, RefuseCall, DropReply, vars
<1>5. CASE HandleRelease \/ TakeBack
  BY <1>5, ReportKeepsGrants DEF HandleRelease, TakeBack, Grants, News
<1>6. ASSUME NEW event \in Events, Answer(event)
      PROVE  GrantInv'
  <2>1. CASE event = "ok"
    <3>1. granted'
      BY <1>6, <2>1 DEF Answer
    <3> QED
      BY <3>1 DEF GrantInv, Followed, StaleGrantIsCorrected
  <2>2. CASE event # "ok"
    <3>1. event \in News \ Grants
      BY <2>2 DEF Events, News, Grants
    <3>2. Report(<<event>>) /\ UNCHANGED <<status, lost>>
      BY <1>6, <2>2 DEF Answer
    <3>3. granted' <=> granted
      BY <1>6, <2>2 DEF Answer
    <3> QED
      BY <3>1, <3>2, <3>3, ReportKeepsGrants
  <2> QED
    BY <2>1, <2>2
<1>7. CASE ReportState
  <2>1. CASE granted
    BY <1>7, <2>1 DEF ReportState, GrantInv, Followed, StaleGrantIsCorrected
  <2>2. CASE ~granted
    BY <1>7, <2>2, ReportKeepsGrants DEF ReportState, Grants, News
  <2> QED
    BY <2>1, <2>2
<1>8. CASE DropNews
  BY <1>8 DEF DropNews, GrantInv, Followed, StaleGrantIsCorrected
<1> QED
  BY <1>1, <1>3, <1>4, <1>5, <1>6, <1>7, <1>8 DEF Next, Backend, RC, Broker

\* Unless the adapter was disconnected, an authority that was taken back is believed in
\* only until the frame on its way arrives.
THEOREM StaleGrantCorrected == Spec => []StaleGrantIsCorrected
<1>1. Init => GrantInv
  BY DEF Init, GrantInv, Followed, GrantsFollowed, StaleGrantIsCorrected
<1>2. GrantInv => StaleGrantIsCorrected
  BY DEF GrantInv
<1> QED
  BY <1>1, <1>2, GrantStep, TypeCorrect, PTL DEF Spec

\* A state frame sent before the pilot answered is not taken for the answer: the waiter
\* hears of a release only in the step that settles one.
THEOREM FrameIsNoAnswer == Spec => FrameIsNoDenial
<1>1. ASSUME TypeOK, PendingIsAwaited, [Next]_vars, waiter = "waiting", waiter' = "released"
      PROVE  releasing # releasing'
  <2> USE DEF backend, rc
  <2>1. status = "pending"
    BY <1>1 DEF PendingIsAwaited
  <2>2. CASE ReceiveNews
    <3>1. Head(news) \in News
      BY <1>1, <2>2 DEF ReceiveNews, TypeOK
    <3> QED
      BY <1>1, <2>1, <2>2, <3>1 DEF ReceiveNews, Set, AfterEvent, AfterFrame, Events, News
  <2>3. CASE ReleaseReplied
    BY <1>1, <2>3 DEF ReleaseReplied, TypeOK
  <2>4. CASE ConsentTimeout \/ RequestAuthority \/ RequestSettles \/ ReleaseAuthority \/ ReleaseFails
    BY <1>1, <2>1, <2>4 DEF ConsentTimeout, RequestAuthority, RequestSettles, RequestAccepted,
         RequestRefused, RequestFails, ReleaseAuthority, ReleaseFails, Set, AfterError
  <2>5. UNCHANGED waiter \/ Backend
    BY <1>1 DEF Next, RC, Broker, ShowPopup, RefuseCall, HandleRelease, Answer, TakeBack,
         ReportState, DropReply, DropNews, vars
  <2> QED
    BY <1>1, <2>2, <2>3, <2>4, <2>5 DEF Backend
<1>2. TypeOK /\ PendingIsAwaited /\ [Next]_vars
        => (waiter = "waiting" /\ waiter' = "released" => releasing # releasing')
  BY <1>1
<1>3. TypeOK /\ PendingIsAwaited /\ [Next]_vars
        => [waiter = "waiting" /\ waiter' = "released" => releasing # releasing']_vars
  BY <1>2
<1> QED
  BY <1>3, TypeCorrect, PendingAwaited, PTL DEF Spec, FrameIsNoDenial

-------------------------------------------------------------------------------
(* The MSDK control path: its types *)

\* 0 stands for no session.
SessionNumbers == 0 .. MaxSessions

HubTypes   == {"neutral", "session_stop", "session_start", "stick"}
AgentTypes == {"session_ready", "session_rejected", "session_stopped"}
Posted     == {"enable", "accept", "neutralise"}

HubMessages   == [type: HubTypes, sid: SessionNumbers]
AgentMessages == [type: AgentTypes, sid: SessionNumbers]

\* What a reader thread is about to do, what is posted to the main thread, and what
\* the SDK is asked for.
ReaderJobs == {Idle} \cup [do: HubTypes \cup Posted \cup {"admit"}, sid: SessionNumbers]
Runnables  == {Stop} \cup [do: Posted, sid: SessionNumbers]
Requests   == {Disable} \cup [do: {"enable"}, sid: SessionNumbers]

LinkTypes ==
  /\ limit \in Limits
  /\ server \in [Sockets -> {"none", "open", "closing", "closed"}]
  /\ socket \in 0 .. MaxSockets
  /\ made \in 0 .. MaxSockets
  /\ down \in [Sockets -> Seq(HubMessages)]
  /\ up \in [Sockets -> Seq(AgentMessages)]

HubTypesOK ==
  /\ peer \in 0 .. MaxSockets
  /\ session \in [id: SessionNumbers, state: {"starting", "active", "closed"}]
  /\ opened \in [Sessions -> 0 .. MaxSockets]

AgentTypesOK ==
  /\ sid \in SessionNumbers
  /\ armed \in BOOLEAN
  /\ reader \in [Sockets -> ReaderJobs]
  /\ main \in Seq(Runnables)
  /\ sdk \in Seq(Requests)
  /\ polling \subseteq SessionNumbers
  /\ passed \in SessionNumbers
  /\ running \in SessionNumbers
  /\ silence \in 0 .. 2
  /\ stick \in SessionNumbers
  /\ virtual \in BOOLEAN
  /\ announced \subseteq SessionNumbers

MsdkTypeOK == LinkTypes /\ HubTypesOK /\ AgentTypesOK

\* Nothing that is sent to the hub is out of range.
LEMMA UpAfterType ==
  ASSUME LinkTypes, NEW type \in AgentTypes, NEW x \in SessionNumbers
  PROVE  UpAfter(type, x) \in [Sockets -> Seq(AgentMessages)]
<1>1. [type |-> type, sid |-> x] \in AgentMessages
  BY DEF AgentMessages
<1>2. CASE socket # 0 /\ server[socket] \in {"open", "closing"}
  <2>1. socket \in Sockets
    BY <1>2, LinkAssumption DEF LinkAssumption, LinkTypes, Sockets
  <2>2. Append(up[socket], [type |-> type, sid |-> x]) \in Seq(AgentMessages)
    BY <1>1, <2>1 DEF LinkTypes
  <2> QED
    BY <1>2, <2>1, <2>2 DEF UpAfter, LinkTypes
<1> QED
  BY <1>2 DEF UpAfter, LinkTypes

\* Stopping the control session posts a stop and tells the hub at most once.
LEMMA FailClosedType ==
  ASSUME LinkTypes, sid \in SessionNumbers, NEW notify \in BOOLEAN,
         NEW queue \in Seq(Runnables), FailClosed(queue, notify)
  PROVE  /\ main' \in Seq(Runnables)
         /\ up' \in [Sockets -> Seq(AgentMessages)]
         /\ sid' \in SessionNumbers
<1>1. UpAfter("session_stopped", sid) \in [Sockets -> Seq(AgentMessages)]
  BY UpAfterType DEF AgentTypes
<1>2. up' \in [Sockets -> Seq(AgentMessages)]
  BY <1>1 DEF FailClosed, Farewell, LinkTypes
<1>3. sid' \in SessionNumbers
  BY LinkAssumption DEF LinkAssumption, FailClosed, SessionNumbers
<1>4. Stop \in Runnables
  BY DEF Runnables
<1>5. main' \in Seq(Runnables)
  BY <1>4 DEF FailClosed, Stopping
<1> QED
  BY <1>2, <1>3, <1>5

\* Likewise for a rejection.
LEMMA RejectAndClearType ==
  ASSUME LinkTypes, AgentTypesOK, NEW x \in SessionNumbers, RejectAndClear(x)
  PROVE  /\ main' \in Seq(Runnables)
         /\ up' \in [Sockets -> Seq(AgentMessages)]
         /\ sid' \in SessionNumbers
<1>1. up' \in [Sockets -> Seq(AgentMessages)]
  BY UpAfterType DEF AgentTypes, RejectAndClear
<1>2. sid' \in SessionNumbers
  BY LinkAssumption DEF LinkAssumption, RejectAndClear, SessionNumbers
<1>3. Stop \in Runnables
  BY DEF Runnables
<1>4. main' \in Seq(Runnables)
  BY <1>3 DEF RejectAndClear, Stopping, AgentTypesOK
<1> QED
  BY <1>1, <1>2, <1>4

\* Closing the session keeps its number and queues at most two signals.
LEMMA CloseSessionType ==
  ASSUME LinkTypes, HubTypesOK, CloseSession
  PROVE  /\ down' \in [Sockets -> Seq(HubMessages)]
         /\ session' \in [id: SessionNumbers, state: {"starting", "active", "closed"}]
<1>1. Signals \in Seq(HubMessages)
  <2>1. /\ [type |-> "neutral", sid |-> session.id] \in HubMessages
        /\ [type |-> "session_stop", sid |-> session.id] \in HubMessages
    BY DEF HubTypesOK, HubMessages, HubTypes
  <2> QED
    BY <2>1 DEF Signals
<1>2. down' \in [Sockets -> Seq(HubMessages)]
  <2>1. ASSUME NEW s \in Sockets PROVE down[s] \o Signals \in Seq(HubMessages)
    BY <1>1 DEF LinkTypes
  <2> QED
    BY <2>1 DEF CloseSession, LinkTypes
<1>3. session' \in [id: SessionNumbers, state: {"starting", "active", "closed"}]
  BY DEF CloseSession, HubTypesOK
<1> QED
  BY <1>2, <1>3

\* The number of the next session.
LEMMA NextSession ==
  ASSUME LinkTypes, HubTypesOK, session.id < limit.sessions
  PROVE  session.id + 1 \in Sessions /\ session.id + 1 \in SessionNumbers
<1>1. limit.sessions \in 1 .. MaxSessions /\ MaxSessions \in Nat /\ session.id \in Nat
  BY LinkAssumption DEF LinkAssumption, LinkTypes, HubTypesOK, SessionNumbers
<1> QED
  BY <1>1 DEF Sessions, SessionNumbers

\* The hub's steps.
LEMMA HubTypeStep ==
  ASSUME MsdkTypeOK, HubStep, UNCHANGED <<agentVars, limit>>
  PROVE  MsdkTypeOK'
<1> USE DEF hubVars, agentVars
<1>a. LinkTypes /\ HubTypesOK /\ AgentTypesOK
  BY DEF MsdkTypeOK
<1>b. AgentTypesOK'
  BY <1>a DEF AgentTypesOK
<1>c. 0 \in 0 .. MaxSockets /\ Sockets \subseteq 0 .. MaxSockets
  BY LinkAssumption DEF LinkAssumption, Sockets
<1>1. ASSUME NEW s \in Sockets, RegisterPeer(s) PROVE MsdkTypeOK'
  <2>1. down' \in [Sockets -> Seq(HubMessages)]
        /\ session' \in [id: SessionNumbers, state: {"starting", "active", "closed"}]
    BY <1>a, <1>1, CloseSessionType DEF RegisterPeer, Replace, LinkTypes, HubTypesOK
  <2>2. server' \in [Sockets -> {"none", "open", "closing", "closed"}]
    BY <1>a, <1>1 DEF RegisterPeer, Replace, LinkTypes
  <2> QED
    BY <1>a, <1>b, <1>c, <1>1, <2>1, <2>2 DEF RegisterPeer, MsdkTypeOK, LinkTypes, HubTypesOK
<1>2. ASSUME NEW s \in Sockets, UnregisterPeer(s) PROVE MsdkTypeOK'
  <2>1. up' \in [Sockets -> Seq(AgentMessages)]
    BY <1>a, <1>2 DEF UnregisterPeer, LinkTypes
  <2>2. HubTypesOK'
    BY <1>a, <1>c, <1>2 DEF UnregisterPeer, HubTypesOK
  <2> QED
    BY <1>a, <1>b, <1>2, <2>1, <2>2 DEF UnregisterPeer, MsdkTypeOK, LinkTypes
<1>3. ASSUME NEW s \in Sockets, HandleAgentMessage(s) PROVE MsdkTypeOK'
  <2>1. up' \in [Sockets -> Seq(AgentMessages)]
    BY <1>a, <1>3 DEF HandleAgentMessage, LinkTypes
  <2>2. down' \in [Sockets -> Seq(HubMessages)]
        /\ session' \in [id: SessionNumbers, state: {"starting", "active", "closed"}]
    BY <1>a, <1>3, CloseSessionType
       DEF HandleAgentMessage, Ready, Rejected, Stopped, LinkTypes, HubTypesOK
  <2> QED
    BY <1>a, <1>b, <1>3, <2>1, <2>2 DEF HandleAgentMessage, MsdkTypeOK, LinkTypes, HubTypesOK
<1>4. CASE DropPeer
  <2>1. down' \in [Sockets -> Seq(HubMessages)]
        /\ session' \in [id: SessionNumbers, state: {"starting", "active", "closed"}]
    BY <1>a, <1>4, CloseSessionType DEF DropPeer
  <2> QED
    BY <1>a, <1>b, <1>c, <1>4, <2>1 DEF DropPeer, MsdkTypeOK, LinkTypes, HubTypesOK
<1>5. CASE OpenSession
  <2>1. session.id + 1 \in SessionNumbers
    BY <1>a, <1>5, NextSession DEF OpenSession
  <2>2. session' \in [id: SessionNumbers, state: {"starting", "active", "closed"}]
    BY <1>5, <2>1 DEF OpenSession
  <2>3. [type |-> "session_start", sid |-> session'.id] \in HubMessages
    BY <1>5, <2>1 DEF OpenSession, HubMessages, HubTypes
  <2>4. peer \in Sockets
    BY <1>a, <1>5, LinkAssumption DEF LinkAssumption, OpenSession, HubTypesOK, Sockets
  <2>5. Append(down[peer], [type |-> "session_start", sid |-> session'.id]) \in Seq(HubMessages)
    BY <1>a, <2>3, <2>4 DEF LinkTypes
  <2>6. down' \in [Sockets -> Seq(HubMessages)]
    BY <1>a, <1>5, <2>4, <2>5 DEF OpenSession, LinkTypes
  <2> QED
    BY <1>a, <1>b, <1>5, <2>2, <2>4, <2>6 DEF OpenSession, MsdkTypeOK, LinkTypes, HubTypesOK
<1>6. CASE SendStick
  <2>1. [type |-> "stick", sid |-> session.id] \in HubMessages
    BY <1>a DEF HubTypesOK, HubMessages, HubTypes
  <2>2. peer \in Sockets
    BY <1>a, <1>6, LinkAssumption DEF LinkAssumption, SendStick, CanSend, HubTypesOK, Sockets
  <2>3. Append(down[peer], [type |-> "stick", sid |-> session.id]) \in Seq(HubMessages)
    BY <1>a, <2>1, <2>2 DEF LinkTypes
  <2>4. down' \in [Sockets -> Seq(HubMessages)]
    BY <1>a, <1>6, <2>2, <2>3 DEF SendStick, LinkTypes
  <2> QED
    BY <1>a, <1>b, <1>6, <2>4 DEF SendStick, MsdkTypeOK, LinkTypes, HubTypesOK
<1>7. CASE EndSession
  BY <1>a, <1>b, <1>7, CloseSessionType DEF EndSession, MsdkTypeOK, LinkTypes, HubTypesOK
<1> QED
  BY <1>1, <1>2, <1>3, <1>4, <1>5, <1>6, <1>7 DEF HubStep


\* The readers' steps.
LEMMA ReaderTypeStep ==
  ASSUME MsdkTypeOK, NEW s \in Sockets, Receive(s) \/ Handle(s) \/ PostToMain(s),
         UNCHANGED <<hubVars, limit>>
  PROVE  MsdkTypeOK'
<1> USE DEF hubVars, linkVars
<1>a. LinkTypes /\ HubTypesOK /\ AgentTypesOK
  BY DEF MsdkTypeOK
<1>b. HubTypesOK'
  BY <1>a DEF HubTypesOK
<1>c. Idle \in ReaderJobs
  BY DEF ReaderJobs
<1>1. CASE Receive(s)
  <2>1. Head(down[s]) \in HubMessages /\ Tail(down[s]) \in Seq(HubMessages)
    BY <1>a, <1>1 DEF Receive, LinkTypes
  <2>2. Do(Head(down[s]).type, Head(down[s]).sid) \in ReaderJobs
    BY <2>1 DEF Do, HubMessages, ReaderJobs
  <2>3. reader' \in [Sockets -> ReaderJobs]
    BY <1>a, <1>c, <1>1, <2>2 DEF Receive, AgentTypesOK
  <2> QED
    BY <1>a, <1>b, <1>1, <2>1, <2>3 DEF Receive, MsdkTypeOK, LinkTypes, AgentTypesOK
<1>2. CASE Handle(s)
  <2> DEFINE x == reader[s].sid
  <2>1. reader[s] # Idle
    BY <1>2 DEF Handle, Idle
  <2>2. x \in SessionNumbers
    BY <1>a, <2>1 DEF AgentTypesOK, ReaderJobs
  <2>3. \A what \in Posted :
          Do(what, x) \in ReaderJobs
    BY <2>2 DEF Do, ReaderJobs
  <2> HIDE DEF x
  <2>4. /\ sid' \in SessionNumbers
        /\ up' \in [Sockets -> Seq(AgentMessages)]
        /\ main' \in Seq(Runnables)
        /\ reader' \in [Sockets -> ReaderJobs]
    <3>1. CASE HandleStart(s, x)
      <4>1. UpAfter("session_rejected", x) \in [Sockets -> Seq(AgentMessages)]
        BY <1>a, <2>2, UpAfterType DEF AgentTypes
      <4>2. Do("admit", x) \in ReaderJobs
        BY <2>2 DEF Do, ReaderJobs
      <4>3. reader' \in [Sockets -> ReaderJobs]
        BY <1>a, <1>c, <3>1, <4>2 DEF HandleStart, ThenPost, AgentTypesOK
      <4> QED
        BY <1>a, <3>1, <4>1, <4>3 DEF HandleStart, ThenPost, LinkTypes, AgentTypesOK
    <3>2. CASE HandleStick(s, x)
      BY <1>a, <1>c, <2>3, <3>2, FailClosedType
         DEF HandleStick, ThenPost, LinkTypes, AgentTypesOK, Posted
    <3>3. CASE HandleNeutral(s, x)
      BY <1>a, <1>c, <2>3, <3>3 DEF HandleNeutral, ThenPost, LinkTypes, AgentTypesOK, Posted
    <3>4. CASE HandleStop(s, x)
      BY <1>a, <1>c, <2>3, <3>4, FailClosedType DEF HandleStop, ThenPost, LinkTypes, AgentTypesOK
    <3>5. CASE Admit(s, x)
      <4>1. Do("enable", x) \in ReaderJobs
        BY <2>3 DEF Posted
      <4> QED
        BY <1>a, <2>2, <3>5, <4>1 DEF Admit, ThenPost, LinkTypes, AgentTypesOK
    <3> QED
      BY <1>2, <3>1, <3>2, <3>3, <3>4, <3>5 DEF Handle, x
  <2> QED
    BY <1>a, <1>b, <1>2, <2>4 DEF Handle, MsdkTypeOK, LinkTypes, AgentTypesOK
<1>3. CASE PostToMain(s)
  <2>1. reader[s] \in Runnables
    <3>1. reader[s] # Idle
      BY <1>3 DEF PostToMain, Idle
    <3> QED
      BY <1>a, <1>3, <3>1 DEF PostToMain, AgentTypesOK, Posted, ReaderJobs, Runnables
  <2> QED
    BY <1>a, <1>b, <1>c, <1>3, <2>1 DEF PostToMain, MsdkTypeOK, LinkTypes, AgentTypesOK
<1> QED
  BY <1>1, <1>2, <1>3

\* The main thread and the dead-man.
LEMMA MainTypeStep ==
  ASSUME MsdkTypeOK, RunMain \/ RunWatchdog \/ Elapse, UNCHANGED <<hubVars, limit>>
  PROVE  MsdkTypeOK'
<1> USE DEF hubVars, linkVars
<1>a. LinkTypes /\ HubTypesOK /\ AgentTypesOK
  BY DEF MsdkTypeOK
<1>b. HubTypesOK'
  BY <1>a DEF HubTypesOK
<1>c. 0 \in SessionNumbers
  BY LinkAssumption DEF LinkAssumption, SessionNumbers
<1>d. Disabling \in Seq(Requests)
  <2>1. Disable \in Requests
    BY DEF Requests
  <2> QED
    BY <1>a, <2>1 DEF Disabling, AgentTypesOK
<1>1. CASE RunMain
  <2>1. Head(main) \in Runnables /\ Tail(main) \in Seq(Runnables)
    BY <1>a, <1>1 DEF RunMain, AgentTypesOK
  <2>2. CASE RunStop
    BY <1>a, <1>b, <1>c, <1>d, <1>1, <2>1, <2>2
       DEF RunMain, RunStop, MsdkTypeOK, LinkTypes, AgentTypesOK
  <2>3. CASE RunEnable
    <3>1. Head(main) \in Requests
      BY <2>1, <2>3 DEF RunEnable, Runnables, Requests, Stop
    <3>2. Append(sdk, Head(main)) \in Seq(Requests)
      BY <1>a, <3>1 DEF AgentTypesOK
    <3> QED
      BY <1>a, <1>b, <1>1, <2>1, <2>3, <3>2
         DEF RunMain, RunEnable, MsdkTypeOK, LinkTypes, AgentTypesOK
  <2>4. CASE RunNeutral
    BY <1>a, <1>b, <1>c, <1>1, <2>1, <2>4
       DEF RunMain, RunNeutral, MsdkTypeOK, LinkTypes, AgentTypesOK
  <2>5. CASE RunAccept
    <3>1. Head(main).sid \in SessionNumbers
      BY <2>1, <2>5 DEF RunAccept, Runnables, Stop
    <3>2. stick' \in SessionNumbers /\ silence' \in 0 .. 2
      <4>1. stick' \in {stick, Head(main).sid} /\ silence' \in {silence, 0}
        BY <2>5, Zenon DEF RunAccept
      <4> QED
        BY <1>a, <3>1, <4>1 DEF AgentTypesOK
    <3>3. FailClosed(Tail(main), TRUE)
            => /\ main' \in Seq(Runnables)
               /\ up' \in [Sockets -> Seq(AgentMessages)]
               /\ sid' \in SessionNumbers
      BY <1>a, <2>1, FailClosedType DEF AgentTypesOK
    <3>4. /\ main' \in Seq(Runnables) /\ up' \in [Sockets -> Seq(AgentMessages)]
          /\ sid' \in SessionNumbers
      BY <1>a, <2>1, <2>5, <3>3 DEF RunAccept, LinkTypes, AgentTypesOK
    <3> QED
      BY <1>a, <1>b, <1>1, <2>5, <3>2, <3>4 DEF RunMain, RunAccept, MsdkTypeOK, LinkTypes, AgentTypesOK
  <2> QED
    BY <1>1, <2>2, <2>3, <2>4, <2>5 DEF RunMain
<1>2. CASE RunWatchdog
  <2>1. /\ main' \in Seq(Runnables) /\ up' \in [Sockets -> Seq(AgentMessages)]
        /\ sid' \in SessionNumbers /\ sdk' \in Seq(Requests)
        /\ running' \in SessionNumbers /\ stick' \in SessionNumbers
    BY <1>a, <1>c, <1>d, <1>2, FailClosedType
       DEF RunWatchdog, Watchdog, LinkTypes, AgentTypesOK
  <2> QED
    BY <1>a, <1>b, <1>2, <2>1 DEF RunWatchdog, MsdkTypeOK, LinkTypes, AgentTypesOK
<1>3. CASE Elapse
  BY <1>a, <1>b, <1>3 DEF Elapse, MsdkTypeOK, LinkTypes, AgentTypesOK
<1> QED
  BY <1>1, <1>2, <1>3

\* The SDK, its callbacks and the wait for the authority.
LEMMA SdkTypeStep ==
  ASSUME MsdkTypeOK, SdkStep \/ AuthorityLost \/ (\E x \in Sessions : Poll(x)) \/ Start,
         UNCHANGED <<hubVars, limit>>
  PROVE  MsdkTypeOK'
<1> USE DEF hubVars, linkVars
<1>a. LinkTypes /\ HubTypesOK /\ AgentTypesOK
  BY DEF MsdkTypeOK
<1>b. HubTypesOK'
  BY <1>a DEF HubTypesOK
<1>c. 0 \in SessionNumbers /\ Sessions \subseteq SessionNumbers
  BY LinkAssumption DEF LinkAssumption, SessionNumbers, Sessions
<1>1. CASE SdkStep
  <2>1. /\ Head(sdk) \in Requests
        /\ Tail(sdk) \in Seq(Requests)
    BY <1>a, <1>1 DEF SdkStep, AgentTypesOK
  <2>2. Head(sdk).do = "enable" => Head(sdk).sid \in SessionNumbers
    BY <2>1 DEF Disable, Requests
  <2>3. /\ main' \in Seq(Runnables)
        /\ up' \in [Sockets -> Seq(AgentMessages)]
        /\ sid' \in SessionNumbers /\ polling' \subseteq SessionNumbers
    BY <1>a, <1>1, <2>2, RejectAndClearType
       DEF SdkStep, SdkDisables, SdkEnables, EnableFails, LinkTypes, AgentTypesOK
  <2>4. virtual' \in BOOLEAN
    BY <1>a, <1>1 DEF SdkStep, SdkDisables, SdkEnables, EnableFails, AgentTypesOK
  <2> QED
    BY <1>a, <1>b, <1>1, <2>1, <2>3, <2>4 DEF SdkStep, MsdkTypeOK, LinkTypes, AgentTypesOK
<1>2. CASE AuthorityLost
  BY <1>a, <1>b, <1>2 DEF AuthorityLost, MsdkTypeOK, LinkTypes, AgentTypesOK
<1>3. ASSUME NEW x \in Sessions, Poll(x) PROVE MsdkTypeOK'
  <2>1. /\ main' \in Seq(Runnables)
        /\ up' \in [Sockets -> Seq(AgentMessages)]
        /\ sid' \in SessionNumbers /\ passed' \in SessionNumbers
    BY <1>a, <1>c, <1>3, RejectAndClearType DEF Poll, LinkTypes, AgentTypesOK
  <2> QED
    BY <1>a, <1>b, <1>3, <2>1 DEF Poll, MsdkTypeOK, LinkTypes, AgentTypesOK
<1>4. CASE Start
  <2>1. UpAfter("session_ready", passed) \in [Sockets -> Seq(AgentMessages)]
    BY <1>a, UpAfterType DEF AgentTypes, AgentTypesOK
  <2>2. /\ main' \in Seq(Runnables)
        /\ up' \in [Sockets -> Seq(AgentMessages)]
        /\ sid' \in SessionNumbers /\ running' \in SessionNumbers
        /\ silence' \in 0 .. 2 /\ announced' \subseteq SessionNumbers
    BY <1>a, <1>4, <2>1, RejectAndClearType DEF Start, AgentTypesOK
  <2> QED
    BY <1>a, <1>b, <1>c, <1>4, <2>2 DEF Start, MsdkTypeOK, LinkTypes, AgentTypesOK
<1> QED
  BY <1>1, <1>2, <1>3, <1>4

\* Connecting, disconnecting and arming.
LEMMA ConnectionTypeStep ==
  ASSUME MsdkTypeOK, Connect \/ Disconnect \/ SocketLost \/ Disarm \/ Arm,
         UNCHANGED <<hubVars, limit>>
  PROVE  MsdkTypeOK'
<1> USE DEF hubVars, linkVars
<1>a. LinkTypes /\ HubTypesOK /\ AgentTypesOK
  BY DEF MsdkTypeOK
<1>b. HubTypesOK'
  BY <1>a DEF HubTypesOK
<1>c. limit.sockets \in 1 .. MaxSockets /\ MaxSockets \in Nat
  BY <1>a, LinkAssumption DEF LinkAssumption, LinkTypes
<1>1. CASE Arm
  BY <1>a, <1>b, <1>1 DEF Arm, MsdkTypeOK, LinkTypes, AgentTypesOK
<1>2. FailClosed(main, TRUE) \/ FailClosed(main, FALSE)
        => /\ main' \in Seq(Runnables)
           /\ up' \in [Sockets -> Seq(AgentMessages)]
           /\ sid' \in SessionNumbers
  BY <1>a, FailClosedType DEF AgentTypesOK
<1>3. CASE Connect
  BY <1>a, <1>b, <1>c, <1>2, <1>3 DEF Connect, MsdkTypeOK, LinkTypes, AgentTypesOK
<1>4. CASE Disconnect
  BY <1>a, <1>b, <1>c, <1>2, <1>4 DEF Disconnect, MsdkTypeOK, LinkTypes, AgentTypesOK
<1>5. CASE SocketLost
  BY <1>a, <1>b, <1>c, <1>2, <1>5 DEF SocketLost, MsdkTypeOK, LinkTypes, AgentTypesOK
<1>6. CASE Disarm
  BY <1>a, <1>b, <1>2, <1>6 DEF Disarm, MsdkTypeOK, LinkTypes, AgentTypesOK
<1> QED
  BY <1>1, <1>3, <1>4, <1>5, <1>6

\* Every step of hub, agent and network leaves the variables in range.
LEMMA MsdkTypeStep ==
  ASSUME MsdkTypeOK, [MsdkNext]_msdkVars
  PROVE  MsdkTypeOK'
<1>1. CASE HubStep /\ UNCHANGED <<agentVars, limit>>
  BY <1>1, HubTypeStep
<1>2. CASE AgentStep /\ UNCHANGED <<hubVars, limit>>
  BY <1>2, ReaderTypeStep, MainTypeStep, SdkTypeStep, ConnectionTypeStep DEF AgentStep
<1>3. CASE Network /\ UNCHANGED <<hubVars, agentVars, limit>>
  BY <1>3 DEF Network, Cut, hubVars, agentVars, MsdkTypeOK, LinkTypes, HubTypesOK, AgentTypesOK
<1>4. CASE UNCHANGED msdkVars
  BY <1>4 DEF msdkVars, linkVars, hubVars, agentVars, MsdkTypeOK, LinkTypes, HubTypesOK, AgentTypesOK
<1> QED
  BY <1>1, <1>2, <1>3, <1>4 DEF MsdkNext

\* The variables of link, hub and agent keep their types, for any sockets and sessions.
THEOREM MsdkTypeCorrect == MsdkSpec => []MsdkTypeOK
<1>1. MsdkInit => MsdkTypeOK
  <2>1. 0 \in SessionNumbers /\ 0 \in 0 .. MaxSockets /\ Idle \in ReaderJobs
    BY LinkAssumption DEF LinkAssumption, SessionNumbers, ReaderJobs
  <2>2. MsdkInit => LinkTypes
    BY <2>1 DEF MsdkInit, LinkInit, LinkTypes
  <2>3. MsdkInit => HubTypesOK
    BY <2>1 DEF MsdkInit, HubInit, HubTypesOK
  <2>4. MsdkInit => AgentTypesOK
    <3>1. <<>> \in Seq(Runnables) /\ <<>> \in Seq(Requests) /\ 0 \in 0 .. 2
      OBVIOUS
    <3> QED
      BY <2>1, <3>1, Zenon DEF MsdkInit, AgentInit, AgentTypesOK
  <2> QED
    BY <2>2, <2>3, <2>4 DEF MsdkTypeOK
<1> QED
  BY <1>1, MsdkTypeStep, PTL DEF MsdkSpec

-------------------------------------------------------------------------------
(* The local dead-man *)

\* The sticks leave neutral only under a control session: every step that ends the
\* control session puts them back, whichever thread takes it.
THEOREM SticksAreWatched == MsdkSpec => []MovedUnderDeadMan
<1>1. MsdkInit => MovedUnderDeadMan
  BY DEF MsdkInit, AgentInit, MovedUnderDeadMan
<1>2. ASSUME MovedUnderDeadMan, [MsdkNext]_msdkVars PROVE MovedUnderDeadMan'
  <2>1. CASE UNCHANGED <<running, stick>>
    BY <1>2, <2>1 DEF MovedUnderDeadMan
  <2>2. CASE RunMain
    <3>1. \/ stick' = 0
          \/ UNCHANGED <<running, stick>>
          \/ running # 0 /\ UNCHANGED running
      <4>1. RunStop => stick' = 0
        BY DEF RunStop
      <4>2. RunEnable => UNCHANGED <<running, stick>>
        BY DEF RunEnable
      <4>3. RunNeutral => stick' = 0
        BY DEF RunNeutral
      <4>4. RunAccept => UNCHANGED <<running, stick>> \/ (running # 0 /\ UNCHANGED running)
        BY Zenon DEF RunAccept, Accepts
      <4> QED
        BY <2>2, <4>1, <4>2, <4>3, <4>4 DEF RunMain
    <3> QED
      BY <1>2, <3>1 DEF MovedUnderDeadMan
  <2>3. CASE RunWatchdog
    BY <1>2, <2>3 DEF RunWatchdog, Watchdog, MovedUnderDeadMan
  <2>4. CASE Start
    BY <1>2, <2>4 DEF Start, MovedUnderDeadMan
  <2>5. AgentStep => RunMain \/ RunWatchdog \/ Start \/ UNCHANGED <<running, stick>>
    BY DEF AgentStep, Connect, Disconnect, SocketLost, Disarm, Arm, Receive, Handle, PostToMain,
           Elapse, SdkStep, AuthorityLost, Poll
  <2> QED
    BY <1>2, <2>1, <2>2, <2>3, <2>4, <2>5 DEF MsdkNext, msdkVars, agentVars
<1> QED
  BY <1>1, <1>2, PTL DEF MsdkSpec

-------------------------------------------------------------------------------
(* Session and agent *)

\* What the agent says is ready it has announced.
ReadyIsAnnounced ==
  \A s \in Sockets : \A i \in DOMAIN up[s] :
    up[s][i].type = "session_ready" => up[s][i].sid \in announced

\* An open session has a number of its own.
OpenIsNumbered == Open => session.id \in Sessions

MeetInv == SessionMeetsAgent /\ ReadyIsAnnounced /\ OpenIsNumbered

\* A message that is not session_ready, or is of a session that has been announced,
\* may be queued.
LEMMA QueueUp ==
  ASSUME LinkTypes, ReadyIsAnnounced, NEW type, NEW x, up' \in {up, UpAfter(type, x)},
         announced \subseteq announced', type = "session_ready" => x \in announced'
  PROVE  ReadyIsAnnounced'
<1>1. CASE up' = up
  BY <1>1 DEF ReadyIsAnnounced
<1>2. CASE up' = UpAfter(type, x) /\ up' # up
  <2>1. /\ socket \in Sockets
        /\ up' = [up EXCEPT ![socket] = Append(@, [type |-> type, sid |-> x])]
    BY <1>2, LinkAssumption DEF LinkAssumption, UpAfter, LinkTypes, Sockets
  <2>2. SUFFICES ASSUME NEW s \in Sockets, NEW i \in DOMAIN up'[s],
                        up'[s][i].type = "session_ready"
                 PROVE  up'[s][i].sid \in announced'
    BY DEF ReadyIsAnnounced
  <2>3. CASE s # socket
    BY <2>1, <2>2, <2>3 DEF ReadyIsAnnounced, LinkTypes
  <2>4. CASE s = socket
    <3>1. up'[s] = Append(up[s], [type |-> type, sid |-> x]) /\ up[s] \in Seq(AgentMessages)
      BY <2>1, <2>4 DEF LinkTypes
    <3>2. CASE i \in DOMAIN up[s]
      BY <2>2, <3>1, <3>2 DEF ReadyIsAnnounced
    <3>3. CASE i = Len(up[s]) + 1
      BY <2>2, <3>1, <3>3
    <3> QED
      BY <2>2, <3>1, <3>2, <3>3
  <2> QED
    BY <2>3, <2>4
<1> QED
  BY <1>1, <1>2

\* A queue that gets shorter at its head, or empty, holds nothing new.
LEMMA QueueShrinks ==
  ASSUME LinkTypes, ReadyIsAnnounced, NEW s \in Sockets, announced' = announced,
         \/ up[s] # <<>> /\ up' = [up EXCEPT ![s] = Tail(@)]
         \/ up' = [up EXCEPT ![s] = <<>>]
  PROVE  ReadyIsAnnounced'
<1>1. SUFFICES ASSUME NEW x \in Sockets, NEW i \in DOMAIN up'[x],
                      up'[x][i].type = "session_ready"
               PROVE  up'[x][i].sid \in announced
  BY DEF ReadyIsAnnounced
<1>2. CASE x # s
  BY <1>1, <1>2 DEF ReadyIsAnnounced, LinkTypes
<1>3. CASE x = s /\ up' = [up EXCEPT ![s] = <<>>]
  BY <1>1, <1>3 DEF LinkTypes
<1>4. CASE x = s /\ up[s] # <<>> /\ up' = [up EXCEPT ![s] = Tail(@)]
  <2>1. up[s] \in Seq(AgentMessages) /\ up'[s] = Tail(up[s])
    BY <1>4 DEF LinkTypes
  <2>2. i + 1 \in DOMAIN up[s] /\ up'[s][i] = up[s][i + 1]
    <3>1. Len(up[s]) \in Nat \ {0} /\ DOMAIN Tail(up[s]) = 1 .. Len(up[s]) - 1
      <4>1. up[s] \in Seq(AgentMessages) /\ up[s] # <<>>
        BY <1>4, <2>1
      <4>2. Len(Tail(up[s])) = Len(up[s]) - 1 /\ Tail(up[s]) \in Seq(AgentMessages)
        BY <4>1
      <4> QED
        BY <4>1, <4>2
    <3>2. i \in 1 .. Len(up[s]) - 1
      BY <1>1, <1>4, <2>1, <3>1
    <3>3. ASSUME NEW q \in Seq(AgentMessages), q # <<>>, NEW j \in 1 .. Len(q) - 1
          PROVE  j + 1 \in DOMAIN q /\ Tail(q)[j] = q[j + 1]
      OBVIOUS
    <3> QED
      BY <1>4, <2>1, <3>2, <3>3
  <2> QED
    BY <1>1, <1>4, <2>2 DEF ReadyIsAnnounced
<1> QED
  BY <1>2, <1>3, <1>4

\* A step that closes the session, or leaves it, keeps the session's invariant if it
\* leaves the peer and opens no socket.
LEMMA SessionCloses ==
  ASSUME HubTypesOK, SessionMeetsAgent, OpenIsNumbered, announced' = announced,
         \/ session' = [session EXCEPT !.state = "closed"]
         \/ session' = session /\ peer' = peer /\ opened' = opened,
         \A s \in Sockets : server'[s] = "open" => peer' = s
  PROVE  SessionMeetsAgent' /\ OpenIsNumbered'
  BY DEF HubTypesOK, SessionMeetsAgent, OpenIsNumbered, Open

\* The hub's steps.
LEMMA MeetHubStep ==
  ASSUME MsdkTypeOK, MeetInv, HubStep, UNCHANGED <<agentVars, limit>>
  PROVE  MeetInv'
<1> USE DEF agentVars, MeetInv
<1>a. LinkTypes /\ HubTypesOK
  BY DEF MsdkTypeOK
<1>b. \A s \in Sockets : server[s] = "open" => peer = s
  BY DEF SessionMeetsAgent
<1>1. ASSUME NEW s \in Sockets, RegisterPeer(s) PROVE MeetInv'
  <2>1. \A x \in Sockets : server'[x] = "open" => peer' = x
    <3>1. CASE peer # 0 /\ Replace(s)
      BY <1>a, <1>b, <1>1, <3>1 DEF RegisterPeer, Replace, LinkTypes
    <3>2. CASE peer = 0 /\ server' = [server EXCEPT ![s] = "open"]
      <4>1. 0 \notin Sockets
        BY DEF Sockets
      <4> QED
        BY <1>a, <1>b, <1>1, <3>2, <4>1 DEF RegisterPeer, LinkTypes
    <3> QED
      BY <1>1, <3>1, <3>2 DEF RegisterPeer
  <2>2. session' = [session EXCEPT !.state = "closed"]
    <3>1. CASE peer # 0
      BY <1>1, <3>1 DEF RegisterPeer, Replace, CloseSession
    <3>2. CASE peer = 0
      BY <1>a, <1>1, <3>2 DEF RegisterPeer, SessionMeetsAgent, Open, HubTypesOK
    <3> QED
      BY <3>1, <3>2
  <2>3. ReadyIsAnnounced'
    BY <1>1 DEF RegisterPeer, ReadyIsAnnounced
  <2> QED
    BY <1>a, <2>1, <2>2, <2>3, SessionCloses
<1>2. ASSUME NEW s \in Sockets, UnregisterPeer(s) PROVE MeetInv'
  <2>1. \A x \in Sockets : server'[x] = "open" => peer' = x
    BY <1>a, <1>b, <1>2 DEF UnregisterPeer, Concerns, LinkTypes
  <2>2. ReadyIsAnnounced'
    BY <1>a, <1>2, QueueShrinks DEF UnregisterPeer
  <2> QED
    BY <1>a, <1>2, <2>1, <2>2, SessionCloses DEF UnregisterPeer
<1>3. ASSUME NEW s \in Sockets, HandleAgentMessage(s) PROVE MeetInv'
  <2>1. ReadyIsAnnounced'
    BY <1>a, <1>3, QueueShrinks DEF HandleAgentMessage
  <2>2. \A x \in Sockets : server'[x] = "open" => peer' = x
    BY <1>b, <1>3 DEF HandleAgentMessage
  <2>3. CASE \/ session' = [session EXCEPT !.state = "closed"]
             \/ session' = session
    BY <1>a, <1>3, <2>1, <2>2, <2>3, SessionCloses DEF HandleAgentMessage
  <2>4. CASE Ready(Head(up[s])) /\ session' # session
    <3>1. /\ Head(up[s]).type = "session_ready" /\ Head(up[s]).sid = session.id
          /\ session.state = "starting" /\ session' = [session EXCEPT !.state = "active"]
      BY <2>4 DEF Ready, Matches, Awaited
    <3>2. session.id \in announced
      BY <1>a, <1>3, <3>1 DEF HandleAgentMessage, LinkTypes, ReadyIsAnnounced
    <3> QED
      BY <1>a, <1>3, <2>1, <2>2, <3>1, <3>2
         DEF HandleAgentMessage, HubTypesOK, SessionMeetsAgent, OpenIsNumbered, Open
  <2> QED
    BY <1>3, <2>3, <2>4 DEF HandleAgentMessage, Rejected, Stopped, CloseSession
<1>4. CASE DropPeer
  <2>1. \A x \in Sockets : server'[x] = "open" => peer' = x
    BY <1>a, <1>b, <1>4 DEF DropPeer, LinkTypes
  <2>2. ReadyIsAnnounced'
    BY <1>4 DEF DropPeer, ReadyIsAnnounced
  <2> QED
    BY <1>a, <1>4, <2>1, <2>2, SessionCloses DEF DropPeer, CloseSession
<1>5. CASE OpenSession
  <2>1. session.id + 1 \in Sessions
    BY <1>a, <1>5, NextSession DEF OpenSession
  <2>2. /\ session'.id = session.id + 1 /\ session'.state = "starting"
        /\ opened'[session.id + 1] = peer /\ peer' = peer /\ peer # 0
    BY <1>a, <1>5, <2>1 DEF OpenSession, HubTypesOK
  <2>3. ReadyIsAnnounced'
    BY <1>5 DEF OpenSession, ReadyIsAnnounced
  <2> QED
    BY <1>b, <1>5, <2>1, <2>2, <2>3 DEF OpenSession, SessionMeetsAgent, OpenIsNumbered, Open
<1>6. CASE SendStick
  BY <1>6 DEF SendStick, hubVars, SessionMeetsAgent, OpenIsNumbered, Open, ReadyIsAnnounced
<1>7. CASE EndSession
  <2>1. ReadyIsAnnounced'
    BY <1>7 DEF EndSession, ReadyIsAnnounced
  <2> QED
    BY <1>a, <1>b, <1>7, <2>1, SessionCloses DEF EndSession, CloseSession
<1> QED
  BY <1>1, <1>2, <1>3, <1>4, <1>5, <1>6, <1>7 DEF HubStep

\* The agent leaves session and sockets alone; only its Start says session_ready, and of
\* a session it announces.
LEMMA MeetAgentStep ==
  ASSUME MsdkTypeOK, MeetInv, AgentStep, UNCHANGED <<hubVars, limit>>
  PROVE  MeetInv'
<1> USE DEF hubVars, linkVars, MeetInv
<1>a. LinkTypes
  BY DEF MsdkTypeOK
<1>1. server' = server /\ announced \subseteq announced'
  BY DEF AgentStep, Connect, Disconnect, SocketLost, Disarm, Arm, Receive, Handle, PostToMain,
         RunMain, RunWatchdog, Elapse, SdkStep, AuthorityLost, Poll, Start
<1>2. SessionMeetsAgent' /\ OpenIsNumbered'
  BY <1>1 DEF SessionMeetsAgent, OpenIsNumbered, Open
<1>3. ReadyIsAnnounced'
  <2> DEFINE Says(type, x) == up' \in {up, UpAfter(type, x)}
             SaysNoReady == \E x : Says("session_stopped", x) \/ Says("session_rejected", x)
  <2>1. CASE SaysNoReady
    BY <1>a, <1>1, <2>1, QueueUp
  <2>2. CASE Start
    BY <1>a, <1>1, <2>2, QueueUp DEF Start, RejectAndClear
  <2>3. UNCHANGED up => SaysNoReady
    OBVIOUS
  <2>4. \A queue : FailClosed(queue, TRUE) \/ FailClosed(queue, FALSE) => SaysNoReady
    BY DEF FailClosed, Farewell
  <2>5. \A x : RejectAndClear(x) => SaysNoReady
    BY DEF RejectAndClear
  <2>6. ASSUME NEW s \in Sockets, Handle(s) PROVE SaysNoReady
    <3>1. \A x : HandleStart(s, x) \/ Admit(s, x) => SaysNoReady
      BY <2>3 DEF HandleStart, Admit
    <3>2. \A x : HandleStick(s, x) \/ HandleNeutral(s, x) \/ HandleStop(s, x) => SaysNoReady
      BY <2>3, <2>4 DEF HandleStick, HandleNeutral, HandleStop
    <3> QED
      BY <2>6, <3>1, <3>2 DEF Handle
  <2> HIDE DEF SaysNoReady
  <2>7. CASE Connect \/ Disconnect \/ SocketLost \/ Disarm
    BY <2>1, <2>4, <2>7 DEF Connect, Disconnect, SocketLost, Disarm
  <2>8. CASE RunMain \/ RunWatchdog
    BY <2>1, <2>3, <2>4, <2>8
       DEF RunMain, RunStop, RunEnable, RunNeutral, RunAccept, RunWatchdog, Watchdog
  <2>9. CASE SdkStep
    BY <2>1, <2>3, <2>5, <2>9 DEF SdkStep, SdkDisables, SdkEnables, EnableFails
  <2>10. ASSUME NEW x \in Sessions, Poll(x) PROVE ReadyIsAnnounced'
    BY <2>1, <2>3, <2>5, <2>10 DEF Poll
  <2>11. CASE Arm \/ AuthorityLost \/ Elapse \/ \E s \in Sockets : Receive(s) \/ PostToMain(s)
    BY <2>1, <2>3, <2>11 DEF Arm, AuthorityLost, Elapse, Receive, PostToMain
  <2> QED
    BY <2>1, <2>2, <2>6, <2>7, <2>8, <2>9, <2>10, <2>11 DEF AgentStep
<1> QED
  BY <1>2, <1>3

\* An open session is on the socket it was opened on, active only once the agent has
\* announced it, and no open socket is forgotten, for any sockets and sessions.
THEOREM SessionsMeet == MsdkSpec => []SessionMeetsAgent
<1>1. MsdkInit => MeetInv
  BY DEF MsdkInit, LinkInit, HubInit, MeetInv, SessionMeetsAgent, ReadyIsAnnounced, OpenIsNumbered, Open
<1>2. ASSUME MsdkTypeOK, MeetInv, [MsdkNext]_msdkVars PROVE MeetInv'
  <2>1. CASE Network /\ UNCHANGED <<hubVars, agentVars, limit>>
    <3>1. PICK s \in Sockets : Cut(s)
      BY <2>1 DEF Network
    <3>2. ReadyIsAnnounced'
      BY <1>2, <2>1, <3>1, QueueShrinks DEF Cut, MsdkTypeOK, MeetInv, agentVars
    <3>3. \A x \in Sockets : server'[x] = "open" => server[x] = "open"
      BY <1>2, <3>1 DEF Cut, MsdkTypeOK, LinkTypes
    <3> QED
      BY <1>2, <2>1, <3>2, <3>3
         DEF MeetInv, SessionMeetsAgent, OpenIsNumbered, Open, hubVars, agentVars
  <2>2. CASE UNCHANGED msdkVars
    BY <1>2, <2>2 DEF MeetInv, SessionMeetsAgent, ReadyIsAnnounced, OpenIsNumbered, Open, msdkVars,
                      linkVars, hubVars, agentVars
  <2> QED
    BY <1>2, <2>1, <2>2, MeetHubStep, MeetAgentStep DEF MsdkNext
<1>3. MeetInv => SessionMeetsAgent
  BY DEF MeetInv
<1> QED
  BY <1>1, <1>2, <1>3, MsdkTypeCorrect, PTL DEF MsdkSpec

===============================================================================
