---- MODULE PairingProofs ----
(***************************************************************************)
(* Machine-checked proofs of the safety of Pairing, for any number of      *)
(* sessions, submissions and attempts.                                     *)
(***************************************************************************)
EXTENDS Pairing, TLAPS

----
(* The range of every variable that the invariants speak about.            *)

Places == {"none", "poll", "reply", "submit", "flag", "delete", "finish", "exited"}

TypeOK ==
  /\ expires \in [Session -> {"absent", "future", "past"}]
  /\ payload \in [Session -> Submission \cup {None}]
  /\ page \in [Submission -> [at : {"typing", "sent", "body", "ok", "failed"},
                              session : Session \cup {NoSession}]]
  /\ thread \in Places
  /\ answer \in Submission \cup {None, "empty", "gone", "failed"}
  /\ ui \in {"events", "create", "undo", "join", "erase", "copy", "take", "finished", "gone"}
  /\ after \in {"events", "take", "gone"}
  /\ last \in Session \cup {NoSession}
  /\ relay \in Session \cup {NoSession}
  /\ ui = "create" => last < MaxSessions

\* The sessions whose code was drawn, and the one being paired, are among
\* those created.
Drawn == shown \subseteq 1 .. last /\ relay <= last

\* What is stored or underway at the service came from a page whose code was
\* drawn: no payload and no answer exists for a session nobody has seen.
FromDrawn ==
  /\ \A p \in Submission : page[p].at /= "typing" => page[p].session \in shown
  /\ \A s \in Session : payload[s] /= None => s \in shown
  /\ answer \in Submission => relay \in shown

\* The relay thread lives within a pairing, and the interface thread is past
\* it when it creates a session or takes a submission over.
RelayAlive ==
  /\ relay = NoSession => thread = "none"
  /\ thread = "none" => answer = None
  /\ ui \in {"create", "undo", "take", "gone"} => relay = NoSession
  /\ ui \in {"join", "erase"} => relay /= NoSession
  /\ ui = "erase" => thread = "none"
  /\ ui = "undo" => last /= NoSession

ServiceInv == TypeOK /\ Drawn /\ FromDrawn /\ RelayAlive

\* Clearing a session, or failing to, brings no payload.
LEMMA ClearBringsNothing ==
  ASSUME TypeOK, NEW s \in Session, Clear(s) \/ SessionUnchanged
  PROVE  /\ expires' \in [Session -> {"absent", "future", "past"}]
         /\ payload' \in [Session -> Submission \cup {None}]
         /\ \A t \in Session : payload'[t] /= None => payload[t] /= None
<1>1. CASE Clear(s)
  BY <1>1 DEF Clear, TypeOK
<1>2. CASE SessionUnchanged
  BY <1>2 DEF SessionUnchanged, TypeOK
<1> QED
  BY <1>1, <1>2

\* A session is created empty.
LEMMA CreateBringsNothing ==
  ASSUME TypeOK, NEW s \in Session, Create(s)
  PROVE  /\ expires' \in [Session -> {"absent", "future", "past"}]
         /\ payload' \in [Session -> Submission \cup {None}]
         /\ \A t \in Session : payload'[t] /= None => payload[t] /= None
BY DEF Create, TypeOK

\* A step of the service, or of a thread that only asks it to erase.
LEMMA ServiceFrame ==
  ASSUME ServiceInv, UNCHANGED <<page, worker, screen>>,
         expires' \in [Session -> {"absent", "future", "past"}],
         payload' \in [Session -> Submission \cup {None}],
         \A t \in Session : payload'[t] /= None => payload[t] /= None
  PROVE  ServiceInv'
<1> USE DEF ServiceInv, worker, screen
<1>1. TypeOK'
  BY DEF TypeOK
<1>2. FromDrawn'
  BY DEF FromDrawn
<1> QED
  BY <1>1, <1>2 DEF Drawn, RelayAlive

\* The steps of the service's own clock.
LEMMA ClockService ==
  ASSUME ServiceInv, NEW s \in Session, Expire(s) \/ Alarm(s)
  PROVE  ServiceInv'
<1>1. CASE Expire(s)
  BY <1>1, ServiceFrame DEF Expire, ServiceInv, TypeOK
<1>2. CASE Alarm(s)
  BY <1>2, ServiceFrame, ClearBringsNothing DEF Alarm, ServiceInv
<1> QED
  BY <1>1, <1>2

\* The steps of a page: it can only send to a session whose code was drawn.
LEMMA PageService ==
  ASSUME ServiceInv, NEW p \in Submission, PageStep(p)
  PROVE  ServiceInv'
<1> USE DEF ServiceInv
<1>1. UNCHANGED <<worker, inbox, screen>>
  BY DEF PageStep, Send, SubmitExpired, SubmitRefused, SubmitChecked, SubmitStore, SubmitLost
<1>2. page[p] \in [at : {"typing", "sent", "body", "ok", "failed"},
                   session : Session \cup {NoSession}]
  BY DEF TypeOK
<1>3. shown \subseteq Session
  BY PairingAssumption DEF Drawn, TypeOK, Session, NoSession
<1> DEFINE PagesOfDrawn ==
      /\ page \in [Submission -> [at : {"typing", "sent", "body", "ok", "failed"},
                                  session : Session \cup {NoSession}]]
      /\ \A q \in Submission : page[q].at /= "typing" => page[q].session \in shown
<1>s. UNCHANGED shown
  BY <1>1 DEF screen
<1>4. PagesOfDrawn'
  <2>1. CASE Send(p)
    <3>1. PICK s \in IF page[p].at = "typing" THEN shown ELSE {page[p].session} :
            page' = [page EXCEPT ![p] = [at |-> "sent", session |-> s]]
      BY <2>1 DEF Send
    <3>2. s \in shown
      BY <2>1, <3>1 DEF Send, FromDrawn
    <3> QED
      BY <1>3, <1>s, <3>1, <3>2 DEF TypeOK, FromDrawn
  <2>2. ASSUME NEW at \in {"body", "ok", "failed"}, page[p].at /= "typing", Answer(p, at)
        PROVE  PagesOfDrawn'
    <3>1. [page[p] EXCEPT !.at = at] = [at |-> at, session |-> page[p].session]
      BY <1>2
    <3>2. page' = [page EXCEPT ![p] = [page[p] EXCEPT !.at = at]]
      BY <2>2 DEF Answer
    <3> QED
      BY <1>2, <1>s, <2>2, <3>1, <3>2 DEF TypeOK, FromDrawn
  <2> QED
    BY <2>1, <2>2
    DEF PageStep, SubmitExpired, SubmitRefused, SubmitChecked, SubmitStore, SubmitLost
<1>5. /\ expires' \in [Session -> {"absent", "future", "past"}]
      /\ payload' \in [Session -> Submission \cup {None}]
      /\ \A s \in Session : payload'[s] /= None => s \in shown
  <2>1. CASE SubmitExpired(p)
    <3>1. page[p].session \in Session
      BY <1>3, <2>1 DEF SubmitExpired, FromDrawn
    <3> QED
      BY <2>1, <3>1, ClearBringsNothing DEF SubmitExpired, FromDrawn
  <2>2. CASE SubmitStore(p)
    <3>1. page[p].session \in shown
      BY <2>2 DEF SubmitStore, FromDrawn
    <3> QED
      BY <2>2, <3>1 DEF SubmitStore, FromDrawn, TypeOK
  <2>3. CASE UNCHANGED service
    BY <2>3 DEF service, TypeOK, FromDrawn
  <2> QED
    BY <2>1, <2>2, <2>3 DEF PageStep, Send, SubmitRefused, SubmitChecked, SubmitLost
<1>6. TypeOK'
  BY <1>1, <1>4, <1>5 DEF TypeOK, worker, screen
<1>7. FromDrawn'
  BY <1>1, <1>4, <1>5 DEF FromDrawn, worker, screen
<1> QED
  BY <1>1, <1>6, <1>7 DEF Drawn, RelayAlive, worker, screen

\* The steps of the relay thread: an answer with a payload is for a session
\* whose code was drawn.
LEMMA RelayService ==
  ASSUME ServiceInv, DeadlinePasses \/ RelayStep
  PROVE  ServiceInv'
<1> USE DEF ServiceInv, Thread
<1>1. thread /= "none" => relay \in Session
  BY DEF RelayAlive, TypeOK
<1>2. CASE RelayPoll
  <2>1. relay \in Session /\ UNCHANGED <<page, screen>> /\ thread' = "reply"
    BY <1>1, <1>2 DEF RelayPoll
  <2>2. Clear(relay) \/ SessionUnchanged
    BY <1>2 DEF RelayPoll
  <2>3. /\ expires' \in [Session -> {"absent", "future", "past"}]
        /\ payload' \in [Session -> Submission \cup {None}]
        /\ \A t \in Session : payload'[t] /= None => payload[t] /= None
    BY <2>1, <2>2, ClearBringsNothing
  <2>4. /\ answer' \in Submission \cup {None, "empty", "gone", "failed"}
        /\ answer' \in Submission => payload[relay] /= None
    BY <1>2, <2>1, PairingAssumption DEF RelayPoll, TypeOK
  <2>5. TypeOK'
    BY <2>1, <2>3, <2>4 DEF TypeOK, screen, Places
  <2>6. FromDrawn'
    BY <2>1, <2>3, <2>4 DEF FromDrawn, screen
  <2> QED
    BY <2>1, <2>5, <2>6, <1>2 DEF Drawn, RelayAlive, screen, RelayPoll, NoSession, Session
<1>3. CASE RelayDelete
  <2>1. relay \in Session
    BY <1>1, <1>3 DEF RelayDelete
  <2>2. /\ expires' \in [Session -> {"absent", "future", "past"}]
        /\ payload' \in [Session -> Submission \cup {None}]
        /\ \A t \in Session : payload'[t] /= None => payload[t] /= None
    BY <1>3, <2>1, ClearBringsNothing DEF RelayDelete, Delete
  <2>3. thread = "delete" /\ thread' = "finish" /\ UNCHANGED <<page, answer, screen>>
    BY <1>3 DEF RelayDelete
  <2>4. TypeOK'
    BY <2>2, <2>3 DEF TypeOK, screen, Places
  <2>5. FromDrawn'
    BY <2>2, <2>3 DEF FromDrawn, screen
  <2> QED
    BY <2>3, <2>4, <2>5 DEF Drawn, RelayAlive, screen
<1>4. CASE RelayReply
  <2>1. /\ thread' \in {"finish", "submit", "poll"} /\ thread = "reply"
        /\ UNCHANGED <<service, page, screen>>
        /\ answer' = answer \/ answer' = None
    BY <1>4 DEF RelayReply
  <2>2. TypeOK'
    BY <2>1 DEF TypeOK, screen, service, Places
  <2>3. FromDrawn'
    BY <2>1, PairingAssumption DEF FromDrawn, screen, service
  <2> QED
    BY <2>1, <2>2, <2>3 DEF Drawn, RelayAlive, screen
<1>5. CASE DeadlinePasses \/ RelayGiveUp \/ RelayHand \/ RelayFlag \/ RelayFinish
  <2>1. /\ UNCHANGED <<service, page, answer, screen>>
        /\ thread' = thread \/ (thread /= "none" /\ thread' \in Places \ {"none"})
    BY <1>5
    DEF DeadlinePasses, RelayGiveUp, RelayHand, RelayFlag, RelayFinish, Places, worker
  <2>2. TypeOK'
    BY <2>1 DEF TypeOK, screen, service
  <2>3. FromDrawn'
    BY <2>1 DEF FromDrawn, screen, service
  <2> QED
    BY <2>1, <2>2, <2>3 DEF Drawn, RelayAlive, screen
<1> QED
  BY <1>2, <1>3, <1>4, <1>5 DEF RelayStep

\* stop_phone_pairing, whatever its caller does next.
LEMMA StopService ==
  ASSUME ServiceInv, NEW then \in {"events", "take", "gone"}, StopPairing(then)
  PROVE  ServiceInv'
<1>1. /\ UNCHANGED <<service, page, thread, answer, last, relay, shown>>
      /\ relay /= NoSession /\ ui' = "join" /\ after' = then
  BY DEF StopPairing
<1>2. TypeOK'
  BY <1>1 DEF ServiceInv, TypeOK, service
<1>3. FromDrawn'
  BY <1>1 DEF ServiceInv, FromDrawn, service
<1> QED
  BY <1>1, <1>2, <1>3 DEF ServiceInv, Drawn, RelayAlive

\* A step of the interface thread that leaves service, pages and relay alone;
\* the code drawn, if one is, is that of the relay.
LEMMA TurnService ==
  ASSUME ServiceInv, UNCHANGED <<service, page, thread, answer, relay, last>>,
         ui' \in {"events", "create", "copy", "take", "finished", "gone"},
         ui' = "create" => last < MaxSessions,
         ui' \in {"create", "take", "gone"} => relay = NoSession,
         shown' \in {shown, shown \cup {relay}}, shown' /= shown => relay /= NoSession,
         after' = after
  PROVE  ServiceInv'
<1>1. TypeOK'
  BY DEF ServiceInv, TypeOK, service
<1>2. FromDrawn'
  BY DEF ServiceInv, FromDrawn, service
<1>3. shown' \subseteq 1 .. last
  BY PairingAssumption DEF ServiceInv, Drawn, TypeOK, Session, NoSession
<1> QED
  BY <1>1, <1>2, <1>3 DEF ServiceInv, Drawn, RelayAlive

\* The steps that create a session: nobody has seen its code yet.
LEMMA CreateService ==
  ASSUME ServiceInv, CreateAccepted \/ CreateUnknown \/ CreateUndo
  PROVE  ServiceInv'
<1> USE DEF ServiceInv, Ui
<1>1. CASE CreateAccepted \/ CreateUnknown
  <2>1. ui = "create" /\ relay = NoSession /\ thread = "none" /\ last < MaxSessions
    BY <1>1 DEF CreateAccepted, CreateUnknown, RelayAlive, TypeOK
  <2>2. last + 1 \in Session /\ last' = last + 1 /\ Create(last + 1) /\ last \in Nat
    BY <1>1, <2>1, PairingAssumption
    DEF CreateAccepted, CreateUnknown, TypeOK, Session, NoSession
  <2>3. /\ expires' \in [Session -> {"absent", "future", "past"}]
        /\ payload' \in [Session -> Submission \cup {None}]
        /\ \A t \in Session : payload'[t] /= None => payload[t] /= None
    BY <2>2, CreateBringsNothing
  <2>4. /\ UNCHANGED <<page, answer, shown, after>> /\ ui' \in {"events", "undo"}
        /\ \/ UNCHANGED <<relay, thread>>
           \/ relay' = last + 1 /\ thread' = "poll" /\ ui' = "events"
    BY <1>1 DEF CreateAccepted, CreateUnknown, worker
  <2>5. TypeOK'
    BY <2>2, <2>3, <2>4 DEF TypeOK, Places
  <2>6. shown' \subseteq 1 .. last' /\ relay' <= last'
    BY <2>1, <2>2, <2>4 DEF Drawn, NoSession
  <2>7. answer' \notin Submission
    BY <2>1, <2>4, PairingAssumption DEF RelayAlive
  <2>8. FromDrawn'
    BY <2>3, <2>4, <2>7 DEF FromDrawn
  <2>9. RelayAlive'
    BY <2>1, <2>2, <2>4 DEF RelayAlive, NoSession
  <2> QED
    BY <2>5, <2>6, <2>8, <2>9 DEF Drawn
<1>2. CASE CreateUndo
  <2>1. /\ last \in Session /\ ui = "undo" /\ ui' = "events"
        /\ UNCHANGED <<page, worker, after, last, relay, shown>>
    BY <1>2 DEF CreateUndo, RelayAlive, TypeOK
  <2>2. /\ expires' \in [Session -> {"absent", "future", "past"}]
        /\ payload' \in [Session -> Submission \cup {None}]
        /\ \A t \in Session : payload'[t] /= None => payload[t] /= None
    BY <1>2, <2>1, ClearBringsNothing DEF CreateUndo, Delete
  <2>3. TypeOK'
    BY <2>1, <2>2 DEF TypeOK, worker
  <2>4. FromDrawn'
    BY <2>1, <2>2 DEF FromDrawn, worker
  <2> QED
    BY <2>1, <2>3, <2>4 DEF Drawn, RelayAlive, worker
<1> QED
  BY <1>1, <1>2

\* The steps of the interface thread.
LEMMA UiService ==
  ASSUME ServiceInv, User \/ UiWork
  PROVE  ServiceInv'
<1> USE DEF Ui
<1>1. CASE CreateAccepted \/ CreateUnknown \/ CreateUndo
  BY <1>1, CreateService
<1>2. CASE StartPairing \/ CreateTaken \/ CreateRefused \/ TakeFlag \/ TakeOver
  <2>1. UNCHANGED <<service, page, thread, answer, relay, last, after>>
    BY <1>2 DEF StartPairing, CreateTaken, CreateRefused, TakeFlag, TakeOver, worker
  <2>2. shown' \in {shown, shown \cup {relay}} /\ (shown' /= shown => relay /= NoSession)
    BY <1>2 DEF StartPairing, CreateTaken, CreateRefused, TakeFlag, TakeOver, EndTurn
  <2>3. /\ ui' \in {"events", "create", "copy", "finished"}
        /\ ui' = "create" => (relay = NoSession /\ last < MaxSessions)
    BY <1>2
    DEF StartPairing, CreateTaken, CreateRefused, TakeFlag, TakeOver, EndTurn, ServiceInv,
        RelayAlive, TypeOK
  <2> QED
    BY <2>1, <2>2, <2>3, TurnService
<1>3. CASE JoinRelay
  <2>1. /\ ui = "join" /\ ui' = "erase" /\ thread' = "none" /\ answer' = None
        /\ UNCHANGED <<service, page, after, last, relay, shown>>
    BY <1>3 DEF JoinRelay
  <2>2. TypeOK'
    BY <2>1 DEF ServiceInv, TypeOK, service, Places
  <2>3. FromDrawn'
    BY <2>1, PairingAssumption DEF ServiceInv, FromDrawn, service
  <2> QED
    BY <2>1, <2>2, <2>3 DEF ServiceInv, Drawn, RelayAlive
<1>4. CASE EraseRelay
  <2>1. /\ ui = "erase" /\ relay \in Session /\ thread = "none" /\ answer = None
        /\ ui' = after /\ after' = "events" /\ relay' = NoSession
        /\ UNCHANGED <<page, thread, answer, last, shown>>
    BY <1>4 DEF EraseRelay, ServiceInv, RelayAlive, TypeOK
  <2>2. /\ expires' \in [Session -> {"absent", "future", "past"}]
        /\ payload' \in [Session -> Submission \cup {None}]
        /\ \A t \in Session : payload'[t] /= None => payload[t] /= None
    BY <1>4, <2>1, ClearBringsNothing DEF EraseRelay, Delete, ServiceInv
  <2>3. TypeOK'
    BY <2>1, <2>2 DEF ServiceInv, TypeOK
  <2>4. FromDrawn'
    BY <2>1, <2>2, PairingAssumption DEF ServiceInv, FromDrawn
  <2>5. shown' \subseteq 1 .. last' /\ relay' <= last'
    BY <2>1, PairingAssumption DEF ServiceInv, Drawn, TypeOK, Session, NoSession
  <2> QED
    BY <2>1, <2>3, <2>4, <2>5 DEF ServiceInv, Drawn, RelayAlive, TypeOK
<1>5. CASE CancelPairing
  BY <1>5, StopService DEF CancelPairing
<1>6. CASE CopyPending
  <2>1. CASE StopPairing("take")
    BY <2>1, StopService
  <2>2. CASE /\ relay = NoSession /\ ui' = "take"
             /\ UNCHANGED <<service, page, worker, after, attempt, last, relay, shown>>
    BY <2>2, TurnService DEF worker
  <2> QED
    BY <1>6, <2>1, <2>2 DEF CopyPending
<1>7. CASE CheckFinished
  <2>1. CASE StopPairing("events")
    BY <2>1, StopService
  <2>2. CASE EndTurn /\ UNCHANGED <<service, page, worker, after, attempt, last, relay>>
    BY <2>2, TurnService DEF worker, EndTurn
  <2> QED
    BY <1>7, <2>1, <2>2 DEF CheckFinished
<1>8. CASE Quit
  <2>1. CASE StopPairing("gone")
    BY <2>1, StopService
  <2>2. CASE /\ relay = NoSession /\ ui' = "gone"
             /\ UNCHANGED <<service, page, worker, after, attempt, last, relay, shown>>
    BY <2>2, TurnService DEF worker
  <2> QED
    BY <1>8, <2>1, <2>2 DEF Quit
<1> QED
  BY <1>1, <1>2, <1>3, <1>4, <1>5, <1>6, <1>7, <1>8 DEF User, UiWork

\* Every step keeps the service, the pages and the relay in order.
LEMMA ServiceStep == ServiceInv /\ [Next]_vars => ServiceInv'
<1> SUFFICES ASSUME ServiceInv, [Next]_vars PROVE ServiceInv'
  OBVIOUS
<1>1. CASE UNCHANGED vars
  BY <1>1 DEF vars, service, worker, inbox, screen, ServiceInv, TypeOK, Drawn, FromDrawn,
     RelayAlive
<1> QED
  BY <1>1, ClockService, PageService, RelayService, UiService DEF Next, Closed

\* Initially nothing is created.
LEMMA ServiceInit == Init => ServiceInv
BY PairingAssumption
DEF Init, ServiceInv, TypeOK, Drawn, FromDrawn, RelayAlive, Places, Session, NoSession

----
(* What is handed over is whole.                                           *)

\* The relay has yet to hand something over.
Ahead == thread \in {"poll", "reply", "submit", "flag"}

\* The inbox is a slot of one flag and one datum without a lock around both.
\* It is sound because of the order of a turn: a submission can only come
\* from a session whose code was drawn, a code is drawn at the end of a turn,
\* and a turn starts with taking what an earlier relay left.  So while the
\* relay of a drawn code is ahead of its hand-over, the inbox is empty.
HandOver ==
  /\ thread = "submit" => answer \in Readable
  /\ thread \in {"submit", "flag"} => relay \in shown
  /\ (relay \in shown /\ Ahead) => (~submitted /\ ui /= "copy")
  /\ (thread = "flag" \/ submitted \/ ui = "copy") => pending \in Readable
  /\ ui = "copy" => ~submitted
  /\ (ui = "finished" /\ submitted) => thread \in {"delete", "finish", "exited"}
  /\ (ui = "take" \/ (after = "take" /\ ui \in {"join", "erase"})) => taken \in Readable

\* A step that leaves the inbox, the relay and the interface thread alone.
LEMMA HandOverFrame ==
  ASSUME HandOver, UNCHANGED <<thread, answer, inbox, ui, after, relay, shown, taken>>
  PROVE  HandOver'
BY DEF HandOver, Ahead, inbox

\* stop_phone_pairing for a caller that takes nothing over.
LEMMA HandOverStop ==
  ASSUME HandOver, NEW then \in {"events", "gone"}, StopPairing(then), UNCHANGED <<inbox, taken>>
  PROVE  HandOver'
BY DEF HandOver, Ahead, StopPairing, inbox

\* The relay thread hands over what it could read, the datum before the flag.
LEMMA RelayHandOver ==
  ASSUME ServiceInv, HandOver, RelayStep
  PROVE  HandOver'
<1> USE DEF Thread, screen, inbox
<1>1. CASE RelayGiveUp \/ RelayPoll \/ RelayDelete \/ RelayFinish
  BY <1>1 DEF RelayGiveUp, RelayPoll, RelayDelete, RelayFinish, HandOver, Ahead
<1>2. CASE RelayReply
  <2>1. thread' = "submit" => (answer \in Readable /\ answer' = answer /\ relay \in shown)
    BY <1>2, PairingAssumption DEF RelayReply, ServiceInv, FromDrawn
  <2>2. /\ thread = "reply" /\ thread' \in {"finish", "submit", "poll"}
        /\ UNCHANGED <<inbox, screen>>
    BY <1>2 DEF RelayReply
  <2> QED
    BY <2>1, <2>2 DEF HandOver, Ahead
<1>3. CASE RelayHand
  BY <1>3 DEF RelayHand, HandOver, Ahead
<1>4. CASE RelayFlag
  BY <1>4 DEF RelayFlag, HandOver, Ahead
<1> QED
  BY <1>1, <1>2, <1>3, <1>4 DEF RelayStep

\* The interface thread takes over what was handed.
LEMMA UiHandOver ==
  ASSUME ServiceInv, HandOver, User \/ UiWork
  PROVE  HandOver'
<1> USE DEF Ui, inbox
<1>1. CASE StartPairing \/ CreateTaken \/ CreateRefused \/ CreateUnknown \/ CreateUndo
  BY <1>1
  DEF StartPairing, CreateTaken, CreateRefused, CreateUnknown, CreateUndo, worker, HandOver, Ahead
<1>2. CASE CreateAccepted
  <2>1. last + 1 \notin shown /\ ui = "create" /\ thread = "none"
    BY <1>2, PairingAssumption
    DEF CreateAccepted, ServiceInv, RelayAlive, Drawn, TypeOK, Session, NoSession
  <2>2. /\ ui' \in {"events", "undo"} /\ UNCHANGED <<inbox, after, shown, taken>>
        /\ UNCHANGED <<relay, thread>> \/ (relay' = last + 1 /\ thread' = "poll")
    BY <1>2 DEF CreateAccepted
  <2> QED
    BY <2>1, <2>2 DEF HandOver, Ahead
<1>3. CASE JoinRelay
  BY <1>3 DEF JoinRelay, HandOver, Ahead
<1>4. CASE EraseRelay
  <2>1. /\ ui = "erase" /\ thread = "none" /\ thread' = "none" /\ ui' = after
        /\ after' = "events" /\ UNCHANGED <<inbox, shown, taken>>
        /\ after \in {"events", "take", "gone"}
    BY <1>4 DEF EraseRelay, ServiceInv, RelayAlive, TypeOK
  <2> QED
    BY <2>1 DEF HandOver, Ahead
<1>5. CASE TakeFlag
  BY <1>5 DEF TakeFlag, worker, HandOver, Ahead
<1>6. CASE CopyPending
  <2>1. /\ ui = "copy" /\ taken' = pending /\ pending' = None /\ UNCHANGED submitted
        /\ UNCHANGED <<thread, answer, relay, shown>>
        /\ ui' = "join" \/ (ui' = "take" /\ relay = NoSession)
    BY <1>6 DEF CopyPending, StopPairing, worker
  <2>2. pending \in Readable /\ ~submitted /\ ~(relay \in shown /\ Ahead)
    BY <2>1 DEF HandOver
  <2>3. thread /= "flag" /\ thread /= "submit"
    BY <2>1, <2>2 DEF HandOver, Ahead
  <2> QED
    BY <2>1, <2>2, <2>3 DEF HandOver, Ahead
<1>7. CASE TakeOver
  <2>1. relay = NoSession /\ thread = "none"
    BY <1>7 DEF TakeOver, ServiceInv, RelayAlive
  <2> QED
    BY <1>7, <2>1 DEF TakeOver, EndTurn, worker, HandOver, Ahead
<1>8. CASE CheckFinished
  <2>1. CASE StopPairing("events")
    BY <1>8, <2>1, HandOverStop DEF CheckFinished
  <2>2. CASE EndTurn /\ UNCHANGED <<service, page, worker, after, attempt, last, relay>>
    <3>1. ui = "finished" /\ ui' = "events" /\ UNCHANGED <<thread, answer, inbox, taken, relay>>
      BY <1>8, <2>2 DEF CheckFinished, EndTurn, worker
    <3>2. shown \subseteq shown'
      BY <2>2 DEF EndTurn
    <3> QED
      BY <3>1, <3>2 DEF HandOver, Ahead
  <2> QED
    BY <1>8, <2>1, <2>2 DEF CheckFinished
<1>9. CASE CancelPairing
  BY <1>9, HandOverStop DEF CancelPairing
<1>10. CASE Quit
  <2>1. CASE StopPairing("gone")
    BY <1>10, <2>1, HandOverStop DEF Quit
  <2>2. CASE ui' = "gone" /\ UNCHANGED <<worker, after, relay, shown>>
    BY <1>10, <2>2 DEF Quit, worker, HandOver, Ahead
  <2> QED
    BY <1>10, <2>1, <2>2 DEF Quit
<1> QED
  BY <1>1, <1>2, <1>3, <1>4, <1>5, <1>6, <1>7, <1>8, <1>9, <1>10 DEF User, UiWork

\* Every step keeps the hand-over sound.
LEMMA HandOverStep == ServiceInv /\ HandOver /\ [Next]_vars => HandOver'
<1> SUFFICES ASSUME ServiceInv, HandOver, [Next]_vars PROVE HandOver'
  OBVIOUS
<1> USE DEF screen, worker
<1>1. ASSUME NEW s \in Session, Expire(s) \/ Alarm(s) PROVE HandOver'
  BY <1>1, HandOverFrame DEF Expire, Alarm
<1>2. ASSUME NEW p \in Submission, PageStep(p) PROVE HandOver'
  BY <1>2, HandOverFrame
  DEF PageStep, Send, SubmitExpired, SubmitRefused, SubmitChecked, SubmitStore, SubmitLost
<1>3. CASE DeadlinePasses
  BY <1>3, HandOverFrame DEF DeadlinePasses
<1>4. CASE UNCHANGED vars
  BY <1>4, HandOverFrame DEF vars
<1> QED
  BY <1>1, <1>2, <1>3, <1>4, RelayHandOver, UiHandOver DEF Next, Closed

\* What handle_pairing_async fills the form with is a submission the
\* application accepts, never an emptied or half-written inbox, although flag
\* and datum are two writes and relays of cancelled pairings may have made
\* them: for any number of sessions and submissions.
THEOREM TakenIsWholeAlways == Spec => []TakenIsWhole
<1>1. Init => ServiceInv /\ HandOver
  BY ServiceInit DEF Init, HandOver, Ahead
<1>2. ServiceInv /\ HandOver /\ [Next]_vars => (ServiceInv /\ HandOver)'
  BY ServiceStep, HandOverStep
<1>3. HandOver => TakenIsWhole
  BY DEF HandOver, TakenIsWhole
<1> QED
  BY <1>1, <1>2, <1>3, PTL DEF Spec

----
(* A session takes one submission.                                         *)

\* A session that acknowledged a submission still holds a payload, or is not
\* live: no check of another submission can pass.
Acknowledged ==
  \A q \in Submission :
    page[q].at = "ok" =>
      payload[page[q].session] /= None \/ expires[page[q].session] /= "future"

\* A step after which every session that acknowledged one is full or dead.
LEMMA AcknowledgedFrame ==
  ASSUME ServiceInv, Acknowledged,
         \A q \in Submission : page'[q].at = "ok" => page[q] = page'[q],
         \A s \in shown : (payload[s] /= None \/ expires[s] /= "future") =>
                            (payload'[s] /= None \/ expires'[s] /= "future")
  PROVE  Acknowledged'
BY DEF ServiceInv, FromDrawn, Acknowledged

\* A session that is cleared is dead.
LEMMA ClearKeepsClosed ==
  ASSUME TypeOK, NEW s \in Session, Clear(s) \/ SessionUnchanged, NEW t \in Session,
         payload[t] /= None \/ expires[t] /= "future"
  PROVE  payload'[t] /= None \/ expires'[t] /= "future"
<1>1. CASE Clear(s)
  BY <1>1 DEF Clear, TypeOK
<1>2. CASE SessionUnchanged
  BY <1>2 DEF SessionUnchanged
<1> QED
  BY <1>1, <1>2

\* Only storing and acknowledging a submission makes a page say "ok".
LEMMA AcknowledgedPage ==
  ASSUME ServiceInv, Acknowledged, NEW p \in Submission, PageStep(p)
  PROVE  Acknowledged'
<1>1. shown \subseteq Session
  BY PairingAssumption DEF ServiceInv, Drawn, TypeOK, Session, NoSession
<1>2. page[p].at /= "typing" => page[p].session \in shown
  BY DEF ServiceInv, FromDrawn
<1>3. page \in [Submission -> [at : {"typing", "sent", "body", "ok", "failed"},
                               session : Session \cup {NoSession}]]
  BY DEF ServiceInv, TypeOK
<1>4. ASSUME NEW at \in {"body", "failed"}, Answer(p, at)
      PROVE  \A q \in Submission : page'[q].at = "ok" => page[q] = page'[q]
  <2>1. [page[p] EXCEPT !.at = at].at = at
    BY <1>3
  <2>2. page' = [page EXCEPT ![p] = [page[p] EXCEPT !.at = at]]
    BY <1>4 DEF Answer
  <2> QED
    BY <1>3, <1>4, <2>1, <2>2
<1>5. CASE Send(p)
  <2>1. \A q \in Submission : page'[q].at = "ok" => page[q] = page'[q]
    BY <1>3, <1>5 DEF Send
  <2> QED
    BY <1>5, <2>1, AcknowledgedFrame DEF Send, service
<1>6. CASE SubmitExpired(p)
  <2>1. page[p].session \in Session /\ Clear(page[p].session) /\ Answer(p, "failed")
    BY <1>1, <1>2, <1>6 DEF SubmitExpired
  <2>2. \A s \in shown : (payload[s] /= None \/ expires[s] /= "future") =>
                           (payload'[s] /= None \/ expires'[s] /= "future")
    BY <1>1, <2>1, ClearKeepsClosed DEF ServiceInv
  <2> QED
    BY <1>4, <2>1, <2>2, AcknowledgedFrame
<1>7. CASE SubmitRefused(p) \/ SubmitChecked(p) \/ SubmitLost(p)
  <2>1. (Answer(p, "failed") \/ Answer(p, "body")) /\ UNCHANGED <<expires, payload>>
    BY <1>7 DEF SubmitRefused, SubmitChecked, SubmitLost, service
  <2> QED
    BY <1>4, <2>1, AcknowledgedFrame
<1>8. CASE SubmitStore(p)
  <2>1. /\ page[p].at = "body" /\ page[p].session \in Session
        /\ payload' = [payload EXCEPT ![page[p].session] = p] /\ UNCHANGED expires
        /\ Answer(p, "ok") \/ Answer(p, "failed")
    BY <1>1, <1>2, <1>8 DEF SubmitStore
  <2>2. \A s \in Session : payload[s] /= None => payload'[s] /= None
    BY <2>1, PairingAssumption DEF ServiceInv, TypeOK
  <2>3. payload'[page[p].session] /= None
    BY <2>1, PairingAssumption DEF ServiceInv, TypeOK
  <2>4. \A q \in Submission : page'[q].session = page[q].session
    BY <1>3, <2>1 DEF Answer
  <2>5. \A q \in Submission \ {p} : page'[q] = page[q]
    BY <1>3, <2>1 DEF Answer
  <2>6. ASSUME NEW q \in Submission, page'[q].at = "ok"
        PROVE  payload'[page'[q].session] /= None \/ expires'[page'[q].session] /= "future"
    <3>1. CASE q = p
      BY <2>3, <2>4, <3>1
    <3>2. CASE q /= p
      <4>1. page[q].at = "ok" /\ page'[q] = page[q]
        BY <2>5, <2>6, <3>2
      <4>2. page[q].session \in Session
        BY <1>1, <4>1 DEF ServiceInv, FromDrawn
      <4> QED
        BY <2>1, <2>2, <4>1, <4>2 DEF Acknowledged
    <3> QED
      BY <3>1, <3>2
  <2> QED
    BY <2>6 DEF Acknowledged
<1> QED
  BY <1>5, <1>6, <1>7, <1>8 DEF PageStep

\* Every step keeps sessions closed that acknowledged one.
LEMMA AcknowledgedStep == ServiceInv /\ Acknowledged /\ [Next]_vars => Acknowledged'
<1> SUFFICES ASSUME ServiceInv, Acknowledged, [Next]_vars PROVE Acknowledged'
  OBVIOUS
<1>1. shown \subseteq Session /\ shown \subseteq 1 .. last
  BY PairingAssumption DEF ServiceInv, Drawn, TypeOK, Session, NoSession
<1>c. ASSUME NEW s \in Session, Clear(s) \/ SessionUnchanged, UNCHANGED page
      PROVE  Acknowledged'
  BY <1>1, <1>c, ClearKeepsClosed, AcknowledgedFrame DEF ServiceInv
<1>u. ASSUME UNCHANGED <<service, page>> PROVE Acknowledged'
  BY <1>u, AcknowledgedFrame DEF service
<1>2. ASSUME NEW s \in Session, Expire(s) PROVE Acknowledged'
  BY <1>2, AcknowledgedFrame DEF Expire, ServiceInv, TypeOK
<1>3. ASSUME NEW s \in Session, Alarm(s) PROVE Acknowledged'
  BY <1>3, <1>c DEF Alarm
<1>4. CASE CreateAccepted \/ CreateUnknown
  <2>1. Create(last + 1) /\ UNCHANGED page
    BY <1>4 DEF CreateAccepted, CreateUnknown
  <2>2. last + 1 \notin shown
    BY <1>1, PairingAssumption DEF ServiceInv, TypeOK, Session, NoSession
  <2>3. \A s \in shown : UNCHANGED <<payload[s], expires[s]>>
    BY <1>1, <2>1, <2>2 DEF Create, ServiceInv, TypeOK
  <2> QED
    BY <2>1, <2>3, AcknowledgedFrame
<1>5. CASE RelayPoll \/ RelayDelete \/ EraseRelay
  <2>1. relay \in Session
    BY <1>5
    DEF RelayPoll, RelayDelete, EraseRelay, Thread, Ui, ServiceInv, RelayAlive, TypeOK
  <2>2. (Clear(relay) \/ SessionUnchanged) /\ UNCHANGED page
    BY <1>5 DEF RelayPoll, RelayDelete, EraseRelay, Delete
  <2> QED
    BY <1>c, <2>1, <2>2
<1>6. CASE CreateUndo
  <2>1. last \in Session
    BY <1>6 DEF CreateUndo, Ui, ServiceInv, RelayAlive, TypeOK
  <2> QED
    BY <1>6, <1>c, <2>1 DEF CreateUndo, Delete
<1>7. CASE DeadlinePasses \/ RelayGiveUp \/ RelayReply \/ RelayHand \/ RelayFlag \/ RelayFinish
  BY <1>7, <1>u
  DEF DeadlinePasses, RelayGiveUp, RelayReply, RelayHand, RelayFlag, RelayFinish
<1>8. CASE User \/ CreateTaken \/ CreateRefused \/ JoinRelay \/ TakeFlag \/ CopyPending
             \/ TakeOver \/ CheckFinished
  BY <1>8, <1>u
  DEF User, StartPairing, CancelPairing, Quit, CreateTaken, CreateRefused, JoinRelay, TakeFlag,
      CopyPending, TakeOver, CheckFinished, StopPairing
<1>9. CASE UNCHANGED vars
  BY <1>9, <1>u DEF vars
<1> QED
  BY <1>2, <1>3, <1>4, <1>5, <1>6, <1>7, <1>8, <1>9, AcknowledgedPage
  DEF Next, RelayStep, UiWork, Closed

\* Once the service acknowledged a submission of a session, no other passes
\* its checks, whether the payload was polled, erased or never fetched: for
\* any number of sessions and submissions.
THEOREM NoSecondAcceptanceAlways == Spec => NoSecondAcceptance
<1> DEFINE A == \A p, q \in Submission :
       page[p].at = "sent" /\ page'[p].at = "body" =>
         ~(page[q].at = "ok" /\ page[q].session = page[p].session)
<1>1. Init => ServiceInv /\ Acknowledged
  BY ServiceInit DEF Init, Acknowledged
<1>2. ServiceInv /\ Acknowledged /\ [Next]_vars => (ServiceInv /\ Acknowledged)'
  BY ServiceStep, AcknowledgedStep
<1>3. ASSUME ServiceInv, Acknowledged, [Next]_vars PROVE [A]_vars
  <2> SUFFICES ASSUME NEW p \in Submission, NEW q \in Submission,
                      page[p].at = "sent", page'[p].at = "body"
               PROVE  ~(page[q].at = "ok" /\ page[q].session = page[p].session)
    OBVIOUS
  <2>1. page' /= page
    OBVIOUS
  <2>2. PICK r \in Submission : PageStep(r)
    BY <1>3, <2>1
    DEF Next, Expire, Alarm, DeadlinePasses, RelayStep, RelayGiveUp, RelayPoll, RelayReply,
        RelayHand, RelayFlag, RelayDelete, RelayFinish, User, StartPairing, CancelPairing, Quit,
        UiWork, CreateAccepted, CreateTaken, CreateRefused, CreateUnknown, CreateUndo, JoinRelay,
        EraseRelay, TakeFlag, CopyPending, TakeOver, CheckFinished, StopPairing, Closed, vars
  <2>3. SubmitChecked(p)
    BY <1>3, <2>2
    DEF PageStep, Send, SubmitExpired, SubmitRefused, SubmitChecked, SubmitStore, SubmitLost,
        Answer, ServiceInv, TypeOK
  <2> QED
    BY <1>3, <2>3 DEF SubmitChecked, IsLive, Acknowledged
<1> QED
  BY <1>1, <1>2, <1>3, PTL DEF Spec, NoSecondAcceptance

----
(* What liveness rests on.                                                 *)

\* Creating sets the alarm, and only clearing the session takes it away.
Timed == alarm \in [Session -> BOOLEAN] /\ SessionIsTimed

LEMMA TimedStep ==
  ASSUME ServiceInv, Timed, [Next]_vars
  PROVE  Timed'
<1>t. expires \in [Session -> {"absent", "future", "past"}] /\ alarm \in [Session -> BOOLEAN]
  BY DEF ServiceInv, TypeOK, Timed
<1>1. ASSUME NEW s, Clear(s) \/ Create(s) \/ SessionUnchanged PROVE Timed'
  BY <1>t, <1>1 DEF Clear, Create, SessionUnchanged, Timed, SessionIsTimed
<1>2. CASE UNCHANGED <<expires, alarm>>
  BY <1>2 DEF Timed, SessionIsTimed
<1>3. ASSUME NEW s \in Session, Expire(s) \/ Alarm(s) PROVE Timed'
  BY <1>t, <1>1, <1>3 DEF Expire, Alarm, Timed, SessionIsTimed
<1>4. ASSUME NEW p \in Submission, PageStep(p) PROVE Timed'
  BY <1>1, <1>2, <1>4
  DEF PageStep, Send, SubmitExpired, SubmitRefused, SubmitChecked, SubmitStore, SubmitLost, service
<1>5. CASE RelayStep
  BY <1>1, <1>2, <1>5
  DEF RelayStep, RelayGiveUp, RelayPoll, RelayReply, RelayHand, RelayFlag, RelayDelete,
      RelayFinish, Delete, service
<1>6. CASE User \/ UiWork
  BY <1>1, <1>2, <1>6
  DEF User, UiWork, StartPairing, CancelPairing, Quit, StopPairing, CreateAccepted, CreateTaken,
      CreateRefused, CreateUnknown, CreateUndo, JoinRelay, EraseRelay, TakeFlag, CopyPending,
      TakeOver, CheckFinished, Delete, service
<1> QED
  BY <1>2, <1>3, <1>4, <1>5, <1>6 DEF Next, Closed, DeadlinePasses, vars, service

\* Every session that exists has its alarm set: what it holds is erased when it
\* expires, even if nobody asks for it again.
THEOREM SessionIsTimedAlways == Spec => []SessionIsTimed
<1>1. Init => ServiceInv /\ Timed
  BY ServiceInit DEF Init, Timed, SessionIsTimed
<1>2. ServiceInv /\ Timed /\ [Next]_vars => (ServiceInv /\ Timed)'
  BY ServiceStep, TimedStep
<1> QED
  BY <1>1, <1>2, PTL DEF Spec, Timed

\* The relay thread ends in two steps, and the pairing that it belongs to in three.
LEMMA CanEndStep ==
  ASSUME ServiceInv, RelayCanEnd, [Next]_vars
  PROVE  RelayCanEnd'
<1> USE DEF RelayCanEnd, Thread, Ui, screen, worker
<1>1. ASSUME NEW s \in Session, Expire(s) \/ Alarm(s) PROVE RelayCanEnd'
  BY <1>1 DEF Expire, Alarm
<1>2. ASSUME NEW p \in Submission, PageStep(p) PROVE RelayCanEnd'
  BY <1>2
  DEF PageStep, Send, SubmitExpired, SubmitRefused, SubmitChecked, SubmitStore, SubmitLost
<1>3. CASE RelayStep
  BY <1>3
  DEF RelayStep, RelayGiveUp, RelayPoll, RelayReply, RelayHand, RelayFlag, RelayDelete, RelayFinish
<1>4. CASE StartPairing \/ CreateTaken \/ CreateRefused \/ CreateUnknown \/ CreateUndo \/ TakeFlag
           \/ TakeOver
  BY <1>4
  DEF StartPairing, CreateTaken, CreateRefused, CreateUnknown, CreateUndo, TakeFlag, TakeOver,
      EndTurn
<1>5. CASE CreateAccepted
  <2>1. relay = NoSession /\ thread = "none"
    BY <1>5 DEF CreateAccepted, ServiceInv, RelayAlive
  <2> QED
    BY <1>5, <2>1 DEF CreateAccepted
<1>6. CASE CancelPairing \/ Quit \/ CopyPending \/ CheckFinished
  BY <1>6 DEF CancelPairing, Quit, CopyPending, CheckFinished, StopPairing, EndTurn
<1>7. CASE JoinRelay \/ EraseRelay
  <2>1. after \in {"events", "take", "gone"}
    BY DEF ServiceInv, TypeOK
  <2>2. ui = "erase" => thread = "none"
    BY DEF ServiceInv, RelayAlive
  <2> QED
    BY <1>7, <2>1, <2>2 DEF JoinRelay, EraseRelay
<1>8. CASE DeadlinePasses \/ UNCHANGED vars
  BY <1>8 DEF DeadlinePasses, vars
<1> QED
  BY <1>1, <1>2, <1>3, <1>4, <1>5, <1>6, <1>7, <1>8 DEF Next, User, UiWork, Closed

\* A pairing is never left with a relay nobody can end: one that ended by itself
\* left its flag, and one that is waited for was told to stop.
THEOREM RelayCanEndAlways == Spec => []RelayCanEnd
<1>1. Init => ServiceInv /\ RelayCanEnd
  BY ServiceInit DEF Init, RelayCanEnd
<1>2. ServiceInv /\ RelayCanEnd /\ [Next]_vars => (ServiceInv /\ RelayCanEnd)'
  BY ServiceStep, CanEndStep
<1> QED
  BY <1>1, <1>2, PTL DEF Spec

\* What is handed over is kept until it is taken, and what is taken until it is
\* filled into the form, across pairings.
THEOREM HandedIsKeptAlways == Spec => HandedIsKept
<1> DEFINE Kept ==
      /\ Handed => (Handed' /\ pending' = pending) \/ (Taking' /\ taken' = pending)
      /\ Taking => (Taking' /\ taken' = taken) \/ (ui = "take" /\ ui' = "events")
<1>1. ServiceInv /\ HandOver /\ Next => Kept
  <2> SUFFICES ASSUME ServiceInv, HandOver, Next PROVE Kept
    OBVIOUS
  <2> USE DEF Handed, Taking, Thread, Ui, screen, inbox
  <2>1. CASE UNCHANGED <<submitted, pending, screen>>
    BY <2>1
  <2>2. CASE RelayHand \/ RelayFlag
    <3>1. thread \in {"submit", "flag"} /\ UNCHANGED screen
      BY <2>2 DEF RelayHand, RelayFlag
    <3>2. ~Handed
      BY <3>1 DEF HandOver, Ahead
    <3> QED
      BY <3>1, <3>2
  <2>3. CASE StartPairing \/ CreateAccepted \/ CreateTaken \/ CreateRefused \/ CreateUnknown
             \/ CreateUndo
    BY <2>3 DEF StartPairing, CreateAccepted, CreateTaken, CreateRefused, CreateUnknown, CreateUndo
  <2>4. CASE CancelPairing \/ Quit \/ CheckFinished
    BY <2>4 DEF CancelPairing, Quit, CheckFinished, StopPairing, EndTurn
  <2>5. CASE JoinRelay \/ EraseRelay
    BY <2>5 DEF JoinRelay, EraseRelay, ServiceInv, TypeOK
  <2>6. CASE TakeFlag
    BY <2>6 DEF TakeFlag
  <2>7. CASE CopyPending
    BY <2>7 DEF CopyPending, StopPairing
  <2>8. CASE TakeOver
    BY <2>8 DEF TakeOver, EndTurn
  <2> QED
    BY <2>1, <2>2, <2>3, <2>4, <2>5, <2>6, <2>7, <2>8
    DEF Next, Closed, vars, User, UiWork, Expire, Alarm, PageStep, Send, SubmitExpired,
        SubmitRefused, SubmitChecked, SubmitStore, SubmitLost, DeadlinePasses, RelayStep,
        RelayGiveUp, RelayPoll, RelayReply, RelayDelete, RelayFinish
<1>2. ServiceInv /\ HandOver /\ [Next]_vars => [Kept]_vars
  BY <1>1
<1>3. Init => ServiceInv /\ HandOver
  BY ServiceInit DEF Init, HandOver, Ahead
<1>4. ServiceInv /\ HandOver /\ [Next]_vars => (ServiceInv /\ HandOver)'
  BY ServiceStep, HandOverStep
<1> QED
  BY <1>2, <1>3, <1>4, PTL DEF Spec, HandedIsKept
====
