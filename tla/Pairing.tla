---- MODULE Pairing ----
(***************************************************************************)
(* Adding a playlist from a phone.  The application creates a session at   *)
(* the pairing service, shows its page as a QR code and polls; the page    *)
(* encrypts what the user typed and sends it once; the relay thread hands  *)
(* it to the interface thread, which takes it over into the login form and *)
(* starts a login.  Models src/app/pairing_relay.c, the pairing part of    *)
(* src/ui_x11/x11_workers.c and x11_input.c, and, as external parts, the   *)
(* service (worker/src/index.js) and its page (worker/public/pair.js).     *)
(*                                                                         *)
(* A session is numbered; its identifier and its key are fresh random      *)
(* numbers.  A submission is what one user sends from one page.  The clock *)
(* is two unknown moments: the session expires, the relay gives up.        *)
(***************************************************************************)
EXTENDS Naturals, FiniteSets

CONSTANTS
  Submission,   \* what the users of the pages send, one model value each
  Readable,     \* those the application can decrypt and accepts
  MaxSessions,  \* bound: sessions created in one behaviour
  MaxAttempts,  \* identifiers tried for one session
  None

ASSUME PairingAssumption ==
  /\ Readable \subseteq Submission
  /\ Submission \cap {None, "empty", "gone", "failed"} = {}
  /\ {MaxSessions, MaxAttempts} \subseteq Nat \ {0}

Session == 1 .. MaxSessions
NoSession == 0

VARIABLES
  \* the service, per session
  expires,    \* expiresAt: absent, in the future, in the past
  payload,    \* the stored payload
  alarm,      \* the alarm that erases the session is set
  \* the pages
  page,       \* where a submission stands (at), and the session it is for
  \* the relay thread
  thread,     \* where it stands
  answer,     \* the answer to its last poll
  deadline,   \* its 45 seconds have passed
  stop, finished,
  \* the interface thread
  ui,         \* where it stands in one turn of its loop
  after,      \* where it goes on once the relay is gone
  attempt,    \* identifiers tried for the session being created
  last,       \* the session created last
  relay,      \* pairing_relay
  shown,      \* sessions whose QR code was drawn
  submitted,  \* pairing_submission
  pending,    \* pairing_pending_url
  taken       \* the copy handle_pairing_async works on

service == <<expires, payload, alarm>>
worker == <<thread, answer, deadline, stop, finished>>
inbox == <<submitted, pending>>
screen == <<ui, after, attempt, last, relay, shown, taken>>
vars == <<service, page, worker, inbox, screen>>

Init ==
  /\ expires = [s \in Session |-> "absent"]
  /\ payload = [s \in Session |-> None]
  /\ alarm = [s \in Session |-> FALSE]
  /\ page = [p \in Submission |-> [at |-> "typing", session |-> NoSession]]
  /\ thread = "none" /\ answer = None
  /\ deadline = FALSE /\ stop = FALSE /\ finished = FALSE /\ submitted = FALSE
  /\ ui = "events" /\ after = "events" /\ attempt = 0
  /\ last = NoSession /\ relay = NoSession /\ shown = {}
  /\ pending = None /\ taken = None

----
(* The service: a durable object per session.  Requests to one object are  *)
(* served one at a time, except that submit lets others in while it waits  *)
(* for the body of its request.                                            *)

IsLive(s) == expires[s] = "future"

\* Plausible slip: only the payload is deleted.
PayloadDeleted(s) ==
  /\ payload' = [payload EXCEPT ![s] = None]
  /\ UNCHANGED <<expires, alarm>>

\* deleteAll: the record, the payload and the alarm go.
Clear(s) ==
  /\ expires' = [expires EXCEPT ![s] = "absent"]
  /\ payload' = [payload EXCEPT ![s] = None]
  /\ alarm' = [alarm EXCEPT ![s] = FALSE]

\* Plausible slip: no alarm is set.
Created(s) ==
  /\ expires' = [expires EXCEPT ![s] = "future"]
  /\ payload' = [payload EXCEPT ![s] = None]
  /\ UNCHANGED alarm

Create(s) ==
  /\ expires' = [expires EXCEPT ![s] = "future"]
  /\ payload' = [payload EXCEPT ![s] = None]
  /\ alarm' = [alarm EXCEPT ![s] = TRUE]

SessionUnchanged == UNCHANGED <<expires, payload, alarm>>

\* A DELETE reaches the service or is lost.
Delete(s) == Clear(s) \/ SessionUnchanged

Expire(s) ==
  /\ expires[s] = "future"
  /\ expires' = [expires EXCEPT ![s] = "past"]
  /\ UNCHANGED <<payload, alarm, page, worker, inbox, screen>>

Alarm(s) ==
  /\ alarm[s] /\ expires[s] = "past"
  /\ Clear(s)
  /\ UNCHANGED <<page, worker, inbox, screen>>

----
(* The page in the phone's browser.                                        *)

Answer(p, at) == page' = [page EXCEPT ![p].at = at]

\* The user opens the page of a QR code and sends, or sends again after an
\* error: Enter works even while the button is disabled.
Send(p) ==
  /\ page[p].at \in {"typing", "failed"}
  /\ \E s \in IF page[p].at = "typing" THEN shown ELSE {page[p].session} :
       page' = [page EXCEPT ![p] = [at |-> "sent", session |-> s]]
  /\ UNCHANGED <<service, worker, inbox, screen>>

SubmitExpired(p) ==
  /\ page[p].at = "sent" /\ ~IsLive(page[p].session)
  /\ Clear(page[p].session)
  /\ Answer(p, "failed")
  /\ UNCHANGED <<worker, inbox, screen>>

SubmitRefused(p) ==
  /\ page[p].at = "sent" /\ IsLive(page[p].session)
  /\ payload[page[p].session] /= None
  /\ Answer(p, "failed")
  /\ UNCHANGED <<service, worker, inbox, screen>>

SubmitChecked(p) ==
  /\ page[p].at = "sent" /\ IsLive(page[p].session)
  /\ payload[page[p].session] = None
  /\ Answer(p, "body")
  /\ UNCHANGED <<service, worker, inbox, screen>>

\* The body has arrived; whatever happened since the checks, it is stored, and
\* acknowledged unless the answer is lost.
SubmitStore(p) ==
  /\ page[p].at = "body"
  /\ payload' = [payload EXCEPT ![page[p].session] = p]
  /\ Answer(p, "ok") \/ Answer(p, "failed")
  /\ UNCHANGED <<expires, alarm, worker, inbox, screen>>

SubmitLost(p) ==
  /\ page[p].at \in {"sent", "body"}
  /\ Answer(p, "failed")
  /\ UNCHANGED <<service, worker, inbox, screen>>

----
(* The relay thread.                                                       *)

Thread(from, to) == thread = from /\ thread' = to

DeadlinePasses ==
  /\ thread \notin {"none", "exited"} /\ ~deadline
  /\ deadline' = TRUE
  /\ UNCHANGED <<service, page, thread, answer, stop, finished, inbox, screen>>

\* Plausible slip: the relay polls for ever.
RelayStopped ==
  /\ Thread("poll", "finish") /\ stop
  /\ UNCHANGED <<service, page, answer, deadline, stop, finished, inbox, screen>>

RelayGiveUp ==
  /\ Thread("poll", "finish") /\ (stop \/ deadline)
  /\ UNCHANGED <<service, page, answer, deadline, stop, finished, inbox, screen>>

\* GET /payload is served (poll), or fails on the way or because of `stop`.
RelayPoll ==
  /\ Thread("poll", "reply") /\ ~stop /\ ~deadline
  /\ \/ /\ IsLive(relay)
        /\ answer' = IF payload[relay] = None THEN "empty" ELSE payload[relay]
        /\ SessionUnchanged
     \/ ~IsLive(relay) /\ answer' = "gone" /\ Clear(relay)
     \/ answer' = "failed" /\ (SessionUnchanged \/ (~IsLive(relay) /\ Clear(relay)))
  /\ UNCHANGED <<page, deadline, stop, finished, inbox, screen>>

\* Plausible slip: what cannot be decrypted is handed over.
RelayReplyUnread ==
  /\ thread = "reply"
  /\ thread' = IF stop \/ answer = "gone" THEN "finish"
               ELSE IF answer \in Submission THEN "submit" ELSE "poll"
  /\ UNCHANGED <<service, page, answer, deadline, stop, finished, inbox, screen>>

RelayReply ==
  /\ thread = "reply"
  /\ thread' = IF stop \/ answer = "gone" THEN "finish"
               ELSE IF answer \in Readable THEN "submit" ELSE "poll"
  /\ answer' = IF answer \in Readable THEN answer ELSE None
  /\ UNCHANGED <<service, page, deadline, stop, finished, inbox, screen>>

\* pairing_submission_cb: the data under the mutex, then the flag.
RelayHand ==
  /\ Thread("submit", "flag")
  /\ pending' = answer
  /\ UNCHANGED <<service, page, answer, deadline, stop, finished, submitted, screen>>

RelayFlag ==
  /\ Thread("flag", "delete")
  /\ submitted' = TRUE
  /\ UNCHANGED <<service, page, answer, deadline, stop, finished, pending, screen>>

RelayDelete ==
  /\ Thread("delete", "finish")
  /\ Delete(relay)
  /\ UNCHANGED <<page, answer, deadline, stop, finished, inbox, screen>>

RelayFinish ==
  /\ Thread("finish", "exited")
  /\ finished' = TRUE
  /\ UNCHANGED <<service, page, answer, deadline, stop, inbox, screen>>

RelayStep ==
  \/ RelayGiveUp \/ RelayPoll \/ RelayReply \/ RelayHand \/ RelayFlag \/ RelayDelete \/ RelayFinish

----
(* The interface thread: events, handle_pairing_async, handle_login_async, *)
(* redraw, and again.                                                      *)

Ui(from, to) == ui = from /\ ui' = to

StartPairing ==
  /\ relay = NoSession /\ last < MaxSessions
  /\ Ui("events", "create")
  /\ UNCHANGED <<service, page, worker, inbox, after, attempt, last, relay, shown, taken>>

\* POST is answered 201: the thread starts, or pthread_create fails.
CreateAccepted ==
  /\ ui = "create" /\ attempt' = 0
  /\ Create(last + 1)
  /\ last' = last + 1
  /\ \/ ui' = "events" /\ relay' = last + 1 /\ thread' = "poll"
     \/ ui' = "undo" /\ UNCHANGED <<relay, thread>>
  /\ UNCHANGED <<page, answer, deadline, stop, finished, inbox, after, shown, taken>>

\* 409: another device holds the identifier; try another one.
CreateTaken ==
  /\ ui = "create"
  /\ \/ attempt + 1 < MaxAttempts /\ attempt' = attempt + 1 /\ ui' = "create"
     \/ attempt + 1 = MaxAttempts /\ attempt' = 0 /\ ui' = "events"
  /\ UNCHANGED <<service, page, worker, inbox, after, last, relay, shown, taken>>

\* Too many creations (429), or the request is lost.
CreateRefused ==
  /\ Ui("create", "events") /\ attempt' = 0
  /\ UNCHANGED <<service, page, worker, inbox, after, last, relay, shown, taken>>

\* The answer is lost: the session exists and nobody knows it.
CreateUnknown ==
  /\ Ui("create", "events") /\ attempt' = 0
  /\ Create(last + 1)
  /\ last' = last + 1
  /\ UNCHANGED <<page, worker, inbox, after, relay, shown, taken>>

CreateUndo ==
  /\ Ui("undo", "events")
  /\ Delete(last)
  /\ UNCHANGED <<page, worker, inbox, after, attempt, last, relay, shown, taken>>

\* stop_phone_pairing up to pthread_join; `then` is what the caller does next.
StopPairing(then) ==
  /\ relay /= NoSession
  /\ stop' = TRUE
  /\ ui' = "join" /\ after' = then
  /\ UNCHANGED <<service, page, thread, answer, deadline, finished, attempt, last, relay, shown>>

\* Back, Backspace, or the other login mode.
CancelPairing ==
  /\ ui = "events" /\ StopPairing("events")
  /\ UNCHANGED <<inbox, taken>>

JoinRelay ==
  /\ Ui("join", "erase") /\ thread = "exited"
  /\ thread' = "none" /\ answer' = None /\ deadline' = FALSE
  /\ UNCHANGED <<service, page, stop, finished, inbox, after, attempt, last, relay, shown, taken>>

\* Plausible slip: the inbox is reset with the relay.
EraseRelayAndInbox ==
  /\ Ui("erase", after) /\ after' = "events"
  /\ Delete(relay)
  /\ relay' = NoSession /\ stop' = FALSE /\ finished' = FALSE
  /\ submitted' = FALSE /\ pending' = None
  /\ UNCHANGED <<page, thread, answer, deadline, attempt, last, shown, taken>>

EraseRelay ==
  /\ Ui("erase", after) /\ after' = "events"
  /\ Delete(relay)
  /\ relay' = NoSession /\ stop' = FALSE /\ finished' = FALSE
  /\ UNCHANGED <<page, thread, answer, deadline, inbox, attempt, last, shown, taken>>

\* handle_pairing_async reads the flag ...
TakeFlag ==
  /\ ui = "events"
  /\ ui' = IF submitted THEN "copy" ELSE "finished"
  /\ submitted' = FALSE
  /\ UNCHANGED <<service, page, worker, pending, after, attempt, last, relay, shown,
                 taken>>

\* ... copies the submission and stops the relay ...
CopyPending ==
  /\ ui = "copy"
  /\ taken' = pending
  /\ pending' = None
  /\ \/ StopPairing("take")
     \/ /\ relay = NoSession
        /\ ui' = "take"
        /\ UNCHANGED <<service, page, worker, after, attempt, last, relay, shown>>
  /\ UNCHANGED submitted

\* The turn ends with redraw, which shows the QR code there is.
EndTurn ==
  /\ ui' = "events"
  /\ shown' = IF relay = NoSession THEN shown ELSE shown \cup {relay}

\* ... fills the form and calls start_login.
TakeOver ==
  /\ ui = "take" /\ EndTurn
  /\ taken' = None
  /\ UNCHANGED <<service, page, worker, inbox, after, attempt, last, relay>>

\* ... or notices that the relay has ended by itself.
CheckFinished ==
  /\ ui = "finished"
  /\ \/ finished /\ StopPairing("events")
     \/ /\ relay = NoSession \/ ~finished
        /\ EndTurn
        /\ UNCHANGED <<service, page, worker, after, attempt, last, relay>>
  /\ UNCHANGED <<inbox, taken>>

\* The window is closed: destroy_app stops the relay.
Quit ==
  /\ ui = "events"
  /\ \/ StopPairing("gone")
     \/ /\ relay = NoSession
        /\ ui' = "gone"
        /\ UNCHANGED <<service, page, worker, after, attempt, last, relay, shown>>
  /\ UNCHANGED <<inbox, taken>>

UiWork ==
  \/ CreateAccepted \/ CreateTaken \/ CreateRefused \/ CreateUnknown \/ CreateUndo
  \/ JoinRelay \/ EraseRelay \/ TakeFlag \/ CopyPending \/ TakeOver
  \/ CheckFinished

User == StartPairing \/ CancelPairing \/ Quit

PageStep(p) ==
  \/ Send(p) \/ SubmitExpired(p) \/ SubmitRefused(p) \/ SubmitChecked(p) \/ SubmitStore(p)
  \/ SubmitLost(p)

\* The window is closed; sessions and pages may go on.
Closed == ui = "gone" /\ UNCHANGED vars

Next ==
  \/ \E s \in Session : Expire(s) \/ Alarm(s)
  \/ \E p \in Submission : PageStep(p)
  \/ DeadlinePasses \/ RelayStep
  \/ User \/ UiWork
  \/ Closed

\* The interface thread keeps turning, and its queue of events drains again and
\* again; the relay thread runs (a request ends within five seconds); time
\* passes.  Users and pages do as they please.
Fairness ==
  /\ WF_vars(UiWork) /\ SF_vars(TakeFlag)
  /\ WF_vars(RelayStep) /\ WF_vars(DeadlinePasses)
  /\ \A s \in Session : WF_vars(Expire(s)) /\ WF_vars(Alarm(s))

Spec == Init /\ [][Next]_vars /\ Fairness

----
(* Properties.                                                             *)

\* What the interface takes over into the form is a whole submission that the
\* application accepts, never an emptied or half-written inbox, although the
\* flag and the data are two writes, the relay of a cancelled session may
\* have set them long before, and the next session may be starting.
TakenIsWhole == ui = "take" => taken \in Readable

\* A session takes one submission: once one was acknowledged no other passes
\* the checks, whether the relay has polled, erased the session or given up.
\* (Two that passed them together may both be acknowledged: the later one wins.)
NoSecondAcceptance ==
  [][\A p, q \in Submission :
       page[p].at = "sent" /\ page'[p].at = "body" =>
         ~(page[q].at = "ok" /\ page[q].session = page[p].session)]_vars

\* A payload does not outlive its session: it is erased by delivery, by the
\* end of the pairing or by the alarm, unless it was stored after all of
\* these (its checks came before, its body after).
PayloadErased ==
  \A s \in Session :
    (payload[s] /= None /\ expires[s] /= "absent") ~> (payload[s] = None)

\* The QR code goes away: a pairing ends by a submission, by the user or when
\* its time is over, whatever the network does.
PairingEnds == (relay /= NoSession) ~> (relay = NoSession)

\* A submission handed over by the relay reaches the form, even when the
\* pairing is cancelled at the same moment, unless the window is closed.
HandedIsTaken == submitted ~> (ui = "take" \/ ui = "gone")

\* What the last three rest on, as safety.

\* Every session that exists has its alarm set.
SessionIsTimed == \A s \in Session : expires[s] /= "absent" => alarm[s]

\* Once the relay thread has ended the interface thread can notice it, and the
\* one it waits for was told to stop.
RelayCanEnd ==
  /\ thread = "exited" => finished
  /\ ui = "join" => stop /\ thread /= "none"
  /\ relay /= NoSession /\ ui /= "erase" => thread /= "none"

\* A submission is in the inbox, or being filled into the form.
Handed == submitted \/ ui = "copy"
Taking == ui = "take" \/ (after = "take" /\ ui \in {"join", "erase"})

\* What the relay handed over stays in the inbox as it is until the interface
\* takes it, and what that took until the form is filled: the end of the relay,
\* the cancelling of its pairing and the relay of the next session leave it.
HandedIsKept ==
  [][/\ Handed => (Handed' /\ pending' = pending) \/ (Taking' /\ taken' = pending)
     /\ Taking => (Taking' /\ taken' = taken) \/ (ui = "take" /\ ui' = "events")]_vars
====
