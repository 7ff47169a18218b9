----------------------------- MODULE NiSession -----------------------------
(***************************************************************************)
(* Network-initiated (NI) location requests: loc_eng_ni.cpp.               *)
(*                                                                         *)
(* The modem asks, the MsgTask thread notifies the framework and spawns a  *)
(* thread that waits for the user's response, for a limited time, and      *)
(* sends it to the modem.  One request is in session at a time.  The       *)
(* framework responds on a thread of its own.  Only part of the session is *)
(* accessed under tLock.                                                   *)
(***************************************************************************)
EXTENDS Naturals, Sequences, FiniteSets

CONSTANTS
    Replies,        \* what a user may respond
    MaxRequests,    \* bound: requests of the modem
    MaxDowns        \* bound: modem restarts

ASSUME RepliesAssumption == {"none", "NORESP", "unset"} \cap Replies = {}
ASSUME BoundsAssumption == MaxRequests \in Nat /\ MaxDowns \in Nat

Requests == 1..MaxRequests

VARIABLES
    rawRequest,     \* the request in session, 0 if none
    respRecvd,
    resp,
    reqID,          \* the ID to check against a response
    respTimeLeft,   \* 0, or 1 for the time the notification gives the user
    thread,         \* where ni_thread_proc is that was spawned for a request
    delay,          \* the time each of them waits, as respTimeLeft
    msg,            \* the message each has made, in a sequence
    msgq,           \* messages sent to MsgTask
    informed,       \* responses the modem was informed of, in order
    freed,          \* how often each request was freed
    notification,   \* the ID the framework was notified with
    reply,          \* what the user responded, if anything
    responding,     \* a response past the checks of loc_eng_ni_respond
    resetting,      \* where loc_eng_ni_reset_on_engine_restart is
    requests,       \* requests so far
    downs           \* restarts so far

session   == <<rawRequest, respRecvd, resp, reqID, respTimeLeft>>
ni        == <<thread, delay, msg>>
framework == <<notification, reply, responding>>
memory    == <<msgq, informed, freed>>
bounds    == <<requests, downs>>
vars      == <<session, ni, framework, memory, resetting, bounds>>

ThreadSteps == {"none", "start", "waiting", "expired", "take", "clear",
                "leave", "bump", "send", "done"}

Answers == [request : Requests, resp : Replies \cup {"NORESP", "unset"}]

TypeOK ==
    /\ rawRequest \in 0..MaxRequests
    /\ respRecvd \in BOOLEAN
    /\ resp \in Replies \cup {"NORESP", "unset"}
    /\ reqID \in 0..MaxRequests
    /\ respTimeLeft \in {0, 1}
    /\ thread \in [Requests -> ThreadSteps]
    /\ delay \in [Requests -> {0, 1}]
    /\ \A r \in Requests : msg[r] \in Seq(Answers)
    /\ msgq \in Seq(Answers) /\ informed \in Seq(Answers)
    /\ freed \in [Requests -> Nat]
    /\ notification \in [Requests -> 0..MaxRequests]
    /\ reply \in [Requests -> Replies \cup {"none"}]
    /\ responding \in Seq(Replies)
    /\ resetting \in {"no", "clear", "signal"}
    /\ requests \in 0..MaxRequests /\ downs \in 0..MaxDowns

(* loc_eng_ni_init. *)
Init ==
    /\ rawRequest = 0 /\ respRecvd = FALSE /\ resp = "unset"
    /\ reqID = 0 /\ respTimeLeft = 0
    /\ thread = [r \in Requests |-> "none"]
    /\ delay = [r \in Requests |-> 0]
    /\ msg = [r \in Requests |-> <<>>]
    /\ msgq = <<>> /\ informed = <<>>
    /\ freed = [r \in Requests |-> 0]
    /\ notification = [r \in Requests |-> 0]
    /\ reply = [r \in Requests |-> "none"]
    /\ responding = <<>>
    /\ resetting = "no"
    /\ requests = 0 /\ downs = 0

-----------------------------------------------------------------------------
(* The MsgTask thread.                                                     *)

Busy == rawRequest # 0

(* loc_eng_ni_request_handler: ignored and freed while another request is  *)
(* in session.                                                             *)
Request(r) ==
    /\ resetting = "no"
    /\ r = requests + 1
    /\ requests' = r
    /\ \/ /\ Busy
          /\ freed' = [freed EXCEPT ![r] = @ + 1]
          /\ UNCHANGED <<rawRequest, notification, respTimeLeft, thread>>
       \/ /\ ~Busy
          /\ rawRequest' = r
          /\ notification' = [notification EXCEPT ![r] = reqID]
          /\ respTimeLeft' = 1
          /\ thread' = [thread EXCEPT ![r] = "start"]
          /\ UNCHANGED freed
    /\ UNCHANGED <<respRecvd, resp, reqID, delay, msg, msgq, informed, reply,
                   responding, resetting, downs>>

(* LocEngInformNiResponse: the modem is informed and the request freed.    *)
Inform ==
    /\ resetting = "no"
    /\ msgq # <<>>
    /\ msgq' = Tail(msgq)
    /\ informed' = Append(informed, Head(msgq))
    /\ freed' = [freed EXCEPT ![Head(msgq).request] = @ + 1]
    /\ UNCHANGED <<session, ni, framework, resetting, bounds>>

(* loc_eng_ni_reset_on_engine_restart, from loc_eng_handle_engine_down: it *)
(* frees the request and clears it without tLock, then has the thread      *)
(* leave.                                                                  *)
ResetFree ==
    /\ resetting = "no"
    /\ downs < MaxDowns
    /\ downs' = downs + 1
    /\ IF rawRequest = 0
         THEN UNCHANGED <<freed, resetting>>
         ELSE /\ freed' = [freed EXCEPT ![rawRequest] = @ + 1]
              /\ resetting' = "clear"
    /\ UNCHANGED <<session, ni, framework, msgq, informed, requests>>

ResetClear ==
    /\ resetting = "clear"
    /\ rawRequest' = 0
    /\ resetting' = "signal"
    /\ UNCHANGED <<respRecvd, resp, reqID, respTimeLeft, ni, framework, memory,
                   bounds>>

(* tLock is held by a thread from when it stops waiting until it leaves. *)
Unlocked == \A r \in Requests : thread[r] \notin {"take", "clear"}

ResetSignal ==
    /\ resetting = "signal"
    /\ Unlocked
    /\ respRecvd' = TRUE
    /\ resetting' = "no"
    /\ UNCHANGED <<rawRequest, resp, reqID, respTimeLeft, ni, framework, memory,
                   bounds>>

-----------------------------------------------------------------------------
(* The framework's thread: loc_eng_ni_respond, for a request it was        *)
(* notified of, once, at any time.  The checks come before tLock.          *)

Accepts(r) == notification[r] = reqID /\ rawRequest # 0

RespondCheck(r, answer) ==
    /\ responding = <<>>
    /\ thread[r] # "none"
    /\ reply[r] = "none"
    /\ reply' = [reply EXCEPT ![r] = answer]
    /\ responding' = IF Accepts(r) THEN <<answer>> ELSE <<>>
    /\ UNCHANGED <<session, ni, memory, notification, resetting, bounds>>

RespondSignal ==
    /\ responding # <<>>
    /\ Unlocked
    /\ resp' = Head(responding)
    /\ respRecvd' = TRUE
    /\ responding' = <<>>
    /\ UNCHANGED <<rawRequest, reqID, respTimeLeft, ni, memory, notification,
                   reply, resetting, bounds>>

-----------------------------------------------------------------------------
(* ni_thread_proc.                                                         *)

GoTo(r, step) == thread' = [thread EXCEPT ![r] = step]

Start(r) ==
    /\ thread[r] = "start"
    /\ Unlocked
    /\ delay' = [delay EXCEPT ![r] = respTimeLeft]
    /\ GoTo(r, "waiting")
    /\ UNCHANGED <<session, msg, framework, memory, resetting, bounds>>

(* The wait ends with a response ... *)
Received(r) ==
    /\ thread[r] = "waiting"
    /\ Unlocked
    /\ respRecvd
    /\ respRecvd' = FALSE
    /\ GoTo(r, "take")
    /\ UNCHANGED <<rawRequest, resp, reqID, respTimeLeft, delay, msg, framework,
                   memory, resetting, bounds>>

(* ... or expires, even if a response comes before the lock is taken back. *)
Expire(r) ==
    /\ thread[r] = "waiting"
    /\ GoTo(r, "expired")
    /\ UNCHANGED <<session, delay, msg, framework, memory, resetting, bounds>>

ExpiredWithoutLock(r) ==
    /\ thread[r] = "expired"
    /\ resp' = "NORESP"
    /\ respRecvd' = FALSE
    /\ GoTo(r, "take")
    /\ UNCHANGED <<rawRequest, reqID, respTimeLeft, delay, msg, framework,
                   memory, resetting, bounds>>

Expired(r) ==
    /\ thread[r] = "expired"
    /\ Unlocked
    /\ resp' = "NORESP"
    /\ respRecvd' = FALSE
    /\ GoTo(r, "take")
    /\ UNCHANGED <<rawRequest, reqID, respTimeLeft, delay, msg, framework,
                   memory, resetting, bounds>>

TakeIgnoreStays(r) ==
    /\ thread[r] = "take"
    /\ msg' = [msg EXCEPT ![r] =
                 IF rawRequest # 0 /\ resp # "IGNORE"
                   THEN <<[request |-> rawRequest, resp |-> resp]>>
                   ELSE <<>>]
    /\ GoTo(r, IF rawRequest # 0 /\ resp # "IGNORE" THEN "clear" ELSE "leave")
    /\ UNCHANGED <<session, delay, framework, memory, resetting, bounds>>

(* The request in session is answered, unless a restart has cleared it or  *)
(* the response is to be ignored.                                          *)
Take(r) ==
    /\ thread[r] = "take"
    /\ msg' = [msg EXCEPT ![r] =
                 IF rawRequest # 0 /\ resp # "IGNORE"
                   THEN <<[request |-> rawRequest, resp |-> resp]>>
                   ELSE <<>>]
    /\ GoTo(r, IF rawRequest # 0 THEN "clear" ELSE "leave")
    /\ UNCHANGED <<session, delay, framework, memory, resetting, bounds>>

ClearNothing(r) ==
    /\ thread[r] = "clear"
    /\ GoTo(r, "leave")
    /\ UNCHANGED <<session, delay, msg, framework, memory, resetting, bounds>>

Clear(r) ==
    /\ thread[r] = "clear"
    /\ rawRequest' = 0
    /\ GoTo(r, "leave")
    /\ UNCHANGED <<respRecvd, resp, reqID, respTimeLeft, delay, msg, framework,
                   memory, resetting, bounds>>

(* Without the lock again. *)
Leave(r) ==
    /\ thread[r] = "leave"
    /\ respTimeLeft' = 0
    /\ GoTo(r, "bump")
    /\ UNCHANGED <<rawRequest, respRecvd, resp, reqID, delay, msg, framework,
                   memory, resetting, bounds>>

Bump(r) ==
    /\ thread[r] = "bump"
    /\ reqID' = reqID + 1
    /\ GoTo(r, "send")
    /\ UNCHANGED <<rawRequest, respRecvd, resp, respTimeLeft, delay, msg,
                   framework, memory, resetting, bounds>>

Send(r) ==
    /\ thread[r] = "send"
    /\ msgq' = msgq \o msg[r]
    /\ msg' = [msg EXCEPT ![r] = <<>>]
    /\ GoTo(r, "done")
    /\ UNCHANGED <<session, delay, framework, informed, freed, resetting, bounds>>

-----------------------------------------------------------------------------
NiThread(r) == Start(r) \/ Received(r) \/ Expire(r) \/ Expired(r) \/ Take(r)
                  \/ Clear(r) \/ Leave(r) \/ Bump(r) \/ Send(r)

Reset == ResetFree \/ ResetClear \/ ResetSignal

Next ==
    \/ \E r \in Requests :
          \/ Request(r) \/ NiThread(r)
          \/ \E answer \in Replies : RespondCheck(r, answer)
    \/ Inform \/ Reset \/ RespondSignal

(* Threads run and waits expire; nobody has to ask or to respond. *)
Spec ==
    /\ Init /\ [][Next]_vars
    /\ \A r \in Requests : WF_vars(NiThread(r))
    /\ WF_vars(Inform) /\ WF_vars(ResetClear \/ ResetSignal)

-----------------------------------------------------------------------------
(* The threads that will still look at the request in session. *)
OnWatch == {r \in Requests :
               thread[r] \in {"start", "waiting", "expired", "take", "clear"}}

(* "For robustness, spawn a thread to clear up the notification status":   *)
(* a request in session always has a thread left that will end it, though  *)
(* after a restart a thread may end another's session.                     *)
SessionHasThread == TypeOK /\ (rawRequest # 0 => OnWatch # {})

(* The modem is informed at most once about each request. *)
OneAnswer ==
    LET all == informed \o msgq IN
      \A i, j \in 1..Len(all) : all[i].request = all[j].request => i = j

(* The request a thread holds or posted has not been freed. *)
Holding == {m \in Answers : \/ \E i \in 1..Len(msgq) : msgq[i] = m
                            \/ \E r \in Requests : msg[r] = <<m>>}

(* Until the modem restarts, a request is freed exactly once, by whoever   *)
(* has it, and is lost only to a response that is to be ignored.           *)
FreedOnce ==
    downs = 0 =>
        \A r \in 1..requests :
            /\ freed[r] + Cardinality({m \in Holding : m.request = r})
                   + (IF rawRequest = r /\ thread[r] # "clear" THEN 1 ELSE 0) <= 1
            /\ freed[r] = 0 /\ rawRequest # r /\ (\A m \in Holding : m.request # r)
                  => \E i \in Requests : reply[i] = "IGNORE"

(* Both: one request, one answer, one release. *)
EndsOnce == OneAnswer /\ FreedOnce

(* "ID to check against response": what the modem is told a user responded *)
(* to a request is what the user responded to it.                          *)
AnswerMatches ==
    \A i \in 1..Len(informed) :
        informed[i].resp # "NORESP" => informed[i].resp = reply[informed[i].request]

(* The session is over at some time, whoever dies or stays silent. *)
StatusCleared == \A r \in Requests : rawRequest = r ~> rawRequest # r
=============================================================================
