---------------------------- MODULE AuthGateway ----------------------------
(***************************************************************************)
(* server_config/auth_gateway (a FastAPI service) and the Odoo add-on      *)
(* odoo_biometric_bridge it posts events to.                               *)
(*                                                                         *)
(* The gateway serves requests side by side, each in a thread of its own.  *)
(* The steps of the biometric login and logout share a flow, a row of      *)
(* sqlite every request reads and writes in separate statements.  A local  *)
(* request proves who it is and is filmed at once and asks Odoo for a      *)
(* check-in or a check-out.  Both report what happened with a POST that    *)
(* Odoo may process although the gateway has given up waiting for it.      *)
(*                                                                         *)
(* A transaction of Odoo is one step: creating or closing an attendance    *)
(* writes last_attendance_id of its employee, so that two of one employee  *)
(* conflict and one of them is run again.                                  *)
(***************************************************************************)
EXTENDS Integers, Sequences, FiniteSets

CONSTANTS
  Users,       \* logins of Odoo
  Employees,   \* those with an employee
  Devices,     \* fingerprints: what browser, system and agent tell apart
  Flows,       \* flow ids, one for every start request
  Requests,    \* bound: the requests, 1..n, in the order they arrive
  Scripts,     \* what they are: functions from Requests to requests
  SyncEnabled, \* biometric.policy.attendance_sync_enabled
  MaxAttempts, \* rekognition_max_attempts
  MaxPosts,    \* posts event_service.emit tries: 3
  DayLen,      \* ticks of a day
  MaxTime,     \* bound on the clock
  MaxFaults    \* bound on calls that fail, answers lost and restarts

(* A request: its kind, who, from where, about which flow, asking for what *)
(* attendance, with the right password, a wrong one, or the signed link of *)
(* Odoo's logout in place of one, valid or not.                            *)
Kinds == {"login_start", "liveness_result", "login_complete", "logout_start",
          "logout_complete", "local_complete", "local_failure"}
Acts == {"none", "check_in", "check_out"}
Proofs == {"password", "wrong", "signed", "expired"}
Request == [kind : Kinds, user : Users, dev : Devices, flow : Flows, act : Acts,
            proof : Proofs]

ASSUME AuthAssumption ==
  /\ IsFiniteSet(Requests) /\ Requests = 1 .. Cardinality(Requests)
  /\ Employees \subseteq Users /\ Scripts \subseteq [Requests -> Request]
  /\ \A s \in Scripts, r \in Requests : s[r].kind = "local_complete" => s[r].act # "none"
  /\ SyncEnabled \in BOOLEAN /\ MaxAttempts \in Nat \ {0} /\ MaxPosts \in Nat \ {0}
  /\ DayLen \in Nat \ {0, 1} /\ MaxTime \in Nat /\ MaxFaults \in Nat

Open == -1
NoFlow == [kind |-> "none", user |-> "none", token |-> FALSE, attempts |-> 0,
           passed |-> FALSE, status |-> "none"]
NoMessage == [result |-> "none"]

VARIABLES
  now,        \* the clock
  live,       \* what Rekognition says of the liveness session of a flow
  flows,      \* flow_state, the table of sqlite
  req,        \* the requests, one thread for each
  pc,         \* where it is
  got,        \* the flow as its thread read it, with what it will write
  msg,        \* the event its thread has to post
  tries,      \* posts of that event so far
  answer,     \* the status code the client got, 0 before
  wire,       \* the posts <<request, try>> that Odoo will process
  event,      \* biometric.auth.event
  attendance, \* hr.attendance
  device,     \* biometric.device
  fallback,   \* biometric_events of the MySQL fallback
  lost,       \* history: why nobody will try to store an event any more
  faults      \* failures so far

thread == <<req, pc, got, msg, tries, answer>>
odoo == <<event, attendance, device>>
vars == <<now, live, flows, thread, wire, odoo, fallback, lost, faults>>

Init ==
  /\ now = 0
  /\ live = [f \in Flows |-> "none"] /\ flows = [f \in Flows |-> NoFlow]
  /\ req \in Scripts /\ pc = [r \in Requests |-> "free"]
  /\ got = [r \in Requests |-> NoFlow] /\ msg = [r \in Requests |-> NoMessage]
  /\ tries = [r \in Requests |-> 0] /\ answer = [r \in Requests |-> 0]
  /\ wire = {} /\ event = <<>> /\ attendance = <<>> /\ device = {}
  /\ fallback = {} /\ lost = [r \in Requests |-> "no"] /\ faults = 0

(***************************************************************************)
(* The environment                                                         *)
(***************************************************************************)
Tick ==
  /\ now < MaxTime /\ now' = now + 1
  /\ UNCHANGED <<live, flows, thread, wire, odoo, fallback, lost, faults>>

(* The camera session in the browser ends; Rekognition keeps its result.   *)
EndSession(f) ==
  /\ live[f] = "running"
  /\ \E res \in {"passed", "failed"} : live' = [live EXCEPT ![f] = res]
  /\ UNCHANGED <<now, flows, thread, wire, odoo, fallback, lost, faults>>

Fault == faults < MaxFaults /\ faults' = faults + 1

(***************************************************************************)
(* The threads                                                             *)
(***************************************************************************)
Goto(r, to) == pc' = [pc EXCEPT ![r] = to]

Answer(r, code) == Goto(r, "done") /\ answer' = [answer EXCEPT ![r] = code]

FirstStep(kind) ==
  CASE kind = "login_start"                      -> "cognito"
    [] kind = "logout_start"                     -> "session"
    [] kind \in {"local_complete", "local_failure"} -> "context"
    [] OTHER                                     -> "read"

Arrive(r) ==
  /\ pc[r] = "free" /\ \A s \in Requests : s < r => pc[s] # "free"
  /\ Goto(r, FirstStep(req[r].kind))
  /\ UNCHANGED <<now, live, flows, req, got, msg, tries, answer, wire, odoo, fallback, lost,
                 faults>>

(* An event to post: its result, the attendance it asks for, and what the  *)
(* client is told then.  retry: event_service.emit, whose outcome nobody   *)
(* waits for; otherwise _emit_or_fail, one post whose answer decides.      *)
Message(result, act, retry, then) ==
  [result |-> result, act |-> act, retry |-> retry, then |-> then]

(* Fault: the event of a local request goes through the retrying service.  *)
EmitRetried(r, result, act, retry, then) ==
  /\ msg' = [msg EXCEPT ![r] = Message(result, act, TRUE, then)]
  /\ Goto(r, "post") /\ UNCHANGED answer

Emit(r, result, act, retry, then) ==
  /\ msg' = [msg EXCEPT ![r] = Message(result, act, retry, then)]
  /\ Goto(r, "post") /\ UNCHANGED answer

(* _load_user_context; then local_failure has what it reports.             *)
Context(r) ==
  LET q == req[r]
      local == q.kind = "local_complete"
  IN  /\ pc[r] = "context"
      /\ \/ Fault /\ Answer(r, 502) /\ UNCHANGED msg
         \/ /\ UNCHANGED faults
            /\ IF local /\ q.proof = "expired" THEN Answer(r, 401) /\ UNCHANGED msg
               ELSE IF local /\ q.user \notin Employees THEN Answer(r, 403) /\ UNCHANGED msg
               ELSE IF local
               THEN /\ Goto(r, IF q.proof = "signed" THEN "evidence" ELSE "cognito")
                    /\ UNCHANGED <<answer, msg>>
               ELSE Emit(r, "failed", "none", FALSE, 200)
      /\ UNCHANGED <<now, live, flows, req, got, tries, wire, odoo, fallback, lost>>

(* The Cognito triggers: a challenge while the session is empty, tokens    *)
(* when its last answer was right, failure after three wrong ones.         *)
Define(answers) ==
  CASE answers = <<>>        -> "challenge"
    [] answers # <<>> /\ answers[Len(answers)] -> "tokens"
    [] Len(answers) >= 3     -> "fail"
    [] OTHER                 -> "challenge"

(* custom_auth_with_password: one challenge and one answer.  Odoo says     *)
(* whether it is right; when it does not answer it is wrong.               *)
TokensFor(correct) == Define(<<>>) = "challenge" /\ Define(<<correct>>) = "tokens"

Cognito(r) ==
  LET local == req[r].kind = "local_complete"
  IN  /\ pc[r] = "cognito"
      /\ \E heard \in BOOLEAN :
           /\ IF heard THEN UNCHANGED faults ELSE Fault
           /\ IF TokensFor(heard /\ req[r].proof = "password")
              THEN Goto(r, IF local THEN "evidence" ELSE "session") /\ UNCHANGED <<answer, msg>>
              ELSE Emit(r, "failed", "none", ~local, 401)
      /\ UNCHANGED <<now, live, flows, req, got, tries, wire, odoo, fallback, lost>>

(* create_liveness_session, then create_flow.                              *)
StartSession(r) ==
  LET f == req[r].flow
      login == req[r].kind = "login_start"
  IN  /\ pc[r] = "session" /\ live[f] = "none"
      /\ live' = [live EXCEPT ![f] = "running"]
      /\ flows' = [flows EXCEPT ![f] =
           [kind |-> IF login THEN "login" ELSE "logout", user |-> req[r].user,
            token |-> login, attempts |-> 0, passed |-> FALSE,
            status |-> IF login THEN "credentials_ok" ELSE "started"]]
      /\ Answer(r, 200)
      /\ UNCHANGED <<now, req, got, msg, tries, wire, odoo, fallback, lost, faults>>

SessionFails(r) ==
  /\ pc[r] = "session" /\ Fault
  /\ IF req[r].kind = "login_start" THEN Emit(r, "failed", "none", TRUE, 500)
     ELSE Answer(r, 500) /\ UNCHANGED msg
  /\ UNCHANGED <<now, live, flows, req, got, tries, wire, odoo, fallback, lost>>

(* get_flow: what the rest of the request works from.                      *)
ReadFlow(r) ==
  LET f == flows[req[r].flow]
      kind == IF req[r].kind = "logout_complete" THEN "logout" ELSE "login"
  IN  /\ pc[r] = "read"
      /\ got' = [got EXCEPT ![r] = f]
      /\ IF f.kind # kind THEN Answer(r, 404)
         ELSE /\ Goto(r, IF req[r].kind = "login_complete" THEN "complete" ELSE "liveness")
              /\ UNCHANGED answer
      /\ UNCHANGED <<now, live, flows, req, msg, tries, wire, odoo, fallback, lost, faults>>

(* SUCCEEDED with a score above the threshold.                             *)
Passed(f) == live[f] = "passed"

(* get_liveness_result, and one more attempt than was read.                *)
AskRekognition(r) ==
  /\ pc[r] = "liveness"
  /\ \/ /\ got' = [got EXCEPT ![r] = [@ EXCEPT !.attempts = got[r].attempts + 1,
                                           !.passed = Passed(req[r].flow)]]
        /\ Goto(r, "record") /\ UNCHANGED <<answer, faults>>
     \/ Fault /\ Answer(r, 500) /\ UNCHANGED got
  /\ UNCHANGED <<now, live, flows, req, msg, tries, wire, odoo, fallback, lost>>

(* update_flow: the columns are set, whatever they have become meanwhile.  *)
RecordResult(r) ==
  LET login == req[r].kind = "liveness_result"
      passed == got[r].passed
  IN  /\ pc[r] = "record"
      /\ flows' = [flows EXCEPT ![req[r].flow] =
           [@ EXCEPT !.attempts = got[r].attempts, !.passed = passed,
                     !.status = CASE login /\ passed  -> "liveness_passed"
                                  [] login /\ ~passed -> "liveness_failed"
                                  [] OTHER -> IF passed THEN "completed" ELSE "failed"]]
      /\ IF ~login
         THEN IF passed THEN Emit(r, "success", "none", TRUE, 200)
              ELSE Emit(r, "failed", "none", TRUE, 400)
         ELSE IF ~passed /\ got[r].attempts >= MaxAttempts
         THEN Emit(r, "failed", "none", TRUE, 200)
         ELSE Answer(r, 200) /\ UNCHANGED msg
      /\ UNCHANGED <<now, live, req, got, tries, wire, odoo, fallback, lost, faults>>

(* Fault: only the credentials of the flow are looked at.                  *)
HasToken(f) == f.token

MayComplete(f) == f.passed /\ f.token

Complete(r) ==
  /\ pc[r] = "complete"
  /\ IF MayComplete(got[r])
     THEN /\ flows' = [flows EXCEPT ![req[r].flow] = [@ EXCEPT !.status = "completed"]]
          /\ Emit(r, "success", "none", TRUE, 200)
     ELSE Answer(r, 400) /\ UNCHANGED <<flows, msg>>
  /\ UNCHANGED <<now, live, req, got, tries, wire, odoo, fallback, lost, faults>>

(* The video is uploaded, without it there is no event; the comparison of  *)
(* the face is only reported.                                              *)
Evidence(r) ==
  /\ pc[r] = "evidence"
  /\ \/ Emit(r, "success", req[r].act, FALSE, 200) /\ UNCHANGED faults
     \/ Fault /\ Answer(r, 502) /\ UNCHANGED msg
  /\ UNCHANGED <<now, live, flows, req, got, tries, wire, odoo, fallback, lost>>

(***************************************************************************)
(* Posting an event                                                        *)
(***************************************************************************)
Post(r) ==
  /\ pc[r] = "post"
  /\ tries' = [tries EXCEPT ![r] = @ + 1]
  /\ wire' = wire \cup {<<r, tries'[r]>>}
  /\ Goto(r, "wait")
  /\ UNCHANGED <<now, live, flows, req, got, msg, answer, odoo, fallback, lost, faults>>

(* Odoo answers a post.  The retrying service takes any answer for a       *)
(* delivery; a thread that has given up on this post does not hear it.     *)
Reply(r, n, code) ==
  IF pc[r] = "wait" /\ tries[r] = n
  THEN Answer(r, IF msg[r].retry \/ code = 200 THEN msg[r].then ELSE code)
  ELSE UNCHANGED <<pc, answer>>

(* Fault: one post too many.                                               *)
OnePostMore(r) == IF tries[r] <= MaxPosts THEN "post" ELSE "fallback"

(* Fault: the event is given up with its first post.                       *)
NoMorePosts(r) == "done"

AfterFailedPost(r) == IF tries[r] < MaxPosts THEN "post" ELSE "fallback"

(* requests raises: the post never arrived, or will be processed and its   *)
(* answer is lost or too late.                                             *)
PostFails(r) ==
  /\ pc[r] = "wait" /\ Fault
  /\ wire' \in {wire, wire \ {<<r, tries[r]>>}}
  /\ IF msg[r].retry THEN Goto(r, AfterFailedPost(r)) /\ UNCHANGED answer
     ELSE Answer(r, 502)
  /\ UNCHANGED <<now, live, flows, req, got, msg, tries, odoo, fallback, lost>>

(* The MySQL fallback; when it fails too the event is only logged.         *)
Fallback(r) ==
  /\ pc[r] = "fallback"
  /\ \/ fallback' = fallback \cup {r} /\ UNCHANGED <<lost, faults>>
     \/ Fault /\ lost' = [lost EXCEPT ![r] = "logged"] /\ UNCHANGED fallback
  /\ Answer(r, msg[r].then)
  /\ UNCHANGED <<now, live, flows, req, got, msg, tries, wire, odoo>>

(* The service is restarted: its threads are gone, their clients get no    *)
(* answer; flow_state stays.                                               *)
Restart ==
  /\ Fault
  /\ \E r \in Requests : pc[r] \notin {"free", "done"}
  /\ pc' = [r \in Requests |-> IF pc[r] = "free" THEN "free" ELSE "done"]
  /\ lost' = [r \in Requests |-> IF pc[r] \in {"post", "wait", "fallback"} THEN "restart"
                                 ELSE lost[r]]
  /\ UNCHANGED <<now, live, flows, req, got, msg, tries, answer, wire, odoo, fallback>>

(***************************************************************************)
(* Odoo: create_from_gateway, one transaction                              *)
(***************************************************************************)
Day(t) == t \div DayLen
EndOfDay(d) == d * DayLen + (DayLen - 1)

UserOf(r) == IF msg[r].retry /\ req[r].kind # "login_start" THEN got[r].user ELSE req[r].user

OpenOf(t, u) == {i \in DOMAIN t : t[i].user = u /\ t[i].out = Open}
LatestOpen(t, u) == {i \in OpenOf(t, u) : \A j \in OpenOf(t, u) : t[j].in <= t[i].in}

(* Fault: an open attendance is never of an earlier day.                   *)
NoneOfEarlierDays(u) == {}

(* _auto_close_previous_day_open_attendance: at the end of its day, or one *)
(* tick after a check-in made then.                                        *)
OfEarlierDay(u) == {i \in LatestOpen(attendance, u) : Day(attendance[i].in) < Day(now)}

AutoOut(i) == LET end == EndOfDay(Day(attendance[i].in))
              IN  IF end <= attendance[i].in THEN attendance[i].in + 1 ELSE end

AutoClosed(u) ==
  [i \in DOMAIN attendance |->
     IF i \in OfEarlierDay(u) THEN [attendance[i] EXCEPT !.out = AutoOut(i)] ELSE attendance[i]]

(* _process_attendance: the attendances after an event that asks for act,  *)
(* what becomes of the event, and the attendance it made or closed.        *)
Process(u, act) ==
  IF ~SyncEnabled \/ act = "none"
  THEN [table |-> attendance, status |-> "skipped", rec |-> 0]
  ELSE LET t == AutoClosed(u)
           rejected == [table |-> t, status |-> "failed", rec |-> 0]
       IN  IF act = "check_in"
           THEN IF LatestOpen(t, u) # {} THEN rejected
                ELSE [table |-> Append(t, [user |-> u, in |-> now, out |-> Open]),
                      status |-> "success", rec |-> Len(t) + 1]
           ELSE IF LatestOpen(t, u) = {} THEN rejected
                ELSE LET i == CHOOSE j \in LatestOpen(t, u) : TRUE
                     IN  [table |-> [t EXCEPT ![i] = [@ EXCEPT !.out = now]],
                          status |-> "success", rec |-> i]

FinalResult(m, p) == IF p.status = "failed" THEN "failed" ELSE m.result

(* The event, the attendance, then alerts and device; all of it is         *)
(* committed also when the answer is 409.                                  *)
Ingest(r, n) ==
  LET u == UserOf(r)
      m == msg[r]
      p == Process(u, m.act)
      result == FinalResult(m, p)
      fresh == <<u, req[r].dev>> \notin device
  IN  /\ <<r, n>> \in wire /\ wire' = wire \ {<<r, n>>}
      /\ attendance' = p.table
      /\ event' = Append(event,
           [from |-> r, user |-> u, result |-> result, act |-> m.act, status |-> p.status,
            rec |-> p.rec,
            auto |-> IF p.status = "skipped" THEN {} ELSE OfEarlierDay(u),
            alerts |-> (IF result = "failed" THEN {"AUTH_FAILED"} ELSE {})
                       \cup (IF fresh THEN {"NEW_DEVICE"} ELSE {})])
      /\ device' = device \cup {<<u, req[r].dev>>}
      /\ Reply(r, n, IF p.status = "failed" THEN 409 ELSE 200)
      /\ UNCHANGED <<now, live, flows, req, got, msg, tries, fallback, lost, faults>>

(* An exception in Odoo: nothing is kept and the answer is 500.            *)
IngestFails(r, n) ==
  /\ <<r, n>> \in wire /\ wire' = wire \ {<<r, n>>}
  /\ Fault
  /\ Reply(r, n, 500)
  /\ lost' = [lost EXCEPT ![r] = IF pc[r] = "wait" /\ tries[r] = n THEN "refused" ELSE @]
  /\ UNCHANGED <<now, live, flows, req, got, msg, tries, odoo, fallback>>

ThreadStep(r) ==
  \/ Arrive(r) \/ Context(r) \/ Cognito(r) \/ StartSession(r) \/ SessionFails(r)
  \/ ReadFlow(r) \/ AskRekognition(r) \/ RecordResult(r) \/ Complete(r) \/ Evidence(r)
  \/ Post(r) \/ PostFails(r) \/ Fallback(r)

Next ==
  \/ Tick \/ Restart
  \/ \E f \in Flows : EndSession(f)
  \/ \E r \in Requests : ThreadStep(r)
  \/ \E p \in wire : Ingest(p[1], p[2]) \/ IngestFails(p[1], p[2])

Spec == Init /\ [][Next]_vars

(***************************************************************************)
(* Properties                                                              *)
(***************************************************************************)
(* Every thread is at a step of its request, and its data have their       *)
(* types; an event is posted no more often than its service tries.         *)
AuthTypeOK ==
  /\ now \in 0 .. MaxTime /\ faults \in 0 .. MaxFaults
  /\ \A r \in Requests :
       /\ pc[r] \in {"free", "context", "cognito", "session", "read", "liveness", "record",
                     "complete", "evidence", "post", "wait", "fallback", "done"}
       /\ pc[r] \in {"post", "wait", "fallback"} => msg[r] # NoMessage
       /\ tries[r] \in 0 .. (IF msg[r] # NoMessage /\ msg[r].retry THEN MaxPosts ELSE 1)
       /\ answer[r] \in {0, 200, 400, 401, 403, 404, 409, 500, 502}
  /\ \A f \in Flows : flows[f].attempts \in 0 .. Cardinality(Requests)
  /\ wire \subseteq Requests \X (1 .. MaxPosts)
  /\ \A i \in DOMAIN attendance :
       attendance[i].in \in 0 .. MaxTime /\ attendance[i].out \in Open .. MaxTime + 1

(* Whoever is reported as logged in or out has been proved to be there:    *)
(* by the password, or Odoo's signed link, and in a flow by the camera     *)
(* session of that flow, however the results of several requests about     *)
(* one flow overwrite each other, and also for what went to the fallback.  *)
Proved(r) ==
  LET q == req[r]
      started(kind) == \E s \in Requests : req[s].kind = kind /\ req[s].flow = q.flow
                          /\ req[s].user = UserOf(r)
                          /\ (kind = "login_start" => req[s].proof = "password")
  IN  CASE q.kind = "login_complete"  -> live[q.flow] = "passed" /\ started("login_start")
        [] q.kind = "logout_complete" -> live[q.flow] = "passed" /\ started("logout_start")
        [] q.kind = "local_complete"  -> q.proof \in {"password", "signed"}
        [] OTHER -> FALSE

SuccessIsProved ==
  /\ \A i \in DOMAIN event : event[i].result = "success" => Proved(event[i].from)
  /\ \A r \in fallback : msg[r].result = "success" => Proved(r)

(* What the client of local_complete is told is what happened to the       *)
(* attendance, whatever of other requests came in between: 200 means that  *)
(* its check-in or check-out was made, exactly once; 409 that it was       *)
(* refused; after any other refusal nothing of it was made.  Only 502 and  *)
(* no answer leave it open.                                                *)
Made(r) == {i \in DOMAIN event : event[i].from = r /\ event[i].status = "success"}

AnswerTellsAttendance ==
  \A r \in Requests : req[r].kind = "local_complete" /\ SyncEnabled =>
    /\ Cardinality(Made(r)) <= 1
    /\ answer[r] = 200 => \E i \in Made(r) :
         LET a == attendance[event[i].rec]
         IN  a.user = req[r].user /\ (req[r].act = "check_out" => a.out # Open)
    /\ answer[r] = 409 => \E i \in DOMAIN event :
         event[i].from = r /\ event[i].result = "failed"
    /\ answer[r] \in {400, 401, 403, 409, 500} => Made(r) = {}

(* The attendances of an employee are apart, only the last may be open,    *)
(* and each ends on the day it began, or with the first tick of the next;  *)
(* each was made by one accepted event, and closed by one more or flagged  *)
(* on the event that closed it.                                            *)
EveryEditHasItsEvent ==
  \A i \in DOMAIN attendance :
    LET a == attendance[i]
        by(act) == {k \in DOMAIN event : event[k].rec = i /\ event[k].act = act}
        auto == {k \in DOMAIN event : i \in event[k].auto}
    IN  /\ Cardinality(by("check_in")) = 1
        /\ Cardinality(by("check_out") \cup auto) = (IF a.out = Open THEN 0 ELSE 1)
        /\ a.out = Open \/ Day(a.out) = Day(a.in) \/ a.out = a.in + 1
        /\ \A j \in DOMAIN attendance :
             j > i /\ attendance[j].user = a.user => a.out # Open /\ a.out <= attendance[j].in

(* An event the retrying service was given is stored by Odoo or the        *)
(* fallback once its client is answered: failed posts alone do not lose    *)
(* it.  It is lost only when Odoo answers with an error, which counts as   *)
(* delivered, when the fallback fails after all posts, or when the service *)
(* dies.                                                                   *)
EventIsKept ==
  \A r \in Requests : pc[r] = "done" /\ msg[r] # NoMessage /\ msg[r].retry =>
    \/ \E i \in DOMAIN event : event[i].from = r
    \/ r \in fallback
    \/ lost[r] \in {"refused", "restart"} \/ (lost[r] = "logged" /\ tries[r] = MaxPosts)
=============================================================================
