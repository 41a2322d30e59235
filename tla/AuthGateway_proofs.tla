------------------------- MODULE AuthGateway_proofs -------------------------
(***************************************************************************)
(* Proofs about the authentication gateway and the events it posts, for    *)
(* every number of requests, users and flows, and every limit.             *)
(***************************************************************************)
EXTENDS AuthGateway, FiniteSetTheorems, TLAPS

(***************************************************************************)
(* The invariant of the threads: their types, and what each step knows     *)
(***************************************************************************)
Before == {"free", "context", "cognito", "session", "read", "liveness", "record", "complete",
           "evidence"}
Posting == {"post", "wait", "fallback"}
Steps == Before \cup Posting \cup {"done"}
Codes == {0, 200, 400, 401, 403, 404, 409, 500, 502}
Statuses == {"none", "credentials_ok", "started", "liveness_passed", "liveness_failed",
             "completed", "failed"}

FlowRow == [kind : {"none", "login", "logout"}, user : Users \cup {"none"}, token : BOOLEAN,
            attempts : Nat, passed : BOOLEAN, status : Statuses]
Posted == [result : {"success", "failed"}, act : Acts, retry : BOOLEAN,
           then : {200, 400, 401, 500}]

(* How often a message is posted at most.                                  *)
Limit(m) == IF m = NoMessage THEN 0 ELSE IF m.retry THEN MaxPosts ELSE 1

(* Which kinds of request come to a step.                                  *)
Fits(step, kind) ==
  /\ step = "context" => kind \in {"local_complete", "local_failure"}
  /\ step = "cognito" => kind \in {"login_start", "local_complete"}
  /\ step = "session" => kind \in {"login_start", "logout_start"}
  /\ step = "read" => kind \in {"liveness_result", "login_complete", "logout_complete"}
  /\ step \in {"liveness", "record"} => kind \in {"liveness_result", "logout_complete"}
  /\ step = "complete" => kind = "login_complete"
  /\ step = "evidence" => kind = "local_complete"

Types ==
  /\ now \in 0 .. MaxTime /\ faults \in 0 .. MaxFaults
  /\ req \in [Requests -> Request]
  /\ pc \in [Requests -> Steps]
  /\ got \in [Requests -> FlowRow] /\ flows \in [Flows -> FlowRow]
  /\ live \in [Flows -> {"none", "running", "passed", "failed"}]
  /\ msg \in [Requests -> Posted \cup {NoMessage}]
  /\ tries \in [Requests -> Nat] /\ answer \in [Requests -> Codes]
  /\ wire \subseteq Requests \X (1 .. MaxPosts) /\ fallback \subseteq Requests
  /\ lost \in [Requests -> {"no", "logged", "restart", "refused"}]

(* The message of a local request, and what its thread is told then.       *)
LocalMessage(m, q) ==
  /\ ~m.retry
  /\ m.result = "success" => m.then = 200 /\ m.act = q.act
  /\ m.result = "failed" => m.then = 401 /\ m.act = "none"

(* What is so of a thread at p: its request q, message m, answer and posts. *)
PlacedAs(p, q, m, code, n) ==
  /\ Fits(p, q.kind)
  /\ p \in Before => m = NoMessage
  /\ p \in Posting => m # NoMessage
  /\ p # "done" => code = 0
  /\ n <= Limit(m)
  /\ p = "post" => n < Limit(m)
  /\ p = "fallback" => m.retry /\ n = MaxPosts
  /\ q.kind = "local_complete" => q.act # "none"
  /\ (m # NoMessage /\ q.kind = "local_complete") => LocalMessage(m, q)

Placed(r) == PlacedAs(pc[r], req[r], msg[r], answer[r], tries[r])

ThreadsInv == Types /\ \A r \in Requests : Placed(r)

(* What a step before the posts leaves alone, and the types it keeps.      *)
Kept(r) ==
  /\ pc[r] \in Before
  /\ UNCHANGED <<now, req, tries, wire, odoo, fallback, lost>>
  /\ \A s \in Requests \ {r} : got'[s] = got[s]
  /\ faults' \in 0 .. MaxFaults
  /\ got' \in [Requests -> FlowRow] /\ flows' \in [Flows -> FlowRow]
  /\ live' \in [Flows -> {"none", "running", "passed", "failed"}]

(* Such a step goes on, answers, or has an event to post.                  *)
Worked(r) ==
  /\ Kept(r)
  /\ \A s \in Requests \ {r} : pc'[s] = pc[s] /\ msg'[s] = msg[s] /\ answer'[s] = answer[s]
  /\ pc' \in [Requests -> Steps] /\ Fits(pc'[r], req[r].kind)
  /\ msg' \in [Requests -> Posted \cup {NoMessage}]
  /\ answer' \in [Requests -> Codes]
  /\ \/ pc'[r] \in Before /\ msg'[r] = msg[r] /\ answer'[r] = answer[r]
     \/ /\ pc'[r] = "done" /\ msg'[r] = msg[r] /\ answer'[r] # 0
        /\ req[r].kind = "local_complete" => answer'[r] \in {401, 403, 502}
     \/ /\ pc'[r] = "post" /\ answer'[r] = answer[r] /\ msg'[r] \in Posted /\ got'[r] = got[r]
        /\ req[r].kind = "local_complete" => LocalMessage(msg'[r], req[r])

(* What it does to the flow the request is about.                          *)
FlowSteps(r, f) ==
  /\ \A g \in Flows \ {f} : flows'[g] = flows[g] /\ live'[g] = live[g]
  /\ \/ flows'[f] = flows[f] /\ live'[f] = live[f]
     \/ /\ pc[r] = "session" /\ live[f] = "none" /\ live'[f] = "running"
        /\ flows'[f].kind = (IF req[r].kind = "login_start" THEN "login" ELSE "logout")
        /\ flows'[f].user = req[r].user
        /\ flows'[f].attempts = 0 /\ flows'[f].passed = FALSE
     \/ /\ pc[r] \in {"record", "complete"} /\ live'[f] = live[f]
        /\ flows'[f].kind = flows[f].kind /\ flows'[f].user = flows[f].user
        /\ \/ flows'[f].attempts = flows[f].attempts /\ flows'[f].passed = flows[f].passed
           \/ flows'[f].attempts = got[r].attempts /\ flows'[f].passed = got[r].passed

(* The flow a request is about has this kind.                              *)
Wanted(kind) == IF kind = "logout_complete" THEN "logout" ELSE "login"

(* What its thread learns of the flow.                                     *)
Learns(r, f) ==
  \/ /\ got'[r] = got[r] /\ pc'[r] \notin {"liveness", "record", "complete"}
  \/ /\ pc[r] = "read" /\ got'[r] = flows[f]
     /\ pc'[r] = "done" \/ (pc'[r] \in {"liveness", "complete"}
                            /\ flows[f].kind = Wanted(req[r].kind))
  \/ /\ pc[r] = "liveness" /\ pc'[r] = "record"
     /\ got'[r].kind = got[r].kind /\ got'[r].user = got[r].user
     /\ got'[r].attempts = got[r].attempts + 1
     /\ got'[r].passed = (live[f] = "passed")

(* What a step has to go by.                                               *)
Grounds(r) ==
  /\ pc'[r] \in {"free", "read"} => pc[r] = "free"
  /\ (pc'[r] = "session" /\ req[r].kind = "login_start") => req[r].proof = "password"
  /\ pc'[r] = "evidence" => req[r].proof \in {"password", "signed"}
  /\ (pc'[r] = "post" /\ msg'[r].result = "success") =>
       \/ pc[r] = "evidence"
       \/ /\ pc[r] = "complete" \/ (pc[r] = "record" /\ req[r].kind = "logout_complete")
          /\ got[r].passed = TRUE /\ msg'[r].retry = TRUE

Effect(r) ==
  Worked(r) /\ FlowSteps(r, req[r].flow) /\ Learns(r, req[r].flow) /\ Grounds(r)

LEMMA NoMessageIsNone == NoMessage \notin Posted
<1>1. \A m \in Posted : m.result \in {"success", "failed"}
  BY DEF Posted
<1>2. NoMessage.result = "none"
  BY DEF NoMessage
<1> QED
  BY <1>1, <1>2

LEMMA TokensOnlyWhenRight ==
  ASSUME NEW correct \in BOOLEAN
  PROVE  TokensFor(correct) <=> correct
<1>1. Define(<<>>) = "challenge"
  BY DEF Define
<1>2. <<correct>> # <<>> /\ <<correct>>[Len(<<correct>>)] = correct
  OBVIOUS
<1>3. Define(<<correct>>) = "tokens" <=> correct
  BY <1>2 DEF Define
<1> QED
  BY <1>1, <1>3 DEF TokensFor

LEMMA FlowParts ==
  ASSUME NEW f \in FlowRow
  PROVE  /\ f.kind \in {"none", "login", "logout"} /\ f.attempts \in Nat /\ f.passed \in BOOLEAN
         /\ f.status \in Statuses /\ f.user \in Users \cup {"none"} /\ f.token \in BOOLEAN
         /\ f = [kind |-> f.kind, user |-> f.user, token |-> f.token, attempts |-> f.attempts,
                 passed |-> f.passed, status |-> f.status]
  BY DEF FlowRow

Early(r) ==
  \/ Arrive(r) \/ Context(r) \/ Cognito(r) \/ StartSession(r) \/ SessionFails(r)
  \/ ReadFlow(r) \/ AskRekognition(r) \/ RecordResult(r) \/ Complete(r) \/ Evidence(r)

LEMMA Going ==
  ASSUME ThreadsInv, NEW r \in Requests, pc[r] \in Before,
         NEW to \in Before \cup {"post", "done"}, Goto(r, to)
  PROVE  /\ pc' \in [Requests -> Steps] /\ pc'[r] = to
         /\ \A s \in Requests \ {r} : pc'[s] = pc[s]
<1>1. pc \in [Requests -> Steps] /\ to \in Steps
  BY DEF ThreadsInv, Types, Steps, Posting
<1> QED
  BY <1>1 DEF Goto

LEMMA Answering ==
  ASSUME ThreadsInv, NEW r \in Requests, pc[r] \in Before,
         NEW code \in Codes, Answer(r, code)
  PROVE  /\ pc' \in [Requests -> Steps] /\ pc'[r] = "done"
         /\ answer' \in [Requests -> Codes] /\ answer'[r] = code
         /\ \A s \in Requests \ {r} : pc'[s] = pc[s] /\ answer'[s] = answer[s]
<1>1. answer \in [Requests -> Codes]
  BY DEF ThreadsInv, Types
<1>2. Goto(r, "done") /\ answer' = [answer EXCEPT ![r] = code]
  BY DEF Answer
<1> QED
  BY <1>1, <1>2, Going

LEMMA Emitting ==
  ASSUME ThreadsInv, NEW r \in Requests, pc[r] \in Before,
         NEW m \in Posted, Goto(r, "post"), msg' = [msg EXCEPT ![r] = m]
  PROVE  /\ pc' \in [Requests -> Steps] /\ pc'[r] = "post"
         /\ msg' \in [Requests -> Posted \cup {NoMessage}] /\ msg'[r] = m
         /\ \A s \in Requests \ {r} : pc'[s] = pc[s] /\ msg'[s] = msg[s]
<1>1. msg \in [Requests -> Posted \cup {NoMessage}]
  BY DEF ThreadsInv, Types
<1> QED
  BY <1>1, Going

LEMMA RequestParts ==
  ASSUME ThreadsInv, NEW r \in Requests
  PROVE  /\ req[r].kind \in Kinds /\ req[r].user \in Users /\ req[r].dev \in Devices
         /\ req[r].flow \in Flows /\ req[r].act \in Acts /\ req[r].proof \in Proofs
  BY DEF ThreadsInv, Types, Request

LEMMA StepWorks ==
  ASSUME ThreadsInv, NEW r \in Requests, Kept(r), NEW to \in Before, Goto(r, to),
         Fits(to, req[r].kind), UNCHANGED <<msg, answer>>
  PROVE  Worked(r)
<1>1. /\ pc' \in [Requests -> Steps] /\ pc'[r] = to
      /\ \A s \in Requests \ {r} : pc'[s] = pc[s]
  BY Going DEF Kept
<1>2. msg \in [Requests -> Posted \cup {NoMessage}] /\ answer \in [Requests -> Codes]
  BY DEF ThreadsInv, Types
<1> QED
  BY <1>1, <1>2 DEF Worked

LEMMA AnswerWorks ==
  ASSUME ThreadsInv, NEW r \in Requests, Kept(r), NEW code \in Codes \ {0}, Answer(r, code),
         UNCHANGED msg, req[r].kind = "local_complete" => code \in {401, 403, 502}
  PROVE  Worked(r)
<1>1. /\ pc' \in [Requests -> Steps] /\ pc'[r] = "done"
      /\ answer' \in [Requests -> Codes] /\ answer'[r] = code
      /\ \A s \in Requests \ {r} : pc'[s] = pc[s] /\ answer'[s] = answer[s]
  BY Answering DEF Kept
<1>2. msg \in [Requests -> Posted \cup {NoMessage}]
  BY DEF ThreadsInv, Types
<1>3. Fits("done", req[r].kind)
  BY DEF Fits
<1> QED
  BY <1>1, <1>2, <1>3 DEF Worked

LEMMA EmitWorks ==
  ASSUME ThreadsInv, NEW r \in Requests, Kept(r), NEW m \in Posted, Goto(r, "post"),
         msg' = [msg EXCEPT ![r] = m], UNCHANGED answer, got'[r] = got[r],
         req[r].kind = "local_complete" => LocalMessage(m, req[r])
  PROVE  Worked(r)
<1>1. /\ pc' \in [Requests -> Steps] /\ pc'[r] = "post"
      /\ msg' \in [Requests -> Posted \cup {NoMessage}] /\ msg'[r] = m
      /\ \A s \in Requests \ {r} : pc'[s] = pc[s] /\ msg'[s] = msg[s]
  BY Emitting DEF Kept
<1>2. answer \in [Requests -> Codes]
  BY DEF ThreadsInv, Types
<1>3. Fits("post", req[r].kind)
  BY DEF Fits
<1> QED
  BY <1>1, <1>2, <1>3 DEF Worked

LEMMA ArriveWorks ==
  ASSUME ThreadsInv, NEW r \in Requests, Arrive(r)
  PROVE  Effect(r)
<1> DEFINE to == FirstStep(req[r].kind)
<1>1. /\ pc[r] = "free" /\ Goto(r, to)
      /\ UNCHANGED <<now, live, flows, req, got, msg, tries, answer, wire, odoo, fallback, lost,
                     faults>>
  BY DEF Arrive
<1>2. /\ to \in Before /\ Fits(to, req[r].kind)
      /\ to \notin {"liveness", "record", "complete", "evidence"}
      /\ to = "session" => req[r].kind # "login_start"
  BY RequestParts DEF FirstStep, Before, Fits, Kinds
<1>3. Kept(r)
  BY <1>1 DEF Kept, ThreadsInv, Types, Before
<1> HIDE DEF to
<1>4. Worked(r)
  BY <1>1, <1>2, <1>3, StepWorks
<1>5. pc'[r] = to
  BY <1>1, <1>2, Going DEF Before
<1>6. "post" \notin Before
  BY DEF Before
<1> QED
  BY <1>1, <1>2, <1>4, <1>5, <1>6 DEF Effect, FlowSteps, Learns, Grounds

LEMMA ContextWorks ==
  ASSUME ThreadsInv, NEW r \in Requests, Context(r)
  PROVE  Effect(r)
<1> DEFINE local == req[r].kind = "local_complete"
           m == [result |-> "failed", act |-> "none", retry |-> FALSE, then |-> 200]
<1>1. /\ pc[r] = "context"
      /\ UNCHANGED <<now, live, flows, req, got, tries, wire, odoo, fallback, lost>>
  BY DEF Context
<1>2. UNCHANGED faults \/ Fault
  BY DEF Context
<1>3. \/ \E code \in {401, 403, 502} : Answer(r, code) /\ UNCHANGED msg
      \/ /\ local /\ UNCHANGED <<answer, msg>>
         /\ (req[r].proof = "signed" /\ Goto(r, "evidence")) \/ Goto(r, "cognito")
      \/ ~local /\ Goto(r, "post") /\ UNCHANGED answer /\ msg' = [msg EXCEPT ![r] = m]
  BY DEF Context, Emit, Message
<1>4. Kept(r)
  BY <1>1, <1>2, AuthAssumption DEF Kept, ThreadsInv, Types, Before, Fault
<1>5. FlowSteps(r, req[r].flow)
  BY <1>1 DEF FlowSteps
<1>6. CASE \E code \in {401, 403, 502} : Answer(r, code) /\ UNCHANGED msg
  <2>1. PICK code \in {401, 403, 502} : Answer(r, code) /\ UNCHANGED msg
    BY <1>6
  <2>2. code \in Codes \ {0}
    BY DEF Codes
  <2>3. Worked(r)
    BY <1>4, <2>1, <2>2, AnswerWorks
  <2>4. pc'[r] = "done"
    BY <1>4, <2>1, <2>2, Answering DEF Kept
  <2> QED
    BY <1>1, <1>5, <2>3, <2>4 DEF Effect, Learns, Grounds
<1>7. CASE /\ local /\ UNCHANGED <<answer, msg>>
           /\ (req[r].proof = "signed" /\ Goto(r, "evidence")) \/ Goto(r, "cognito")
  <2>1. PICK to \in {"evidence", "cognito"} :
          Goto(r, to) /\ (to = "evidence" => req[r].proof = "signed")
    BY <1>7
  <2>2. to \in Before /\ Fits(to, req[r].kind)
    BY <1>7 DEF Before, Fits
  <2>3. Worked(r)
    BY <1>4, <1>7, <2>1, <2>2, StepWorks
  <2>4. pc'[r] = to
    BY <1>4, <2>1, <2>2, Going DEF Kept
  <2> QED
    BY <1>1, <1>5, <2>1, <2>3, <2>4 DEF Effect, Learns, Grounds
<1>8. CASE ~local /\ Goto(r, "post") /\ UNCHANGED answer /\ msg' = [msg EXCEPT ![r] = m]
  <2>1. m \in Posted
    BY DEF Posted, Acts
  <2>2. m.result = "failed"
    OBVIOUS
  <2> HIDE DEF m
  <2>3. Worked(r)
    BY <1>1, <1>4, <1>8, <2>1, EmitWorks
  <2>4. pc'[r] = "post" /\ msg'[r] = m
    BY <1>4, <1>8, <2>1, Emitting DEF Kept
  <2> QED
    BY <1>1, <1>5, <2>2, <2>3, <2>4 DEF Effect, Learns, Grounds
<1> QED
  BY <1>3, <1>6, <1>7, <1>8

LEMMA CognitoWorks ==
  ASSUME ThreadsInv, NEW r \in Requests, Cognito(r)
  PROVE  Effect(r)
<1> DEFINE local == req[r].kind = "local_complete"
<1>1. /\ pc[r] = "cognito"
      /\ UNCHANGED <<now, live, flows, req, got, tries, wire, odoo, fallback, lost>>
  BY DEF Cognito
<1>2. PICK heard \in BOOLEAN :
        /\ IF heard THEN UNCHANGED faults ELSE Fault
        /\ IF TokensFor(heard /\ req[r].proof = "password")
           THEN Goto(r, IF local THEN "evidence" ELSE "session") /\ UNCHANGED <<answer, msg>>
           ELSE Emit(r, "failed", "none", ~local, 401)
  BY Zenon DEF Cognito
<1>3. Kept(r)
  <2>1. UNCHANGED faults \/ Fault
    BY <1>2
  <2> QED
    BY <1>1, <2>1, AuthAssumption DEF Kept, ThreadsInv, Types, Before, Fault
<1>4. FlowSteps(r, req[r].flow)
  BY <1>1 DEF FlowSteps
<1>5. Placed(r)
  BY DEF ThreadsInv
<1>6. CASE TokensFor(heard /\ req[r].proof = "password")
  <2>1. req[r].proof = "password"
    <3>1. (heard /\ req[r].proof = "password") \in BOOLEAN
      OBVIOUS
    <3> QED
      BY <1>6, <3>1, TokensOnlyWhenRight
  <2>2. PICK to \in {"evidence", "session"} :
          Goto(r, to) /\ UNCHANGED <<answer, msg>> /\ (to = "evidence" <=> local)
    BY <1>2, <1>6
  <2>3. to \in Before /\ Fits(to, req[r].kind)
    BY <1>1, <1>5, <2>2 DEF Before, Fits, Placed, PlacedAs
  <2>4. Worked(r)
    BY <1>3, <2>2, <2>3, StepWorks
  <2>5. pc'[r] = to
    BY <1>3, <2>2, <2>3, Going DEF Kept
  <2> QED
    BY <1>1, <1>4, <2>1, <2>2, <2>4, <2>5 DEF Effect, Learns, Grounds
<1>7. CASE ~TokensFor(heard /\ req[r].proof = "password")
  <2>1. PICK retry \in BOOLEAN : retry = ~local
    OBVIOUS
  <2>2. Emit(r, "failed", "none", ~local, 401)
    BY <1>2, <1>7
  <2>3. PICK m : m = [result |-> "failed", act |-> "none", retry |-> retry, then |-> 401]
    OBVIOUS
  <2>4. Goto(r, "post") /\ UNCHANGED answer /\ msg' = [msg EXCEPT ![r] = m]
    BY <2>1, <2>2, <2>3 DEF Emit, Message
  <2>5. m \in Posted /\ m.result = "failed" /\ (local => LocalMessage(m, req[r]))
    BY <2>1, <2>3 DEF Posted, Acts, LocalMessage
  <2>6. Worked(r)
    BY <1>1, <1>3, <2>4, <2>5, EmitWorks
  <2>7. pc'[r] = "post" /\ msg'[r] = m
    BY <1>3, <2>4, <2>5, Emitting DEF Kept
  <2> QED
    BY <1>1, <1>4, <2>5, <2>6, <2>7 DEF Effect, Learns, Grounds
<1> QED
  BY <1>6, <1>7

LEMMA StartSessionWorks ==
  ASSUME ThreadsInv, NEW r \in Requests, StartSession(r)
  PROVE  Effect(r)
<1> DEFINE f == req[r].flow
           login == req[r].kind = "login_start"
<1>1. PICK row : row = [kind |-> IF login THEN "login" ELSE "logout", user |-> req[r].user,
                        token |-> login, attempts |-> 0, passed |-> FALSE,
                        status |-> IF login THEN "credentials_ok" ELSE "started"]
  OBVIOUS
<1>2. /\ pc[r] = "session" /\ live[f] = "none" /\ Answer(r, 200)
      /\ live' = [live EXCEPT ![f] = "running"] /\ flows' = [flows EXCEPT ![f] = row]
      /\ UNCHANGED <<now, req, got, msg, tries, wire, odoo, fallback, lost, faults>>
  BY <1>1 DEF StartSession
<1>3. /\ row \in FlowRow /\ row.kind = (IF login THEN "login" ELSE "logout")
      /\ row.user = req[r].user /\ row.attempts = 0 /\ row.passed = FALSE
  BY <1>1, RequestParts DEF FlowRow, Statuses
<1>4. f \in Flows /\ flows \in [Flows -> FlowRow]
      /\ live \in [Flows -> {"none", "running", "passed", "failed"}]
  BY RequestParts DEF ThreadsInv, Types
<1>5. Kept(r)
  BY <1>2, <1>3, <1>4 DEF Kept, ThreadsInv, Types, Before
<1>6. FlowSteps(r, f)
  BY <1>2, <1>3, <1>4 DEF FlowSteps
<1>7. req[r].kind # "local_complete"
  BY <1>2 DEF ThreadsInv, Placed, PlacedAs, Fits
<1>8. Worked(r)
  BY <1>2, <1>5, <1>7, AnswerWorks DEF Codes
<1>9. pc'[r] = "done"
  BY <1>2, <1>5, Answering DEF Kept, Codes
<1> QED
  BY <1>2, <1>6, <1>8, <1>9 DEF Effect, Learns, Grounds

LEMMA SessionFailsWorks ==
  ASSUME ThreadsInv, NEW r \in Requests, SessionFails(r)
  PROVE  Effect(r)
<1> DEFINE m == [result |-> "failed", act |-> "none", retry |-> TRUE, then |-> 500]
<1>1. /\ pc[r] = "session" /\ Fault
      /\ UNCHANGED <<now, live, flows, req, got, tries, wire, odoo, fallback, lost>>
  BY DEF SessionFails
<1>2. \/ Goto(r, "post") /\ UNCHANGED answer /\ msg' = [msg EXCEPT ![r] = m]
      \/ Answer(r, 500) /\ UNCHANGED msg
  BY DEF SessionFails, Emit, Message
<1>3. Kept(r)
  BY <1>1, AuthAssumption DEF Kept, ThreadsInv, Types, Before, Fault
<1>4. FlowSteps(r, req[r].flow)
  BY <1>1 DEF FlowSteps
<1>5. req[r].kind # "local_complete"
  BY <1>1 DEF ThreadsInv, Placed, PlacedAs, Fits
<1>6. CASE Goto(r, "post") /\ UNCHANGED answer /\ msg' = [msg EXCEPT ![r] = m]
  <2>1. m \in Posted /\ m.result = "failed"
    BY DEF Posted, Acts
  <2> HIDE DEF m
  <2>2. Worked(r)
    BY <1>1, <1>3, <1>5, <1>6, <2>1, EmitWorks
  <2>3. pc'[r] = "post" /\ msg'[r] = m
    BY <1>3, <1>6, <2>1, Emitting DEF Kept
  <2> QED
    BY <1>1, <1>4, <2>1, <2>2, <2>3 DEF Effect, Learns, Grounds
<1>7. CASE Answer(r, 500) /\ UNCHANGED msg
  <2>1. Worked(r)
    BY <1>3, <1>5, <1>7, AnswerWorks DEF Codes
  <2>2. pc'[r] = "done"
    BY <1>3, <1>7, Answering DEF Kept, Codes
  <2> QED
    BY <1>1, <1>4, <2>1, <2>2 DEF Effect, Learns, Grounds
<1> QED
  BY <1>2, <1>6, <1>7

LEMMA ReadFlowWorks ==
  ASSUME ThreadsInv, NEW r \in Requests, ReadFlow(r)
  PROVE  Effect(r)
<1> DEFINE f == req[r].flow
<1>1. /\ pc[r] = "read" /\ got' = [got EXCEPT ![r] = flows[f]]
      /\ UNCHANGED <<now, live, flows, req, msg, tries, wire, odoo, fallback, lost, faults>>
      /\ IF flows[f].kind # Wanted(req[r].kind) THEN Answer(r, 404)
         ELSE /\ Goto(r, IF req[r].kind = "login_complete" THEN "complete" ELSE "liveness")
              /\ UNCHANGED answer
  BY DEF ReadFlow, Wanted
<1>2. f \in Flows /\ flows \in [Flows -> FlowRow] /\ got \in [Requests -> FlowRow]
  BY RequestParts DEF ThreadsInv, Types
<1>3. /\ got' \in [Requests -> FlowRow] /\ got'[r] = flows[f]
      /\ \A s \in Requests \ {r} : got'[s] = got[s]
  BY <1>1, <1>2
<1>4. Kept(r)
  BY <1>1, <1>3 DEF Kept, ThreadsInv, Types, Before
<1>5. FlowSteps(r, f)
  BY <1>1 DEF FlowSteps
<1>6. req[r].kind # "local_complete" /\ Placed(r)
  BY <1>1 DEF ThreadsInv, Placed, PlacedAs, Fits
<1>7. CASE flows[f].kind # Wanted(req[r].kind)
  <2>1. Answer(r, 404)
    BY <1>1, <1>7
  <2>2. Worked(r)
    BY <1>1, <1>4, <1>6, <2>1, AnswerWorks DEF Codes
  <2>3. pc'[r] = "done"
    BY <1>4, <2>1, Answering DEF Kept, Codes
  <2> QED
    BY <1>1, <1>3, <1>5, <2>2, <2>3 DEF Effect, Learns, Grounds
<1>8. CASE flows[f].kind = Wanted(req[r].kind)
  <2>1. PICK to \in {"complete", "liveness"} :
          Goto(r, to) /\ UNCHANGED answer /\ (to = "complete" <=> req[r].kind = "login_complete")
    BY <1>1, <1>8
  <2>2. to \in Before /\ Fits(to, req[r].kind)
    BY <1>1, <1>6, <2>1 DEF Before, Fits, Placed, PlacedAs
  <2>3. Worked(r)
    BY <1>1, <1>4, <2>1, <2>2, StepWorks
  <2>4. pc'[r] = to
    BY <1>4, <2>1, <2>2, Going DEF Kept
  <2> QED
    BY <1>1, <1>3, <1>5, <1>8, <2>3, <2>4 DEF Effect, Learns, Grounds
<1> QED
  BY <1>7, <1>8

LEMMA AskRekognitionWorks ==
  ASSUME ThreadsInv, NEW r \in Requests, AskRekognition(r)
  PROVE  Effect(r)
<1> DEFINE f == req[r].flow
<1>1. PICK passed \in BOOLEAN : passed = (live[f] = "passed")
  OBVIOUS
<1>2. got \in [Requests -> FlowRow] /\ got[r] \in FlowRow
  BY DEF ThreadsInv, Types
<1>3. PICK n \in Nat : n = got[r].attempts + 1
  BY <1>2, FlowParts
<1>4. PICK g : g = [got[r] EXCEPT !.attempts = n, !.passed = passed]
  OBVIOUS
<1>5. /\ pc[r] = "liveness"
      /\ UNCHANGED <<now, live, flows, req, msg, tries, wire, odoo, fallback, lost>>
  BY DEF AskRekognition
<1>6. \/ got' = [got EXCEPT ![r] = g] /\ Goto(r, "record") /\ UNCHANGED <<answer, faults>>
      \/ Fault /\ Answer(r, 500) /\ UNCHANGED got
  <2>1. /\ got[r].attempts + 1 = n /\ Passed(f) = passed
    BY <1>1, <1>3 DEF Passed
  <2> HIDE DEF f
  <2>2. g = [got[r] EXCEPT !.attempts = got[r].attempts + 1, !.passed = Passed(f)]
    BY <1>4, <2>1, Zenon
  <2> USE DEF f
  <2> QED
    BY <2>2, Zenon DEF AskRekognition
<1>7. /\ g \in FlowRow /\ g.kind = got[r].kind /\ g.user = got[r].user
      /\ g.attempts = n /\ g.passed = passed
  <2>1. PICK o \in FlowRow : o = got[r]
    BY <1>2
  <2>2. PICK a, b, c, d, e, h : o = [kind |-> a, user |-> b, token |-> c, attempts |-> d,
                                     passed |-> e, status |-> h]
    BY FlowParts
  <2>3. /\ o.kind = a /\ o.user = b /\ o.token = c /\ o.attempts = d /\ o.passed = e
        /\ o.status = h
    BY <2>2
  <2>4. g = [o EXCEPT !.attempts = n, !.passed = passed]
    BY <1>4, <2>1, Zenon
  <2>5. g = [kind |-> a, user |-> b, token |-> c, attempts |-> n, passed |-> passed,
             status |-> h]
    BY <2>2, <2>4
  <2> QED
    BY <2>1, <2>3, <2>5, FlowParts DEF FlowRow
<1>8. req[r].kind # "local_complete" /\ Placed(r)
  BY <1>5 DEF ThreadsInv, Placed, PlacedAs, Fits
<1>9. FlowSteps(r, f)
  BY <1>5 DEF FlowSteps
<1>10. CASE got' = [got EXCEPT ![r] = g] /\ Goto(r, "record") /\ UNCHANGED <<answer, faults>>
  <2>1. /\ got' \in [Requests -> FlowRow] /\ got'[r] = g
        /\ \A s \in Requests \ {r} : got'[s] = got[s]
    BY <1>2, <1>7, <1>10
  <2>2. Kept(r)
    BY <1>5, <1>10, <2>1 DEF Kept, ThreadsInv, Types, Before
  <2>3. "record" \in Before /\ Fits("record", req[r].kind)
    BY <1>5, <1>8 DEF Before, Fits, Placed, PlacedAs
  <2>4. Worked(r)
    BY <1>5, <1>10, <2>2, <2>3, StepWorks
  <2>5. pc'[r] = "record"
    BY <1>10, <2>2, <2>3, Going DEF Kept
  <2> QED
    BY <1>1, <1>3, <1>5, <1>7, <1>9, <2>1, <2>4, <2>5 DEF Effect, Learns, Grounds
<1>11. CASE Fault /\ Answer(r, 500) /\ UNCHANGED got
  <2>1. Kept(r)
    BY <1>5, <1>11, AuthAssumption DEF Kept, ThreadsInv, Types, Before, Fault
  <2>2. Worked(r)
    BY <1>5, <1>8, <1>11, <2>1, AnswerWorks DEF Codes
  <2>3. pc'[r] = "done"
    BY <1>11, <2>1, Answering DEF Kept, Codes
  <2> QED
    BY <1>9, <1>11, <2>2, <2>3 DEF Effect, Learns, Grounds
<1> QED
  BY <1>6, <1>10, <1>11

LEMMA RecordResultWorks ==
  ASSUME ThreadsInv, NEW r \in Requests, RecordResult(r)
  PROVE  Effect(r)
<1> DEFINE f == req[r].flow
           login == req[r].kind = "liveness_result"
<1>1. /\ f \in Flows /\ flows \in [Flows -> FlowRow] /\ flows[f] \in FlowRow
      /\ got[r].attempts \in Nat /\ got[r].passed \in BOOLEAN
  <2>1. f \in Flows /\ flows \in [Flows -> FlowRow] /\ got[r] \in FlowRow
    BY RequestParts DEF ThreadsInv, Types
  <2> QED
    BY <2>1, FlowParts
<1>2. PICK n \in Nat, passed \in BOOLEAN : n = got[r].attempts /\ passed = got[r].passed
  BY <1>1
<1>3. PICK status \in Statuses :
        status = CASE login /\ passed  -> "liveness_passed"
                   [] login /\ ~passed -> "liveness_failed"
                   [] OTHER -> IF passed THEN "completed" ELSE "failed"
  BY DEF Statuses
<1>4. PICK g : g = [flows[f] EXCEPT !.attempts = n, !.passed = passed, !.status = status]
  OBVIOUS
<1>5. /\ g \in FlowRow /\ g.kind = flows[f].kind /\ g.user = flows[f].user
      /\ g.attempts = n /\ g.passed = passed
  <2>1. PICK o \in FlowRow : o = flows[f]
    BY <1>1
  <2>2. PICK a, b, c, d, e, h : o = [kind |-> a, user |-> b, token |-> c, attempts |-> d,
                                     passed |-> e, status |-> h]
    BY FlowParts
  <2>3. /\ o.kind = a /\ o.user = b /\ o.token = c /\ o.attempts = d /\ o.passed = e
        /\ o.status = h
    BY <2>2
  <2>4. g = [o EXCEPT !.attempts = n, !.passed = passed, !.status = status]
    BY <1>4, <2>1, Zenon
  <2>5. g = [kind |-> a, user |-> b, token |-> c, attempts |-> n, passed |-> passed,
             status |-> status]
    BY <2>2, <2>4
  <2> QED
    BY <2>1, <2>3, <2>5, FlowParts DEF FlowRow
<1>6. flows' = [flows EXCEPT ![f] = g]
  <2>1. g = [flows[f] EXCEPT !.attempts = got[r].attempts, !.passed = got[r].passed,
                             !.status = status]
    BY <1>2, <1>4, Zenon
  <2>2. status = CASE login /\ got[r].passed  -> "liveness_passed"
                   [] login /\ ~got[r].passed -> "liveness_failed"
                   [] OTHER -> IF got[r].passed THEN "completed" ELSE "failed"
    BY <1>2, <1>3, Zenon
  <2> QED
    BY <2>1, <2>2, Zenon DEF RecordResult
<1>7. /\ pc[r] = "record"
      /\ UNCHANGED <<now, live, req, got, tries, wire, odoo, fallback, lost, faults>>
  BY DEF RecordResult
<1>8. \/ \E result \in {"success", "failed"}, code \in {200, 400} :
           /\ Goto(r, "post") /\ UNCHANGED answer
           /\ msg' = [msg EXCEPT ![r] = [result |-> result, act |-> "none", retry |-> TRUE,
                                         then |-> code]]
           /\ result = "success" => got[r].passed = TRUE /\ ~login
      \/ Answer(r, 200) /\ UNCHANGED msg
  BY <1>1 DEF RecordResult, Emit, Message
<1>9. Kept(r)
  BY <1>1, <1>5, <1>6, <1>7 DEF Kept, ThreadsInv, Types, Before
<1>10. FlowSteps(r, f)
  BY <1>1, <1>2, <1>5, <1>6, <1>7 DEF FlowSteps
<1>11. req[r].kind \in {"liveness_result", "logout_complete"}
  BY <1>7 DEF ThreadsInv, Placed, PlacedAs, Fits
<1>12. CASE \E result \in {"success", "failed"}, code \in {200, 400} :
              /\ Goto(r, "post") /\ UNCHANGED answer
              /\ msg' = [msg EXCEPT ![r] = [result |-> result, act |-> "none", retry |-> TRUE,
                                            then |-> code]]
              /\ result = "success" => got[r].passed = TRUE /\ ~login
  <2>1. PICK result \in {"success", "failed"}, code \in {200, 400} :
          /\ Goto(r, "post") /\ UNCHANGED answer
          /\ msg' = [msg EXCEPT ![r] = [result |-> result, act |-> "none", retry |-> TRUE,
                                        then |-> code]]
          /\ result = "success" => got[r].passed = TRUE /\ ~login
    BY <1>12
  <2> DEFINE m == [result |-> result, act |-> "none", retry |-> TRUE, then |-> code]
  <2>2. m \in Posted /\ m.result = result /\ m.retry = TRUE
    BY DEF Posted, Acts
  <2>3. Goto(r, "post") /\ UNCHANGED answer /\ msg' = [msg EXCEPT ![r] = m]
    BY <2>1
  <2> HIDE DEF m
  <2>4. Worked(r)
    BY <1>7, <1>9, <1>11, <2>2, <2>3, EmitWorks
  <2>5. pc'[r] = "post" /\ msg'[r] = m
    BY <1>9, <2>3, Going DEF Kept, ThreadsInv, Types
  <2> QED
    BY <1>7, <1>10, <1>11, <2>1, <2>2, <2>4, <2>5 DEF Effect, Learns, Grounds
<1>13. CASE Answer(r, 200) /\ UNCHANGED msg
  <2>1. Worked(r)
    BY <1>9, <1>11, <1>13, AnswerWorks DEF Codes
  <2>2. pc'[r] = "done"
    BY <1>9, <1>13, Answering DEF Kept, Codes
  <2> QED
    BY <1>7, <1>10, <2>1, <2>2 DEF Effect, Learns, Grounds
<1> QED
  BY <1>8, <1>12, <1>13

LEMMA CompleteWorks ==
  ASSUME ThreadsInv, NEW r \in Requests, Complete(r)
  PROVE  Effect(r)
<1> DEFINE f == req[r].flow
<1>1. /\ f \in Flows /\ flows \in [Flows -> FlowRow] /\ flows[f] \in FlowRow
      /\ got[r].passed \in BOOLEAN
  <2>1. f \in Flows /\ flows \in [Flows -> FlowRow] /\ got[r] \in FlowRow
    BY RequestParts DEF ThreadsInv, Types
  <2> QED
    BY <2>1, FlowParts
<1>2. /\ pc[r] = "complete"
      /\ UNCHANGED <<now, live, req, got, tries, wire, odoo, fallback, lost, faults>>
  BY DEF Complete
<1>3. req[r].kind = "login_complete"
  BY <1>2 DEF ThreadsInv, Placed, PlacedAs, Fits
<1>4. CASE MayComplete(got[r])
  <2>1. PICK g : g = [flows[f] EXCEPT !.status = "completed"]
    OBVIOUS
  <2>2. /\ g \in FlowRow /\ g.kind = flows[f].kind /\ g.user = flows[f].user
        /\ g.attempts = flows[f].attempts /\ g.passed = flows[f].passed
    <3>1. PICK o \in FlowRow : o = flows[f]
      BY <1>1
    <3>2. PICK a, b, c, d, e, h : o = [kind |-> a, user |-> b, token |-> c, attempts |-> d,
                                       passed |-> e, status |-> h]
      BY FlowParts
    <3>3. /\ o.kind = a /\ o.user = b /\ o.token = c /\ o.attempts = d /\ o.passed = e
          /\ o.status = h
      BY <3>2
    <3>4. g = [o EXCEPT !.status = "completed"]
      BY <2>1, <3>1, Zenon
    <3>5. g = [kind |-> a, user |-> b, token |-> c, attempts |-> d, passed |-> e,
               status |-> "completed"]
      BY <3>2, <3>4
    <3> QED
      BY <3>1, <3>3, <3>5, FlowParts DEF FlowRow, Statuses
  <2>3. PICK m : m = [result |-> "success", act |-> "none", retry |-> TRUE, then |-> 200]
    OBVIOUS
  <2>4. /\ flows' = [flows EXCEPT ![f] = g]
        /\ Goto(r, "post") /\ UNCHANGED answer /\ msg' = [msg EXCEPT ![r] = m]
    BY <1>4, <2>1, <2>3, Zenon DEF Complete, Emit, Message
  <2>5. m \in Posted /\ m.retry = TRUE
    BY <2>3 DEF Posted, Acts
  <2>6. got[r].passed = TRUE
    BY <1>1, <1>4 DEF MayComplete
  <2>7. Kept(r)
    BY <1>1, <1>2, <2>2, <2>4 DEF Kept, ThreadsInv, Types, Before
  <2>8. FlowSteps(r, f)
    BY <1>1, <1>2, <2>2, <2>4 DEF FlowSteps
  <2>9. Worked(r)
    BY <1>2, <1>3, <2>4, <2>5, <2>7, EmitWorks
  <2>10. pc'[r] = "post" /\ msg'[r] = m
    BY <2>4, <2>5, <2>7, Emitting DEF Kept
  <2> QED
    BY <1>2, <2>5, <2>6, <2>8, <2>9, <2>10 DEF Effect, Learns, Grounds
<1>5. CASE ~MayComplete(got[r])
  <2>1. Answer(r, 400) /\ UNCHANGED <<flows, msg>>
    BY <1>5 DEF Complete
  <2>2. Kept(r)
    BY <1>2, <2>1 DEF Kept, ThreadsInv, Types, Before
  <2>3. FlowSteps(r, f)
    BY <1>2, <2>1 DEF FlowSteps
  <2>4. Worked(r)
    BY <1>3, <2>1, <2>2, AnswerWorks DEF Codes
  <2>5. pc'[r] = "done"
    BY <2>1, <2>2, Answering DEF Kept, Codes
  <2> QED
    BY <1>2, <2>3, <2>4, <2>5 DEF Effect, Learns, Grounds
<1> QED
  BY <1>4, <1>5

LEMMA EvidenceWorks ==
  ASSUME ThreadsInv, NEW r \in Requests, Evidence(r)
  PROVE  Effect(r)
<1>1. /\ pc[r] = "evidence"
      /\ UNCHANGED <<now, live, flows, req, got, tries, wire, odoo, fallback, lost>>
  BY DEF Evidence
<1>2. UNCHANGED faults \/ Fault
  BY DEF Evidence
<1>3. PICK m : m = [result |-> "success", act |-> req[r].act, retry |-> FALSE, then |-> 200]
  OBVIOUS
<1>4. \/ Goto(r, "post") /\ UNCHANGED answer /\ msg' = [msg EXCEPT ![r] = m]
      \/ Answer(r, 502) /\ UNCHANGED msg
  BY <1>3 DEF Evidence, Emit, Message
<1>5. Kept(r)
  BY <1>1, <1>2, AuthAssumption DEF Kept, ThreadsInv, Types, Before, Fault
<1>6. FlowSteps(r, req[r].flow)
  BY <1>1 DEF FlowSteps
<1>7. CASE Goto(r, "post") /\ UNCHANGED answer /\ msg' = [msg EXCEPT ![r] = m]
  <2>1. m \in Posted /\ LocalMessage(m, req[r])
    BY <1>3, RequestParts DEF Posted, LocalMessage
  <2>2. Worked(r)
    BY <1>1, <1>5, <1>7, <2>1, EmitWorks
  <2>3. pc'[r] = "post" /\ msg'[r] = m
    BY <1>5, <1>7, <2>1, Emitting DEF Kept
  <2> QED
    BY <1>1, <1>6, <2>1, <2>2, <2>3 DEF Effect, Learns, Grounds
<1>8. CASE Answer(r, 502) /\ UNCHANGED msg
  <2>1. Worked(r)
    BY <1>5, <1>8, AnswerWorks DEF Codes
  <2>2. pc'[r] = "done"
    BY <1>5, <1>8, Answering DEF Kept, Codes
  <2> QED
    BY <1>1, <1>6, <2>1, <2>2 DEF Effect, Learns, Grounds
<1> QED
  BY <1>4, <1>7, <1>8

LEMMA EarlyWorks ==
  ASSUME ThreadsInv, NEW r \in Requests, Early(r)
  PROVE  Effect(r)
  BY ArriveWorks, ContextWorks, CognitoWorks, StartSessionWorks, SessionFailsWorks, ReadFlowWorks,
     AskRekognitionWorks, RecordResultWorks, CompleteWorks, EvidenceWorks DEF Early

(***************************************************************************)
(* The types of the threads                                                *)
(***************************************************************************)
LEMMA MessageLimit ==
  /\ Limit(NoMessage) = 0
  /\ \A m \in Posted : /\ m.retry \in BOOLEAN /\ m.then \in {200, 400, 401, 500}
                       /\ Limit(m) \in 1 .. MaxPosts
                       /\ m.retry => Limit(m) = MaxPosts
                       /\ ~m.retry => Limit(m) = 1
  BY NoMessageIsNone, AuthAssumption DEF Limit, Posted

LEMMA ThreadsStart ==
  ASSUME Init
  PROVE  ThreadsInv
<1>1. req \in [Requests -> Request]
      /\ \A r \in Requests : req[r].kind = "local_complete" => req[r].act # "none"
  BY AuthAssumption DEF Init
<1>2. NoFlow \in FlowRow
  BY DEF NoFlow, FlowRow, Statuses
<1>3. Types
  BY <1>1, <1>2, AuthAssumption DEF Init, Types, Steps, Before, Codes
<1>4. ASSUME NEW r \in Requests
      PROVE  Placed(r)
  <2>1. pc[r] = "free" /\ msg[r] = NoMessage /\ answer[r] = 0 /\ tries[r] = 0
    BY DEF Init
  <2> QED
    BY <1>1, <2>1, MessageLimit DEF Placed, PlacedAs, Fits, Posting
<1> QED
  BY <1>3, <1>4 DEF ThreadsInv

LEMMA EarlyKeepsThreads ==
  ASSUME ThreadsInv, NEW r \in Requests, Early(r)
  PROVE  ThreadsInv'
<1>1. Worked(r) /\ Kept(r)
  BY EarlyWorks DEF Effect, Worked
<1>2. Types'
  BY <1>1 DEF ThreadsInv, Types, Worked, Kept
<1>3. ASSUME NEW s \in Requests \ {r}
      PROVE  Placed(s)'
  <2>1. pc'[s] = pc[s] /\ req'[s] = req[s] /\ msg'[s] = msg[s] /\ answer'[s] = answer[s]
        /\ tries'[s] = tries[s]
    BY <1>1 DEF Worked, Kept
  <2>2. Placed(s)
    BY DEF ThreadsInv
  <2> QED
    BY <2>1, <2>2 DEF Placed
<1>4. Placed(r)'
  <2>1. PlacedAs(pc[r], req[r], msg[r], answer[r], tries[r]) /\ tries[r] \in Nat
    BY DEF ThreadsInv, Placed, Types
  <2>2. pc[r] \in Before /\ req' = req /\ tries' = tries
    BY <1>1 DEF Kept
  <2>3. msg[r] = NoMessage /\ answer[r] = 0 /\ tries[r] = 0
    BY <2>1, <2>2, MessageLimit DEF PlacedAs, Before
  <2>4. Fits(pc'[r], req[r].kind)
    BY <1>1 DEF Worked
  <2>5. CASE pc'[r] \in Before /\ msg'[r] = msg[r] /\ answer'[r] = answer[r]
    <3>1. pc'[r] \notin {"post", "wait", "fallback", "done"}
      BY <2>5 DEF Before
    <3>2. PlacedAs(pc'[r], req[r], msg[r], answer[r], tries[r])
      BY <2>1, <2>3, <2>4, <3>1, MessageLimit DEF PlacedAs, Posting
    <3> QED
      BY <2>2, <2>5, <3>2 DEF Placed
  <2>6. CASE pc'[r] = "done" /\ msg'[r] = msg[r]
    <3>1. PlacedAs("done", req[r], msg[r], answer'[r], tries[r])
      BY <2>1, <2>3, <2>4, <2>6, MessageLimit DEF PlacedAs, Posting
    <3> QED
      BY <2>2, <2>6, <3>1 DEF Placed
  <2>7. CASE /\ pc'[r] = "post" /\ answer'[r] = answer[r] /\ msg'[r] \in Posted
             /\ req[r].kind = "local_complete" => LocalMessage(msg'[r], req[r])
    <3>1. PICK m \in Posted : m = msg'[r]
      BY <2>7
    <3>2. m # NoMessage /\ tries[r] < Limit(m) /\ tries[r] <= Limit(m)
      BY <2>3, NoMessageIsNone, MessageLimit
    <3>3. PlacedAs("post", req[r], m, answer[r], tries[r])
      BY <2>1, <2>3, <2>4, <2>7, <3>1, <3>2 DEF PlacedAs, Before
    <3> QED
      BY <2>2, <2>7, <3>1, <3>3 DEF Placed
  <2> QED
    BY <1>1, <2>5, <2>6, <2>7 DEF Worked
<1> QED
  BY <1>2, <1>3, <1>4 DEF ThreadsInv

(* What the answer to a post does to its thread.                           *)
Heard(r, n) == pc[r] = "wait" /\ tries[r] = n

LEMMA ReplyWorks ==
  ASSUME ThreadsInv, NEW r \in Requests, NEW n, NEW code \in {200, 409, 500}, Reply(r, n, code)
  PROVE  /\ pc' \in [Requests -> Steps] /\ answer' \in [Requests -> Codes]
         /\ \A s \in Requests \ {r} : pc'[s] = pc[s] /\ answer'[s] = answer[s]
         /\ ~Heard(r, n) => pc'[r] = pc[r] /\ answer'[r] = answer[r]
         /\ Heard(r, n) => /\ pc'[r] = "done" /\ msg[r] \in Posted
                           /\ msg[r].retry \/ code = 200 => answer'[r] = msg[r].then
                           /\ ~msg[r].retry /\ code # 200 => answer'[r] = code
<1>1. pc \in [Requests -> Steps] /\ answer \in [Requests -> Codes]
      /\ msg[r] \in Posted \cup {NoMessage} /\ Placed(r)
  BY DEF ThreadsInv, Types
<1>2. CASE Heard(r, n)
  <2>1. msg[r] \in Posted
    BY <1>1, <1>2 DEF Heard, Placed, PlacedAs, Posting
  <2>2. PICK to : to = IF msg[r].retry \/ code = 200 THEN msg[r].then ELSE code
    OBVIOUS
  <2>3. to \in Codes
    BY <2>1, <2>2, MessageLimit DEF Codes
  <2>4. pc' = [pc EXCEPT ![r] = "done"] /\ answer' = [answer EXCEPT ![r] = to]
    BY <1>2, <2>2 DEF Heard, Reply, Answer, Goto
  <2> QED
    BY <1>1, <1>2, <2>1, <2>2, <2>3, <2>4 DEF Steps
<1>3. CASE ~Heard(r, n)
  <2>1. UNCHANGED <<pc, answer>>
    BY <1>3 DEF Heard, Reply
  <2> QED
    BY <1>1, <1>3, <2>1
<1> QED
  BY <1>2, <1>3

(* What the steps of posting do to the thread that posts.                  *)
LEMMA PostWorks ==
  ASSUME ThreadsInv, NEW r \in Requests, Post(r)
  PROVE  /\ pc[r] = "post" /\ pc'[r] = "wait" /\ tries'[r] = tries[r] + 1
         /\ pc' \in [Requests -> Steps] /\ tries' \in [Requests -> Nat]
         /\ \A s \in Requests \ {r} : pc'[s] = pc[s] /\ tries'[s] = tries[s]
         /\ wire' = wire \cup {<<r, tries[r] + 1>>}
         /\ tries[r] + 1 \in 1 .. MaxPosts
         /\ UNCHANGED <<now, live, flows, req, got, msg, answer, odoo, fallback, lost, faults>>
<1>1. /\ pc \in [Requests -> Steps] /\ tries \in [Requests -> Nat] /\ Placed(r)
      /\ msg[r] \in Posted \cup {NoMessage}
  BY DEF ThreadsInv, Types
<1>2. /\ pc[r] = "post" /\ pc' = [pc EXCEPT ![r] = "wait"]
      /\ tries' = [tries EXCEPT ![r] = tries[r] + 1]
      /\ wire' = wire \cup {<<r, tries'[r]>>}
      /\ UNCHANGED <<now, live, flows, req, got, msg, answer, odoo, fallback, lost, faults>>
  BY DEF Post, Goto
<1>3. tries'[r] = tries[r] + 1 /\ tries' \in [Requests -> Nat]
  BY <1>1, <1>2
<1>4. tries[r] < Limit(msg[r]) /\ msg[r] \in Posted
  BY <1>1, <1>2 DEF Placed, PlacedAs, Posting
<1>5. tries[r] + 1 \in 1 .. MaxPosts
  BY <1>1, <1>4, MessageLimit, AuthAssumption
<1> QED
  BY <1>1, <1>2, <1>3, <1>5 DEF Steps, Posting

LEMMA PostFailsWorks ==
  ASSUME ThreadsInv, NEW r \in Requests, PostFails(r)
  PROVE  /\ pc[r] = "wait" /\ msg[r] \in Posted
         /\ pc' \in [Requests -> Steps] /\ answer' \in [Requests -> Codes]
         /\ faults' \in 0 .. MaxFaults
         /\ \A s \in Requests \ {r} : pc'[s] = pc[s] /\ answer'[s] = answer[s]
         /\ \/ msg[r].retry /\ tries[r] < MaxPosts /\ pc'[r] = "post" /\ answer'[r] = answer[r]
            \/ msg[r].retry /\ tries[r] = MaxPosts /\ pc'[r] = "fallback" /\ answer'[r] = answer[r]
            \/ ~msg[r].retry /\ pc'[r] = "done" /\ answer'[r] = 502
         /\ wire' \subseteq wire
         /\ UNCHANGED <<now, live, flows, req, got, msg, tries, odoo, fallback, lost>>
<1>1. /\ pc \in [Requests -> Steps] /\ tries[r] \in Nat /\ Placed(r)
      /\ answer \in [Requests -> Codes] /\ msg[r] \in Posted \cup {NoMessage}
      /\ faults \in 0 .. MaxFaults
  BY DEF ThreadsInv, Types
<1>2. /\ pc[r] = "wait" /\ Fault
      /\ IF msg[r].retry THEN Goto(r, AfterFailedPost(r)) /\ UNCHANGED answer
         ELSE Answer(r, 502)
      /\ UNCHANGED <<now, live, flows, req, got, msg, tries, odoo, fallback, lost>>
  BY DEF PostFails
<1>3. wire' \in {wire, wire \ {<<r, tries[r]>>}}
  BY DEF PostFails
<1>4. wire' \subseteq wire
  BY <1>3
<1>5. msg[r] \in Posted /\ tries[r] <= Limit(msg[r])
  BY <1>1, <1>2 DEF Placed, PlacedAs, Posting
<1>6. msg[r].retry => tries[r] < MaxPosts \/ tries[r] = MaxPosts
  BY <1>1, <1>5, MessageLimit, AuthAssumption
<1>7. faults' \in 0 .. MaxFaults
  BY <1>1, <1>2, AuthAssumption DEF Fault
<1>8. CASE msg[r].retry
  <2>1. /\ pc' = [pc EXCEPT ![r] = IF tries[r] < MaxPosts THEN "post" ELSE "fallback"]
        /\ answer' = answer
    BY <1>2, <1>8 DEF Goto, AfterFailedPost
  <2>2. pc' \in [Requests -> Steps]
    BY <1>1, <2>1 DEF Steps, Posting
  <2> QED
    BY <1>1, <1>2, <1>4, <1>5, <1>6, <1>7, <1>8, <2>1, <2>2
<1>9. CASE ~msg[r].retry
  <2>1. pc' = [pc EXCEPT ![r] = "done"] /\ answer' = [answer EXCEPT ![r] = 502]
    BY <1>2, <1>9 DEF Answer, Goto
  <2> QED
    BY <1>1, <1>2, <1>4, <1>5, <1>7, <1>9, <2>1 DEF Steps, Codes
<1> QED
  BY <1>8, <1>9

LEMMA FallbackWorks ==
  ASSUME ThreadsInv, NEW r \in Requests, Fallback(r)
  PROVE  /\ pc[r] = "fallback" /\ msg[r] \in Posted /\ msg[r].retry /\ tries[r] = MaxPosts
         /\ pc' \in [Requests -> Steps] /\ answer' \in [Requests -> Codes]
         /\ faults' \in 0 .. MaxFaults
         /\ pc'[r] = "done" /\ answer'[r] = msg[r].then
         /\ \A s \in Requests \ {r} : pc'[s] = pc[s] /\ answer'[s] = answer[s]
         /\ lost' \in [Requests -> {"no", "logged", "restart", "refused"}]
         /\ \A s \in Requests \ {r} : lost'[s] = lost[s]
         /\ \/ fallback' = fallback \cup {r} /\ lost' = lost
            \/ fallback' = fallback /\ lost'[r] = "logged"
         /\ UNCHANGED <<now, live, flows, req, got, msg, tries, wire, odoo>>
<1>1. /\ pc \in [Requests -> Steps] /\ Placed(r)
      /\ answer \in [Requests -> Codes] /\ msg[r] \in Posted \cup {NoMessage}
      /\ faults \in 0 .. MaxFaults
      /\ lost \in [Requests -> {"no", "logged", "restart", "refused"}]
  BY DEF ThreadsInv, Types
<1>2. /\ pc[r] = "fallback"
      /\ pc' = [pc EXCEPT ![r] = "done"] /\ answer' = [answer EXCEPT ![r] = msg[r].then]
      /\ UNCHANGED <<now, live, flows, req, got, msg, tries, wire, odoo>>
  BY DEF Fallback, Answer, Goto
<1>3. \/ fallback' = fallback \cup {r} /\ lost' = lost /\ faults' = faults
      \/ fallback' = fallback /\ Fault /\ lost' = [lost EXCEPT ![r] = "logged"]
  BY DEF Fallback
<1>4. faults' \in 0 .. MaxFaults
  BY <1>1, <1>3, AuthAssumption DEF Fault
<1>5. msg[r] \in Posted /\ msg[r].retry /\ tries[r] = MaxPosts
  BY <1>1, <1>2 DEF Placed, PlacedAs, Posting
<1>6. msg[r].then \in Codes
  BY <1>5, MessageLimit DEF Codes
<1> QED
  BY <1>1, <1>2, <1>3, <1>4, <1>5, <1>6 DEF Steps

LEMMA RestartWorks ==
  ASSUME ThreadsInv, Restart
  PROVE  /\ pc' \in [Requests -> Steps] /\ faults' \in 0 .. MaxFaults
         /\ lost' \in [Requests -> {"no", "logged", "restart", "refused"}]
         /\ \A r \in Requests :
              /\ pc'[r] = IF pc[r] = "free" THEN "free" ELSE "done"
              /\ lost'[r] = IF pc[r] \in Posting THEN "restart" ELSE lost[r]
         /\ UNCHANGED <<now, live, flows, req, got, msg, tries, answer, wire, odoo, fallback>>
<1>1. /\ faults \in 0 .. MaxFaults
      /\ lost \in [Requests -> {"no", "logged", "restart", "refused"}]
  BY DEF ThreadsInv, Types
<1>2. /\ Fault
      /\ pc' = [r \in Requests |-> IF pc[r] = "free" THEN "free" ELSE "done"]
      /\ lost' = [r \in Requests |-> IF pc[r] \in Posting THEN "restart" ELSE lost[r]]
      /\ UNCHANGED <<now, live, flows, req, got, msg, tries, answer, wire, odoo, fallback>>
  BY DEF Restart, Posting
<1>3. faults' \in 0 .. MaxFaults
  BY <1>1, <1>2, AuthAssumption DEF Fault
<1> QED
  BY <1>1, <1>2, <1>3 DEF Steps, Before

LEMMA IngestWorks ==
  ASSUME ThreadsInv, NEW r \in Requests, NEW n \in 1 .. MaxPosts, Ingest(r, n)
  PROVE  /\ wire' \subseteq wire
         /\ UNCHANGED <<now, live, flows, req, got, msg, tries, fallback, lost, faults>>
         /\ \E code \in {200, 409, 500} :
              /\ Reply(r, n, code)
              /\ code = IF Process(UserOf(r), msg[r].act).status = "failed" THEN 409 ELSE 200
<1>1. /\ wire' = wire \ {<<r, n>>} /\ <<r, n>> \in wire
      /\ UNCHANGED <<now, live, flows, req, got, msg, tries, fallback, lost, faults>>
      /\ Reply(r, n, IF Process(UserOf(r), msg[r].act).status = "failed" THEN 409 ELSE 200)
  BY Zenon DEF Ingest
<1>2. PICK code \in {200, 409, 500} :
        code = IF Process(UserOf(r), msg[r].act).status = "failed" THEN 409 ELSE 200
  OBVIOUS
<1> QED
  BY <1>1, <1>2

LEMMA IngestFailsWorks ==
  ASSUME ThreadsInv, NEW r \in Requests, NEW n \in 1 .. MaxPosts, IngestFails(r, n)
  PROVE  /\ wire' \subseteq wire
         /\ UNCHANGED <<now, live, flows, req, got, msg, tries, odoo, fallback>>
         /\ faults' \in 0 .. MaxFaults
         /\ lost' \in [Requests -> {"no", "logged", "restart", "refused"}]
         /\ \A s \in Requests \ {r} : lost'[s] = lost[s]
         /\ Heard(r, n) => lost'[r] = "refused"
         /\ ~Heard(r, n) => lost'[r] = lost[r]
         /\ Reply(r, n, 500)
<1>1. /\ faults \in 0 .. MaxFaults
      /\ lost \in [Requests -> {"no", "logged", "restart", "refused"}]
  BY DEF ThreadsInv, Types
<1>2. /\ wire' = wire \ {<<r, n>>} /\ <<r, n>> \in wire /\ Fault
      /\ UNCHANGED <<now, live, flows, req, got, msg, tries, odoo, fallback>>
      /\ Reply(r, n, 500)
  BY Zenon DEF IngestFails
<1>3. lost' = [lost EXCEPT ![r] = IF Heard(r, n) THEN "refused" ELSE lost[r]]
  BY DEF IngestFails, Heard
<1>4. faults' \in 0 .. MaxFaults
  BY <1>1, <1>2, AuthAssumption DEF Fault
<1> QED
  BY <1>1, <1>2, <1>3, <1>4

LEMMA NextCases ==
  ASSUME Types, [Next]_vars
  PROVE  \/ UNCHANGED vars \/ Tick \/ Restart
         \/ \E f \in Flows : EndSession(f)
         \/ \E r \in Requests : Early(r) \/ Post(r) \/ PostFails(r) \/ Fallback(r)
         \/ \E r \in Requests, n \in 1 .. MaxPosts : Ingest(r, n) \/ IngestFails(r, n)
<1>1. \A p \in wire : p[1] \in Requests /\ p[2] \in 1 .. MaxPosts
  BY DEF Types
<1> QED
  BY <1>1 DEF Next, ThreadStep, Early

(* A thread that ends, and one that goes on posting, are placed as before. *)
LEMMA PlacedOn ==
  ASSUME NEW p, NEW q, NEW m \in Posted \cup {NoMessage}, NEW code, NEW n \in Nat,
         PlacedAs(p, q, m, code, n)
  PROVE  /\ \A c : PlacedAs("done", q, m, c, n)
         /\ p = "post" => PlacedAs("wait", q, m, code, n + 1)
         /\ (p = "wait" /\ m.retry /\ n = MaxPosts) => PlacedAs("fallback", q, m, code, n)
         /\ (p = "wait" /\ m.retry /\ n < MaxPosts) => PlacedAs("post", q, m, code, n)
<1>1. p \in Posting => m \in Posted
  BY DEF PlacedAs
<1>2. ASSUME NEW c
      PROVE  PlacedAs("done", q, m, c, n)
  BY DEF PlacedAs, Fits, Before, Posting
<1>3. ASSUME p = "post"
      PROVE  PlacedAs("wait", q, m, code, n + 1)
  <2>1. m \in Posted /\ n < Limit(m) /\ Limit(m) \in Nat
    BY <1>1, <1>3, MessageLimit, AuthAssumption DEF PlacedAs, Posting
  <2>2. n + 1 <= Limit(m)
    BY <2>1
  <2> QED
    BY <1>3, <2>1, <2>2 DEF PlacedAs, Fits, Before, Posting
<1>4. ASSUME p = "wait", m.retry, n = MaxPosts
      PROVE  PlacedAs("fallback", q, m, code, n)
  BY <1>1, <1>4 DEF PlacedAs, Fits, Before, Posting
<1>5. ASSUME p = "wait", m.retry, n < MaxPosts
      PROVE  PlacedAs("post", q, m, code, n)
  <2>1. m \in Posted /\ n < Limit(m)
    BY <1>1, <1>5, MessageLimit DEF Posting
  <2> QED
    BY <1>5, <2>1 DEF PlacedAs, Fits, Before, Posting
<1> QED
  BY <1>2, <1>3, <1>4, <1>5

LEMMA ThreadsKept ==
  ASSUME ThreadsInv, [Next]_vars
  PROVE  ThreadsInv'
<1>1. CASE UNCHANGED vars
  BY <1>1 DEF ThreadsInv, Types, Placed, vars, thread, odoo
<1>2. CASE Tick
  BY <1>2, AuthAssumption DEF Tick, ThreadsInv, Types, Placed, thread, odoo
<1>3. CASE \E f \in Flows : EndSession(f)
  <2>1. PICK f \in Flows, res \in {"passed", "failed"} :
          /\ live' = [live EXCEPT ![f] = res]
          /\ UNCHANGED <<now, flows, thread, wire, odoo, fallback, lost, faults>>
    BY <1>3 DEF EndSession
  <2> QED
    BY <2>1 DEF ThreadsInv, Types, Placed, thread, odoo
<1>4. CASE Restart
  <2>1. Types'
    BY <1>4, RestartWorks DEF ThreadsInv, Types
  <2>2. ASSUME NEW r \in Requests
        PROVE  Placed(r)'
    <3>1. PlacedAs(pc[r], req[r], msg[r], answer[r], tries[r])
      BY DEF ThreadsInv, Placed
    <3>2. msg[r] \in Posted \cup {NoMessage} /\ tries[r] \in Nat
      BY DEF ThreadsInv, Types
    <3>3. PlacedAs("done", req[r], msg[r], answer[r], tries[r])
      BY <3>1, <3>2, PlacedOn
    <3>4. /\ pc'[r] = (IF pc[r] = "free" THEN "free" ELSE "done")
          /\ UNCHANGED <<req, msg, answer, tries>>
      BY <1>4, RestartWorks
    <3> QED
      BY <3>1, <3>3, <3>4 DEF Placed
  <2> QED
    BY <2>1, <2>2 DEF ThreadsInv
<1>5. ASSUME NEW r \in Requests, Early(r)
      PROVE  ThreadsInv'
  BY <1>5, EarlyKeepsThreads
<1>6. ASSUME NEW r \in Requests,
             /\ pc' \in [Requests -> Steps] /\ answer' \in [Requests -> Codes]
             /\ \A s \in Requests \ {r} :
                  pc'[s] = pc[s] /\ answer'[s] = answer[s] /\ tries'[s] = tries[s]
             /\ tries' \in [Requests -> Nat] /\ faults' \in 0 .. MaxFaults
             /\ lost' \in [Requests -> {"no", "logged", "restart", "refused"}]
             /\ wire' \subseteq Requests \X (1 .. MaxPosts) /\ fallback' \subseteq Requests,
             UNCHANGED <<now, live, flows, req, got, msg>>,
             PlacedAs(pc'[r], req[r], msg[r], answer'[r], tries'[r])
      PROVE  ThreadsInv'
  <2>1. Types'
    BY <1>6 DEF ThreadsInv, Types
  <2>2. ASSUME NEW s \in Requests
        PROVE  Placed(s)'
    BY <1>6 DEF ThreadsInv, Placed
  <2> QED
    BY <2>1, <2>2 DEF ThreadsInv
<1>7. ASSUME NEW r \in Requests
      PROVE  /\ PlacedAs(pc[r], req[r], msg[r], answer[r], tries[r])
             /\ msg[r] \in Posted \cup {NoMessage} /\ tries[r] \in Nat
             /\ pc[r] # "done" => answer[r] = 0
  BY DEF ThreadsInv, Types, Placed, PlacedAs
<1>8. /\ answer \in [Requests -> Codes] /\ tries \in [Requests -> Nat] /\ faults \in 0 .. MaxFaults
      /\ lost \in [Requests -> {"no", "logged", "restart", "refused"}]
      /\ wire \subseteq Requests \X (1 .. MaxPosts) /\ fallback \subseteq Requests
  BY DEF ThreadsInv, Types
<1>9. ASSUME NEW r \in Requests, Post(r)
      PROVE  ThreadsInv'
  <2>1. PlacedAs(pc'[r], req[r], msg[r], answer'[r], tries'[r])
    <3>1. PlacedAs("wait", req[r], msg[r], answer[r], tries[r] + 1)
      <4>1. pc[r] = "post"
        BY <1>9 DEF Post
      <4> QED
        BY <1>7, <4>1, PlacedOn
    <3>2. pc'[r] = "wait" /\ tries'[r] = tries[r] + 1 /\ answer' = answer
      BY <1>9, PostWorks
    <3> QED
      BY <3>1, <3>2
  <2>2. wire' \subseteq Requests \X (1 .. MaxPosts)
    BY <1>8, <1>9, PostWorks
  <2> QED
    BY <1>6, <1>8, <1>9, <2>1, <2>2, PostWorks
<1>10. ASSUME NEW r \in Requests, PostFails(r)
       PROVE  ThreadsInv'
  <2>1. PlacedAs(pc'[r], req[r], msg[r], answer'[r], tries'[r])
    BY <1>7, <1>10, PostFailsWorks, PlacedOn
  <2> QED
    BY <1>6, <1>8, <1>10, <2>1, PostFailsWorks
<1>11. ASSUME NEW r \in Requests, Fallback(r)
       PROVE  ThreadsInv'
  <2>1. PlacedAs(pc'[r], req[r], msg[r], answer'[r], tries'[r])
    BY <1>7, <1>11, FallbackWorks, PlacedOn
  <2>2. fallback' \subseteq Requests
    BY <1>8, <1>11, FallbackWorks
  <2> QED
    BY <1>6, <1>8, <1>11, <2>1, <2>2, FallbackWorks
<1>12. ASSUME NEW r \in Requests, NEW n \in 1 .. MaxPosts, NEW code \in {200, 409, 500},
              Reply(r, n, code), wire' \subseteq wire, faults' \in 0 .. MaxFaults,
              lost' \in [Requests -> {"no", "logged", "restart", "refused"}],
              UNCHANGED <<now, live, flows, req, got, msg, tries, fallback>>
       PROVE  ThreadsInv'
  <2>1. /\ pc' \in [Requests -> Steps] /\ answer' \in [Requests -> Codes]
        /\ \A s \in Requests \ {r} : pc'[s] = pc[s] /\ answer'[s] = answer[s]
        /\ pc'[r] = "done" \/ (pc'[r] = pc[r] /\ answer'[r] = answer[r])
    BY <1>12, ReplyWorks
  <2>2. PlacedAs(pc'[r], req[r], msg[r], answer'[r], tries'[r])
    BY <1>7, <1>12, <2>1, PlacedOn
  <2> QED
    BY <1>6, <1>8, <1>12, <2>1, <2>2
<1>13. ASSUME NEW r \in Requests, NEW n \in 1 .. MaxPosts, Ingest(r, n)
       PROVE  ThreadsInv'
  <2>2. PICK code \in {200, 409, 500} : Reply(r, n, code)
    BY <1>13, IngestWorks
  <2>3. /\ wire' \subseteq wire
        /\ UNCHANGED <<now, live, flows, req, got, msg, tries, fallback, lost, faults>>
    BY <1>13, IngestWorks
  <2> QED
    BY <1>8, <1>12, <2>2, <2>3
<1>14. ASSUME NEW r \in Requests, NEW n \in 1 .. MaxPosts, IngestFails(r, n)
       PROVE  ThreadsInv'
  <2>1. PICK code \in {200, 409, 500} : Reply(r, n, code)
    BY <1>14, IngestFailsWorks
  <2>2. /\ wire' \subseteq wire /\ faults' \in 0 .. MaxFaults
        /\ lost' \in [Requests -> {"no", "logged", "restart", "refused"}]
        /\ UNCHANGED <<now, live, flows, req, got, msg, tries, fallback>>
    BY <1>14, IngestFailsWorks
  <2> QED
    BY <1>8, <1>12, <2>1, <2>2
<1> QED
  BY <1>1, <1>2, <1>3, <1>4, <1>5, <1>9, <1>10, <1>11, <1>13, <1>14, NextCases DEF ThreadsInv

(***************************************************************************)
(* Days                                                                    *)
(***************************************************************************)
LEMMA DayBounds ==
  ASSUME NEW x \in Nat
  PROVE  Day(x) \in Nat /\ Day(x) * DayLen <= x /\ x <= EndOfDay(Day(x))
<1>1. DayLen \in Nat /\ DayLen >= 1
  BY AuthAssumption
<1>2. (x \div DayLen) \in Nat /\ (x % DayLen) \in 0 .. DayLen - 1
      /\ x = DayLen * (x \div DayLen) + (x % DayLen)
  BY <1>1
<1> QED
  BY <1>1, <1>2 DEF Day, EndOfDay

LEMMA EarlierDayEnded ==
  ASSUME NEW x \in Nat, NEW y \in Nat, Day(x) < Day(y)
  PROVE  EndOfDay(Day(x)) < y
<1>1. DayLen \in Nat /\ DayLen >= 1
  BY AuthAssumption
<1>2. PICK a \in Nat, b \in Nat : a = Day(x) /\ b = Day(y)
  BY DayBounds
<1>3. a + 1 <= b /\ b * DayLen <= y
  BY <1>2, DayBounds
<1>4. (a + 1) * DayLen <= b * DayLen
  BY <1>1, <1>3
<1>5. (a + 1) * DayLen = a * DayLen + DayLen
  BY <1>1
<1>6. a * DayLen \in Nat /\ b * DayLen \in Nat
  BY <1>1
<1> QED
  BY <1>1, <1>2, <1>3, <1>4, <1>5, <1>6 DEF EndOfDay

LEMMA EndIsOfItsDay ==
  ASSUME NEW d \in Nat
  PROVE  EndOfDay(d) \in Nat /\ Day(EndOfDay(d)) = d
<1>1. DayLen \in Nat /\ DayLen >= 1
  BY AuthAssumption
<1>2. PICK e \in Nat : e = EndOfDay(d)
  BY <1>1 DEF EndOfDay
<1>3. PICK q \in Nat : q = Day(e) /\ q * DayLen <= e /\ e <= q * DayLen + (DayLen - 1)
  BY DayBounds DEF EndOfDay
<1>4. e = d * DayLen + (DayLen - 1)
  BY <1>2 DEF EndOfDay
<1>5. ~(q < d)
  <2>1. SUFFICES ASSUME q < d PROVE FALSE
    OBVIOUS
  <2>2. (q + 1) * DayLen <= d * DayLen
    BY <1>1, <2>1
  <2>3. (q + 1) * DayLen = q * DayLen + DayLen
    BY <1>1
  <2>4. q * DayLen \in Nat /\ d * DayLen \in Nat
    BY <1>1
  <2> QED
    BY <1>1, <1>3, <1>4, <2>2, <2>3, <2>4
<1>6. ~(d < q)
  <2>1. SUFFICES ASSUME d < q PROVE FALSE
    OBVIOUS
  <2>2. (d + 1) * DayLen <= q * DayLen
    BY <1>1, <2>1
  <2>3. (d + 1) * DayLen = d * DayLen + DayLen
    BY <1>1
  <2>4. q * DayLen \in Nat /\ d * DayLen \in Nat
    BY <1>1
  <2> QED
    BY <1>1, <1>3, <1>4, <2>2, <2>3, <2>4
<1> QED
  BY <1>2, <1>3, <1>5, <1>6

LEMMA LaterIsNotEarlierDay ==
  ASSUME NEW x \in Nat, NEW y \in Nat, x <= y
  PROVE  Day(x) <= Day(y)
<1>1. SUFFICES ASSUME Day(y) < Day(x) PROVE FALSE
  BY DayBounds
<1>2. EndOfDay(Day(y)) < x
  BY <1>1, EarlierDayEnded
<1>3. EndOfDay(Day(y)) \in Nat /\ y <= EndOfDay(Day(y))
  BY DayBounds, EndIsOfItsDay
<1> QED
  BY <1>2, <1>3

(***************************************************************************)
(* Attendances                                                             *)
(***************************************************************************)
Row == [user : Users \cup {"none"}, in : Nat, out : Nat \cup {Open}]

(* An attendance of a table at time t ...                                  *)
RowOK(a, t) ==
  /\ a.in <= t
  /\ a.out # Open => /\ a.in <= a.out /\ a.out <= t
                     /\ Day(a.out) = Day(a.in) \/ a.out = a.in + 1

(* ... and those of one employee.                                          *)
Apart(tab) ==
  \A i, j \in DOMAIN tab :
    (j > i /\ tab[j].user = tab[i].user) => tab[i].out # Open /\ tab[i].out <= tab[j].in

TableOK(tab, t) == tab \in Seq(Row) /\ (\A i \in DOMAIN tab : RowOK(tab[i], t)) /\ Apart(tab)

LEMMA RowParts ==
  ASSUME NEW tab \in Seq(Row), NEW i \in DOMAIN tab
  PROVE  /\ tab[i] \in Row /\ tab[i].user \in Users \cup {"none"} /\ tab[i].in \in Nat
         /\ tab[i].out \in Nat \cup {Open} /\ i \in 1 .. Len(tab) /\ Len(tab) \in Nat
         /\ tab[i] = [user |-> tab[i].user, in |-> tab[i].in, out |-> tab[i].out]
<1>1. tab[i] \in Row
  OBVIOUS
<1> QED
  BY <1>1 DEF Row

(* An employee has one open attendance at most: the latest is all there is. *)
LEMMA OneOpen ==
  ASSUME NEW tab \in Seq(Row), Apart(tab), NEW u
  PROVE  /\ LatestOpen(tab, u) = OpenOf(tab, u)
         /\ \A i, j \in OpenOf(tab, u) : i = j
<1>1. ASSUME NEW i \in OpenOf(tab, u), NEW j \in OpenOf(tab, u)
      PROVE  i = j
  <2>1. /\ i \in DOMAIN tab /\ j \in DOMAIN tab /\ tab[i].user = u /\ tab[j].user = u
        /\ tab[i].out = Open /\ tab[j].out = Open
    BY <1>1 DEF OpenOf
  <2>2. i \in 1 .. Len(tab) /\ j \in 1 .. Len(tab)
    BY <2>1
  <2>3. ~(j > i) /\ ~(i > j)
    BY <2>1 DEF Apart
  <2> QED
    BY <2>2, <2>3
<1>2. ASSUME NEW i \in OpenOf(tab, u)
      PROVE  i \in LatestOpen(tab, u)
  <2>1. tab[i].in \in Nat
    BY <1>2, RowParts DEF OpenOf
  <2> QED
    BY <1>1, <1>2, <2>1 DEF LatestOpen
<1> QED
  BY <1>1, <1>2 DEF LatestOpen

LEMMA AutoClosedOK ==
  ASSUME now \in Nat, TableOK(attendance, now), NEW u
  PROVE  /\ TableOK(AutoClosed(u), now) /\ DOMAIN AutoClosed(u) = DOMAIN attendance
         /\ Len(AutoClosed(u)) = Len(attendance)
         /\ OfEarlierDay(u) \subseteq DOMAIN attendance
         /\ \A i \in DOMAIN attendance \ OfEarlierDay(u) : AutoClosed(u)[i] = attendance[i]
         /\ \A i \in OfEarlierDay(u) :
              /\ attendance[i].out = Open /\ AutoClosed(u)[i].out # Open
              /\ AutoClosed(u)[i].user = attendance[i].user
         /\ \A i \in OpenOf(AutoClosed(u), u) :
              /\ i \in DOMAIN attendance \ OfEarlierDay(u)
              /\ Day(AutoClosed(u)[i].in) = Day(now)
<1>1. /\ attendance \in Seq(Row) /\ Apart(attendance)
      /\ \A i \in DOMAIN attendance : RowOK(attendance[i], now)
  BY DEF TableOK
<1>2. PICK t : t = AutoClosed(u)
  OBVIOUS
<1>3. ASSUME NEW i \in OfEarlierDay(u)
      PROVE  /\ i \in DOMAIN attendance /\ attendance[i].user = u /\ attendance[i].out = Open
             /\ Day(attendance[i].in) < Day(now)
  BY <1>3 DEF OfEarlierDay, LatestOpen, OpenOf
<1>4. /\ DOMAIN t = DOMAIN attendance
      /\ \A i \in DOMAIN attendance \ OfEarlierDay(u) : t[i] = attendance[i]
  BY <1>2 DEF AutoClosed
<1>5. ASSUME NEW i \in OfEarlierDay(u)
      PROVE  /\ t[i] \in Row /\ t[i].user = attendance[i].user /\ t[i].in = attendance[i].in
             /\ t[i].out # Open /\ RowOK(t[i], now)
  <2>1. i \in DOMAIN attendance
    BY <1>3, <1>5
  <2> PICK x \in Nat : x = attendance[i].in
    BY <1>1, <2>1, RowParts
  <2>2. PICK a, z : attendance[i] = [user |-> a, in |-> x, out |-> z]
    BY <1>1, <2>1, RowParts
  <2>3. /\ attendance[i].user = a /\ attendance[i].in = x
        /\ a \in Users \cup {"none"}
    <3>1. attendance[i].user = a
      BY <2>2
    <3>2. attendance[i].user \in Users \cup {"none"}
      BY <1>1, <2>1, RowParts
    <3> QED
      BY <3>1, <3>2
  <2>4. Day(x) < Day(now) /\ EndOfDay(Day(x)) < now
    BY <1>3, <1>5, <2>3, EarlierDayEnded
  <2>5. PICK e \in Nat : e = EndOfDay(Day(x)) /\ x <= e /\ Day(e) = Day(x)
    BY DayBounds, EndIsOfItsDay
  <2>6. PICK y \in Nat : y = AutoOut(i) /\ y = IF e <= x THEN x + 1 ELSE e
    BY <2>3, <2>5 DEF AutoOut
  <2>7. x <= y /\ y <= now /\ (Day(y) = Day(x) \/ y = x + 1)
    BY <2>4, <2>5, <2>6
  <2>8. t[i] = [attendance[i] EXCEPT !.out = y]
    BY <1>2, <1>5, <2>1, <2>6, Zenon DEF AutoClosed
  <2>9. PICK o : o = [user |-> a, in |-> x, out |-> y]
    OBVIOUS
  <2>10. t[i] = o
    <3>1. PICK b : b = attendance[i]
      OBVIOUS
    <3>2. t[i] = [b EXCEPT !.out = y]
      BY <2>8, <3>1, Zenon
    <3>3. [b EXCEPT !.out = y] = o
      BY <2>2, <2>9, <3>1
    <3> QED
      BY <3>2, <3>3, Zenon
  <2>11. o \in Row /\ o.user = a /\ o.in = x /\ o.out = y
    BY <2>3, <2>9 DEF Row
  <2> QED
    BY <2>3, <2>7, <2>10, <2>11 DEF RowOK, Open
<1>6. t \in Seq(Row) /\ Len(t) = Len(attendance)
  <2>1. \A i \in DOMAIN attendance : t[i] \in Row
    BY <1>1, <1>4, <1>5, RowParts
  <2>2. t = [i \in DOMAIN attendance |-> t[i]]
    BY <1>2 DEF AutoClosed
  <2>3. DOMAIN attendance = 1 .. Len(attendance) /\ Len(attendance) \in Nat
    BY <1>1
  <2>4. t \in [1 .. Len(attendance) -> Row]
    BY <2>1, <2>2, <2>3
  <2> QED
    BY <2>3, <2>4
<1>7. \A i \in DOMAIN attendance :
        t[i].user = attendance[i].user /\ t[i].in = attendance[i].in
  BY <1>4, <1>5
<1>8. Apart(t)
  <2>1. ASSUME NEW i \in DOMAIN attendance, NEW j \in DOMAIN attendance, j > i,
               attendance[j].user = attendance[i].user
        PROVE  t[i].out # Open /\ t[i].out <= t[j].in
    <3>1. attendance[i].out # Open /\ attendance[i].out <= attendance[j].in
      BY <1>1, <2>1 DEF Apart
    <3>2. i \notin OfEarlierDay(u)
      BY <1>3, <3>1
    <3> QED
      BY <1>4, <1>7, <3>1, <3>2
  <2> QED
    BY <1>4, <1>7, <2>1 DEF Apart
<1>9. TableOK(t, now)
  BY <1>1, <1>4, <1>5, <1>6, <1>8 DEF TableOK
<1>10. ASSUME NEW i \in OpenOf(t, u)
       PROVE  i \in DOMAIN attendance \ OfEarlierDay(u) /\ Day(t[i].in) = Day(now)
  <2>1. i \in DOMAIN t /\ t[i].user = u /\ t[i].out = Open
    BY <1>10 DEF OpenOf
  <2>2. i \in DOMAIN attendance \ OfEarlierDay(u)
    BY <1>4, <1>5, <2>1
  <2>3. t[i] = attendance[i] /\ attendance[i].in \in Nat /\ RowOK(attendance[i], now)
    BY <1>1, <1>4, <2>2, RowParts
  <2>4. i \in LatestOpen(attendance, u)
    BY <1>1, <2>1, <2>2, <2>3, OneOpen DEF OpenOf
  <2>5. ~(Day(attendance[i].in) < Day(now))
    BY <2>2, <2>4 DEF OfEarlierDay
  <2>6. Day(attendance[i].in) <= Day(now)
    BY <2>3, LaterIsNotEarlierDay DEF RowOK
  <2>7. Day(attendance[i].in) \in Nat /\ Day(now) \in Nat
    BY <2>3, DayBounds
  <2> QED
    BY <2>2, <2>3, <2>5, <2>6, <2>7
<1> QED
  BY <1>2, <1>3, <1>4, <1>5, <1>6, <1>9, <1>10

(* What one event does to a table: it makes the attendance rec, or closes  *)
(* it, and closes those of auto.                                           *)
Edited(tab, tab2, rec, act, auto) ==
  /\ auto \subseteq DOMAIN tab /\ rec \in 0 .. Len(tab2)
  /\ \/ Len(tab2) = Len(tab)
     \/ /\ Len(tab2) = Len(tab) + 1 /\ rec = Len(tab2) /\ act = "check_in"
        /\ tab2[rec].out = Open
  /\ \A i \in DOMAIN tab :
       /\ tab2[i].user = tab[i].user
       /\ \/ tab2[i].out = tab[i].out /\ rec # i /\ i \notin auto
          \/ /\ tab[i].out = Open /\ tab2[i].out # Open
             /\ i \in auto \/ (rec = i /\ act = "check_out")
             /\ ~(rec = i /\ act = "check_in")

AutoOf(u, p) == IF p.status = "skipped" THEN {} ELSE OfEarlierDay(u)

(* What becomes of an event that asks for act: the table is in order.      *)
Processed(u, act, p) ==
  /\ TableOK(p.table, now) /\ p.status \in {"skipped", "failed", "success"} /\ p.rec \in Nat
  /\ Edited(attendance, p.table, p.rec, act, AutoOf(u, p))
  /\ p.status = "skipped" <=> ~SyncEnabled \/ act = "none"
  /\ p.status = "success" =>
       /\ p.rec \in DOMAIN p.table /\ p.table[p.rec].user = u
       /\ act = "check_out" => p.table[p.rec].out # Open

LEMMA Skipping ==
  ASSUME now \in Nat, TableOK(attendance, now), NEW u, NEW act \in Acts,
         ~SyncEnabled \/ act = "none",
         NEW p, p = [table |-> attendance, status |-> "skipped", rec |-> 0]
  PROVE  Processed(u, act, p)
<1>1. p.table = attendance /\ p.status = "skipped" /\ p.rec = 0
  OBVIOUS
<1>2. attendance \in Seq(Row)
  BY DEF TableOK
<1>3. DOMAIN attendance = 1 .. Len(attendance) /\ Len(attendance) \in Nat
  BY <1>2
<1>4. Edited(attendance, attendance, 0, act, {})
  BY <1>3 DEF Edited
<1>5. AutoOf(u, p) = {}
  BY <1>1 DEF AutoOf
<1>6. TableOK(p.table, now) /\ Edited(attendance, p.table, p.rec, act, AutoOf(u, p))
  BY <1>1, <1>4, <1>5, Zenon
<1> QED
  BY <1>1, <1>6, AuthAssumption DEF Processed

LEMMA Rejecting ==
  ASSUME now \in Nat, TableOK(attendance, now), NEW u, NEW act \in Acts,
         SyncEnabled, act # "none",
         NEW p, p = [table |-> AutoClosed(u), status |-> "failed", rec |-> 0]
  PROVE  Processed(u, act, p)
<1>1. p.table = AutoClosed(u) /\ p.status = "failed" /\ p.rec = 0
  OBVIOUS
<1>2. PICK t : t = AutoClosed(u)
  OBVIOUS
<1>3. /\ TableOK(t, now) /\ DOMAIN t = DOMAIN attendance /\ Len(t) = Len(attendance)
      /\ OfEarlierDay(u) \subseteq DOMAIN attendance
      /\ \A i \in DOMAIN attendance \ OfEarlierDay(u) : t[i] = attendance[i]
      /\ \A i \in OfEarlierDay(u) :
           attendance[i].out = Open /\ t[i].out # Open /\ t[i].user = attendance[i].user
  BY <1>2, AutoClosedOK
<1>4. DOMAIN attendance = 1 .. Len(attendance) /\ Len(attendance) \in Nat
  BY DEF TableOK
<1>5. Edited(attendance, t, 0, act, OfEarlierDay(u))
  BY <1>3, <1>4 DEF Edited
<1>6. AutoOf(u, p) = OfEarlierDay(u)
  BY <1>1 DEF AutoOf
<1>7. TableOK(p.table, now) /\ Edited(attendance, p.table, p.rec, act, AutoOf(u, p))
  BY <1>1, <1>2, <1>3, <1>5, <1>6, Zenon
<1> QED
  BY <1>1, <1>7, AuthAssumption DEF Processed

LEMMA CheckingIn ==
  ASSUME now \in Nat, TableOK(attendance, now), NEW u \in Users \cup {"none"},
         SyncEnabled, LatestOpen(AutoClosed(u), u) = {},
         NEW p, p = [table |-> Append(AutoClosed(u), [user |-> u, in |-> now, out |-> Open]),
                     status |-> "success", rec |-> Len(AutoClosed(u)) + 1]
  PROVE  Processed(u, "check_in", p)
<1>1. PICK t, a : t = AutoClosed(u) /\ a = [user |-> u, in |-> now, out |-> Open]
  OBVIOUS
<1>2. PICK t2 : t2 = Append(t, a)
  OBVIOUS
<1>3. p.table = t2 /\ p.status = "success" /\ p.rec = Len(t) + 1
  BY <1>1, <1>2
<1>4. /\ TableOK(t, now) /\ DOMAIN t = DOMAIN attendance /\ Len(t) = Len(attendance)
      /\ OfEarlierDay(u) \subseteq DOMAIN attendance
      /\ \A i \in DOMAIN attendance \ OfEarlierDay(u) : t[i] = attendance[i]
      /\ \A i \in OfEarlierDay(u) :
           attendance[i].out = Open /\ t[i].out # Open /\ t[i].user = attendance[i].user
  BY <1>1, AutoClosedOK
<1>5. a \in Row /\ a.user = u /\ a.in = now /\ a.out = Open
  BY <1>1 DEF Row
<1>6. t \in Seq(Row) /\ Apart(t) /\ \A i \in DOMAIN t : RowOK(t[i], now)
  BY <1>4 DEF TableOK
<1>7. PICK n \in Nat : n = Len(t) /\ DOMAIN t = 1 .. n
  BY <1>6
<1>8. /\ t2 \in Seq(Row) /\ Len(t2) = n + 1 /\ DOMAIN t2 = 1 .. n + 1 /\ t2[n + 1] = a
      /\ \A i \in 1 .. n : t2[i] = t[i]
  BY <1>2, <1>5, <1>6, <1>7
<1>9. ASSUME NEW i \in 1 .. n, t[i].user = u
      PROVE  t[i].out # Open /\ t[i].out <= now
  <2>1. i \notin OpenOf(t, u)
    BY <1>1, <1>6, OneOpen
  <2>2. t[i].out # Open
    BY <1>7, <1>9, <2>1 DEF OpenOf
  <2> QED
    BY <1>6, <1>7, <2>2 DEF RowOK
<1>10. Apart(t2)
  <2>1. ASSUME NEW i \in 1 .. n + 1, NEW j \in 1 .. n + 1, j > i, t2[j].user = t2[i].user
        PROVE  t2[i].out # Open /\ t2[i].out <= t2[j].in
    <3>1. i \in 1 .. n
      BY <2>1
    <3>2. CASE j = n + 1
      BY <1>5, <1>8, <1>9, <2>1, <3>1, <3>2
    <3>3. CASE j \in 1 .. n
      BY <1>6, <1>7, <1>8, <2>1, <3>1, <3>3 DEF Apart
    <3> QED
      BY <3>2, <3>3
  <2> QED
    BY <1>8, <2>1 DEF Apart
<1>11. \A i \in 1 .. n + 1 : RowOK(t2[i], now)
  <2>1. RowOK(a, now)
    BY <1>5 DEF RowOK
  <2>2. ASSUME NEW i \in 1 .. n
        PROVE  RowOK(t2[i], now)
    <3>1. RowOK(t[i], now) /\ t2[i] = t[i]
      BY <1>6, <1>7, <1>8
    <3> QED
      BY <3>1, Zenon
  <2>3. RowOK(t2[n + 1], now)
    BY <1>8, <2>1, Zenon
  <2>4. \A i \in 1 .. n + 1 : i \in 1 .. n \/ i = n + 1
    OBVIOUS
  <2> QED
    BY <2>2, <2>3, <2>4, Zenon
<1>12. TableOK(t2, now)
  BY <1>8, <1>10, <1>11 DEF TableOK
<1>13. Edited(attendance, t2, n + 1, "check_in", OfEarlierDay(u))
  <2>1. DOMAIN attendance = 1 .. n /\ Len(attendance) = n
    BY <1>4, <1>7
  <2>2. \A i \in 1 .. n :
          /\ t2[i].user = attendance[i].user /\ n + 1 # i
          /\ i \in OfEarlierDay(u) => attendance[i].out = Open /\ t2[i].out # Open
          /\ i \notin OfEarlierDay(u) => t2[i].out = attendance[i].out
    BY <1>4, <1>8, <2>1
  <2> QED
    BY <1>4, <1>5, <1>8, <2>1, <2>2 DEF Edited
<1>14. AutoOf(u, p) = OfEarlierDay(u)
  BY <1>3 DEF AutoOf
<1>15. p.rec = n + 1
  BY <1>3, <1>7
<1>16. TableOK(p.table, now) /\ Edited(attendance, p.table, p.rec, "check_in", AutoOf(u, p))
  BY <1>3, <1>12, <1>13, <1>14, <1>15, Zenon
<1>17. p.rec \in DOMAIN p.table /\ p.table[p.rec].user = u
  BY <1>3, <1>5, <1>8, <1>15
<1> QED
  BY <1>3, <1>15, <1>16, <1>17, AuthAssumption DEF Processed

LEMMA CheckingOut ==
  ASSUME now \in Nat, TableOK(attendance, now), NEW u, SyncEnabled,
         NEW i \in LatestOpen(AutoClosed(u), u),
         NEW p, p = [table |-> [AutoClosed(u) EXCEPT ![i] =
                                  [AutoClosed(u)[i] EXCEPT !.out = now]],
                     status |-> "success", rec |-> i]
  PROVE  Processed(u, "check_out", p)
<1>1. PICK t : t = AutoClosed(u)
  OBVIOUS
<1>2. PICK o : o = t[i]
  OBVIOUS
<1>3. PICK b : b = [o EXCEPT !.out = now]
  OBVIOUS
<1>4. PICK t2 : t2 = [t EXCEPT ![i] = b]
  OBVIOUS
<1>5. p = [table |-> t2, status |-> "success", rec |-> i]
  BY <1>1, <1>2, <1>3, <1>4, Zenon
<1>6. p.table = t2 /\ p.status = "success" /\ p.rec = i
  BY <1>5
<1>7. /\ TableOK(t, now) /\ DOMAIN t = DOMAIN attendance /\ Len(t) = Len(attendance)
      /\ OfEarlierDay(u) \subseteq DOMAIN attendance
      /\ \A j \in DOMAIN attendance \ OfEarlierDay(u) : t[j] = attendance[j]
      /\ \A j \in OfEarlierDay(u) :
           attendance[j].out = Open /\ t[j].out # Open /\ t[j].user = attendance[j].user
      /\ \A j \in OpenOf(t, u) :
           j \in DOMAIN attendance \ OfEarlierDay(u) /\ Day(t[j].in) = Day(now)
  BY <1>1, AutoClosedOK
<1>8. t \in Seq(Row) /\ Apart(t) /\ \A j \in DOMAIN t : RowOK(t[j], now)
  BY <1>7 DEF TableOK
<1>9. i \in OpenOf(t, u) /\ i \in DOMAIN t /\ t[i].user = u /\ t[i].out = Open
  BY <1>1 DEF LatestOpen, OpenOf
<1>10. PICK n \in Nat : n = Len(t) /\ DOMAIN t = 1 .. n
  BY <1>8
<1>11. PICK x \in Nat : x = o.in /\ x <= now /\ Day(x) = Day(now)
  BY <1>2, <1>7, <1>8, <1>9, RowParts DEF RowOK
<1>12. PICK a, z : o = [user |-> a, in |-> x, out |-> z]
  BY <1>2, <1>8, <1>9, <1>11, RowParts
<1>13. a = u /\ o.user = a /\ u \in Users \cup {"none"}
  <2>1. o.user = a
    BY <1>12
  <2> QED
    BY <1>2, <1>8, <1>9, <2>1, RowParts
<1>14. b = [user |-> u, in |-> x, out |-> now]
  BY <1>3, <1>12, <1>13
<1>15. b \in Row /\ b.user = u /\ b.in = x /\ b.out = now /\ b.out # Open
  BY <1>13, <1>14 DEF Row, Open
<1>16. RowOK(b, now)
  BY <1>11, <1>15 DEF RowOK
<1>17. /\ t2 \in Seq(Row) /\ Len(t2) = n /\ DOMAIN t2 = 1 .. n /\ t2[i] = b
       /\ \A j \in 1 .. n : j # i => t2[j] = t[j]
  BY <1>4, <1>8, <1>9, <1>10, <1>15
<1>18. \A j \in 1 .. n : RowOK(t2[j], now)
  <2>1. ASSUME NEW j \in 1 .. n, j # i
        PROVE  RowOK(t2[j], now)
    <3>1. RowOK(t[j], now) /\ t2[j] = t[j]
      BY <1>8, <1>10, <1>17, <2>1
    <3> QED
      BY <3>1, Zenon
  <2>2. RowOK(t2[i], now)
    BY <1>16, <1>17, Zenon
  <2> QED
    BY <2>1, <2>2, Zenon
<1>19. Apart(t2)
  <2>1. \A j \in 1 .. n : t2[j].user = t[j].user /\ t2[j].in = t[j].in
    BY <1>2, <1>9, <1>11, <1>15, <1>17
  <2>2. ASSUME NEW j \in 1 .. n, NEW k \in 1 .. n, k > j, t2[k].user = t2[j].user
        PROVE  t2[j].out # Open /\ t2[j].out <= t2[k].in
    <3>1. t[j].out # Open /\ t[j].out <= t[k].in
      BY <1>8, <1>10, <2>1, <2>2 DEF Apart
    <3>2. j # i
      BY <1>9, <3>1
    <3> QED
      BY <1>17, <2>1, <3>1, <3>2
  <2> QED
    BY <1>17, <2>2 DEF Apart
<1>20. TableOK(t2, now)
  BY <1>17, <1>18, <1>19 DEF TableOK
<1>21. Edited(attendance, t2, i, "check_out", OfEarlierDay(u))
  <2>1. DOMAIN attendance = 1 .. n /\ Len(attendance) = n
    BY <1>7, <1>10
  <2>2. i \in 1 .. n /\ i \notin OfEarlierDay(u) /\ t[i] = attendance[i]
    BY <1>7, <1>9, <1>10
  <2>3. \A j \in 1 .. n :
          /\ t2[j].user = attendance[j].user
          /\ j \in OfEarlierDay(u) => attendance[j].out = Open /\ t2[j].out # Open
          /\ j = i => attendance[j].out = Open /\ t2[j].out # Open
          /\ j \notin OfEarlierDay(u) /\ j # i => t2[j].out = attendance[j].out
    BY <1>7, <1>9, <1>15, <1>17, <2>1, <2>2
  <2> QED
    BY <1>7, <1>17, <2>1, <2>2, <2>3 DEF Edited
<1>22. AutoOf(u, p) = OfEarlierDay(u)
  BY <1>6 DEF AutoOf
<1>23. TableOK(p.table, now) /\ Edited(attendance, p.table, p.rec, "check_out", AutoOf(u, p))
  BY <1>6, <1>20, <1>21, <1>22, Zenon
<1>24. p.rec \in DOMAIN p.table /\ p.table[p.rec].user = u /\ p.table[p.rec].out # Open
       /\ p.rec \in Nat
  <2>1. i \in Nat /\ i \in DOMAIN t2
    BY <1>9, <1>10, <1>17
  <2>2. t2[i].user = u /\ t2[i].out # Open
    BY <1>15, <1>17
  <2> QED
    BY <1>6, <2>1, <2>2, Zenon
<1> QED
  BY <1>6, <1>23, <1>24, AuthAssumption DEF Processed

LEMMA ProcessWorks ==
  ASSUME now \in Nat, TableOK(attendance, now), NEW u \in Users \cup {"none"}, NEW act \in Acts,
         NEW p, p = Process(u, act)
  PROVE  Processed(u, act, p)
<1>1. CASE ~SyncEnabled \/ act = "none"
  BY <1>1, Skipping DEF Process
<1>2. CASE SyncEnabled /\ act = "check_in"
  <2>1. CASE LatestOpen(AutoClosed(u), u) # {}
    BY <1>2, <2>1, Rejecting DEF Process
  <2>2. CASE LatestOpen(AutoClosed(u), u) = {}
    BY <1>2, <2>2, CheckingIn DEF Process
  <2> QED
    BY <2>1, <2>2
<1>3. CASE SyncEnabled /\ act = "check_out"
  <2>1. CASE LatestOpen(AutoClosed(u), u) = {}
    BY <1>3, <2>1, Rejecting DEF Process
  <2>2. CASE LatestOpen(AutoClosed(u), u) # {}
    <3>1. PICK i : i = CHOOSE j \in LatestOpen(AutoClosed(u), u) : TRUE
      OBVIOUS
    <3>2. i \in LatestOpen(AutoClosed(u), u)
      BY <2>2, <3>1
    <3>3. p = [table |-> [AutoClosed(u) EXCEPT ![i] = [AutoClosed(u)[i] EXCEPT !.out = now]],
               status |-> "success", rec |-> i]
      BY <1>3, <2>2, <3>1, Zenon DEF Process
    <3> QED
      BY <1>3, <3>2, <3>3, CheckingOut
  <2> QED
    BY <2>1, <2>2
<1> QED
  BY <1>1, <1>2, <1>3, AuthAssumption DEF Acts

(***************************************************************************)
(* Events                                                                  *)
(***************************************************************************)
EventRow == [from : Requests, user : Users \cup {"none"}, result : {"success", "failed"},
             act : Acts, status : {"skipped", "failed", "success"}, rec : Nat,
             auto : SUBSET Nat, alerts : SUBSET {"AUTH_FAILED", "NEW_DEVICE"}]

(* The events of ev that made or closed attendance i, and those it was     *)
(* closed by.                                                              *)
By(ev, i, act) == {k \in DOMAIN ev : ev[k].rec = i /\ ev[k].act = act}
Ended(ev, i) == By(ev, i, "check_out") \cup {k \in DOMAIN ev : i \in ev[k].auto}

EventsOK(ev, tab) ==
  /\ ev \in Seq(EventRow)
  /\ \A k \in DOMAIN ev : ev[k].rec \in 0 .. Len(tab) /\ ev[k].auto \subseteq 1 .. Len(tab)
  /\ \A i \in 1 .. Len(tab) :
       /\ \E k \in DOMAIN ev : By(ev, i, "check_in") = {k}
       /\ tab[i].out = Open => Ended(ev, i) = {}
       /\ tab[i].out # Open => \E k \in DOMAIN ev : Ended(ev, i) = {k}

LEMMA EventAppended ==
  ASSUME NEW ev \in Seq(EventRow), NEW e \in EventRow, NEW n \in Nat, n = Len(ev),
         NEW ev2, ev2 = Append(ev, e)
  PROVE  /\ ev2 \in Seq(EventRow) /\ Len(ev2) = n + 1
         /\ DOMAIN ev = 1 .. n /\ DOMAIN ev2 = 1 .. n + 1
         /\ ev2[n + 1] = e /\ \A k \in 1 .. n : ev2[k] = ev[k]
  OBVIOUS

LEMMA ByAppended ==
  ASSUME NEW n \in Nat, NEW ev, NEW e, NEW ev2,
         DOMAIN ev = 1 .. n, DOMAIN ev2 = 1 .. n + 1,
         ev2[n + 1] = e, \A k \in 1 .. n : ev2[k] = ev[k],
         NEW i \in Nat
  PROVE  /\ \A act \in Acts :
              /\ (e.rec = i /\ e.act = act) => By(ev2, i, act) = By(ev, i, act) \cup {n + 1}
              /\ ~(e.rec = i /\ e.act = act) => By(ev2, i, act) = By(ev, i, act)
         /\ ((e.rec = i /\ e.act = "check_out") \/ i \in e.auto) =>
              Ended(ev2, i) = Ended(ev, i) \cup {n + 1}
         /\ ~((e.rec = i /\ e.act = "check_out") \/ i \in e.auto) =>
              Ended(ev2, i) = Ended(ev, i)
<1>1. ASSUME NEW act \in Acts
      PROVE  /\ (e.rec = i /\ e.act = act) => By(ev2, i, act) = By(ev, i, act) \cup {n + 1}
             /\ ~(e.rec = i /\ e.act = act) => By(ev2, i, act) = By(ev, i, act)
  BY DEF By
<1> DEFINE A(l) == {k \in DOMAIN l : i \in l[k].auto}
<1>2. /\ i \in e.auto => A(ev2) = A(ev) \cup {n + 1}
      /\ i \notin e.auto => A(ev2) = A(ev)
  OBVIOUS
<1>3. "check_out" \in Acts
  BY DEF Acts
<1>4. Ended(ev2, i) = By(ev2, i, "check_out") \cup A(ev2)
      /\ Ended(ev, i) = By(ev, i, "check_out") \cup A(ev)
  BY DEF Ended
<1> HIDE DEF A
<1> QED
  BY <1>1, <1>2, <1>3, <1>4

LEMMA EventsEdited ==
  ASSUME NEW tab \in Seq(Row), NEW tab2 \in Seq(Row), NEW ev, EventsOK(ev, tab),
         NEW e \in EventRow, Edited(tab, tab2, e.rec, e.act, e.auto)
  PROVE  EventsOK(Append(ev, e), tab2)
<1>1. PICK n \in Nat, m \in Nat, m2 \in Nat :
        n = Len(ev) /\ m = Len(tab) /\ m2 = Len(tab2)
  BY DEF EventsOK
<1>2. PICK ev2 : ev2 = Append(ev, e)
  OBVIOUS
<1>3. PICK rec, act, auto : rec \in Nat /\ rec = e.rec /\ act = e.act /\ auto = e.auto
  BY DEF EventRow
<1>4. /\ auto \subseteq 1 .. m /\ rec \in 0 .. m2 /\ (m2 = m \/ m2 = m + 1)
      /\ m2 = m + 1 => rec = m2 /\ act = "check_in" /\ tab2[rec].out = Open
      /\ \A i \in 1 .. m :
           \/ tab2[i].out = tab[i].out /\ rec # i /\ i \notin auto
           \/ /\ tab[i].out = Open /\ tab2[i].out # Open
              /\ i \in auto \/ (rec = i /\ act = "check_out")
              /\ ~(rec = i /\ act = "check_in")
  BY <1>1, <1>3 DEF Edited
<1>5. /\ ev \in Seq(EventRow)
      /\ \A k \in DOMAIN ev : ev[k].rec \in 0 .. m /\ ev[k].auto \subseteq 1 .. m
      /\ \A i \in 1 .. m :
           /\ \E k \in DOMAIN ev : By(ev, i, "check_in") = {k}
           /\ tab[i].out = Open => Ended(ev, i) = {}
           /\ tab[i].out # Open => \E k \in DOMAIN ev : Ended(ev, i) = {k}
  BY <1>1 DEF EventsOK
<1>6. /\ ev2 \in Seq(EventRow) /\ Len(ev2) = n + 1
      /\ DOMAIN ev = 1 .. n /\ DOMAIN ev2 = 1 .. n + 1
      /\ ev2[n + 1] = e /\ \A k \in 1 .. n : ev2[k] = ev[k]
  BY <1>1, <1>2, <1>5, EventAppended
<1>7. ASSUME NEW i \in Nat
      PROVE  /\ \A a \in Acts :
                  /\ (rec = i /\ act = a) => By(ev2, i, a) = By(ev, i, a) \cup {n + 1}
                  /\ ~(rec = i /\ act = a) => By(ev2, i, a) = By(ev, i, a)
             /\ ((rec = i /\ act = "check_out") \/ i \in auto) =>
                  Ended(ev2, i) = Ended(ev, i) \cup {n + 1}
             /\ ~((rec = i /\ act = "check_out") \/ i \in auto) =>
                  Ended(ev2, i) = Ended(ev, i)
  <2>1. /\ \A a \in Acts :
             /\ (e.rec = i /\ e.act = a) => By(ev2, i, a) = By(ev, i, a) \cup {n + 1}
             /\ ~(e.rec = i /\ e.act = a) => By(ev2, i, a) = By(ev, i, a)
        /\ ((e.rec = i /\ e.act = "check_out") \/ i \in e.auto) =>
             Ended(ev2, i) = Ended(ev, i) \cup {n + 1}
        /\ ~((e.rec = i /\ e.act = "check_out") \/ i \in e.auto) =>
             Ended(ev2, i) = Ended(ev, i)
    BY <1>3, <1>6, ByAppended
  <2> QED
    BY <1>3, <2>1
<1>8. ASSUME NEW k \in DOMAIN ev2
      PROVE  ev2[k].rec \in 0 .. m2 /\ ev2[k].auto \subseteq 1 .. m2
  <2>1. CASE k = n + 1
    BY <1>3, <1>4, <1>6, <2>1
  <2>2. CASE k \in 1 .. n
    BY <1>4, <1>5, <1>6, <2>2
  <2> QED
    BY <1>6, <2>1, <2>2
<1>9. ASSUME NEW i \in 1 .. m2
      PROVE  /\ \E k \in DOMAIN ev2 : By(ev2, i, "check_in") = {k}
             /\ tab2[i].out = Open => Ended(ev2, i) = {}
             /\ tab2[i].out # Open => \E k \in DOMAIN ev2 : Ended(ev2, i) = {k}
  <2> i \in Nat /\ "check_in" \in Acts
    BY DEF Acts
  <2>1. CASE i \in 1 .. m
    <3>1. ~(rec = i /\ act = "check_in")
      BY <1>4, <2>1
    <3>2. By(ev2, i, "check_in") = By(ev, i, "check_in")
      BY <1>7, <3>1
    <3>3. \E k \in DOMAIN ev2 : By(ev2, i, "check_in") = {k}
      BY <1>5, <1>6, <2>1, <3>2
    <3>4. CASE tab2[i].out = tab[i].out /\ rec # i /\ i \notin auto
      <4>1. Ended(ev2, i) = Ended(ev, i)
        BY <1>7, <3>4
      <4>2. ASSUME tab[i].out # Open
            PROVE  \E k \in DOMAIN ev2 : Ended(ev, i) = {k}
        <5>1. PICK k \in DOMAIN ev : Ended(ev, i) = {k}
          BY <1>5, <2>1, <4>2
        <5>2. k \in DOMAIN ev2
          BY <1>6
        <5> QED
          BY <5>1, <5>2
      <4> QED
        BY <1>5, <2>1, <3>3, <3>4, <4>1, <4>2
    <3>5. CASE /\ tab[i].out = Open /\ tab2[i].out # Open
               /\ i \in auto \/ (rec = i /\ act = "check_out")
      <4>1. Ended(ev2, i) = {n + 1}
        BY <1>5, <1>7, <2>1, <3>5
      <4>2. n + 1 \in DOMAIN ev2
        BY <1>6
      <4> QED
        BY <3>3, <3>5, <4>1, <4>2
    <3> QED
      BY <1>4, <2>1, <3>4, <3>5
  <2>2. CASE i = m + 1 /\ m2 = m + 1
    <3>1. rec = i /\ act = "check_in" /\ tab2[i].out = Open
      BY <1>4, <2>2
    <3>2. \A a \in Acts : By(ev, i, a) = {}
      BY <1>5, <2>2 DEF By
    <3>3. Ended(ev, i) = {}
      BY <1>5, <2>2, <3>2 DEF Ended, Acts
    <3>4. By(ev2, i, "check_in") = {n + 1}
      BY <1>7, <3>1, <3>2
    <3>5. Ended(ev2, i) = {}
      <4>1. i \notin auto
        BY <1>4, <2>2
      <4> QED
        BY <1>7, <3>1, <3>3, <4>1
    <3>6. n + 1 \in DOMAIN ev2
      BY <1>6
    <3> QED
      BY <3>1, <3>4, <3>5, <3>6
  <2> QED
    BY <1>4, <2>1, <2>2
<1>10. EventsOK(ev2, tab2)
  BY <1>1, <1>6, <1>8, <1>9 DEF EventsOK
<1> QED
  BY <1>2, <1>10

(***************************************************************************)
(* Every edit has its event                                                *)
(***************************************************************************)
(* A post on its way was made; an event was posted.                        *)
WireInv ==
  /\ \A r \in Requests, n \in 1 .. MaxPosts : <<r, n>> \in wire => n <= tries[r]
  /\ \A k \in DOMAIN event : event[k].from \in Requests /\ tries[event[k].from] >= 1

BooksInv == TableOK(attendance, now) /\ EventsOK(event, attendance)

LEMMA PostedOnce ==
  ASSUME ThreadsInv, NEW r \in Requests, tries[r] >= 1
  PROVE  msg[r] \in Posted /\ pc[r] \notin Before
<1>1. Placed(r) /\ msg[r] \in Posted \cup {NoMessage} /\ tries[r] \in Nat
  BY DEF ThreadsInv, Types
<1>2. msg[r] # NoMessage
  BY <1>1, MessageLimit DEF Placed, PlacedAs
<1> QED
  BY <1>1, <1>2 DEF Placed, PlacedAs

LEMMA UserIsTyped ==
  ASSUME ThreadsInv, NEW r \in Requests
  PROVE  UserOf(r) \in Users \cup {"none"}
<1>1. got[r] \in FlowRow /\ req[r].user \in Users
  BY RequestParts DEF ThreadsInv, Types
<1> QED
  BY <1>1, FlowParts DEF UserOf

(* Odoo stores the event e of a post of r, processed with outcome p.       *)
Stored(r, p, e) ==
  /\ msg[r] \in Posted /\ Processed(UserOf(r), msg[r].act, p)
  /\ attendance' = p.table /\ event' = Append(event, e) /\ e \in EventRow
  /\ e.from = r /\ e.user = UserOf(r) /\ e.act = msg[r].act /\ e.status = p.status /\ e.rec = p.rec
  /\ e.result = (IF p.status = "failed" THEN "failed" ELSE msg[r].result)
  /\ e.auto = AutoOf(UserOf(r), p)

LEMMA IngestMakes ==
  ASSUME ThreadsInv, WireInv, BooksInv, NEW r \in Requests, NEW n \in 1 .. MaxPosts,
         Ingest(r, n)
  PROVE  \E p, e : Stored(r, p, e) /\ p = Process(UserOf(r), msg[r].act)
<1>1. <<r, n>> \in wire
  BY Zenon DEF Ingest
<1>2. msg[r] \in Posted
  <2>1. n <= tries[r]
    BY <1>1 DEF WireInv
  <2>2. tries[r] >= 1
    BY <2>1 DEF ThreadsInv, Types
  <2> QED
    BY <2>2, PostedOnce
<1>3. PICK u, act, p : u = UserOf(r) /\ act = msg[r].act /\ p = Process(u, act)
  OBVIOUS
<1>4. act \in Acts /\ msg[r].result \in {"success", "failed"}
  BY <1>2, <1>3 DEF Posted
<1>5. u \in Users \cup {"none"}
  BY <1>3, UserIsTyped
<1>6. Processed(u, act, p)
  <2>1. now \in Nat
    BY AuthAssumption DEF ThreadsInv, Types
  <2>2. TableOK(attendance, now)
    BY DEF BooksInv
  <2> QED
    BY <1>3, <1>4, <1>5, <2>1, <2>2, ProcessWorks
<1>7. PICK result, auto, alerts :
        /\ result = FinalResult(msg[r], p)
        /\ auto = IF p.status = "skipped" THEN {} ELSE OfEarlierDay(u)
        /\ alerts = (IF result = "failed" THEN {"AUTH_FAILED"} ELSE {})
                    \cup (IF <<u, req[r].dev>> \notin device THEN {"NEW_DEVICE"} ELSE {})
  OBVIOUS
<1>8. PICK e : e = [from |-> r, user |-> u, result |-> result, act |-> act,
                    status |-> p.status, rec |-> p.rec, auto |-> auto, alerts |-> alerts]
  OBVIOUS
<1>9. attendance' = p.table /\ event' = Append(event, e)
  BY <1>3, <1>7, <1>8, Zenon DEF Ingest
<1>10. auto = AutoOf(u, p)
  BY <1>7, Zenon DEF AutoOf
<1>11. result = (IF p.status = "failed" THEN "failed" ELSE msg[r].result)
  BY <1>7, Zenon DEF FinalResult
<1>12. /\ e.from = r /\ e.user = u /\ e.act = act /\ e.status = p.status /\ e.rec = p.rec
       /\ e.result = result /\ e.auto = auto
  BY <1>8
<1>13. e \in EventRow
  <2>1. auto \subseteq Nat
    <3>1. attendance \in Seq(Row)
      BY DEF BooksInv, TableOK
    <3>2. auto \subseteq DOMAIN attendance
      BY <1>6, <1>10 DEF Processed, Edited
    <3> QED
      BY <3>1, <3>2
  <2>2. alerts \subseteq {"AUTH_FAILED", "NEW_DEVICE"}
    BY <1>7
  <2>3. p.status \in {"skipped", "failed", "success"} /\ p.rec \in Nat
    BY <1>6 DEF Processed
  <2>4. result \in {"success", "failed"}
    BY <1>4, <1>11
  <2> QED
    BY <1>4, <1>5, <1>8, <2>1, <2>2, <2>3, <2>4 DEF EventRow
<1>14. Stored(r, p, e)
  BY <1>2, <1>3, <1>6, <1>9, <1>10, <1>11, <1>12, <1>13 DEF Stored
<1> QED
  BY <1>3, <1>14

LEMMA IngestOnly ==
  ASSUME ThreadsInv, [Next]_vars
  PROVE  \/ UNCHANGED odoo /\ (now' = now \/ now' = now + 1)
         \/ \E r \in Requests, n \in 1 .. MaxPosts : Ingest(r, n)
<1>1. CASE UNCHANGED vars
  BY <1>1 DEF vars
<1>2. CASE Tick
  BY <1>2 DEF Tick
<1>3. CASE Restart
  BY <1>3 DEF Restart
<1>4. CASE \E f \in Flows : EndSession(f)
  BY <1>4 DEF EndSession
<1>5. ASSUME NEW r \in Requests, Early(r)
      PROVE  UNCHANGED odoo /\ now' = now
  BY <1>5, EarlyWorks DEF Effect, Worked, Kept
<1>6. ASSUME NEW r \in Requests, Post(r) \/ PostFails(r) \/ Fallback(r)
      PROVE  UNCHANGED odoo /\ now' = now
  BY <1>6 DEF Post, PostFails, Fallback
<1>7. ASSUME NEW r \in Requests, NEW n \in 1 .. MaxPosts, IngestFails(r, n)
      PROVE  UNCHANGED odoo /\ now' = now
  BY <1>7, IngestFailsWorks
<1> QED
  BY <1>1, <1>2, <1>3, <1>4, <1>5, <1>6, <1>7, NextCases DEF ThreadsInv

LEMMA TriesGrow ==
  ASSUME ThreadsInv, [Next]_vars, NEW s \in Requests
  PROVE  tries[s] <= tries'[s]
<1>1. tries[s] \in Nat
  BY DEF ThreadsInv, Types
<1>2. CASE UNCHANGED tries
  BY <1>1, <1>2
<1>3. ASSUME NEW r \in Requests, Post(r)
      PROVE  tries[s] <= tries'[s]
  BY <1>1, <1>3, PostWorks
<1>4. ASSUME NEW r \in Requests, Early(r) \/ PostFails(r) \/ Fallback(r)
      PROVE  UNCHANGED tries
  BY <1>4, EarlyWorks, PostFailsWorks, FallbackWorks DEF Effect, Worked, Kept
<1>5. ASSUME NEW r \in Requests, NEW n \in 1 .. MaxPosts, Ingest(r, n) \/ IngestFails(r, n)
      PROVE  UNCHANGED tries
  BY <1>5, IngestWorks, IngestFailsWorks
<1>6. UNCHANGED vars \/ Tick \/ Restart \/ (\E f \in Flows : EndSession(f)) => UNCHANGED tries
  BY DEF vars, thread, Tick, Restart, EndSession
<1> QED
  BY <1>2, <1>3, <1>4, <1>5, <1>6, NextCases DEF ThreadsInv

LEMMA WireKept ==
  ASSUME ThreadsInv, WireInv, BooksInv, [Next]_vars
  PROVE  WireInv'
<1>1. /\ \A s \in Requests : tries[s] \in Nat /\ tries'[s] \in Nat /\ tries[s] <= tries'[s]
  BY TriesGrow, ThreadsKept DEF ThreadsInv, Types
<1>2. \A s \in Requests, n \in 1 .. MaxPosts :
        <<s, n>> \in wire' => <<s, n>> \in wire \/ n <= tries'[s]
  <2>1. ASSUME NEW r \in Requests, Post(r)
        PROVE  \A s \in Requests, n \in 1 .. MaxPosts :
                 <<s, n>> \in wire' => <<s, n>> \in wire \/ n <= tries'[s]
    BY <1>1, <2>1, PostWorks
  <2>2. ASSUME NEW r \in Requests, Early(r) \/ PostFails(r) \/ Fallback(r)
        PROVE  wire' \subseteq wire
    BY <2>2, EarlyWorks, PostFailsWorks, FallbackWorks DEF Effect, Worked, Kept
  <2>3. ASSUME NEW r \in Requests, NEW n \in 1 .. MaxPosts, Ingest(r, n) \/ IngestFails(r, n)
        PROVE  wire' \subseteq wire
    BY <2>3, IngestWorks, IngestFailsWorks
  <2>4. UNCHANGED vars \/ Tick \/ Restart \/ (\E f \in Flows : EndSession(f)) => UNCHANGED wire
    BY DEF vars, Tick, Restart, EndSession
  <2> QED
    BY <2>1, <2>2, <2>3, <2>4, NextCases DEF ThreadsInv
<1>3. \A s \in Requests, n \in 1 .. MaxPosts : <<s, n>> \in wire' => n <= tries'[s]
  BY <1>1, <1>2 DEF WireInv
<1>4. \A k \in DOMAIN event' : event'[k].from \in Requests /\ tries'[event'[k].from] >= 1
  <2>1. CASE UNCHANGED odoo
    BY <1>1, <2>1 DEF WireInv, odoo
  <2>2. ASSUME NEW r \in Requests, NEW n \in 1 .. MaxPosts, Ingest(r, n)
        PROVE  \A k \in DOMAIN event' :
                 event'[k].from \in Requests /\ tries'[event'[k].from] >= 1
    <3>1. PICK p, e : Stored(r, p, e)
      BY <2>2, IngestMakes
    <3>2. event \in Seq(EventRow)
      BY DEF BooksInv, EventsOK
    <3>3. PICK m \in Nat : m = Len(event)
      BY <3>2
    <3>4. /\ DOMAIN event = 1 .. m /\ DOMAIN event' = 1 .. m + 1
          /\ event'[m + 1] = e /\ \A k \in 1 .. m : event'[k] = event[k]
      BY <3>1, <3>2, <3>3, EventAppended DEF Stored
    <3>5. e.from = r
      BY <3>1 DEF Stored
    <3>6. tries'[r] >= 1
      <4>1. <<r, n>> \in wire
        BY <2>2, Zenon DEF Ingest
      <4> QED
        BY <1>1, <4>1 DEF WireInv
    <3> QED
      BY <1>1, <3>4, <3>5, <3>6 DEF WireInv
  <2> QED
    BY <2>1, <2>2, IngestOnly
<1> QED
  BY <1>3, <1>4 DEF WireInv

LEMMA BooksKept ==
  ASSUME ThreadsInv, WireInv, BooksInv, [Next]_vars
  PROVE  BooksInv'
<1>1. CASE UNCHANGED odoo /\ (now' = now \/ now' = now + 1)
  <2>1. now \in Nat /\ now' \in Nat /\ now <= now'
    BY <1>1, AuthAssumption DEF ThreadsInv, Types
  <2>2. TableOK(attendance, now')
    <3>1. attendance \in Seq(Row)
      BY DEF BooksInv, TableOK
    <3>2. ASSUME NEW i \in DOMAIN attendance
          PROVE  RowOK(attendance[i], now')
      <4>1. RowOK(attendance[i], now)
        BY DEF BooksInv, TableOK
      <4>2. attendance[i].in \in Nat /\ attendance[i].out \in Nat \cup {Open}
        BY <3>1, RowParts
      <4> QED
        BY <2>1, <4>1, <4>2 DEF RowOK, Open
    <3> QED
      BY <3>2 DEF BooksInv, TableOK
  <2> QED
    BY <1>1, <2>2 DEF BooksInv, odoo
<1>2. ASSUME NEW r \in Requests, NEW n \in 1 .. MaxPosts, Ingest(r, n)
      PROVE  BooksInv'
  <2>1. PICK p, e : Stored(r, p, e)
    BY <1>2, IngestMakes
  <2>2. /\ attendance' = p.table /\ event' = Append(event, e) /\ e \in EventRow
        /\ now' = now
    BY <1>2, <2>1, IngestWorks DEF Stored
  <2>3. TableOK(p.table, now) /\ Edited(attendance, p.table, e.rec, e.act, e.auto)
    BY <2>1, Zenon DEF Stored, Processed
  <2>4. attendance \in Seq(Row) /\ p.table \in Seq(Row) /\ EventsOK(event, attendance)
    BY <2>3 DEF BooksInv, TableOK
  <2>5. EventsOK(Append(event, e), p.table)
    BY <2>2, <2>3, <2>4, EventsEdited
  <2> QED
    BY <2>2, <2>3, <2>5 DEF BooksInv
<1> QED
  BY <1>1, <1>2, IngestOnly

LEMMA BooksStart ==
  ASSUME Init
  PROVE  WireInv /\ BooksInv
<1>1. wire = {} /\ event = <<>> /\ attendance = <<>> /\ now = 0
  BY DEF Init
<1>2. DOMAIN event = {} /\ DOMAIN attendance = {} /\ Len(attendance) = 0
      /\ event \in Seq(EventRow) /\ attendance \in Seq(Row)
  BY <1>1
<1>3. TableOK(attendance, now)
  BY <1>2 DEF TableOK, Apart
<1>4. EventsOK(event, attendance)
  BY <1>2 DEF EventsOK
<1> QED
  BY <1>1, <1>2, <1>3, <1>4 DEF WireInv, BooksInv

LEMMA BooksAreEdits ==
  ASSUME BooksInv
  PROVE  EveryEditHasItsEvent
<1>1. /\ attendance \in Seq(Row) /\ Apart(attendance)
      /\ \A i \in DOMAIN attendance : RowOK(attendance[i], now)
  BY DEF BooksInv, TableOK
<1>2. ASSUME NEW i \in DOMAIN attendance
      PROVE  /\ Cardinality(By(event, i, "check_in")) = 1
             /\ Cardinality(Ended(event, i)) = (IF attendance[i].out = Open THEN 0 ELSE 1)
  <2>1. i \in 1 .. Len(attendance)
    BY <1>1
  <2>2. /\ \E k \in DOMAIN event : By(event, i, "check_in") = {k}
        /\ attendance[i].out = Open => Ended(event, i) = {}
        /\ attendance[i].out # Open => \E k \in DOMAIN event : Ended(event, i) = {k}
    BY <2>1 DEF BooksInv, EventsOK
  <2> QED
    BY <2>2, FS_EmptySet, FS_Singleton
<1>3. ASSUME NEW i \in DOMAIN attendance
      PROVE  /\ \/ attendance[i].out = Open
                \/ Day(attendance[i].out) = Day(attendance[i].in)
                \/ attendance[i].out = attendance[i].in + 1
             /\ \A j \in DOMAIN attendance :
                  j > i /\ attendance[j].user = attendance[i].user
                    => attendance[i].out # Open /\ attendance[i].out <= attendance[j].in
  BY <1>1, <1>3 DEF RowOK, Apart
<1> QED
  BY <1>2, <1>3 DEF EveryEditHasItsEvent, By, Ended

LEMMA InvariantOfBooks == Spec => [](ThreadsInv /\ WireInv /\ BooksInv)
<1>1. Init => ThreadsInv /\ WireInv /\ BooksInv
  BY ThreadsStart, BooksStart
<1>2. ThreadsInv /\ WireInv /\ BooksInv /\ [Next]_vars => (ThreadsInv /\ WireInv /\ BooksInv)'
  BY ThreadsKept, WireKept, BooksKept
<1> QED
  BY <1>1, <1>2, PTL DEF Spec

(* create_from_gateway: however the posts of several requests interleave   *)
(* and whichever of them fail, the attendances of an employee are apart,   *)
(* only the last is open, each ends on its day or with the next tick, and  *)
(* each was made by one event and closed by one.                           *)
THEOREM EditsHaveEvents == Spec => []EveryEditHasItsEvent
<1>1. ThreadsInv /\ WireInv /\ BooksInv => EveryEditHasItsEvent
  BY BooksAreEdits
<1> QED
  BY <1>1, InvariantOfBooks, PTL

(***************************************************************************)
(* What the client of a local request is told                              *)
(***************************************************************************)
EventsOf(ev, r) == {k \in DOMAIN ev : ev[k].from = r}

(* The requests a post of which is on its way.                             *)
Sent == {w[1] : w \in wire}

(* A local request r at p, with the requests sent being under way, the     *)
(* events ev, its answer code and its message m: it has one event at most, *)
(* after which nothing of it is under way.                                 *)
LocalAs(r, p, sent, ev, code, m) ==
  /\ \A k, l \in EventsOf(ev, r) : k = l
  /\ EventsOf(ev, r) # {} => r \notin sent
  /\ p \in Before \cup {"post"} => EventsOf(ev, r) = {} /\ r \notin sent
  /\ p = "wait" => r \in sent
  /\ code \notin {0, 502} => r \notin sent
  /\ code = 200 => \E k \in EventsOf(ev, r) : ev[k].status = "success"
  /\ code = 409 => \E k \in EventsOf(ev, r) : ev[k].result = "failed" /\ ev[k].status = "failed"
  /\ code = 500 => EventsOf(ev, r) = {}
  /\ code \in {400, 401, 403} => m = NoMessage \/ m.act = "none"
  /\ m # NoMessage /\ m.act = "none" =>
       \A k \in EventsOf(ev, r) : ev[k].status = "skipped"

LocalsInv ==
  \A r \in Requests : req[r].kind = "local_complete" =>
    LocalAs(r, pc[r], Sent, event, answer[r], msg[r])

(* What an event asked for and did.                                        *)
EventKept(e, tab) ==
  /\ e.from \in Requests
  /\ req[e.from].kind = "local_complete" =>
       e.user = req[e.from].user /\ e.act = msg[e.from].act
  /\ e.status = "success" =>
       /\ e.rec \in DOMAIN tab /\ tab[e.rec].user = e.user
       /\ e.act = "check_out" => tab[e.rec].out # Open

EventsInv == \A k \in DOMAIN event : EventKept(event[k], attendance)

LEMMA LocalUnmoved ==
  ASSUME NEW s \in Requests, req[s].kind = "local_complete", LocalsInv, UNCHANGED req,
         NEW n \in Nat, DOMAIN event = 1 .. n,
         EventsOf(event', s) = EventsOf(event, s),
         \A k \in 1 .. n : event'[k] = event[k],
         s \in Sent' <=> s \in Sent,
         pc'[s] = pc[s], answer'[s] = answer[s], msg'[s] = msg[s]
  PROVE  LocalAs(s, pc[s], Sent, event, answer[s], msg[s])'
<1>1. LocalAs(s, pc[s], Sent, event, answer[s], msg[s])
  BY DEF LocalsInv
<1>2. PICK E, e1, e2 : E = EventsOf(event, s) /\ e1 = event /\ e2 = event'
  OBVIOUS
<1>3. EventsOf(e1, s) = E /\ EventsOf(e2, s) = E /\ \A k \in E : e2[k] = e1[k]
  BY <1>2 DEF EventsOf
<1>4. PICK S, S2 : S = Sent /\ S2 = Sent'
  OBVIOUS
<1>5. LocalAs(s, pc[s], S2, e2, answer[s], msg[s])
  BY <1>1, <1>2, <1>3, <1>4 DEF LocalAs
<1> QED
  BY <1>2, <1>4, <1>5

LEMMA WireSteps ==
  ASSUME ThreadsInv, WireInv, NEW r \in Requests, NEW n \in 1 .. MaxPosts,
         <<r, n>> \in wire, wire' = wire \ {<<r, n>>}
  PROVE  /\ r \in Sent /\ \A s \in Requests \ {r} : s \in Sent' <=> s \in Sent
         /\ msg[r] \in Posted
         /\ ~msg[r].retry => n = 1 /\ tries[r] = 1 /\ r \notin Sent'
<1>1. wire \subseteq Requests \X (1 .. MaxPosts)
  BY DEF ThreadsInv, Types
<1>2. \A w \in wire : w = <<w[1], w[2]>> /\ w[1] \in Requests /\ w[2] \in 1 .. MaxPosts
  BY <1>1
<1>3. r \in Sent
  BY DEF Sent
<1>4. ASSUME NEW s \in Requests \ {r}
      PROVE  s \in Sent' <=> s \in Sent
  BY <1>2 DEF Sent
<1>5. n <= tries[r] /\ tries[r] \in Nat
  BY DEF WireInv, ThreadsInv, Types
<1>6. msg[r] \in Posted
  BY <1>5, PostedOnce
<1>7. ASSUME ~msg[r].retry
      PROVE  n = 1 /\ tries[r] = 1 /\ r \notin Sent'
  <2>1. tries[r] <= 1
    BY <1>6, <1>7, MessageLimit DEF ThreadsInv, Placed, PlacedAs
  <2>2. n = 1 /\ tries[r] = 1
    BY <1>5, <2>1
  <2>3. ASSUME NEW w \in wire', w[1] = r
        PROVE  FALSE
    <3>1. w \in wire /\ w # <<r, n>>
      BY <2>3
    <3>2. w = <<r, w[2]>> /\ w[2] \in 1 .. MaxPosts
      BY <1>2, <2>3, <3>1
    <3>3. w[2] <= tries[r]
      BY <3>1, <3>2 DEF WireInv
    <3>4. w[2] = n
      BY <2>2, <3>2, <3>3
    <3> QED
      BY <3>1, <3>2, <3>4
  <2> QED
    BY <2>2, <2>3 DEF Sent
<1> QED
  BY <1>3, <1>4, <1>6, <1>7

LEMMA LocalThread ==
  ASSUME ThreadsInv, WireInv, LocalsInv, NEW r \in Requests, req[r].kind = "local_complete"
  PROVE  /\ LocalAs(r, pc[r], Sent, event, answer[r], msg[r])
         /\ Placed(r) /\ msg[r] \in Posted \cup {NoMessage} /\ tries[r] \in Nat
         /\ pc[r] \in Steps /\ answer[r] \in Codes
         /\ pc[r] \in Before => msg[r] = NoMessage
         /\ msg[r] # NoMessage => ~msg[r].retry /\ LocalMessage(msg[r], req[r])
         /\ pc[r] # "fallback" /\ req[r].act # "none"
         /\ pc[r] # "done" => answer[r] = 0
<1>1. Placed(r) /\ msg[r] \in Posted \cup {NoMessage} /\ tries[r] \in Nat
      /\ pc[r] \in Steps /\ answer[r] \in Codes
  BY DEF ThreadsInv, Types
<1>2. /\ pc[r] \in Before => msg[r] = NoMessage
      /\ msg[r] # NoMessage => ~msg[r].retry /\ LocalMessage(msg[r], req[r])
      /\ req[r].act # "none" /\ pc[r] # "done" => answer[r] = 0
      /\ req[r].act # "none"
  BY <1>1 DEF Placed, PlacedAs, LocalMessage
<1>3. pc[r] # "fallback"
  BY <1>1, <1>2 DEF Placed, PlacedAs, Posting
<1> QED
  BY <1>1, <1>2, <1>3 DEF LocalsInv

(* Steps of threads and of the environment: no event is stored.            *)
LEMMA LocalsQuiet ==
  ASSUME ThreadsInv, WireInv, BooksInv, LocalsInv, NEW r \in Requests,
         UNCHANGED event, UNCHANGED req,
         \A s \in Requests \ {r} :
           pc'[s] = pc[s] /\ answer'[s] = answer[s] /\ msg'[s] = msg[s]
           /\ (s \in Sent' <=> s \in Sent),
         req[r].kind = "local_complete" =>
           LocalAs(r, pc'[r], Sent', event, answer'[r], msg'[r])
  PROVE  LocalsInv'
<1>1. PICK n \in Nat : n = Len(event) /\ DOMAIN event = 1 .. n
  BY DEF BooksInv, EventsOK
<1>2. ASSUME NEW s \in Requests \ {r}, req[s].kind = "local_complete"
      PROVE  LocalAs(s, pc[s], Sent, event, answer[s], msg[s])'
  <2>1. EventsOf(event', s) = EventsOf(event, s) /\ \A k \in 1 .. n : event'[k] = event[k]
    OBVIOUS
  <2> QED
    BY <1>1, <1>2, <2>1, LocalUnmoved
<1>3. req[r].kind = "local_complete" => LocalAs(r, pc[r], Sent, event, answer[r], msg[r])'
  OBVIOUS
<1> QED
  BY <1>2, <1>3 DEF LocalsInv

LEMMA LocalsKeptEarly ==
  ASSUME ThreadsInv, WireInv, BooksInv, LocalsInv, NEW r \in Requests, Early(r)
  PROVE  LocalsInv'
<1>1. Worked(r) /\ Kept(r)
  BY EarlyWorks DEF Effect, Worked
<1>2. UNCHANGED event /\ UNCHANGED req /\ Sent' = Sent
  BY <1>1 DEF Kept, odoo, Sent
<1>3. ASSUME req[r].kind = "local_complete"
      PROVE  LocalAs(r, pc'[r], Sent, event, answer'[r], msg'[r])
  <2>1. LocalAs(r, pc[r], Sent, event, answer[r], msg[r])
        /\ msg[r] = NoMessage /\ pc[r] \in Before /\ answer[r] = 0
    <3>1. pc[r] \in Before
      BY <1>1 DEF Kept
    <3>2. pc[r] # "done"
      BY <3>1 DEF Before
    <3> QED
      BY <1>3, <3>1, <3>2, LocalThread
  <2>2. EventsOf(event, r) = {} /\ r \notin Sent
    BY <2>1 DEF LocalAs
  <2>3. \/ pc'[r] \in Before \cup {"post"} /\ answer'[r] = 0
        \/ pc'[r] = "done" /\ msg'[r] = NoMessage /\ answer'[r] \in {401, 403, 502}
    BY <1>1, <1>3, <2>1 DEF Worked
  <2>4. pc'[r] # "wait"
    BY <2>3 DEF Before
  <2> QED
    BY <2>2, <2>3, <2>4 DEF LocalAs
<1> QED
  BY <1>1, <1>2, <1>3, LocalsQuiet DEF Worked

LEMMA LocalsKeptPosting ==
  ASSUME ThreadsInv, WireInv, BooksInv, LocalsInv, NEW r \in Requests,
         Post(r) \/ PostFails(r) \/ Fallback(r)
  PROVE  LocalsInv'
<1>1. UNCHANGED <<event, req, msg>>
  BY DEF Post, PostFails, Fallback, odoo
<1>2. CASE Post(r)
  <2>1. /\ pc[r] = "post" /\ pc'[r] = "wait" /\ wire' = wire \cup {<<r, tries[r] + 1>>}
        /\ \A s \in Requests \ {r} : pc'[s] = pc[s]
        /\ UNCHANGED answer
    BY <1>2, PostWorks
  <2>2. r \in Sent' /\ \A s \in Requests \ {r} : s \in Sent' <=> s \in Sent
    <3>1. PICK w : w = <<r, tries[r] + 1>>
      OBVIOUS
    <3>2. w[1] = r /\ wire' = wire \cup {w}
      BY <2>1, <3>1
    <3>3. Sent' = Sent \cup {r}
      BY <3>2 DEF Sent
    <3> QED
      BY <3>3
  <2>3. ASSUME req[r].kind = "local_complete"
        PROVE  LocalAs(r, pc'[r], Sent', event, answer'[r], msg'[r])
    <3>1. LocalAs(r, pc[r], Sent, event, answer[r], msg[r]) /\ answer[r] = 0
      BY <2>1, <2>3, LocalThread
    <3>2. EventsOf(event, r) = {}
      BY <2>1, <3>1 DEF LocalAs
    <3>3. answer'[r] = 0 /\ "wait" \notin Before
      BY <2>1, <3>1 DEF Before
    <3> QED
      BY <2>1, <2>2, <3>2, <3>3 DEF LocalAs
  <2> QED
    BY <1>1, <2>1, <2>2, <2>3, LocalsQuiet
<1>3. CASE PostFails(r)
  <2>1. /\ pc[r] = "wait"
        /\ \A s \in Requests \ {r} : pc'[s] = pc[s] /\ answer'[s] = answer[s]
        /\ ~msg[r].retry => pc'[r] = "done" /\ answer'[r] = 502
        /\ wire' \subseteq wire /\ msg[r] \in Posted
    BY <1>3, PostFailsWorks
  <2>2. \A s \in Requests \ {r} : s \in Sent' <=> s \in Sent
    <3>1. wire' = wire \/ wire' = wire \ {<<r, tries[r]>>}
      BY <1>3 DEF PostFails
    <3> QED
      BY <3>1 DEF Sent
  <2>3. ASSUME req[r].kind = "local_complete"
        PROVE  LocalAs(r, pc'[r], Sent', event, answer'[r], msg'[r])
    <3>1. LocalAs(r, pc[r], Sent, event, answer[r], msg[r]) /\ ~msg[r].retry
      BY <2>1, <2>3, LocalThread, NoMessageIsNone
    <3>2. EventsOf(event, r) = {}
      BY <2>1, <3>1 DEF LocalAs
    <3>3. pc'[r] = "done" /\ answer'[r] = 502 /\ "done" \notin Before
      BY <2>1, <3>1 DEF Before
    <3> QED
      BY <3>2, <3>3 DEF LocalAs
  <2> QED
    BY <1>1, <2>1, <2>2, <2>3, LocalsQuiet
<1>4. CASE Fallback(r)
  <2>1. /\ pc[r] = "fallback" /\ UNCHANGED wire
        /\ \A s \in Requests \ {r} : pc'[s] = pc[s] /\ answer'[s] = answer[s]
    BY <1>4, FallbackWorks
  <2>2. Sent' = Sent
    BY <2>1 DEF Sent
  <2>3. req[r].kind # "local_complete"
    BY <2>1, LocalThread
  <2> QED
    BY <1>1, <2>1, <2>2, <2>3, LocalsQuiet
<1> QED
  BY <1>2, <1>3, <1>4

LEMMA LocalsKeptIngest ==
  ASSUME ThreadsInv, WireInv, BooksInv, LocalsInv, SyncEnabled,
         NEW r \in Requests, NEW n \in 1 .. MaxPosts, Ingest(r, n)
  PROVE  LocalsInv'
<1>1. PICK p, e : Stored(r, p, e) /\ p = Process(UserOf(r), msg[r].act)
  BY IngestMakes
<1>2. /\ event' = Append(event, e) /\ e \in EventRow /\ e.from = r /\ e.status = p.status
      /\ e.result = (IF p.status = "failed" THEN "failed" ELSE msg[r].result)
  BY <1>1 DEF Stored
<1>3. /\ p.status \in {"skipped", "failed", "success"}
      /\ p.status = "skipped" <=> ~SyncEnabled \/ msg[r].act = "none"
  BY <1>1, Zenon DEF Stored, Processed
<1>4. PICK m \in Nat : m = Len(event) /\ event \in Seq(EventRow)
  BY DEF BooksInv, EventsOK
<1>5. /\ DOMAIN event = 1 .. m /\ DOMAIN event' = 1 .. m + 1
      /\ event'[m + 1] = e /\ \A k \in 1 .. m : event'[k] = event[k]
  BY <1>2, <1>4, EventAppended
<1>6. PICK e1, e2 : e1 = event /\ e2 = event'
  OBVIOUS
<1>7. /\ EventsOf(e2, r) = EventsOf(e1, r) \cup {m + 1}
      /\ \A s : s # r => EventsOf(e2, s) = EventsOf(e1, s)
      /\ e2[m + 1] = e
  <2>1. /\ DOMAIN e1 = 1 .. m /\ DOMAIN e2 = 1 .. m + 1 /\ e.from = r
        /\ e2[m + 1] = e /\ \A k \in 1 .. m : e2[k] = e1[k]
    BY <1>2, <1>5, <1>6
  <2>2. EventsOf(e2, r) = EventsOf(e1, r) \cup {m + 1}
    BY <1>4, <2>1 DEF EventsOf
  <2>3. ASSUME NEW s, s # r
        PROVE  EventsOf(e2, s) = EventsOf(e1, s)
    BY <1>4, <2>1, <2>3 DEF EventsOf
  <2> QED
    BY <2>1, <2>2, <2>3
<1>8. <<r, n>> \in wire /\ wire' = wire \ {<<r, n>>}
  BY Zenon DEF Ingest
<1>9. /\ r \in Sent /\ \A s \in Requests \ {r} : s \in Sent' <=> s \in Sent
      /\ msg[r] \in Posted
      /\ ~msg[r].retry => n = 1 /\ tries[r] = 1 /\ r \notin Sent'
  BY <1>8, WireSteps
<1>10. UNCHANGED <<req, msg>>
  BY IngestWorks
<1>11. PICK code \in {200, 409, 500} :
         /\ Reply(r, n, code)
         /\ code = IF p.status = "failed" THEN 409 ELSE 200
  BY <1>1, IngestWorks
<1>12. /\ \A s \in Requests \ {r} : pc'[s] = pc[s] /\ answer'[s] = answer[s]
       /\ ~Heard(r, n) => pc'[r] = pc[r] /\ answer'[r] = answer[r]
       /\ Heard(r, n) => /\ pc'[r] = "done"
                         /\ msg[r].retry \/ code = 200 => answer'[r] = msg[r].then
                         /\ ~msg[r].retry /\ code # 200 => answer'[r] = code
  BY <1>11, ReplyWorks
<1>13. ASSUME NEW s \in Requests \ {r}, req[s].kind = "local_complete"
       PROVE  LocalAs(s, pc[s], Sent, event, answer[s], msg[s])'
  <2>1. EventsOf(event', s) = EventsOf(event, s)
    BY <1>6, <1>7
  <2> QED
    BY <1>5, <1>9, <1>10, <1>12, <1>13, <2>1, LocalUnmoved
<1>14. ASSUME req[r].kind = "local_complete"
       PROVE  LocalAs(r, pc'[r], Sent', e2, answer'[r], msg[r])
  <2>1. /\ LocalAs(r, pc[r], Sent, e1, answer[r], msg[r])
        /\ ~msg[r].retry /\ LocalMessage(msg[r], req[r])
        /\ pc[r] # "fallback" /\ pc[r] \in Steps /\ req[r].act # "none"
        /\ pc[r] # "done" => answer[r] = 0
    BY <1>6, <1>9, <1>14, LocalThread, NoMessageIsNone
  <2>2. EventsOf(e1, r) = {} /\ pc[r] \notin Before \cup {"post"} /\ answer[r] \in {0, 502}
    BY <1>9, <2>1 DEF LocalAs
  <2>3. EventsOf(e2, r) = {m + 1} /\ r \notin Sent'
    BY <1>7, <1>9, <2>1, <2>2
  <2>4. msg[r].act = "none" <=> msg[r].result = "failed"
    BY <1>9, <2>1 DEF LocalMessage, Posted
  <2>5. /\ msg[r].act = "none" => e.status = "skipped" /\ code = 200 /\ msg[r].then = 401
        /\ msg[r].act # "none" => /\ msg[r].then = 200
                                  /\ \/ e.status = "success" /\ code = 200
                                     \/ e.status = "failed" /\ e.result = "failed" /\ code = 409
    BY <1>2, <1>3, <1>9, <1>11, <2>1, <2>4 DEF LocalMessage, Posted
  <2>6. CASE Heard(r, n)
    <3>1. /\ pc'[r] = "done" /\ "done" \notin Before
          /\ answer'[r] = IF code = 200 THEN msg[r].then ELSE code
      BY <1>12, <2>1, <2>6 DEF Before
    <3>2. CASE msg[r].act = "none"
      BY <1>7, <2>3, <2>5, <3>1, <3>2 DEF LocalAs
    <3>3. CASE msg[r].act # "none"
      BY <1>7, <2>3, <2>5, <3>1, <3>3 DEF LocalAs
    <3> QED
      BY <3>2, <3>3
  <2>7. CASE ~Heard(r, n)
    <3>1. pc'[r] = pc[r] /\ answer'[r] = answer[r] /\ pc[r] # "wait"
      BY <1>9, <1>12, <2>1, <2>7 DEF Heard
    <3> QED
      BY <1>7, <2>2, <2>3, <2>5, <3>1 DEF LocalAs
  <2> QED
    BY <2>6, <2>7
<1>15. req[r].kind = "local_complete" => LocalAs(r, pc[r], Sent, event, answer[r], msg[r])'
  BY <1>6, <1>10, <1>14
<1> QED
  BY <1>10, <1>13, <1>15 DEF LocalsInv

LEMMA LocalsKeptIngestFails ==
  ASSUME ThreadsInv, WireInv, BooksInv, LocalsInv,
         NEW r \in Requests, NEW n \in 1 .. MaxPosts, IngestFails(r, n)
  PROVE  LocalsInv'
<1>1. UNCHANGED <<req, msg, odoo>> /\ Reply(r, n, 500)
  BY IngestFailsWorks
<1>2. <<r, n>> \in wire /\ wire' = wire \ {<<r, n>>}
  BY Zenon DEF IngestFails
<1>3. /\ r \in Sent /\ \A s \in Requests \ {r} : s \in Sent' <=> s \in Sent
      /\ msg[r] \in Posted
      /\ ~msg[r].retry => n = 1 /\ tries[r] = 1 /\ r \notin Sent'
  BY <1>2, WireSteps
<1>4. /\ \A s \in Requests \ {r} : pc'[s] = pc[s] /\ answer'[s] = answer[s]
      /\ ~Heard(r, n) => pc'[r] = pc[r] /\ answer'[r] = answer[r]
      /\ Heard(r, n) => pc'[r] = "done" /\ (~msg[r].retry => answer'[r] = 500)
  BY <1>1, ReplyWorks
<1>5. ASSUME req[r].kind = "local_complete"
      PROVE  LocalAs(r, pc'[r], Sent', event, answer'[r], msg[r])
  <2>1. /\ LocalAs(r, pc[r], Sent, event, answer[r], msg[r]) /\ ~msg[r].retry
        /\ pc[r] # "done" => answer[r] = 0
    BY <1>3, <1>5, LocalThread, NoMessageIsNone
  <2>2. EventsOf(event, r) = {} /\ pc[r] \notin Before \cup {"post"} /\ answer[r] \in {0, 502}
    BY <1>3, <2>1 DEF LocalAs
  <2>3. CASE Heard(r, n)
    <3>1. pc'[r] = "done" /\ answer'[r] = 500 /\ "done" \notin Before
      BY <1>4, <2>1, <2>3 DEF Before
    <3> QED
      BY <1>3, <2>1, <2>2, <3>1 DEF LocalAs
  <2>4. CASE ~Heard(r, n)
    <3>1. pc'[r] = pc[r] /\ answer'[r] = answer[r] /\ pc[r] # "wait"
      BY <1>3, <1>4, <2>1, <2>4 DEF Heard
    <3> QED
      BY <1>3, <2>1, <2>2, <3>1 DEF LocalAs
  <2> QED
    BY <2>3, <2>4
<1> QED
  BY <1>1, <1>3, <1>4, <1>5, LocalsQuiet DEF odoo

(* Requests stay what they are, and so does a message once it is posted.   *)
LEMMA MessagesStay ==
  ASSUME ThreadsInv, [Next]_vars
  PROVE  UNCHANGED req /\ \A s \in Requests : tries[s] >= 1 => msg'[s] = msg[s]
<1>1. CASE UNCHANGED <<req, msg>>
  BY <1>1
<1>2. ASSUME NEW r \in Requests, Early(r)
      PROVE  UNCHANGED req /\ \A s \in Requests : tries[s] >= 1 => msg'[s] = msg[s]
  <2>1. Worked(r) /\ Kept(r)
    BY <1>2, EarlyWorks DEF Effect, Worked
  <2>2. pc[r] \in Before /\ UNCHANGED req /\ \A t \in Requests \ {r} : msg'[t] = msg[t]
    BY <2>1 DEF Worked, Kept
  <2>3. \A s \in Requests : tries[s] >= 1 => s # r
    BY <2>2, PostedOnce
  <2> QED
    BY <2>2, <2>3
<1>3. ASSUME NEW r \in Requests, Post(r) \/ PostFails(r) \/ Fallback(r)
      PROVE  UNCHANGED <<req, msg>>
  BY <1>3 DEF Post, PostFails, Fallback
<1>4. ASSUME NEW r \in Requests, NEW n \in 1 .. MaxPosts, Ingest(r, n) \/ IngestFails(r, n)
      PROVE  UNCHANGED <<req, msg>>
  BY <1>4, IngestWorks, IngestFailsWorks
<1>5. CASE UNCHANGED vars \/ Tick \/ Restart \/ \E f \in Flows : EndSession(f)
  BY <1>1, <1>5 DEF vars, thread, Tick, Restart, EndSession
<1> QED
  BY <1>1, <1>2, <1>3, <1>4, <1>5, NextCases DEF ThreadsInv

LEMMA LocalsKept ==
  ASSUME ThreadsInv, WireInv, BooksInv, LocalsInv, SyncEnabled, [Next]_vars
  PROVE  LocalsInv'
<1>1. CASE UNCHANGED vars \/ Tick \/ \E f \in Flows : EndSession(f)
  <2>1. UNCHANGED <<req, pc, wire, event, answer, msg>>
    BY <1>1 DEF vars, thread, odoo, Tick, EndSession
  <2> QED
    BY <2>1 DEF LocalsInv, Sent
<1>2. CASE Restart
  <2>1. /\ UNCHANGED <<req, msg, answer, wire, event>>
        /\ \A r \in Requests : pc'[r] = IF pc[r] = "free" THEN "free" ELSE "done"
    BY <1>2, RestartWorks DEF odoo
  <2>2. Sent' = Sent
    BY <2>1 DEF Sent
  <2>3. ASSUME NEW r \in Requests, req[r].kind = "local_complete"
        PROVE  LocalAs(r, pc'[r], Sent, event, answer[r], msg[r])
    <3>1. LocalAs(r, pc[r], Sent, event, answer[r], msg[r])
      BY <2>3 DEF LocalsInv
    <3>2. CASE pc'[r] = pc[r]
      BY <3>1, <3>2
    <3>3. CASE pc'[r] = "done"
      BY <3>1, <3>3 DEF LocalAs, Before
    <3> QED
      BY <2>1, <3>2, <3>3
  <2> QED
    BY <2>1, <2>2, <2>3 DEF LocalsInv
<1>3. ASSUME NEW r \in Requests, Early(r) \/ Post(r) \/ PostFails(r) \/ Fallback(r)
      PROVE  LocalsInv'
  BY <1>3, LocalsKeptEarly, LocalsKeptPosting
<1>4. ASSUME NEW r \in Requests, NEW n \in 1 .. MaxPosts, Ingest(r, n) \/ IngestFails(r, n)
      PROVE  LocalsInv'
  BY <1>4, LocalsKeptIngest, LocalsKeptIngestFails
<1> QED
  BY <1>1, <1>2, <1>3, <1>4, NextCases DEF ThreadsInv

LEMMA EventStays ==
  ASSUME NEW tab \in Seq(Row), NEW tab2 \in Seq(Row), NEW e \in EventRow,
         NEW rec, NEW act, NEW auto, Edited(tab, tab2, rec, act, auto),
         e.status = "success", e.rec \in DOMAIN tab, tab[e.rec].user = e.user,
         e.act = "check_out" => tab[e.rec].out # Open
  PROVE  /\ e.rec \in DOMAIN tab2 /\ tab2[e.rec].user = e.user
         /\ e.act = "check_out" => tab2[e.rec].out # Open
<1>1. PICK i : i = e.rec
  OBVIOUS
<1>2. PICK n \in Nat, n2 \in Nat : /\ n = Len(tab) /\ n2 = Len(tab2)
                                   /\ DOMAIN tab = 1 .. n /\ DOMAIN tab2 = 1 .. n2
  OBVIOUS
<1>3. n <= n2
  BY <1>2 DEF Edited
<1>4. i \in DOMAIN tab /\ i \in DOMAIN tab2
  BY <1>1, <1>2, <1>3
<1>5. tab2[i].user = tab[i].user /\ (tab2[i].out = tab[i].out \/ tab2[i].out # Open)
  BY <1>4 DEF Edited
<1> QED
  BY <1>1, <1>4, <1>5

LEMMA EventsKept ==
  ASSUME ThreadsInv, WireInv, BooksInv, EventsInv, [Next]_vars
  PROVE  EventsInv'
<1>1. UNCHANGED req /\ \A s \in Requests : tries[s] >= 1 => msg'[s] = msg[s]
  BY MessagesStay
<1>2. event \in Seq(EventRow) /\ attendance \in Seq(Row)
  BY DEF BooksInv, EventsOK, TableOK
<1>3. CASE UNCHANGED odoo
  <2>1. ASSUME NEW k \in DOMAIN event
        PROVE  EventKept(event[k], attendance)'
    <3>1. EventKept(event[k], attendance) /\ event[k].from \in Requests
          /\ tries[event[k].from] >= 1
      BY DEF EventsInv, WireInv
    <3> QED
      BY <1>1, <1>3, <3>1 DEF EventKept, odoo
  <2> QED
    BY <1>3, <2>1 DEF EventsInv, odoo
<1>4. ASSUME NEW r \in Requests, NEW n \in 1 .. MaxPosts, Ingest(r, n)
      PROVE  EventsInv'
  <2>1. PICK p, e : Stored(r, p, e)
    BY <1>4, IngestMakes
  <2>2. PICK tab2 : tab2 = p.table
    OBVIOUS
  <2>3. /\ attendance' = tab2 /\ event' = Append(event, e) /\ e \in EventRow
        /\ e.from = r /\ e.user = UserOf(r) /\ e.act = msg[r].act /\ msg[r] \in Posted
    BY <2>1, <2>2 DEF Stored
  <2>4. /\ TableOK(tab2, now) /\ Edited(attendance, tab2, p.rec, msg[r].act, AutoOf(UserOf(r), p))
        /\ p.status = "success" => /\ p.rec \in DOMAIN tab2 /\ tab2[p.rec].user = UserOf(r)
                                   /\ msg[r].act = "check_out" => tab2[p.rec].out # Open
    BY <2>1, <2>2, Zenon DEF Stored, Processed
  <2>5. e.status = p.status /\ e.rec = p.rec
    BY <2>1, Zenon DEF Stored
  <2>6. tab2 \in Seq(Row)
    BY <2>4 DEF TableOK
  <2>7. /\ msg'[r] = msg[r] /\ req'[r] = req[r]
        /\ req[r].kind = "local_complete" => UserOf(r) = req[r].user
    <3>1. UNCHANGED <<req, msg>>
      BY <1>4, IngestWorks
    <3>2. req[r].kind = "local_complete" => ~msg[r].retry
      BY <2>3, NoMessageIsNone DEF ThreadsInv, Placed, PlacedAs, LocalMessage
    <3> QED
      BY <3>1, <3>2 DEF UserOf
  <2>8. EventKept(e, attendance)'
    BY <2>3, <2>4, <2>5, <2>7 DEF EventKept
  <2>9. ASSUME NEW k \in DOMAIN event
        PROVE  EventKept(event[k], attendance)'
    <3>1. PICK f \in EventRow : f = event[k]
      BY <1>2
    <3>2. EventKept(f, attendance) /\ f.from \in Requests /\ tries[f.from] >= 1
      BY <3>1 DEF EventsInv, WireInv
    <3>3. event'[k] = f
      BY <1>2, <2>3, <3>1, EventAppended
    <3>4. f.status = "success" => /\ f.rec \in DOMAIN tab2 /\ tab2[f.rec].user = f.user
                                  /\ f.act = "check_out" => tab2[f.rec].out # Open
      BY <1>2, <2>4, <2>6, <3>2, EventStays DEF EventKept
    <3>5. EventKept(f, tab2)'
      BY <1>1, <3>2, <3>4 DEF EventKept
    <3> QED
      BY <2>3, <3>3, <3>5
  <2>10. \A k \in DOMAIN event' : k \in DOMAIN event \/ event'[k] = e
    BY <1>2, <2>3, EventAppended
  <2> QED
    BY <2>8, <2>9, <2>10 DEF EventsInv
<1> QED
  BY <1>3, <1>4, IngestOnly

LEMMA LocalsStart ==
  ASSUME Init
  PROVE  LocalsInv /\ EventsInv
<1>1. /\ wire = {} /\ event = <<>> /\ DOMAIN event = {}
      /\ \A r \in Requests : pc[r] = "free" /\ answer[r] = 0 /\ msg[r] = NoMessage
  BY DEF Init
<1>2. Sent = {} /\ \A r \in Requests : EventsOf(event, r) = {}
  BY <1>1 DEF Sent, EventsOf
<1>3. ASSUME NEW r \in Requests
      PROVE  LocalAs(r, pc[r], Sent, event, answer[r], msg[r])
  <2>1. pc[r] = "free" /\ answer[r] = 0 /\ msg[r] = NoMessage /\ NoMessage.result = "none"
    BY <1>1 DEF NoMessage
  <2> QED
    BY <1>2, <2>1 DEF LocalAs
<1> QED
  BY <1>1, <1>3 DEF LocalsInv, EventsInv

(* The events of a local request that made or closed an attendance.        *)
LEMMA MadeIsOne ==
  ASSUME ThreadsInv, WireInv, BooksInv, LocalsInv, EventsInv,
         NEW r \in Requests, req[r].kind = "local_complete"
  PROVE  /\ Made(r) = {} \/ \E k \in DOMAIN event : Made(r) = {k}
         /\ answer[r] = 200 => \E i \in Made(r) :
              LET a == attendance[event[i].rec]
              IN  a.user = req[r].user /\ (req[r].act = "check_out" => a.out # Open)
         /\ answer[r] = 409 => \E i \in DOMAIN event :
              event[i].from = r /\ event[i].result = "failed"
         /\ answer[r] \in {400, 401, 403, 409, 500} => Made(r) = {}
<1>1. LocalAs(r, pc[r], Sent, event, answer[r], msg[r])
      /\ (msg[r] # NoMessage => ~msg[r].retry /\ LocalMessage(msg[r], req[r]))
      /\ req[r].act # "none"
  BY LocalThread
<1>2. Made(r) = {k \in EventsOf(event, r) : event[k].status = "success"}
      /\ EventsOf(event, r) \subseteq DOMAIN event
  BY DEF Made, EventsOf
<1>3. Made(r) = {} \/ \E k \in DOMAIN event : Made(r) = {k}
  BY <1>1, <1>2 DEF LocalAs
<1>4. ASSUME NEW k \in EventsOf(event, r)
      PROVE  /\ msg[r] \in Posted /\ msg[r] # NoMessage /\ event[k].from = r
             /\ EventKept(event[k], attendance)
  <2>1. k \in DOMAIN event /\ event[k].from = r
    BY DEF EventsOf
  <2>2. tries[r] >= 1 /\ EventKept(event[k], attendance)
    BY <2>1 DEF WireInv, EventsInv
  <2> QED
    BY <2>1, <2>2, PostedOnce, NoMessageIsNone
<1>5. ASSUME answer[r] = 200
      PROVE  \E i \in Made(r) :
               LET a == attendance[event[i].rec]
               IN  a.user = req[r].user /\ (req[r].act = "check_out" => a.out # Open)
  <2>1. PICK k \in EventsOf(event, r) : event[k].status = "success"
    BY <1>1, <1>5 DEF LocalAs
  <2>2. msg[r].act # "none"
    BY <1>1, <1>4, <2>1 DEF LocalAs
  <2>3. msg[r].act = req[r].act
    BY <1>1, <1>4, <2>1, <2>2 DEF LocalMessage, Posted
  <2>4. /\ attendance[event[k].rec].user = req[r].user
        /\ req[r].act = "check_out" => attendance[event[k].rec].out # Open
    BY <1>4, <2>1, <2>3 DEF EventKept
  <2>5. k \in Made(r)
    BY <1>2, <2>1
  <2> QED
    BY <2>4, <2>5
<1>6. ASSUME answer[r] = 409
      PROVE  \E i \in DOMAIN event : event[i].from = r /\ event[i].result = "failed"
  BY <1>1, <1>2, <1>4, <1>6 DEF LocalAs
<1>7. ASSUME answer[r] \in {400, 401, 403, 409, 500}
      PROVE  Made(r) = {}
  <2>1. CASE answer[r] \in {400, 401, 403}
    BY <1>1, <1>2, <1>4, <2>1 DEF LocalAs
  <2>2. CASE answer[r] = 409
    BY <1>1, <1>2, <2>2 DEF LocalAs
  <2>3. CASE answer[r] = 500
    BY <1>1, <1>2, <2>3 DEF LocalAs
  <2> QED
    BY <1>7, <2>1, <2>2, <2>3
<1> QED
  BY <1>3, <1>5, <1>6, <1>7

(* local_complete: what the client is told is what happened to the         *)
(* attendance, for every interleaving of requests, lost posts and answers, *)
(* failures and restarts.                                                  *)
THEOREM AnswersTell == Spec => []AnswerTellsAttendance
<1> DEFINE Inv == ThreadsInv /\ WireInv /\ BooksInv /\ EventsInv /\ (SyncEnabled => LocalsInv)
<1>1. Init => Inv
  BY ThreadsStart, BooksStart, LocalsStart
<1>2. Inv /\ [Next]_vars => Inv'
  <2> SUFFICES ASSUME Inv, [Next]_vars
               PROVE  Inv'
    OBVIOUS
  <2>1. ThreadsInv' /\ WireInv' /\ BooksInv' /\ EventsInv'
    BY ThreadsKept, WireKept, BooksKept, EventsKept
  <2>2. ASSUME SyncEnabled
        PROVE  LocalsInv'
    BY <2>2, LocalsKept
  <2> QED
    BY <2>1, <2>2
<1>3. Inv => AnswerTellsAttendance
  <2> SUFFICES ASSUME Inv, SyncEnabled, NEW r \in Requests, req[r].kind = "local_complete"
               PROVE  /\ Cardinality(Made(r)) <= 1
                      /\ answer[r] = 200 => \E i \in Made(r) :
                           LET a == attendance[event[i].rec]
                           IN  a.user = req[r].user /\ (req[r].act = "check_out" => a.out # Open)
                      /\ answer[r] = 409 => \E i \in DOMAIN event :
                           event[i].from = r /\ event[i].result = "failed"
                      /\ answer[r] \in {400, 401, 403, 409, 500} => Made(r) = {}
    BY DEF AnswerTellsAttendance
  <2>1. Cardinality(Made(r)) <= 1
    <3>1. Made(r) = {} \/ \E k \in DOMAIN event : Made(r) = {k}
      BY MadeIsOne
    <3>2. \A S : (S = {} => Cardinality(S) = 0) /\ \A k : S = {k} => Cardinality(S) = 1
      BY FS_EmptySet, FS_Singleton
    <3> QED
      BY <3>1, <3>2
  <2> QED
    BY <2>1, MadeIsOne
<1> QED
  BY <1>1, <1>2, <1>3, PTL DEF Spec

(***************************************************************************)
(* What the retrying service was given is kept                             *)
(***************************************************************************)
(* A thread at p with message m posted n times; its event is stored by     *)
(* Odoo, by the fallback, or lost for the reason l.                        *)
HeldAs(p, m, stored, kept, l, n) ==
  (p = "done" /\ m # NoMessage /\ m.retry) =>
    stored \/ kept \/ l \in {"refused", "restart"} \/ (l = "logged" /\ n = MaxPosts)

Stores(r) == \E i \in DOMAIN event : event[i].from = r

HeldInv ==
  \A r \in Requests : HeldAs(pc[r], msg[r], Stores(r), r \in fallback, lost[r], tries[r])

LEMMA StoresOn ==
  ASSUME ThreadsInv, WireInv, BooksInv, [Next]_vars, NEW r \in Requests, Stores(r)
  PROVE  Stores(r)'
<1>1. CASE UNCHANGED event
  BY <1>1 DEF Stores
<1>2. ASSUME NEW s \in Requests, NEW n \in 1 .. MaxPosts, Ingest(s, n)
      PROVE  Stores(r)'
  <2>1. PICK p, e : Stored(s, p, e)
    BY <1>2, IngestMakes
  <2>2. event' = Append(event, e) /\ e \in EventRow /\ event \in Seq(EventRow)
    BY <2>1 DEF Stored, BooksInv, EventsOK
  <2>3. PICK i \in DOMAIN event : event[i].from = r
    BY DEF Stores
  <2>4. i \in DOMAIN event' /\ event'[i] = event[i]
    BY <2>2, EventAppended
  <2> QED
    BY <2>3, <2>4 DEF Stores
<1> QED
  BY <1>1, <1>2, IngestOnly DEF odoo

(* A thread that a step leaves alone.                                      *)
LEMMA HeldOn ==
  ASSUME ThreadsInv, WireInv, BooksInv, HeldInv, [Next]_vars, NEW r \in Requests,
         pc'[r] = pc[r] \/ pc'[r] # "done", msg'[r] = msg[r],
         pc[r] = "done" => lost'[r] = lost[r] /\ tries'[r] = tries[r],
         r \in fallback => r \in fallback'
  PROVE  HeldAs(pc[r], msg[r], Stores(r), r \in fallback, lost[r], tries[r])'
<1>1. HeldAs(pc[r], msg[r], Stores(r), r \in fallback, lost[r], tries[r])
  BY DEF HeldInv
<1>2. Stores(r) => Stores(r)'
  BY StoresOn
<1> QED
  BY <1>1, <1>2 DEF HeldAs

LEMMA HeldKept ==
  ASSUME ThreadsInv, WireInv, BooksInv, HeldInv, [Next]_vars
  PROVE  HeldInv'
<1>1. CASE UNCHANGED vars \/ Tick \/ \E f \in Flows : EndSession(f)
  <2>1. UNCHANGED <<pc, msg, tries, event, fallback, lost>>
    BY <1>1 DEF vars, thread, odoo, Tick, EndSession
  <2> QED
    BY <2>1 DEF HeldInv, Stores
<1>2. CASE Restart
  <2>1. /\ UNCHANGED <<msg, tries, event, fallback>>
        /\ \A r \in Requests : /\ pc'[r] = IF pc[r] = "free" THEN "free" ELSE "done"
                               /\ lost'[r] = IF pc[r] \in Posting THEN "restart" ELSE lost[r]
    BY <1>2, RestartWorks DEF odoo
  <2>2. ASSUME NEW r \in Requests
        PROVE  HeldAs(pc[r], msg[r], Stores(r), r \in fallback, lost[r], tries[r])'
    <3>1. CASE pc[r] \in Posting
      BY <2>1, <3>1 DEF HeldAs
    <3>2. CASE pc[r] \in Before
      BY <2>1, <3>2 DEF HeldAs, ThreadsInv, Placed, PlacedAs
    <3>3. CASE pc[r] = "done"
      BY <2>1, <3>3, HeldOn DEF Posting
    <3> QED
      BY <3>1, <3>2, <3>3 DEF ThreadsInv, Types, Steps
  <2> QED
    BY <2>2 DEF HeldInv
<1>3. ASSUME NEW r \in Requests, Early(r)
      PROVE  HeldInv'
  <2>1. Worked(r) /\ Kept(r)
    BY <1>3, EarlyWorks DEF Effect, Worked
  <2>2. /\ UNCHANGED <<tries, fallback, lost>> /\ pc[r] \in Before
        /\ \A s \in Requests \ {r} : pc'[s] = pc[s] /\ msg'[s] = msg[s]
        /\ pc'[r] = "done" => msg'[r] = msg[r]
    BY <2>1 DEF Worked, Kept, Before
  <2>3. msg[r] = NoMessage
    BY <2>2 DEF ThreadsInv, Placed, PlacedAs
  <2>4. HeldAs(pc[r], msg[r], Stores(r), r \in fallback, lost[r], tries[r])'
    BY <2>2, <2>3 DEF HeldAs
  <2>5. ASSUME NEW s \in Requests \ {r}
        PROVE  HeldAs(pc[s], msg[s], Stores(s), s \in fallback, lost[s], tries[s])'
    BY <2>2, HeldOn
  <2> QED
    BY <2>4, <2>5 DEF HeldInv
<1>4. ASSUME NEW r \in Requests, Post(r)
      PROVE  HeldInv'
  <2>1. /\ pc[r] = "post" /\ pc'[r] = "wait" /\ UNCHANGED <<msg, fallback, lost>>
        /\ \A s \in Requests \ {r} : pc'[s] = pc[s] /\ tries'[s] = tries[s]
    BY <1>4, PostWorks
  <2>2. ASSUME NEW s \in Requests
        PROVE  HeldAs(pc[s], msg[s], Stores(s), s \in fallback, lost[s], tries[s])'
    <3>1. CASE s = r
      BY <2>1, <3>1, HeldOn
    <3>2. CASE s # r
      BY <2>1, <3>2, HeldOn
    <3> QED
      BY <3>1, <3>2
  <2> QED
    BY <2>2 DEF HeldInv
<1>5. ASSUME NEW r \in Requests, PostFails(r)
      PROVE  HeldInv'
  <2>1. /\ msg[r].retry => pc'[r] # "done"
        /\ UNCHANGED <<msg, tries, fallback, lost>>
        /\ \A s \in Requests \ {r} : pc'[s] = pc[s]
    BY <1>5, PostFailsWorks
  <2>2. HeldAs(pc[r], msg[r], Stores(r), r \in fallback, lost[r], tries[r])'
    BY <2>1 DEF HeldAs
  <2>3. ASSUME NEW s \in Requests \ {r}
        PROVE  HeldAs(pc[s], msg[s], Stores(s), s \in fallback, lost[s], tries[s])'
    BY <2>1, HeldOn
  <2> QED
    BY <2>2, <2>3 DEF HeldInv
<1>6. ASSUME NEW r \in Requests, Fallback(r)
      PROVE  HeldInv'
  <2>1. /\ tries[r] = MaxPosts /\ UNCHANGED <<msg, tries>>
        /\ \A s \in Requests \ {r} : pc'[s] = pc[s] /\ lost'[s] = lost[s]
        /\ \/ fallback' = fallback \cup {r}
           \/ fallback' = fallback /\ lost'[r] = "logged"
    BY <1>6, FallbackWorks
  <2>2. HeldAs(pc[r], msg[r], Stores(r), r \in fallback, lost[r], tries[r])'
    BY <2>1 DEF HeldAs
  <2>3. ASSUME NEW s \in Requests \ {r}
        PROVE  HeldAs(pc[s], msg[s], Stores(s), s \in fallback, lost[s], tries[s])'
    BY <2>1, HeldOn
  <2> QED
    BY <2>2, <2>3 DEF HeldInv
<1>7. ASSUME NEW r \in Requests, NEW n \in 1 .. MaxPosts, Ingest(r, n)
      PROVE  HeldInv'
  <2>1. PICK p, e : Stored(r, p, e)
    BY <1>7, IngestMakes
  <2>2. event' = Append(event, e) /\ e \in EventRow /\ e.from = r /\ event \in Seq(EventRow)
    BY <2>1 DEF Stored, BooksInv, EventsOK
  <2>3. Stores(r)'
    <3>1. PICK m \in Nat : m = Len(event)
      BY <2>2
    <3>2. m + 1 \in DOMAIN event' /\ event'[m + 1] = e
      BY <2>2, <3>1, EventAppended
    <3> QED
      BY <2>2, <3>2 DEF Stores
  <2>4. HeldAs(pc[r], msg[r], Stores(r), r \in fallback, lost[r], tries[r])'
    BY <2>3 DEF HeldAs
  <2>5. UNCHANGED <<msg, tries, fallback, lost>>
        /\ \A s \in Requests \ {r} : pc'[s] = pc[s]
    <3>1. PICK code \in {200, 409, 500} : Reply(r, n, code)
      BY <1>7, IngestWorks
    <3> QED
      BY <1>7, <3>1, IngestWorks, ReplyWorks
  <2>6. ASSUME NEW s \in Requests \ {r}
        PROVE  HeldAs(pc[s], msg[s], Stores(s), s \in fallback, lost[s], tries[s])'
    BY <2>5, HeldOn
  <2> QED
    BY <2>4, <2>6 DEF HeldInv
<1>8. ASSUME NEW r \in Requests, NEW n \in 1 .. MaxPosts, IngestFails(r, n)
      PROVE  HeldInv'
  <2>1. /\ UNCHANGED <<msg, tries, fallback>> /\ Reply(r, n, 500)
        /\ \A s \in Requests \ {r} : lost'[s] = lost[s]
        /\ Heard(r, n) => lost'[r] = "refused"
        /\ ~Heard(r, n) => lost'[r] = lost[r]
    BY <1>8, IngestFailsWorks
  <2>2. /\ \A s \in Requests \ {r} : pc'[s] = pc[s]
        /\ ~Heard(r, n) => pc'[r] = pc[r]
    BY <2>1, ReplyWorks
  <2>3. HeldAs(pc[r], msg[r], Stores(r), r \in fallback, lost[r], tries[r])'
    <3>1. CASE Heard(r, n)
      BY <2>1, <3>1 DEF HeldAs
    <3>2. CASE ~Heard(r, n)
      BY <2>1, <2>2, <3>2, HeldOn
    <3> QED
      BY <3>1, <3>2
  <2>4. ASSUME NEW s \in Requests \ {r}
        PROVE  HeldAs(pc[s], msg[s], Stores(s), s \in fallback, lost[s], tries[s])'
    BY <2>1, <2>2, HeldOn
  <2> QED
    BY <2>3, <2>4 DEF HeldInv
<1> QED
  BY <1>1, <1>2, <1>3, <1>4, <1>5, <1>6, <1>7, <1>8, NextCases DEF ThreadsInv

(* event_service.emit: failed posts alone lose no event, for every number  *)
(* of requests and posts.                                                  *)
THEOREM EventsAreKept == Spec => []EventIsKept
<1> DEFINE Inv == ThreadsInv /\ WireInv /\ BooksInv /\ HeldInv
<1>1. Init => Inv
  <2>1. Init => HeldInv
    BY DEF Init, HeldInv, HeldAs
  <2> QED
    BY <2>1, ThreadsStart, BooksStart
<1>2. Inv /\ [Next]_vars => Inv'
  BY ThreadsKept, WireKept, BooksKept, HeldKept
<1>3. Inv => EventIsKept
  BY DEF HeldInv, HeldAs, Stores, EventIsKept
<1> QED
  BY <1>1, <1>2, <1>3, PTL DEF Spec

(***************************************************************************)
(* Attempts and types                                                      *)
(***************************************************************************)
(* Those that are past asking for the result of the camera session: each   *)
(* asks once, so that no flow counts more attempts than these are.         *)
Asked == {r \in Requests : pc[r] \notin {"free", "read", "liveness"}}

AttemptsInv ==
  /\ \A r \in Requests : got[r].attempts <= Cardinality(Asked)
  /\ \A f \in Flows : flows[f].attempts <= Cardinality(Asked)

LEMMA AskedIsFinite ==
  /\ IsFiniteSet(Asked) /\ Cardinality(Asked) \in Nat
  /\ Cardinality(Asked) <= Cardinality(Requests) /\ Cardinality(Requests) \in Nat
<1>1. Asked \subseteq Requests /\ IsFiniteSet(Requests)
  BY AuthAssumption DEF Asked
<1> QED
  BY <1>1, FS_Subset, FS_CardinalityType

(* All but the early steps leave the flows and what is known of them; they *)
(* leave a thread where it is, or posting, or done.                        *)
LEMMA QuietSteps ==
  ASSUME ThreadsInv, [Next]_vars
  PROVE  \/ \E r \in Requests : Early(r)
         \/ /\ UNCHANGED <<flows, got, req, msg>>
            /\ \A f \in Flows : live[f] # "running" => live'[f] = live[f]
            /\ \A s \in Requests : pc'[s] = pc[s] \/ pc'[s] \in Posting \cup {"done"}
<1> DEFINE Quiet == /\ UNCHANGED <<flows, got, req, msg>>
                    /\ \A f \in Flows : live[f] # "running" => live'[f] = live[f]
                    /\ \A s \in Requests : pc'[s] = pc[s] \/ pc'[s] \in Posting \cup {"done"}
<1>1. CASE UNCHANGED vars \/ Tick
  BY <1>1 DEF vars, thread, Tick
<1>2. ASSUME NEW f \in Flows, EndSession(f)
      PROVE  Quiet
  BY <1>2 DEF EndSession, thread, ThreadsInv, Types
<1>3. CASE Restart
  BY <1>3, RestartWorks
<1>4. ASSUME NEW r \in Requests, Post(r) \/ PostFails(r) \/ Fallback(r)
      PROVE  Quiet
  <2>1. UNCHANGED <<flows, got, req, msg, live>>
    BY <1>4 DEF Post, PostFails, Fallback
  <2>2. /\ pc'[r] \in {"post", "wait", "fallback", "done"}
        /\ \A s \in Requests \ {r} : pc'[s] = pc[s]
    BY <1>4, PostWorks, PostFailsWorks, FallbackWorks
  <2> QED
    BY <2>1, <2>2 DEF Posting
<1>5. ASSUME NEW r \in Requests, NEW n \in 1 .. MaxPosts, Ingest(r, n) \/ IngestFails(r, n)
      PROVE  Quiet
  <2>1. PICK code \in {200, 409, 500} : Reply(r, n, code)
    BY <1>5, IngestWorks, IngestFailsWorks
  <2>2. /\ \A s \in Requests \ {r} : pc'[s] = pc[s]
        /\ pc'[r] = pc[r] \/ pc'[r] = "done"
    BY <2>1, ReplyWorks
  <2>3. UNCHANGED <<flows, got, req, msg, live>>
    BY <1>5, IngestWorks, IngestFailsWorks
  <2> QED
    BY <2>2, <2>3
<1> QED
  BY <1>1, <1>2, <1>3, <1>4, <1>5, NextCases DEF ThreadsInv

LEMMA AskedGrows ==
  ASSUME ThreadsInv, [Next]_vars
  PROVE  Asked \subseteq Asked'
<1>1. CASE \A s \in Requests : pc'[s] = pc[s] \/ pc'[s] \in Posting \cup {"done"}
  BY <1>1 DEF Asked, Posting
<1>2. ASSUME NEW r \in Requests, Early(r)
      PROVE  Asked \subseteq Asked'
  <2>1. Worked(r) /\ Learns(r, req[r].flow) /\ Grounds(r)
    BY <1>2, EarlyWorks DEF Effect
  <2>2. \A s \in Requests \ {r} : pc'[s] = pc[s]
    BY <2>1 DEF Worked
  <2>3. r \in Asked => pc'[r] \notin {"free", "read"}
    BY <2>1 DEF Grounds, Asked
  <2>4. r \in Asked => pc'[r] # "liveness"
    BY <2>1 DEF Learns, Asked
  <2> QED
    BY <2>2, <2>3, <2>4 DEF Asked
<1> QED
  BY <1>1, <1>2, QuietSteps

LEMMA AttemptsKept ==
  ASSUME ThreadsInv, AttemptsInv, [Next]_vars
  PROVE  AttemptsInv'
<1>1. PICK c \in Nat, d \in Nat :
        c = Cardinality(Asked) /\ d = Cardinality(Asked') /\ IsFiniteSet(Asked')
  <2>1. Asked' \subseteq Requests /\ IsFiniteSet(Requests)
    BY AuthAssumption DEF Asked
  <2>2. IsFiniteSet(Asked')
    BY <2>1, FS_Subset
  <2> QED
    BY <2>2, AskedIsFinite, FS_CardinalityType
<1>2. c <= d
  BY <1>1, AskedGrows, FS_Subset
<1>3. /\ \A r \in Requests : got[r].attempts \in Nat /\ got[r].attempts <= c
      /\ \A f \in Flows : flows[f].attempts \in Nat /\ flows[f].attempts <= c
  BY <1>1, FlowParts DEF ThreadsInv, Types, AttemptsInv
<1>4. CASE UNCHANGED <<flows, got>>
  BY <1>1, <1>2, <1>3, <1>4 DEF AttemptsInv
<1>5. ASSUME NEW r \in Requests, Early(r)
      PROVE  AttemptsInv'
  <2>1. PICK f \in Flows : f = req[r].flow
    BY RequestParts
  <2>2. Worked(r) /\ Kept(r) /\ FlowSteps(r, f) /\ Learns(r, f)
    BY <1>5, <2>1, EarlyWorks DEF Effect, Worked
  <2>3. \A s \in Requests \ {r} : got'[s] = got[s]
    BY <2>2 DEF Kept
  <2>4. got'[r].attempts <= d
    <3>1. CASE got'[r] = got[r] \/ got'[r] = flows[f]
      BY <1>2, <1>3, <3>1
    <3>2. CASE pc[r] = "liveness" /\ pc'[r] = "record" /\ got'[r].attempts = got[r].attempts + 1
      <4>1. r \notin Asked /\ r \in Asked'
        BY <3>2 DEF Asked
      <4>2. c < d
        BY <1>1, <4>1, AskedGrows, FS_Subset
      <4> QED
        BY <1>3, <3>2, <4>2
    <3> QED
      BY <2>2, <3>1, <3>2 DEF Learns
  <2>5. \A g \in Flows : flows'[g].attempts <= d
    <3>1. \A g \in Flows \ {f} : flows'[g] = flows[g]
      BY <2>2 DEF FlowSteps
    <3>2. flows'[f].attempts \in {flows[f].attempts, 0, got[r].attempts}
      BY <2>2 DEF FlowSteps
    <3> QED
      BY <1>2, <1>3, <3>1, <3>2
  <2> QED
    BY <1>1, <1>2, <1>3, <2>3, <2>4, <2>5 DEF AttemptsInv
<1> QED
  BY <1>4, <1>5, QuietSteps

LEMMA TypesAreOK ==
  ASSUME ThreadsInv, BooksInv, AttemptsInv
  PROVE  AuthTypeOK
<1>1. ASSUME NEW r \in Requests
      PROVE  /\ pc[r] \in {"free", "context", "cognito", "session", "read", "liveness", "record",
                           "complete", "evidence", "post", "wait", "fallback", "done"}
             /\ pc[r] \in {"post", "wait", "fallback"} => msg[r] # NoMessage
             /\ tries[r] \in 0 .. (IF msg[r] # NoMessage /\ msg[r].retry THEN MaxPosts ELSE 1)
             /\ answer[r] \in {0, 200, 400, 401, 403, 404, 409, 500, 502}
  <2>1. /\ pc[r] \in Steps /\ answer[r] \in Codes /\ tries[r] \in Nat
        /\ tries[r] <= Limit(msg[r])
    BY DEF ThreadsInv, Types, Placed, PlacedAs
  <2>2. tries[r] \in 0 .. (IF msg[r] # NoMessage /\ msg[r].retry THEN MaxPosts ELSE 1)
    <3>1. PICK k \in Nat : k = Limit(msg[r]) /\ tries[r] <= k
      <4>1. msg[r] = NoMessage \/ msg[r] \in Posted
        BY DEF ThreadsInv, Types
      <4>2. Limit(msg[r]) \in Nat
        BY <4>1, MessageLimit
      <4> QED
        BY <2>1, <4>2
    <3>2. CASE msg[r] = NoMessage
      BY <2>1, <3>1, <3>2, MessageLimit
    <3>3. CASE msg[r] # NoMessage /\ msg[r].retry
      BY <2>1, <3>1, <3>3, AuthAssumption DEF Limit
    <3>4. CASE msg[r] # NoMessage /\ ~msg[r].retry
      BY <2>1, <3>1, <3>4 DEF Limit
    <3> QED
      BY <3>2, <3>3, <3>4
  <2> QED
    BY <2>1, <2>2 DEF Steps, Before, Posting, Codes, ThreadsInv, Placed, PlacedAs
<1>2. ASSUME NEW f \in Flows
      PROVE  flows[f].attempts \in 0 .. Cardinality(Requests)
  <2>1. flows[f].attempts \in Nat /\ flows[f].attempts <= Cardinality(Asked)
    BY FlowParts DEF ThreadsInv, Types, AttemptsInv
  <2> QED
    BY <2>1, AskedIsFinite
<1>3. ASSUME NEW i \in DOMAIN attendance
      PROVE  attendance[i].in \in 0 .. MaxTime /\ attendance[i].out \in Open .. MaxTime + 1
  <2>1. /\ attendance[i].in \in Nat /\ attendance[i].out \in Nat \cup {Open}
        /\ RowOK(attendance[i], now)
    BY RowParts DEF BooksInv, TableOK
  <2>2. now \in 0 .. MaxTime /\ MaxTime \in Nat
    BY AuthAssumption DEF ThreadsInv, Types
  <2> QED
    BY <2>1, <2>2 DEF RowOK, Open
<1>4. /\ now \in 0 .. MaxTime /\ faults \in 0 .. MaxFaults
      /\ wire \subseteq Requests \X (1 .. MaxPosts)
  BY DEF ThreadsInv, Types
<1> QED
  BY <1>1, <1>2, <1>3, <1>4 DEF AuthTypeOK

(* Types, and no event is posted more often than its service tries.        *)
THEOREM GatewayTyped == Spec => []AuthTypeOK
<1> DEFINE Inv == ThreadsInv /\ WireInv /\ BooksInv /\ AttemptsInv
<1>1. Init => Inv
  <2>1. Init => AttemptsInv
    <3> SUFFICES ASSUME Init
                 PROVE  AttemptsInv
      OBVIOUS
    <3>1. NoFlow.attempts = 0
      BY DEF NoFlow
    <3>2. /\ \A r \in Requests : got[r].attempts = 0
          /\ \A f \in Flows : flows[f].attempts = 0
      BY <3>1 DEF Init
    <3> QED
      BY <3>2, AskedIsFinite DEF AttemptsInv
  <2> QED
    BY <2>1, ThreadsStart, BooksStart
<1>2. Inv /\ [Next]_vars => Inv'
  BY ThreadsKept, WireKept, BooksKept, AttemptsKept
<1>3. Inv => AuthTypeOK
  BY TypesAreOK
<1> QED
  BY <1>1, <1>2, <1>3, PTL DEF Spec

(***************************************************************************)
(* Whoever is reported as logged in or out was proved to be there          *)
(***************************************************************************)
(* Someone started a flow f of that kind as that user.                     *)
StartedAs(f, kind, user) ==
  \E s \in Requests :
    /\ req[s].flow = f /\ req[s].user = user
    /\ kind = "login" => req[s].kind = "login_start" /\ req[s].proof = "password"
    /\ kind = "logout" => req[s].kind = "logout_start"

(* A row of flow f, as it is stored or as a thread has read it, while the  *)
(* camera session is in state l.                                           *)
RowGrounds(f, row, l) ==
  /\ row.kind # "none" => StartedAs(f, row.kind, row.user)
  /\ row.passed = TRUE => l = "passed"

(* What a thread at p knows by then.                                       *)
StepGrounds(p, q, row) ==
  /\ p \in {"liveness", "record", "complete"} => row.kind = Wanted(q.kind)
  /\ (p = "session" /\ q.kind = "login_start") => q.proof = "password"
  /\ p = "evidence" => q.proof \in {"password", "signed"}

ProofsInv ==
  /\ \A f \in Flows : RowGrounds(f, flows[f], live[f])
  /\ \A r \in Requests : RowGrounds(req[r].flow, got[r], live[req[r].flow])
  /\ \A r \in Requests : StepGrounds(pc[r], req[r], got[r])
  /\ \A r \in Requests : msg[r].result = "success" => Proved(r)
  /\ \A i \in DOMAIN event : event[i].result = "success" => msg[event[i].from].result = "success"

LEMMA PassedStays ==
  ASSUME ThreadsInv, [Next]_vars, NEW f \in Flows, live[f] = "passed"
  PROVE  live'[f] = "passed"
<1>1. ASSUME NEW r \in Requests, Early(r)
      PROVE  live'[f] = "passed"
  <2>1. FlowSteps(r, req[r].flow)
    BY <1>1, EarlyWorks DEF Effect
  <2> QED
    BY <2>1 DEF FlowSteps
<1> QED
  BY <1>1, QuietSteps

(* A proof stays one: the flow its thread has read does not change once    *)
(* there is a message.                                                     *)
LEMMA ProvedStays ==
  ASSUME ThreadsInv, [Next]_vars, NEW r \in Requests, Proved(r),
         UNCHANGED req, msg'[r] = msg[r], got'[r] = got[r]
  PROVE  Proved(r)'
<1>1. UserOf(r)' = UserOf(r)
  BY DEF UserOf
<1>2. PICK u : u = UserOf(r)
  OBVIOUS
<1>3. req[r].flow \in Flows
  BY RequestParts
<1>4. live[req[r].flow] = "passed" => live'[req[r].flow] = "passed"
  BY <1>3, PassedStays
<1> QED
  BY <1>1, <1>4 DEF Proved

LEMMA EventsProvedKept ==
  ASSUME ThreadsInv, WireInv, BooksInv, ProofsInv, [Next]_vars
  PROVE  \A i \in DOMAIN event' :
           event'[i].result = "success" => msg'[event'[i].from].result = "success"
<1>1. \A s \in Requests : tries[s] >= 1 => msg'[s] = msg[s]
  BY MessagesStay
<1>2. \A i \in DOMAIN event : /\ event[i].from \in Requests /\ tries[event[i].from] >= 1
                              /\ event[i].result = "success" => msg[event[i].from].result = "success"
  BY DEF WireInv, ProofsInv
<1>3. CASE UNCHANGED event
  BY <1>1, <1>2, <1>3
<1>4. ASSUME NEW r \in Requests, NEW n \in 1 .. MaxPosts, Ingest(r, n)
      PROVE  \A i \in DOMAIN event' :
               event'[i].result = "success" => msg'[event'[i].from].result = "success"
  <2>1. PICK p, e : Stored(r, p, e)
    BY <1>4, IngestMakes
  <2>2. /\ event' = Append(event, e) /\ e \in EventRow /\ event \in Seq(EventRow)
        /\ e.from = r
        /\ e.result = "success" => msg[r].result = "success"
    BY <2>1 DEF Stored, BooksInv, EventsOK
  <2>3. e.result = "success" => msg'[e.from].result = "success"
    <3>1. msg' = msg
      BY <1>4, IngestWorks
    <3> QED
      BY <2>2, <3>1
  <2>4. \A i \in DOMAIN event' : (i \in DOMAIN event /\ event'[i] = event[i]) \/ event'[i] = e
    BY <2>2, EventAppended
  <2> QED
    BY <1>1, <1>2, <2>3, <2>4
<1> QED
  BY <1>3, <1>4, IngestOnly DEF odoo

(* The rows of the flows, and those threads have read.                     *)
LEMMA RowsKeptEarly ==
  ASSUME ThreadsInv, ProofsInv, [Next]_vars, NEW r \in Requests, Early(r)
  PROVE  /\ \A f \in Flows : RowGrounds(f, flows'[f], live'[f])
         /\ \A s \in Requests : RowGrounds(req[s].flow, got'[s], live'[req[s].flow])
<1>1. PICK f \in Flows : f = req[r].flow
  BY RequestParts
<1>2. Kept(r) /\ FlowSteps(r, f) /\ Learns(r, f) /\ Fits(pc[r], req[r].kind)
  BY <1>1, EarlyWorks DEF Effect, Worked, ThreadsInv, Placed, PlacedAs
<1>3. RowGrounds(f, flows[f], live[f]) /\ RowGrounds(f, got[r], live[f])
      /\ StepGrounds(pc[r], req[r], got[r])
  BY <1>1 DEF ProofsInv
<1>4. live[f] = "passed" => live'[f] = "passed"
  BY PassedStays
<1>5. RowGrounds(f, flows'[f], live'[f])
  <2>1. CASE flows'[f] = flows[f]
    BY <1>3, <1>4, <2>1 DEF RowGrounds
  <2>2. CASE /\ pc[r] = "session" /\ flows'[f].passed = FALSE /\ flows'[f].user = req[r].user
             /\ flows'[f].kind = (IF req[r].kind = "login_start" THEN "login" ELSE "logout")
    <3>1. StartedAs(f, flows'[f].kind, req[r].user)
      BY <1>1, <1>2, <1>3, <2>2 DEF StartedAs, StepGrounds, Fits
    <3> QED
      BY <2>2, <3>1 DEF RowGrounds
  <2>3. CASE /\ flows'[f].kind = flows[f].kind /\ flows'[f].user = flows[f].user
             /\ flows'[f].passed = flows[f].passed \/ flows'[f].passed = got[r].passed
    BY <1>3, <1>4, <2>3 DEF RowGrounds
  <2> QED
    BY <1>2, <2>1, <2>2, <2>3 DEF FlowSteps
<1>6. RowGrounds(f, got'[r], live'[f])
  <2>1. CASE got'[r] = got[r] \/ got'[r] = flows[f]
    BY <1>3, <1>4, <2>1 DEF RowGrounds
  <2>2. CASE /\ got'[r].kind = got[r].kind /\ got'[r].user = got[r].user
             /\ got'[r].passed = (live[f] = "passed")
    BY <1>3, <1>4, <2>2 DEF RowGrounds
  <2> QED
    BY <1>2, <2>1, <2>2 DEF Learns
<1>7. ASSUME NEW g \in Flows \ {f}
      PROVE  RowGrounds(g, flows'[g], live'[g])
  BY <1>2 DEF FlowSteps, ProofsInv
<1>8. ASSUME NEW s \in Requests \ {r}
      PROVE  RowGrounds(req[s].flow, got'[s], live'[req[s].flow])
  <2>1. got'[s] = got[s] /\ RowGrounds(req[s].flow, got[s], live[req[s].flow])
    BY <1>2 DEF Kept, ProofsInv
  <2>2. live[req[s].flow] = "passed" => live'[req[s].flow] = "passed"
    BY RequestParts, PassedStays
  <2> QED
    BY <2>1, <2>2 DEF RowGrounds
<1> QED
  BY <1>1, <1>5, <1>6, <1>7, <1>8

LEMMA StepsKeptEarly ==
  ASSUME ThreadsInv, ProofsInv, NEW r \in Requests, Early(r)
  PROVE  \A s \in Requests : StepGrounds(pc'[s], req[s], got'[s])
<1>1. PICK f \in Flows : f = req[r].flow
  BY RequestParts
<1>2. Kept(r) /\ Learns(r, f) /\ Grounds(r)
      /\ \A s \in Requests \ {r} : pc'[s] = pc[s]
  BY <1>1, EarlyWorks DEF Effect, Worked
<1>3. \A s \in Requests \ {r} : got'[s] = got[s]
  BY <1>2 DEF Kept
<1>4. StepGrounds(pc[r], req[r], got[r])
  BY DEF ProofsInv
<1>5. StepGrounds(pc'[r], req[r], got'[r])
  <2>1. pc'[r] \in {"liveness", "record", "complete"} => got'[r].kind = Wanted(req[r].kind)
    BY <1>2, <1>4 DEF Learns, StepGrounds
  <2> QED
    BY <1>2, <2>1 DEF Grounds, StepGrounds
<1> QED
  BY <1>2, <1>3, <1>5 DEF ProofsInv

LEMMA MessageKeptEarly ==
  ASSUME ThreadsInv, ProofsInv, [Next]_vars, NEW r \in Requests, Early(r), msg'[r].result = "success"
  PROVE  Proved(r)'
<1>1. PICK f \in Flows : f = req[r].flow
  BY RequestParts
<1>2. Worked(r) /\ Kept(r) /\ Grounds(r) /\ Fits(pc[r], req[r].kind) /\ msg[r] = NoMessage
  BY EarlyWorks DEF Effect, Worked, Kept, ThreadsInv, Placed, PlacedAs
<1>3. pc'[r] = "post" /\ got'[r] = got[r] /\ UNCHANGED req
  <2>1. NoMessage.result # "success"
    BY DEF NoMessage
  <2> QED
    BY <1>2, <2>1 DEF Worked, Kept
<1>4. RowGrounds(f, got[r], live[f]) /\ StepGrounds(pc[r], req[r], got[r])
  BY <1>1 DEF ProofsInv
<1>5. CASE pc[r] = "evidence"
  <2>1. req[r].kind = "local_complete" /\ req[r].proof \in {"password", "signed"}
    BY <1>2, <1>4, <1>5 DEF Fits, StepGrounds
  <2> QED
    BY <1>3, <2>1 DEF Proved
<1>6. CASE /\ pc[r] = "complete" \/ (pc[r] = "record" /\ req[r].kind = "logout_complete")
           /\ got[r].passed = TRUE /\ msg'[r].retry = TRUE
  <2>1. /\ req[r].kind \in {"login_complete", "logout_complete"}
        /\ got[r].kind = Wanted(req[r].kind)
        /\ live'[f] = "passed"
    BY <1>2, <1>4, <1>6, PassedStays DEF Fits, StepGrounds, RowGrounds
  <2>2. StartedAs(f, got[r].kind, got[r].user)
    BY <1>4, <2>1 DEF RowGrounds, Wanted
  <2>3. UserOf(r)' = got[r].user
    BY <1>3, <1>6, <2>1 DEF UserOf
  <2>4. CASE req[r].kind = "login_complete"
    BY <1>1, <1>3, <2>1, <2>2, <2>3, <2>4 DEF Proved, Wanted, StartedAs
  <2>5. CASE req[r].kind = "logout_complete"
    BY <1>1, <1>3, <2>1, <2>2, <2>3, <2>5 DEF Proved, Wanted, StartedAs
  <2> QED
    BY <2>1, <2>4, <2>5
<1> QED
  BY <1>2, <1>3, <1>5, <1>6 DEF Grounds

LEMMA ProofsKept ==
  ASSUME ThreadsInv, WireInv, BooksInv, ProofsInv, [Next]_vars
  PROVE  ProofsInv'
<1>1. UNCHANGED req
  BY MessagesStay
<1>2. \A i \in DOMAIN event' :
        event'[i].result = "success" => msg'[event'[i].from].result = "success"
  BY EventsProvedKept
<1>3. ASSUME NEW r \in Requests, Early(r)
      PROVE  ProofsInv'
  <2>1. /\ \A f \in Flows : RowGrounds(f, flows'[f], live'[f])
        /\ \A s \in Requests : RowGrounds(req[s].flow, got'[s], live'[req[s].flow])
        /\ \A s \in Requests : StepGrounds(pc'[s], req[s], got'[s])
    BY <1>3, RowsKeptEarly, StepsKeptEarly
  <2>2. \A s \in Requests \ {r} : msg'[s] = msg[s] /\ got'[s] = got[s]
    BY <1>3, EarlyWorks DEF Effect, Worked, Kept
  <2>3. ASSUME NEW s \in Requests, msg'[s].result = "success"
        PROVE  Proved(s)'
    <3>1. CASE s = r
      BY <1>3, <2>3, <3>1, MessageKeptEarly
    <3>2. CASE s # r
      BY <1>1, <2>2, <2>3, <3>2, ProvedStays DEF ProofsInv
    <3> QED
      BY <3>1, <3>2
  <2> QED
    BY <1>1, <1>2, <2>1, <2>3 DEF ProofsInv, RowGrounds, StartedAs
<1>4. ASSUME UNCHANGED <<flows, got, req, msg>>,
             \A f \in Flows : live[f] # "running" => live'[f] = live[f],
             \A s \in Requests : pc'[s] = pc[s] \/ pc'[s] \in Posting \cup {"done"}
      PROVE  ProofsInv'
  <2>1. \A f \in Flows : live[f] = "passed" => live'[f] = "passed"
    BY <1>4
  <2>2. \A f \in Flows : RowGrounds(f, flows[f], live'[f])
    BY <2>1 DEF ProofsInv, RowGrounds
  <2>3. ASSUME NEW s \in Requests
        PROVE  /\ RowGrounds(req[s].flow, got[s], live'[req[s].flow])
               /\ StepGrounds(pc'[s], req[s], got[s])
               /\ msg[s].result = "success" => Proved(s)'
    <3>1. req[s].flow \in Flows
      BY RequestParts
    <3>2. RowGrounds(req[s].flow, got[s], live[req[s].flow]) /\ StepGrounds(pc[s], req[s], got[s])
      BY DEF ProofsInv
    <3>3. msg[s].result = "success" => Proved(s)'
      BY <1>4, ProvedStays DEF ProofsInv
    <3>4. StepGrounds(pc'[s], req[s], got[s])
      BY <1>4, <3>2 DEF StepGrounds, Posting
    <3>5. RowGrounds(req[s].flow, got[s], live'[req[s].flow])
      BY <2>1, <3>1, <3>2 DEF RowGrounds
    <3> QED
      BY <3>3, <3>4, <3>5
  <2>4. ASSUME NEW f \in Flows
        PROVE  RowGrounds(f, flows[f], live[f])'
    BY <1>4, <2>2 DEF RowGrounds, StartedAs
  <2>5. ASSUME NEW s \in Requests
        PROVE  RowGrounds(req[s].flow, got[s], live[req[s].flow])'
    BY <1>4, <2>3 DEF RowGrounds, StartedAs
  <2>6. ASSUME NEW s \in Requests
        PROVE  /\ StepGrounds(pc[s], req[s], got[s])'
               /\ (msg[s].result = "success" => Proved(s))'
    BY <1>4, <2>3
  <2> QED
    BY <1>2, <2>4, <2>5, <2>6 DEF ProofsInv
<1> QED
  BY <1>3, <1>4, QuietSteps

(* Nobody is reported as logged in or out, to Odoo or to the fallback,     *)
(* without the password or Odoo's signed link and, in a flow, the camera   *)
(* session of that flow, however many requests are about it.               *)
THEOREM SuccessesAreProved == Spec => []SuccessIsProved
<1> DEFINE Inv == ThreadsInv /\ WireInv /\ BooksInv /\ ProofsInv
<1>1. Init => Inv
  <2>1. Init => ProofsInv
    <3> SUFFICES ASSUME Init
                 PROVE  ProofsInv
      OBVIOUS
    <3>1. NoFlow.kind = "none" /\ NoFlow.passed = FALSE /\ NoMessage.result = "none"
      BY DEF NoFlow, NoMessage
    <3>2. /\ \A r \in Requests : got[r] = NoFlow /\ pc[r] = "free" /\ msg[r] = NoMessage
          /\ \A f \in Flows : flows[f] = NoFlow
          /\ DOMAIN event = {}
      BY DEF Init
    <3> QED
      BY <3>1, <3>2 DEF ProofsInv, RowGrounds, StepGrounds
  <2> QED
    BY <2>1, ThreadsStart, BooksStart
<1>2. Inv /\ [Next]_vars => Inv'
  BY ThreadsKept, WireKept, BooksKept, ProofsKept
<1>3. Inv => SuccessIsProved
  <2> SUFFICES ASSUME Inv
               PROVE  SuccessIsProved
    OBVIOUS
  <2>1. fallback \subseteq Requests /\ \A i \in DOMAIN event : event[i].from \in Requests
    BY DEF ThreadsInv, Types, WireInv
  <2> QED
    BY <2>1 DEF ProofsInv, SuccessIsProved
<1> QED
  BY <1>1, <1>2, <1>3, PTL DEF Spec
=============================================================================
