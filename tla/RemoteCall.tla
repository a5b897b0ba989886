----------------------------- MODULE RemoteCall -----------------------------
(***************************************************************************)
(* The pairs of this repository in which one process asks another one and  *)
(* waits a limited time for the answer:                                    *)
(*   "orders"    pz1: GET /orders/{id}/full asks the user service (3 s);   *)
(*   "tasks"     pz7: GET /v1/tasks asks the auth service (3 s);           *)
(*   "students"  pz2: the client makes six RPCs to the student server, all *)
(*               of them within 10 s;                                      *)
(*   "posts"     pz3: a script posts a student to the HTTP service twice,  *)
(*               and goes on whatever becomes of the first POST.           *)
(* The network may lose, delay and reorder; the HTTP client of Go sends a  *)
(* GET again when a connection it kept turns out to be closed.  A caller   *)
(* that has given up does not stop the peer.                               *)
(***************************************************************************)
EXTENDS Naturals, Sequences, FiniteSets

CONSTANTS
    Callers,        \* incoming requests, or runs of the client
    Emails,         \* addresses new students have
    NoEmail,        \* an email that is blank
    MaxRestarts     \* bound: restarts of the peer

ASSUME CallersAssumption == Callers # {} /\ IsFiniteSet(Callers)
ASSUME EmailsAssumption == NoEmail \notin Emails
ASSUME RestartsAssumption == MaxRestarts \in Nat

\* The data of pz1: the user of each order, and the users there are.
OrderUser == [id \in 101 .. 103 |-> IF id = 102 THEN 2 ELSE 1]
Users == 1 .. 3

\* An email as it is typed: an address, possibly with capitals and spaces.
Email == [address : Emails \union {NoEmail}, plain : BOOLEAN]

\* What a caller wants: an order, a list of tasks with a token, a new student.
Wants(system) ==
    CASE system = "orders" -> [order : {101, 102, 999}]
      [] system = "tasks" -> [token : {"missing", "invalid", "valid"}]
      [] OTHER -> [email : Email]

VARIABLES
    system,         \* which of the four pairs
    wants,          \* what each caller wants
    step,           \* the call each caller is at
    pc,             \* "idle" between calls, "waiting", "done"
    reply,          \* its outcome
    requests,       \* calls under way to the peer
    replies,        \* answers under way back
    seen,           \* what became of its calls so far
    \* the student server, of pz2 or pz3; the other peers have constant data
    data,           \* student.Repository: email by id
    nextID,
    restarts

callerVars == <<system, wants, step, pc, reply, seen>>
peerVars == <<data, nextID, restarts>>
vars == <<callerVars, requests, replies, peerVars>>

Status(s) == [status |-> s, id |-> 0, address |-> NoEmail]

\* NewRepository: three students.
Seeds == [id \in 1 .. 3 |-> [address |-> "seed", plain |-> TRUE]]

Init ==
    /\ system \in {"orders", "tasks", "students", "posts"}
    /\ wants \in [Callers -> Wants(system)]
    /\ step = [c \in Callers |-> 1]
    /\ pc = [c \in Callers |-> "idle"]
    /\ reply = [c \in Callers |-> "none"]
    /\ seen = [c \in Callers |-> << >>]
    /\ requests = {} /\ replies = {}
    /\ data = Seeds /\ nextID = 4 /\ restarts = 0

-----------------------------------------------------------------------------
(* The peers.                                                              *)

\* GET /users/{id}.
GetUserByID(id) == Status(IF id \in Users THEN "200" ELSE "404")

\* GET /v1/validate.
Validate(token) == Status(IF token = "valid" THEN "200" ELSE "401")

\* The RPC GetStudentByID.
GetStudentByID(id) ==
    CASE id = 0 -> Status("InvalidArgument")
      [] id \in DOMAIN data -> [status |-> "OK", id |-> id, address |-> data[id].address]
      [] OTHER -> Status("NotFound")

\* A mutated Normal: the address is compared and stored as it was typed.
NormalAsTyped(email) == email

\* Trimmed and in lower case.
Normal(email) == [email EXCEPT !.plain = TRUE]

Exists(email) == \E id \in DOMAIN data : data[id] = Normal(email)

\* A mutated Insert: nextID++ is forgotten.
InsertUncounted(email) ==
    /\ data' = [id \in DOMAIN data \union {nextID} |->
                  IF id = nextID THEN Normal(email) ELSE data[id]]
    /\ UNCHANGED nextID

Insert(email) ==
    /\ data' = [id \in DOMAIN data \union {nextID} |->
                  IF id = nextID THEN Normal(email) ELSE data[id]]
    /\ nextID' = nextID + 1

\* The RPC CreateStudent, with Repository.Create.
CreateStudent(email) ==
    IF email.address = NoEmail THEN Status("InvalidArgument")
    ELSE IF Exists(email) THEN Status("AlreadyExists")
    ELSE [status |-> "OK", id |-> nextID, address |-> email.address]

\* POST /students of pz3 trims what it checks; its repository trims, and its
\* statuses 201, 400 and 409 are written as the codes of pz2.
PostStudent(email) == CreateStudent(email)

\* The service descriptor of pz2 and the HTTP services.
AnswerTo(ask) ==
    CASE ask.op = "user" -> GetUserByID(ask.id)
      [] ask.op = "validate" -> Validate(ask.token)
      [] ask.op = "get" -> GetStudentByID(ask.id)
      [] ask.op = "create" -> CreateStudent(ask.email)
      [] ask.op = "post" -> PostStudent(ask.email)
      [] OTHER -> Status("OK")

-----------------------------------------------------------------------------
(* The callers.                                                            *)

Asking(op) == [op |-> op, id |-> 0, token |-> "none",
               email |-> [address |-> NoEmail, plain |-> TRUE]]
Get(id) == [Asking("get") EXCEPT !.id = id]
User(id) == [Asking("user") EXCEPT !.id = id]
Token(token) == [Asking("validate") EXCEPT !.token = token]
New(op, email) == [Asking(op) EXCEPT !.email = email]

\* main of the client of pz2.
ClientCalls(c) ==
    CASE step[c] = 1 -> Asking("ping")
      [] step[c] = 2 -> Get(1)
      [] step[c] = 3 -> Asking("list")
      [] step[c] = 4 -> New("create", wants[c].email)
      [] step[c] = 5 -> Get(seen[c][4].id)
      [] OTHER -> Get(999)

\* tests.ps1 of pz3: the second POST has the address of the first.
ScriptCalls(c) == New("post", wants[c].email)

Question(c) ==
    CASE system = "orders" -> User(OrderUser[wants[c].order])
      [] system = "tasks" -> Token(wants[c].token)
      [] system = "students" -> ClientCalls(c)
      [] OTHER -> ScriptCalls(c)

Call(c) == [from |-> c, step |-> step[c], ask |-> Question(c)]

Finish(c, outcome) ==
    /\ pc' = [pc EXCEPT ![c] = "done"]
    /\ reply' = [reply EXCEPT ![c] = outcome]

\* An order that is not there, or a request without Authorization, asks nobody.
Refuse(c) ==
    /\ pc[c] = "idle"
    /\ \/ system = "orders" /\ wants[c].order \notin DOMAIN OrderUser
          /\ Finish(c, "404")
       \/ system = "tasks" /\ wants[c].token = "missing"
          /\ Finish(c, "401")
    /\ UNCHANGED <<system, wants, step, seen, requests, replies, peerVars>>

Send(c) ==
    /\ pc[c] = "idle"
    /\ system = "orders" => wants[c].order \in DOMAIN OrderUser
    /\ system = "tasks" => wants[c].token # "missing"
    /\ requests' = requests \union {Call(c)}
    /\ pc' = [pc EXCEPT ![c] = "waiting"]
    /\ UNCHANGED <<system, wants, step, reply, seen, replies, peerVars>>

\* The handler of the peer; a GET that is sent again may be handled again.
Handle(call) ==
    /\ call \in requests
    /\ requests' \in {requests \ {call}} \union
                     (IF system \in {"orders", "tasks"} THEN {requests} ELSE {})
    /\ replies' = replies \union {[call |-> call, answer |-> AnswerTo(call.ask)]}
    /\ IF call.ask.op \in {"create", "post"} /\ AnswerTo(call.ask).status = "OK"
       THEN Insert(call.ask.email)
       ELSE UNCHANGED <<data, nextID>>
    /\ UNCHANGED <<callerVars, restarts>>

Good(answer) == answer.status \in {"200", "OK"}
Calls == CASE system = "students" -> 6 [] system = "posts" -> 2 [] OTHER -> 1
Last(c) == step[c] = Calls
LastGood(c, answer) ==
    CASE system = "students" -> answer.status = "NotFound"
      [] system = "posts" -> TRUE
      [] OTHER -> Good(answer)

\* A mutated Outcome: the status code of the peer is not looked at.
OutcomeUnchecked(c, ok) ==
    CASE system \in {"students", "posts"} -> IF ok THEN "ok" ELSE "fatal"
      [] OTHER -> "200"

\* Any error of the client is 502 in pz1, 401 in pz7 and log.Fatal in pz2.
Outcome(c, ok) ==
    CASE system = "orders" -> IF ok THEN "200" ELSE "502"
      [] system = "tasks" -> IF ok THEN "200" ELSE "401"
      [] OTHER -> IF ok THEN "ok" ELSE "fatal"

\* The caller has the answer, and goes on to its next call or ends.
Learn(c, answer) ==
    /\ seen' = [seen EXCEPT ![c] = Append(@, answer)]
    /\ IF Last(c)
       THEN Finish(c, Outcome(c, LastGood(c, answer))) /\ UNCHANGED step
       ELSE IF Good(answer) \/ system = "posts"
       THEN /\ step' = [step EXCEPT ![c] = @ + 1]
            /\ pc' = [pc EXCEPT ![c] = "idle"]
            /\ UNCHANGED reply
       ELSE Finish(c, Outcome(c, FALSE)) /\ UNCHANGED step

\* The answer to the call the caller is waiting for.
Receive(c) ==
    /\ pc[c] = "waiting"
    /\ \E m \in replies : m.call = Call(c) /\ Learn(c, m.answer)
    /\ UNCHANGED <<system, wants, requests, replies, peerVars>>

\* A mutated GiveUp: http.Client and context without a timeout.
GiveUpNever(c) == FALSE

\* The connection is refused or breaks, or the time is up.
GiveUp(c) ==
    /\ pc[c] = "waiting"
    /\ IF system = "posts" THEN Learn(c, Status("lost"))
       ELSE Finish(c, Outcome(c, FALSE)) /\ UNCHANGED <<step, seen>>
    /\ UNCHANGED <<system, wants, requests, replies, peerVars>>

\* The peer is restarted; students made since it started are forgotten.
Restart ==
    /\ restarts < MaxRestarts
    /\ restarts' = restarts + 1
    /\ data' = Seeds /\ nextID' = 4
    /\ requests' = {}
    /\ UNCHANGED <<callerVars, replies>>

CallerStep(c) == Refuse(c) \/ Send(c) \/ Receive(c) \/ GiveUp(c)

\* What happens of itself: the curl of the script has no timeout.
Prompt(c) == Refuse(c) \/ Send(c) \/ Receive(c) \/ (system # "posts" /\ GiveUp(c))

Next ==
    \/ \E c \in Callers : CallerStep(c)
    \/ \E call \in requests : Handle(call)
    \/ Restart

\* Callers go on, and their clocks run.  The peer and the network need not.
Spec == Init /\ [][Next]_vars /\ \A c \in Callers : WF_vars(Prompt(c))

-----------------------------------------------------------------------------
(* Properties.                                                             *)

TypeOK ==
    /\ pc \in [Callers -> {"idle", "waiting", "done"}]
    /\ step \in [Callers -> 1 .. 6]
    /\ reply \in [Callers -> {"none", "200", "401", "404", "502", "ok", "fatal"}]
    /\ \A c \in Callers : Len(seen[c]) \in {step[c] - 1, step[c]}
    /\ DOMAIN data = 1 .. nextID - 1
    /\ \A id \in DOMAIN data : data[id].plain
    /\ restarts \in 0 .. MaxRestarts

\* A caller is given what it wants only on the word of the peer: 200 means that
\* the user exists or that the token is valid, however many answers were lost.
\* A valid request is refused only when no answer came back in time.
RepliesAreExplained ==
    \A c \in Callers :
        /\ reply[c] = "200" =>
              IF system = "orders" THEN OrderUser[wants[c].order] \in Users
              ELSE wants[c].token = "valid"
        /\ reply[c] \in {"200", "ok"} => Len(seen[c]) = step[c]
        /\ reply[c] = "502" => seen[c] = << >>
        /\ reply[c] = "401" /\ wants[c].token = "valid" => seen[c] = << >>

\* No two students have addresses that differ in capitals or spaces only.
EmailsUnique ==
    \A i, j \in DOMAIN data :
        data[i].address = data[j].address /\ data[i].address # "seed" => i = j

\* A client of pz2 that was told its student is created finds that very student,
\* and one that was told AlreadyExists is right, be the address from a client
\* whose answer was lost.  Of two POSTs of one address to pz3 one at most is
\* answered 201, and when the first was answered the second is not; a first POST
\* whose answer was lost may be the later one.  Of the client's other calls none
\* fails when it is answered, the one that asks for student 999 provided there
\* are fewer.  All this unless the server was restarted in between, after which
\* the id may be another's.
CreatedIsFound ==
    restarts = 0 =>
        \A c \in Callers :
            /\ system = "students" /\ Len(seen[c]) >= 4 =>
                  CASE seen[c][4].status = "OK" ->
                         data[seen[c][4].id].address = wants[c].email.address
                    [] seen[c][4].status = "AlreadyExists" -> Exists(wants[c].email)
                    [] OTHER -> wants[c].email.address = NoEmail
            /\ system = "students" /\ Len(seen[c]) >= 5 =>
                  seen[c][5].id = seen[c][4].id /\ seen[c][5].address = seen[c][4].address
            /\ reply[c] = "fatal" /\ step[c] # 4 /\ (step[c] = 6 => nextID <= 999) =>
                  Len(seen[c]) < step[c]
            /\ system = "posts" /\ Len(seen[c]) = 2 /\ wants[c].email.address # NoEmail =>
                  /\ seen[c][1].status # "lost" => seen[c][2].status \in {"AlreadyExists", "lost"}
                  /\ seen[c][2].status = "AlreadyExists" => Exists(wants[c].email)

\* Nobody with a timeout waits for ever for a peer that is silent.
EveryCallEnds == system # "posts" => \A c \in Callers : <>(pc[c] = "done")
=============================================================================
