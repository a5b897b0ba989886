-------------------------- MODULE RemoteCallProofs --------------------------
(***************************************************************************)
(* Proofs about RemoteCall for all sets of callers and addresses and any   *)
(* number of restarts: every invariant the run checks.                     *)
(***************************************************************************)
EXTENDS RemoteCall, SequenceTheorems, TLAPS

-----------------------------------------------------------------------------
(* The inductive invariant.                                                *)

Addresses == Emails \union {NoEmail, "seed"}
\* An address as the repository keeps it.
Stored == [address : Addresses, plain : {TRUE}]
Statuses == {"200", "401", "404", "OK", "NotFound", "InvalidArgument",
             "AlreadyExists", "lost"}
Answers == [status : Statuses, id : Nat, address : Addresses]
Asks == [op : {"user", "validate", "ping", "get", "list", "create", "post"},
         id : Nat, token : {"none", "missing", "invalid", "valid"}, email : Email]
CallSet == [from : Callers, step : 1 .. 6, ask : Asks]

TypeInv ==
    /\ system \in {"orders", "tasks", "students", "posts"}
    /\ wants \in [Callers -> Wants(system)]
    /\ step \in [Callers -> 1 .. 6]
    /\ pc \in [Callers -> {"idle", "waiting", "done"}]
    /\ reply \in [Callers -> {"none", "200", "401", "404", "502", "ok", "fatal"}]
    /\ seen \in [Callers -> Seq(Answers)]
    /\ requests \subseteq CallSet
    /\ replies \subseteq [call : CallSet, answer : Answers]
    /\ nextID \in Nat \ 0 .. 3
    /\ data \in [1 .. nextID - 1 -> Stored]
    /\ restarts \in 0 .. MaxRestarts

\* Where a caller is, and what it has heard so far.
ProgressInv ==
    \A c \in Callers :
        /\ step[c] <= Calls /\ Len(seen[c]) \in {step[c] - 1, step[c]}
        /\ pc[c] # "done" => Len(seen[c]) = step[c] - 1 /\ reply[c] = "none"
        /\ system # "posts" => \A i \in 1 .. step[c] - 1 : Good(seen[c][i])
        /\ system = "orders" /\ pc[c] = "waiting" => wants[c].order \in DOMAIN OrderUser

\* The k-th question of c.
QuestionAt(c, k) ==
    IF system # "students" THEN Question(c)
    ELSE CASE k = 1 -> Asking("ping")
           [] k = 2 -> Get(1)
           [] k = 3 -> Asking("list")
           [] k = 4 -> New("create", wants[c].email)
           [] k = 5 -> Get(seen[c][4].id)
           [] OTHER -> Get(999)

\* A call under way is one its caller made, and not one it will make.
Made(call) ==
    LET c == call.from
    IN  /\ call.step <= step[c]
        /\ call.step = step[c] => pc[c] # "idle"
        /\ call.ask = QuestionAt(c, call.step)
CallInv ==
    /\ \A call \in requests : Made(call)
    /\ \A m \in replies : Made(m.call)

\* What the student server promises with an answer, until it is restarted.
Told(email, answer) ==
    CASE answer.status = "OK" ->
           /\ answer.id \in DOMAIN data
           /\ data[answer.id].address = email.address
           /\ answer.address = email.address
      [] answer.status = "AlreadyExists" -> Exists(email)
      [] OTHER -> answer.status = "InvalidArgument" /\ email.address = NoEmail
Found(id, answer) ==
    /\ answer.status = "OK" /\ answer.id = id
    /\ id \in DOMAIN data /\ data[id].address = answer.address

\* An answer to the k-th question of c that may be believed.
Right(c, k, answer) ==
    LET ask == QuestionAt(c, k)
    IN  /\ ask.op = "user" => answer.status = IF ask.id \in Users THEN "200" ELSE "404"
        /\ ask.op = "validate" => answer.status = IF ask.token = "valid" THEN "200" ELSE "401"
        /\ ask.op \in {"ping", "list"} => answer.status = "OK"
        /\ answer.status # "lost"
        /\ restarts = 0 =>
              /\ ask.op = "get" /\ k \in {2, 5} => Found(ask.id, answer)
              /\ ask.op = "get" /\ k = 6 /\ nextID <= 999 => answer.status = "NotFound"
              /\ ask.op \in {"create", "post"} => Told(ask.email, answer)
              /\ system = "posts" /\ k = 2 /\ ask.email.address # NoEmail
                    /\ seen[c][1].status # "lost" => answer.status = "AlreadyExists"

AnswerInv == \A m \in replies : Right(m.call.from, m.call.step, m.answer)
Heard(c, i) ==
    \/ Right(c, i, seen[c][i])
    \/ system = "posts" /\ seen[c][i].status = "lost"
SeenInv == \A c \in Callers : \A i \in 1 .. Len(seen[c]) : Heard(c, i)

\* The client of pz2 fails by an answer at its fourth call only.
FatalInv ==
    restarts = 0 => \A c \in Callers :
        reply[c] = "fatal" /\ step[c] # 4 /\ (step[c] = 6 => nextID <= 999)
            => Len(seen[c]) < step[c]

IInv == /\ TypeInv /\ ProgressInv /\ CallInv /\ AnswerInv /\ SeenInv
        /\ EmailsUnique /\ RepliesAreExplained /\ FatalInv
-----------------------------------------------------------------------------
(* Facts used by several steps.                                            *)

\* The records a caller asks with.
LEMMA AskingType ==
    /\ \A op \in {"user", "validate", "ping", "get", "list", "create", "post"} :
          Asking(op) \in Asks
    /\ \A n \in Nat : Get(n) \in Asks /\ User(n) \in Asks
    /\ \A t \in {"missing", "invalid", "valid"} : Token(t) \in Asks
    /\ \A op \in {"create", "post"}, e \in Email : New(op, e) \in Asks
    /\ \A op : Asking(op).op = op
    /\ \A n : /\ Get(n).op = "get" /\ Get(n).id = n
              /\ User(n).op = "user" /\ User(n).id = n
    /\ \A t : Token(t).op = "validate" /\ Token(t).token = t
    /\ \A op, e : New(op, e).op = op /\ New(op, e).email = e
<1>1. [address |-> NoEmail, plain |-> TRUE] \in Email
  BY DEF Email
<1>. QED
  BY <1>1 DEF Asking, Asks, Get, User, Token, New

\* A question is well formed, and is the one Question has for the step the
\* caller is at.
LEMMA QuestionType ==
    ASSUME TypeInv, NEW c \in Callers, NEW k \in 1 .. 6,
           system = "orders" => wants[c].order \in DOMAIN OrderUser,
           system = "students" /\ k = 5 => Len(seen[c]) >= 4
    PROVE  QuestionAt(c, k) \in Asks
<1>0. wants[c] \in Wants(system)
  BY DEF TypeInv
<1>1. CASE system = "orders"
  <2>1. OrderUser[wants[c].order] \in Nat
    BY <1>1 DEF OrderUser
  <2>. QED
    BY <1>1, <2>1, AskingType DEF QuestionAt, Question
<1>2. CASE system = "tasks"
  <2>1. wants[c].token \in {"missing", "invalid", "valid"}
    BY <1>0, <1>2 DEF Wants
  <2>. QED
    BY <1>2, <2>1, AskingType DEF QuestionAt, Question
<1>3. CASE system = "posts"
  <2>1. wants[c].email \in Email
    BY <1>0, <1>3 DEF Wants
  <2>. QED
    BY <1>3, <2>1, AskingType DEF QuestionAt, Question, ScriptCalls
<1>4. CASE system = "students"
  <2>1. wants[c].email \in Email
    BY <1>0, <1>4 DEF Wants
  <2>2. ASSUME k = 5 PROVE seen[c][4].id \in Nat
    <3>1. seen[c] \in Seq(Answers) /\ 4 \in 1 .. Len(seen[c])
      BY <1>4, <2>2 DEF TypeInv
    <3>2. seen[c][4] \in Answers
      BY <3>1, ElementOfSeq
    <3>. QED
      BY <3>2 DEF Answers
  <2>3. \/ QuestionAt(c, k) = Asking("ping") \/ QuestionAt(c, k) = Asking("list")
        \/ QuestionAt(c, k) = Get(1) \/ QuestionAt(c, k) = Get(999)
        \/ QuestionAt(c, k) = New("create", wants[c].email)
        \/ k = 5 /\ QuestionAt(c, k) = Get(seen[c][4].id)
    BY <1>4 DEF QuestionAt
  <2>4. 1 \in Nat /\ 999 \in Nat
    OBVIOUS
  <2>. QED
    BY <2>1, <2>2, <2>3, <2>4, AskingType
<1>. QED
  BY <1>1, <1>2, <1>3, <1>4 DEF TypeInv

\* The question of the moment.
LEMMA QuestionNow ==
    ASSUME TypeInv, NEW c \in Callers
    PROVE  Question(c) = QuestionAt(c, step[c]) /\ step[c] \in 1 .. 6
<1>1. step[c] \in 1 .. 6
  BY DEF TypeInv
<1>2. CASE system # "students"
  BY <1>1, <1>2 DEF QuestionAt
<1>3. CASE system = "students"
  <2>1. Question(c) = ClientCalls(c)
    BY <1>3 DEF Question
  <2>. QED
    BY <1>1, <1>3, <2>1 DEF QuestionAt, ClientCalls
<1>. QED
  BY <1>1, <1>2, <1>3 DEF TypeInv

\* What was heard is not forgotten.
Extends(new, old) ==
    /\ Len(old) <= Len(new)
    /\ \A i \in 1 .. Len(old) : new[i] = old[i]

\* So a question that was asked stays the same.
LEMMA QuestionStays ==
    ASSUME TypeInv, NEW c \in Callers, NEW k \in 1 .. 6,
           UNCHANGED <<system, wants>>, Extends(seen'[c], seen[c]),
           system = "students" /\ k = 5 => Len(seen[c]) >= 4
    PROVE  QuestionAt(c, k)' = QuestionAt(c, k)
<1>1. k = 5 /\ system = "students" => seen'[c][4] = seen[c][4]
  <2>1. Len(seen[c]) \in Nat
    BY DEF TypeInv
  <2>. QED
    BY <2>1 DEF Extends
<1>. QED
  BY <1>1 DEF TypeInv, QuestionAt, Question, ScriptCalls

\* Until the server is restarted, students are only added.
Grows ==
    restarts' = 0 =>
        /\ restarts = 0 /\ nextID <= nextID'
        /\ \A id \in DOMAIN data : id \in DOMAIN data' /\ data'[id] = data[id]

\* So what an answer promises stays true.
LEMMA RightStays ==
    ASSUME TypeInv, TypeInv', Grows, NEW c \in Callers, NEW k \in 1 .. 6, NEW a,
           Right(c, k, a), QuestionAt(c, k)' = QuestionAt(c, k),
           system' = system,
           k = 2 => seen'[c][1] = seen[c][1]
    PROVE  Right(c, k, a)'
<1>. DEFINE ask == QuestionAt(c, k)
<1>1. PICK q : q = ask
  OBVIOUS
<1>2. q = ask'
  BY <1>1
<1>3. nextID \in Nat /\ nextID' \in Nat
  BY DEF TypeInv
<1>4. ASSUME restarts' = 0, Found(q.id, a) PROVE Found(q.id, a)'
  BY <1>4 DEF Grows, Found
<1>5. ASSUME restarts' = 0, Told(q.email, a) PROVE Told(q.email, a)'
  BY <1>5 DEF Grows, Told, Exists
<1>. HIDE DEF ask
<1>. QED
  BY <1>1, <1>2, <1>3, <1>4, <1>5 DEF Right, Grows, ask

\* What every step does to callers that have asked and heard something: the
\* calls, the answers under way and the answers heard keep their meaning.
LEMMA HistoryStays ==
    ASSUME IInv, TypeInv', Grows, UNCHANGED <<system, wants>>,
           \A c \in Callers :
              /\ Extends(seen'[c], seen[c]) /\ step[c] <= step'[c]
              /\ step'[c] = step[c] /\ pc[c] # "idle" => pc'[c] # "idle"
    PROVE  /\ \A call \in requests : Made(call)'
           /\ \A m \in replies : Made(m.call)' /\ Right(m.call.from, m.call.step, m.answer)'
           /\ \A c \in Callers : \A i \in 1 .. Len(seen[c]) :
                 Heard(c, i)'
<1>. USE DEF IInv
<1>0. ASSUME NEW c \in Callers
      PROVE  /\ step[c] \in 1 .. 6 /\ step'[c] \in 1 .. 6
             /\ Len(seen[c]) \in Nat /\ Len(seen[c]) \in {step[c] - 1, step[c]}
             /\ Len(seen[c]) >= 1 => seen'[c][1] = seen[c][1]
  <2>1. step[c] \in 1 .. 6 /\ step'[c] \in 1 .. 6
    BY DEF TypeInv
  <2>2. Len(seen[c]) \in Nat
    BY DEF TypeInv
  <2>3. Len(seen[c]) \in {step[c] - 1, step[c]}
    BY DEF ProgressInv
  <2>. QED
    BY <2>1, <2>2, <2>3 DEF Extends
<1>1. ASSUME NEW c \in Callers, NEW k \in 1 .. 6, k <= step[c]
      PROVE  /\ QuestionAt(c, k)' = QuestionAt(c, k)
             /\ k = 2 => seen'[c][1] = seen[c][1]
  <2>1. k >= 2 => Len(seen[c]) >= k - 1
    BY <1>0, <1>1
  <2>. QED
    BY <1>0, <2>1, QuestionStays
<1>2. ASSUME NEW call \in CallSet, Made(call)
      PROVE  /\ Made(call)' /\ call.from \in Callers /\ call.step \in 1 .. 6
             /\ call.step <= step[call.from]
  <2>1. /\ call.from \in Callers /\ call.step \in 1 .. 6
        /\ call.step <= step[call.from]
        /\ call.step = step[call.from] => pc[call.from] # "idle"
        /\ call.ask = QuestionAt(call.from, call.step)
    BY <1>2 DEF CallSet, Made
  <2>2. QuestionAt(call.from, call.step)' = QuestionAt(call.from, call.step)
    BY <1>1, <2>1
  <2>. QED
    BY <1>0, <2>1, <2>2 DEF Made
<1>3. ASSUME NEW call \in requests PROVE Made(call)'
  BY <1>2 DEF TypeInv, CallInv
<1>4. ASSUME NEW m \in replies
      PROVE  Made(m.call)' /\ Right(m.call.from, m.call.step, m.answer)'
  <2>1. m.call \in CallSet /\ Made(m.call) /\ Right(m.call.from, m.call.step, m.answer)
    BY DEF TypeInv, CallInv, AnswerInv
  <2>2. /\ m.call.from \in Callers /\ m.call.step \in 1 .. 6
        /\ m.call.step <= step[m.call.from] /\ Made(m.call)'
    BY <1>2, <2>1
  <2>. QED
    BY <1>1, <2>1, <2>2, RightStays
<1>5. ASSUME NEW c \in Callers, NEW i \in 1 .. Len(seen[c])
      PROVE  Heard(c, i)'
  <2>1. i \in 1 .. 6 /\ i <= step[c] /\ seen'[c][i] = seen[c][i]
    BY <1>0 DEF Extends
  <2>2. PICK a : a = seen[c][i]
    OBVIOUS
  <2>3. Right(c, i, a) => Right(c, i, a)'
    BY <1>1, <2>1, RightStays
  <2>4. Heard(c, i)
    BY DEF SeenInv
  <2>. QED
    BY <2>1, <2>2, <2>3, <2>4 DEF Heard, Right, Told, Found
<1>. QED
  BY <1>3, <1>4, <1>5
-----------------------------------------------------------------------------
(* The answers of the peer.                                                *)

\* Stored addresses are told apart by the address alone.
LEMMA StoredFacts ==
    /\ \A x, y \in Stored : x.address = y.address => x = y
    /\ \A x \in Stored : x.address \in Addresses
    /\ \A e \in Email : Normal(e) \in Stored /\ Normal(e).address = e.address
<1>1. ASSUME NEW x \in Stored, NEW y \in Stored, x.address = y.address PROVE x = y
  <2>1. x.plain = TRUE /\ y.plain = TRUE
    BY DEF Stored
  <2>2. x = [address |-> x.address, plain |-> x.plain]
    BY DEF Stored
  <2>3. y = [address |-> y.address, plain |-> y.plain]
    BY DEF Stored
  <2>. QED
    BY <1>1, <2>1, <2>2, <2>3
<1>2. ASSUME NEW e \in Email
      PROVE  Normal(e) \in Stored /\ Normal(e).address = e.address
  BY DEF Email, Stored, Addresses, Normal
<1>3. ASSUME NEW x \in Stored PROVE x.address \in Addresses
  BY DEF Stored
<1>. QED
  BY <1>1, <1>2, <1>3

\* A student is created if its address is new, and then is the only one with it.
LEMMA CreateIsRight ==
    ASSUME TypeInv, EmailsUnique, NEW e \in Email, NEW a, a = CreateStudent(e),
           IF a.status = "OK" THEN Insert(e) ELSE UNCHANGED <<data, nextID>>,
           UNCHANGED restarts
    PROVE  /\ a \in Answers /\ a.status # "lost" /\ Grows /\ Told(e, a)' /\ EmailsUnique'
           /\ Exists(e) /\ e.address # NoEmail => a.status = "AlreadyExists"
           /\ nextID' \in Nat \ 0 .. 3
           /\ data' \in [1 .. nextID' - 1 -> Stored]
<1>1. /\ nextID \in Nat /\ nextID > 3 /\ DOMAIN data = 1 .. nextID - 1
      /\ data \in [1 .. nextID - 1 -> Stored]
      /\ Normal(e) \in Stored /\ Normal(e).address = e.address
      /\ e.address \in Addresses
  BY StoredFacts DEF TypeInv
<1>2. \A id \in DOMAIN data : data[id] = Normal(e) <=> data[id].address = e.address
  BY <1>1, StoredFacts
<1>3. CASE e.address = NoEmail
  <2>1. a = [status |-> "InvalidArgument", id |-> 0, address |-> NoEmail]
    BY <1>3 DEF CreateStudent, Status
  <2>2. UNCHANGED <<data, nextID>> /\ a \in Answers
    BY <2>1 DEF Answers, Statuses, Addresses
  <2>. QED
    BY <1>1, <1>3, <2>1, <2>2 DEF Grows, Told, EmailsUnique
<1>4. CASE e.address # NoEmail /\ Exists(e)
  <2>1. a = [status |-> "AlreadyExists", id |-> 0, address |-> NoEmail]
    BY <1>4 DEF CreateStudent, Status
  <2>2. UNCHANGED <<data, nextID>> /\ a \in Answers
    BY <2>1 DEF Answers, Statuses, Addresses
  <2>. QED
    BY <1>1, <1>4, <2>1, <2>2 DEF Grows, Told, Exists, EmailsUnique
<1>5. CASE e.address # NoEmail /\ ~Exists(e)
  <2>1. a = [status |-> "OK", id |-> nextID, address |-> e.address]
    BY <1>5 DEF CreateStudent
  <2>2. /\ nextID' = nextID + 1
        /\ data' = [id \in DOMAIN data \union {nextID} |->
                      IF id = nextID THEN Normal(e) ELSE data[id]]
    BY <2>1 DEF Insert
  <2>3. /\ DOMAIN data' = 1 .. nextID' - 1 /\ DOMAIN data' = DOMAIN data \union {nextID}
        /\ nextID \notin DOMAIN data
    BY <1>1, <2>2
  <2>4. /\ data'[nextID] = Normal(e)
        /\ \A id \in DOMAIN data : data'[id] = data[id]
    BY <1>1, <2>2
  <2>5. \A id \in DOMAIN data : data[id].address # e.address
    BY <1>2, <1>5 DEF Exists
  <2>6. data' \in [1 .. nextID' - 1 -> Stored]
    BY <1>1, <2>2, <2>3, <2>4
  <2>7. EmailsUnique'
    BY <1>1, <2>3, <2>4, <2>5 DEF EmailsUnique
  <2>8. Told(e, a)'
    <3>1. a.status = "OK" /\ a.id = nextID /\ a.address = e.address
      BY <2>1
    <3>2. nextID \in DOMAIN data' /\ data'[nextID].address = e.address
      BY <1>1, <2>3, <2>4
    <3>. QED
      BY <3>1, <3>2 DEF Told
  <2>9. Grows
    BY <1>1, <2>2, <2>3, <2>4 DEF Grows
  <2>. QED
    BY <1>1, <1>5, <2>1, <2>2, <2>6, <2>7, <2>8, <2>9 DEF Answers, Statuses
<1>. QED
  BY <1>3, <1>4, <1>5

\* A student is found if it is there.
LEMMA GetIsRight ==
    ASSUME TypeInv, NEW id \in Nat
    PROVE  /\ GetStudentByID(id) \in Answers /\ GetStudentByID(id).status # "lost"
           /\ id \in DOMAIN data => Found(id, GetStudentByID(id))
           /\ id \notin DOMAIN data /\ id # 0 => GetStudentByID(id).status = "NotFound"
<1>1. /\ nextID \in Nat /\ DOMAIN data = 1 .. nextID - 1
      /\ \A i \in DOMAIN data : data[i].address \in Addresses
  BY StoredFacts DEF TypeInv
<1>2. 0 \notin DOMAIN data
  BY <1>1
<1>. QED
  BY <1>1, <1>2 DEF GetStudentByID, Status, Answers, Statuses, Addresses, Found

\* Of what an answer already heard told its caller the peer still has record.
LEMMA ToldBefore ==
    ASSUME IInv, NEW c \in Callers, restarts = 0
    PROVE  /\ system = "posts" /\ step[c] >= 2 /\ seen[c][1].status # "lost"
                /\ wants[c].email.address # NoEmail => Exists(wants[c].email)
           /\ system = "students" /\ step[c] >= 5 => seen[c][4].id \in DOMAIN data
           /\ system = "students" /\ Len(seen[c]) >= 4 => Told(wants[c].email, seen[c][4])
<1>. USE DEF IInv
<1>0. Len(seen[c]) \in Nat /\ step[c] \in 1 .. 6 /\ Len(seen[c]) >= step[c] - 1
  BY QuestionNow DEF TypeInv, ProgressInv
<1>1. ASSUME system = "posts", step[c] >= 2, seen[c][1].status # "lost",
             wants[c].email.address # NoEmail
      PROVE  Exists(wants[c].email)
  <2>1. Right(c, 1, seen[c][1])
    BY <1>0, <1>1 DEF SeenInv, Heard
  <2>2. QuestionAt(c, 1) = New("post", wants[c].email)
    BY <1>1 DEF QuestionAt, Question, ScriptCalls
  <2>3. Told(wants[c].email, seen[c][1])
    BY <2>1, <2>2, AskingType DEF Right
  <2>. QED
    <3>1. wants[c].email \in Email /\ Normal(wants[c].email) \in Stored
      BY <1>1, StoredFacts DEF TypeInv, Wants
    <3>2. \A id \in DOMAIN data : data[id] \in Stored
      BY DEF TypeInv
    <3>. QED
      BY <1>1, <2>3, <3>1, <3>2, StoredFacts DEF Told, Exists
<1>2. ASSUME system = "students", Len(seen[c]) >= 4
      PROVE  Told(wants[c].email, seen[c][4])
  <2>1. Right(c, 4, seen[c][4])
    BY <1>0, <1>2 DEF SeenInv, Heard
  <2>2. QuestionAt(c, 4) = New("create", wants[c].email)
    BY <1>2 DEF QuestionAt
  <2>. QED
    BY <2>1, <2>2, AskingType DEF Right
<1>3. ASSUME system = "students", step[c] >= 5 PROVE seen[c][4].id \in DOMAIN data
  <2>1. Good(seen[c][4])
    BY <1>0, <1>3 DEF ProgressInv
  <2>. QED
    BY <1>0, <1>2, <1>3, <2>1 DEF Good, Told
<1>. QED
  BY <1>1, <1>2, <1>3

\* The peer answers as its data are when it handles the call.
LEMMA AnswerIsRight ==
    ASSUME IInv, NEW c \in Callers, NEW k \in 1 .. 6, k <= step[c],
           NEW ask \in Asks, ask = QuestionAt(c, k), ask = QuestionAt(c, k)',
           NEW a, a = AnswerTo(ask), UNCHANGED <<callerVars, restarts>>,
           IF ask.op \in {"create", "post"} /\ a.status = "OK"
           THEN Insert(ask.email) ELSE UNCHANGED <<data, nextID>>
    PROVE  /\ a \in Answers /\ Grows /\ Right(c, k, a)' /\ EmailsUnique'
           /\ nextID' \in Nat \ 0 .. 3
           /\ data' \in [1 .. nextID' - 1 -> Stored]
<1>. USE DEF IInv
<1>0. /\ ask.id \in Nat /\ ask.email \in Email
      /\ nextID \in Nat \ 0 .. 3 /\ DOMAIN data = 1 .. nextID - 1
      /\ UNCHANGED <<system, wants, seen, step, restarts>>
  BY DEF Asks, TypeInv, callerVars
<1>1. CASE ask.op \in {"create", "post"}
  <2>1. a = CreateStudent(ask.email)
    BY <1>1 DEF AnswerTo, PostStudent
  <2>2. /\ a \in Answers /\ a.status # "lost" /\ Grows /\ Told(ask.email, a)' /\ EmailsUnique'
        /\ Exists(ask.email) /\ ask.email.address # NoEmail => a.status = "AlreadyExists"
        /\ nextID' \in Nat \ 0 .. 3
        /\ data' \in [1 .. nextID' - 1 -> Stored]
    BY <1>0, <1>1, <2>1, CreateIsRight
  <2>3. system = "posts" => ask.email = wants[c].email
    BY AskingType DEF QuestionAt, Question, ScriptCalls
  <2>4. Right(c, k, a)'
    BY <1>0, <1>1, <2>2, <2>3, ToldBefore DEF Right
  <2>. QED
    BY <2>2, <2>4
<1>2. CASE ask.op \notin {"create", "post"}
  <2>1. UNCHANGED <<data, nextID>> /\ Grows /\ EmailsUnique'
    BY <1>0, <1>2 DEF Grows, EmailsUnique
  <2>2. CASE ask.op = "get"
    <3>1. a = GetStudentByID(ask.id)
      BY <2>2 DEF AnswerTo
    <3>2. /\ system = "students"
          /\ k = 2 => ask.id = 1
          /\ k = 5 => ask.id = seen[c][4].id
          /\ k = 6 => ask.id = 999
      BY <2>2, AskingType DEF QuestionAt, Question, ScriptCalls, TypeInv
    <3>3. restarts = 0 /\ k \in {2, 5} => ask.id \in DOMAIN data
      BY <1>0, <3>2, ToldBefore, QuestionNow
    <3>4. k = 6 /\ nextID <= 999 => ask.id \notin DOMAIN data /\ ask.id # 0
      BY <1>0, <3>2
    <3>5. Right(c, k, a)'
      BY <1>0, <2>1, <2>2, <3>1, <3>2, <3>3, <3>4, GetIsRight DEF Right, Found
    <3>. QED
      BY <1>0, <2>1, <3>1, <3>5, GetIsRight DEF TypeInv
  <2>3. CASE ask.op \in {"user", "validate", "ping", "list"}
    <3>1. /\ a = Status(a.status) /\ a.status \in Statuses /\ a.status # "lost"
          /\ ask.op = "user" => a.status = IF ask.id \in Users THEN "200" ELSE "404"
          /\ ask.op = "validate" => a.status = IF ask.token = "valid" THEN "200" ELSE "401"
          /\ ask.op \in {"ping", "list"} => a.status = "OK"
      BY <2>3 DEF AnswerTo, GetUserByID, Validate, Status, Statuses
    <3>2. a \in Answers
      BY <3>1 DEF Status, Answers, Addresses
    <3>3. system # "posts"
      BY <2>3, AskingType DEF QuestionAt, Question, ScriptCalls
    <3>4. Right(c, k, a)'
      BY <1>0, <2>3, <3>1, <3>3 DEF Right
    <3>. QED
      BY <1>0, <2>1, <3>2, <3>4 DEF TypeInv
  <2>. QED
    BY <1>2, <2>2, <2>3 DEF Asks
<1>. QED
  BY <1>1, <1>2
-----------------------------------------------------------------------------
(* The steps.                                                              *)

\* Where a caller is and what it has heard are in proportion.
LEMMA Progress ==
    ASSUME TypeInv, ProgressInv, NEW c \in Callers
    PROVE  /\ step[c] \in 1 .. 6 /\ seen[c] \in Seq(Answers) /\ Len(seen[c]) \in Nat
           /\ step[c] - 1 <= Len(seen[c]) /\ Len(seen[c]) <= step[c]
<1>1. step[c] \in 1 .. 6 /\ seen[c] \in Seq(Answers)
  BY DEF TypeInv
<1>2. Len(seen[c]) \in {step[c] - 1, step[c]}
  BY DEF ProgressInv
<1>. QED
  BY <1>1, <1>2

\* A step that tells the callers nothing and moves none of them back.
LEMMA NothingHeard ==
    ASSUME TypeInv, UNCHANGED <<seen, step>>
    PROVE  \A d \in Callers : Extends(seen'[d], seen[d]) /\ step[d] <= step'[d]
<1>1. ASSUME NEW d \in Callers PROVE Len(seen[d]) \in Nat /\ step[d] \in Nat
  <2>1. seen[d] \in Seq(Answers) /\ step[d] \in 1 .. 6
    BY DEF TypeInv
  <2>. QED
    BY <2>1
<1>. QED
  BY <1>1 DEF Extends

\* The invariant holds at the start.
LEMMA InitIInv == Init => IInv
<1>. SUFFICES ASSUME Init PROVE IInv
  OBVIOUS
<1>1. TypeInv
  <2>1. data \in [1 .. nextID - 1 -> Stored] /\ nextID = 4
    BY DEF Init, Seeds, Stored, Addresses
  <2>2. seen \in [Callers -> Seq(Answers)]
    BY DEF Init
  <2>. QED
    BY <2>1, <2>2, RestartsAssumption DEF Init, TypeInv
<1>2. ProgressInv
  BY DEF Init, ProgressInv, Calls
<1>3. CallInv /\ AnswerInv /\ SeenInv
  BY DEF Init, CallInv, AnswerInv, SeenInv
<1>4. EmailsUnique
  BY DEF Init, Seeds, EmailsUnique
<1>5. RepliesAreExplained /\ FatalInv
  BY DEF Init, RepliesAreExplained, FatalInv
<1>. QED
  BY <1>1, <1>2, <1>3, <1>4, <1>5 DEF IInv

\* A caller that asks nobody is answered for what it wants.
LEMMA RefuseStep ==
    ASSUME IInv, NEW c \in Callers, Refuse(c)
    PROVE  IInv'
<1>. USE DEF IInv
<1>1. /\ pc[c] = "idle" /\ pc' = [pc EXCEPT ![c] = "done"]
      /\ \/ reply' = [reply EXCEPT ![c] = "404"]
         \/ /\ reply' = [reply EXCEPT ![c] = "401"]
            /\ system = "tasks" /\ wants[c].token = "missing"
      /\ UNCHANGED <<system, wants, step, seen, requests, replies, data, nextID, restarts>>
  BY DEF Refuse, Finish, peerVars
<1>2. TypeInv'
  BY <1>1 DEF TypeInv
<1>3. /\ Grows
      /\ \A d \in Callers : /\ Extends(seen'[d], seen[d]) /\ step[d] <= step'[d]
                            /\ step'[d] = step[d] /\ pc[d] # "idle" => pc'[d] # "idle"
  <2>1. Grows
    BY <1>1 DEF Grows, TypeInv
  <2>2. \A d \in Callers : pc[d] # "idle" => pc'[d] # "idle"
    BY <1>1 DEF TypeInv
  <2>. QED
    BY <1>1, <2>1, <2>2, NothingHeard
<1>4. CallInv' /\ AnswerInv' /\ SeenInv'
  BY <1>1, <1>2, <1>3, HistoryStays DEF CallInv, AnswerInv, SeenInv
<1>5. ProgressInv'
  BY <1>1 DEF TypeInv, ProgressInv, Calls, Good
<1>6. EmailsUnique'
  BY <1>1 DEF EmailsUnique
<1>7. RepliesAreExplained'
  BY <1>1 DEF TypeInv, RepliesAreExplained
<1>8. FatalInv'
  BY <1>1 DEF TypeInv, FatalInv
<1>. QED
  BY <1>2, <1>4, <1>5, <1>6, <1>7, <1>8

\* A call that is sent is the call its caller is at.
LEMMA SendStep ==
    ASSUME IInv, NEW c \in Callers, Send(c)
    PROVE  IInv'
<1>. USE DEF IInv
<1>1. /\ pc[c] = "idle" /\ pc' = [pc EXCEPT ![c] = "waiting"]
      /\ system = "orders" => wants[c].order \in DOMAIN OrderUser
      /\ requests' = requests \union {Call(c)}
      /\ UNCHANGED <<system, wants, step, seen, reply, replies, data, nextID, restarts>>
  BY DEF Send, peerVars
<1>2. PICK k \in 1 .. 6 : k = step[c] /\ Question(c) = QuestionAt(c, k)
  BY QuestionNow
<1>3. Len(seen[c]) = k - 1
  BY <1>1, <1>2 DEF ProgressInv
<1>4. QuestionAt(c, k) \in Asks
  BY <1>1, <1>2, <1>3, QuestionType
<1>5. Call(c) \in CallSet
  BY <1>2, <1>4 DEF Call, CallSet
<1>6. TypeInv'
  BY <1>1, <1>5 DEF TypeInv
<1>7. /\ Grows
      /\ \A d \in Callers : /\ Extends(seen'[d], seen[d]) /\ step[d] <= step'[d]
                            /\ step'[d] = step[d] /\ pc[d] # "idle" => pc'[d] # "idle"
  <2>1. Grows
    BY <1>1 DEF Grows, TypeInv
  <2>2. \A d \in Callers : pc[d] # "idle" => pc'[d] # "idle"
    BY <1>1 DEF TypeInv
  <2>. QED
    BY <1>1, <2>1, <2>2, NothingHeard
<1>8. QuestionAt(c, k)' = QuestionAt(c, k)
  BY <1>1, <1>3, <1>7, QuestionStays
<1>9. PICK call : call = Call(c)
  OBVIOUS
<1>10. Made(call)'
  <2>1. call.from = c /\ call.step = k /\ call.ask = QuestionAt(c, k)
    BY <1>2, <1>9 DEF Call
  <2>2. step'[c] = k /\ pc'[c] = "waiting"
    BY <1>1, <1>2 DEF TypeInv
  <2>. QED
    BY <1>8, <2>1, <2>2 DEF Made
<1>11. CallInv' /\ AnswerInv' /\ SeenInv'
  BY <1>1, <1>6, <1>7, <1>9, <1>10, HistoryStays DEF CallInv, AnswerInv, SeenInv
<1>12. ProgressInv'
  BY <1>1 DEF TypeInv, ProgressInv, Calls, Good
<1>13. EmailsUnique'
  BY <1>1 DEF EmailsUnique
<1>14. RepliesAreExplained'
  BY <1>1 DEF TypeInv, RepliesAreExplained
<1>15. FatalInv'
  BY <1>1 DEF TypeInv, FatalInv
<1>. QED
  BY <1>6, <1>11, <1>12, <1>13, <1>14, <1>15

\* The peer adds an answer that may be believed and takes nothing back.
LEMMA HandleStep ==
    ASSUME IInv, NEW call \in requests, Handle(call)
    PROVE  IInv'
<1>. USE DEF IInv
<1>. DEFINE c == call.from
            k == call.step
            ask == call.ask
            a == AnswerTo(ask)
<1>1. /\ requests' \subseteq requests
      /\ replies' = replies \union {[call |-> call, answer |-> a]}
      /\ IF ask.op \in {"create", "post"} /\ a.status = "OK"
         THEN Insert(ask.email) ELSE UNCHANGED <<data, nextID>>
      /\ UNCHANGED <<callerVars, restarts>>
      /\ UNCHANGED <<system, wants, step, pc, reply, seen>>
  BY DEF Handle, callerVars
<1>2. /\ call \in CallSet /\ c \in Callers /\ k \in 1 .. 6 /\ ask \in Asks
      /\ k <= step[c] /\ ask = QuestionAt(c, k)
  BY DEF TypeInv, CallSet, CallInv, Made
<1>3. system = "students" /\ k = 5 => Len(seen[c]) >= 4
  BY <1>2, Progress
<1>4. \A d \in Callers :
         /\ Extends(seen'[d], seen[d]) /\ step[d] <= step'[d]
         /\ step'[d] = step[d] /\ pc[d] # "idle" => pc'[d] # "idle"
  BY <1>1, NothingHeard
<1>5. QuestionAt(c, k)' = QuestionAt(c, k)
  BY <1>1, <1>2, <1>3, <1>4, QuestionStays
<1>6. PICK answer : answer = a
  OBVIOUS
<1>. HIDE DEF a, ask
<1>7. /\ answer \in Answers /\ Grows /\ Right(c, k, answer)' /\ EmailsUnique'
      /\ nextID' \in Nat \ 0 .. 3
      /\ data' \in [1 .. nextID' - 1 -> Stored]
  BY <1>1, <1>2, <1>5, <1>6, AnswerIsRight DEF a
<1>8. TypeInv'
  <2>1. requests' \subseteq CallSet /\ replies' \subseteq [call : CallSet, answer : Answers]
    BY <1>1, <1>2, <1>6, <1>7 DEF TypeInv
  <2>. QED
    BY <1>1, <1>7, <2>1 DEF TypeInv
<1>9. CallInv' /\ AnswerInv' /\ SeenInv'
  <2>1. /\ \A q \in requests : Made(q)'
        /\ \A m \in replies : Made(m.call)' /\ Right(m.call.from, m.call.step, m.answer)'
        /\ \A d \in Callers : \A i \in 1 .. Len(seen[d]) : Heard(d, i)'
    BY <1>1, <1>4, <1>7, <1>8, HistoryStays
  <2>2. PICK m : m = [call |-> call, answer |-> answer]
    OBVIOUS
  <2>3. m.call = call /\ m.answer = answer /\ replies' = replies \union {m}
    BY <1>1, <1>6, <2>2
  <2>4. Made(m.call)'
    BY <2>1, <2>3 DEF Made
  <2>5. Right(m.call.from, m.call.step, m.answer)'
    BY <1>7, <2>3 DEF Right
  <2>. QED
    BY <1>1, <2>1, <2>3, <2>4, <2>5 DEF CallInv, AnswerInv, SeenInv
<1>10. ProgressInv'
  BY <1>1 DEF TypeInv, ProgressInv, Calls, Good
<1>11. RepliesAreExplained'
  BY <1>1 DEF TypeInv, RepliesAreExplained
<1>12. FatalInv'
  BY <1>1, <1>7 DEF TypeInv, FatalInv, Grows
<1>. QED
  BY <1>7, <1>8, <1>9, <1>10, <1>11, <1>12

\* What a caller that waits hears is an answer to its question, which it
\* judges rightly.
LEMMA HeardNow ==
    ASSUME IInv, NEW c \in Callers, pc[c] = "waiting", NEW a \in Answers,
           Right(c, step[c], a)
    PROVE  /\ system = "orders" => Good(a) /\ OrderUser[wants[c].order] \in Users
           /\ system = "tasks" => (Good(a) <=> wants[c].token = "valid")
           /\ system = "students" /\ restarts = 0 =>
                 /\ step[c] \notin {4, 6} => Good(a)
                 /\ step[c] = 6 /\ nextID <= 999 => a.status = "NotFound"
<1>. USE DEF IInv
<1>1. PICK k \in 1 .. 6 : k = step[c]
  BY QuestionNow
<1>2. Question(c) = QuestionAt(c, k) /\ Right(c, k, a)
  BY <1>1, QuestionNow
<1>3. CASE system = "orders"
  <2>1. wants[c].order \in DOMAIN OrderUser
    BY <1>3 DEF ProgressInv
  <2>2. OrderUser[wants[c].order] \in Users
    BY <2>1 DEF OrderUser, Users
  <2>3. QuestionAt(c, k) = User(OrderUser[wants[c].order])
    BY <1>2, <1>3 DEF Question
  <2>. QED
    BY <1>2, <1>3, <2>2, <2>3, AskingType DEF Right, Good
<1>4. CASE system = "tasks"
  <2>1. QuestionAt(c, k) = Token(wants[c].token)
    BY <1>2, <1>4 DEF Question
  <2>. QED
    BY <1>2, <1>4, <2>1, AskingType DEF Right, Good
<1>5. CASE system = "students"
  <2>1. /\ k = 1 => QuestionAt(c, k) = Asking("ping")
        /\ k = 2 => QuestionAt(c, k) = Get(1)
        /\ k = 3 => QuestionAt(c, k) = Asking("list")
        /\ k = 5 => QuestionAt(c, k) = Get(seen[c][4].id)
        /\ k = 6 => QuestionAt(c, k) = Get(999)
    BY <1>5 DEF QuestionAt
  <2>2. /\ k \in {1, 3} => a.status = "OK"
        /\ restarts = 0 /\ k \in {2, 5} => a.status = "OK"
        /\ restarts = 0 /\ k = 6 /\ nextID <= 999 => a.status = "NotFound"
    BY <1>2, <2>1, AskingType DEF Right, Found
  <2>. QED
    BY <1>1, <1>5, <2>2 DEF Good
<1>. QED
  BY <1>3, <1>4, <1>5

\* A caller keeps what it learns, and moves on or ends.
LEMMA LearnStep ==
    ASSUME IInv, NEW c \in Callers, pc[c] = "waiting", NEW a \in Answers, Learn(c, a),
           Right(c, step[c], a) \/ (system = "posts" /\ a.status = "lost"),
           UNCHANGED <<system, wants, requests, replies, data, nextID, restarts>>
    PROVE  IInv'
<1>. USE DEF IInv
<1>1. PICK k \in 1 .. 6 : k = step[c]
  BY QuestionNow
<1>2. Len(seen[c]) = k - 1 /\ reply[c] = "none" /\ k <= Calls
  BY <1>1 DEF ProgressInv
<1>3. /\ seen' = [seen EXCEPT ![c] = Append(seen[c], a)]
      /\ \/ /\ k = Calls /\ step' = step
            /\ pc' = [pc EXCEPT ![c] = "done"]
            /\ reply' = [reply EXCEPT ![c] = Outcome(c, LastGood(c, a))]
         \/ /\ k # Calls /\ (Good(a) \/ system = "posts")
            /\ step' = [step EXCEPT ![c] = k + 1]
            /\ pc' = [pc EXCEPT ![c] = "idle"]
            /\ reply' = reply
         \/ /\ k # Calls /\ ~Good(a) /\ system # "posts" /\ step' = step
            /\ pc' = [pc EXCEPT ![c] = "done"]
            /\ reply' = [reply EXCEPT ![c] = Outcome(c, FALSE)]
  BY <1>1 DEF Learn, Last, Finish
<1>4. /\ Calls \in 1 .. 6
      /\ system \in {"orders", "tasks"} => Calls = 1
      /\ system = "posts" => Calls = 2
      /\ system = "students" => Calls = 6
  BY DEF Calls, TypeInv
<1>5. /\ seen'[c] \in Seq(Answers) /\ Len(seen'[c]) = k /\ seen'[c][k] = a
      /\ \A i \in 1 .. k - 1 : seen'[c][i] = seen[c][i]
      /\ seen[c] \in Seq(Answers)
  <2>1. seen[c] \in Seq(Answers) /\ seen'[c] = Append(seen[c], a)
    BY <1>3 DEF TypeInv
  <2>. QED
    BY <1>2, <2>1
\* The three ways to go on.
<1>. DEFINE Ends == k = Calls /\ step' = step /\ pc'[c] = "done"
            Goes == /\ k < Calls /\ (Good(a) \/ system = "posts")
                    /\ step'[c] = k + 1 /\ pc'[c] = "idle" /\ reply'[c] = "none"
            Fails == /\ k < Calls /\ ~Good(a) /\ system = "students"
                     /\ step' = step /\ pc'[c] = "done" /\ reply'[c] = "fatal"
<1>6. Ends \/ Goes \/ Fails
  <2>1. pc \in [Callers -> {"idle", "waiting", "done"}] /\ step \in [Callers -> 1 .. 6]
        /\ c \in DOMAIN reply
    BY DEF TypeInv
  <2>2. k # Calls => k < Calls
    BY <1>2, <1>4
  <2>3. k # Calls => system \in {"students", "posts"}
    BY <1>2, <1>4 DEF TypeInv
  <2>4. system = "students" => Outcome(c, FALSE) = "fatal"
    BY DEF Outcome
  <2>. QED
    BY <1>2, <1>3, <2>1, <2>2, <2>3, <2>4
<1>7. Ends => /\ system = "orders" =>
                    reply'[c] = "200" /\ OrderUser[wants[c].order] \in Users
              /\ system = "tasks" =>
                    reply'[c] = IF wants[c].token = "valid" THEN "200" ELSE "401"
              /\ system = "posts" => reply'[c] = "ok"
              /\ system = "students" =>
                    reply'[c] = IF a.status = "NotFound" THEN "ok" ELSE "fatal"
  <2>1. Ends => reply'[c] = Outcome(c, LastGood(c, a))
    BY <1>3 DEF TypeInv
  <2>2. /\ system = "orders" => Good(a) /\ OrderUser[wants[c].order] \in Users
        /\ system = "tasks" => (Good(a) <=> wants[c].token = "valid")
    BY HeardNow
  <2>3. system = "orders" => LastGood(c, a) = Good(a) /\ Outcome(c, TRUE) = "200"
    BY DEF LastGood, Outcome
  <2>4. system = "tasks" =>
          LastGood(c, a) = Good(a) /\ Outcome(c, TRUE) = "200" /\ Outcome(c, FALSE) = "401"
    BY DEF LastGood, Outcome
  <2>5. system = "posts" => LastGood(c, a) = TRUE /\ Outcome(c, TRUE) = "ok"
    BY DEF LastGood, Outcome
  <2>6. system = "students" =>
          /\ LastGood(c, a) = (a.status = "NotFound")
          /\ Outcome(c, TRUE) = "ok" /\ Outcome(c, FALSE) = "fatal"
    BY DEF LastGood, Outcome
  <2>7. Good(a) \in BOOLEAN /\ (a.status = "NotFound") \in BOOLEAN
    BY DEF Good
  <2>. QED
    BY <2>1, <2>2, <2>3, <2>4, <2>5, <2>6, <2>7
<1>8. TypeInv'
  <2>1. seen' \in [Callers -> Seq(Answers)]
    BY <1>3, <1>5 DEF TypeInv
  <2>2. step' \in [Callers -> 1 .. 6]
    <3>1. step' = step \/ (step' = [step EXCEPT ![c] = k + 1] /\ k + 1 \in 1 .. 6)
      <4>1. k # Calls => k + 1 \in 1 .. 6
        BY <1>2, <1>4
      <4>. QED
        BY <1>3, <4>1
    <3>. QED
      BY <3>1 DEF TypeInv
  <2>3. pc' \in [Callers -> {"idle", "waiting", "done"}]
    BY <1>3 DEF TypeInv
  <2>4. reply' \in [Callers -> {"none", "200", "401", "404", "502", "ok", "fatal"}]
    BY <1>3, <1>6, <1>7 DEF TypeInv
  <2>. QED
    BY <2>1, <2>2, <2>3, <2>4 DEF TypeInv
\* What becomes of the others, and of c.
<1>9. \A d \in Callers \ {c} :
         /\ step'[d] = step[d] /\ pc'[d] = pc[d]
         /\ reply'[d] = reply[d] /\ seen'[d] = seen[d]
  BY <1>3 DEF TypeInv
<1>10. /\ Grows
       /\ \A d \in Callers : /\ Extends(seen'[d], seen[d]) /\ step[d] <= step'[d]
                             /\ step'[d] = step[d] /\ pc[d] # "idle" => pc'[d] # "idle"
  <2>1. Grows
    BY DEF Grows, TypeInv
  <2>2. ASSUME NEW d \in Callers \ {c} PROVE Extends(seen'[d], seen[d]) /\ step[d] <= step'[d]
    BY <1>9, Progress DEF Extends
  <2>3. Extends(seen'[c], seen[c]) /\ step[c] <= step'[c]
    BY <1>1, <1>2, <1>5, <1>6 DEF Extends
  <2>4. step'[c] = step[c] => pc'[c] # "idle"
    BY <1>1, <1>6
  <2>. QED
    BY <1>9, <2>1, <2>2, <2>3, <2>4
<1>11. /\ \A call \in requests : Made(call)'
       /\ \A m \in replies : Made(m.call)' /\ Right(m.call.from, m.call.step, m.answer)'
       /\ \A d \in Callers : \A i \in 1 .. Len(seen[d]) : Heard(d, i)'
  BY <1>8, <1>10, HistoryStays
<1>12. CallInv' /\ AnswerInv'
  BY <1>11 DEF CallInv, AnswerInv
<1>13. SeenInv'
  <2>1. Right(c, k, a) => Right(c, k, a)'
    <3>1. k = 2 => seen'[c][1] = seen[c][1]
      BY <1>5
    <3>2. QuestionAt(c, k)' = QuestionAt(c, k)
      BY <1>2, <1>10, QuestionStays
    <3>. QED
      BY <1>8, <1>10, <3>1, <3>2, RightStays
  <2>2. Right(c, k, a) \/ (system' = "posts" /\ a.status = "lost")
    BY <1>1 DEF Right, Told, Found
  <2>3. Heard(c, k)'
    BY <1>5, <2>1, <2>2 DEF Heard, Right, Told, Found
  <2>4. ASSUME NEW d \in Callers, NEW i \in 1 .. Len(seen'[d]) PROVE Heard(d, i)'
    <3>1. CASE d = c /\ i = k
      BY <2>3, <3>1 DEF Heard, Right, Told, Found
    <3>2. CASE d # c \/ i # k
      <4>1. i \in 1 .. Len(seen[d])
        BY <1>2, <1>5, <1>9, <3>2
      <4>. QED
        BY <1>11, <4>1
    <3>. QED
      BY <3>1, <3>2
  <2>. QED
    BY <2>4 DEF SeenInv
<1>14. ProgressInv'
  <2>1. ASSUME NEW d \in Callers \ {c}
        PROVE  /\ step'[d] <= Calls' /\ Len(seen'[d]) \in {step'[d] - 1, step'[d]}
               /\ pc'[d] # "done" => Len(seen'[d]) = step'[d] - 1 /\ reply'[d] = "none"
               /\ system' # "posts" => \A i \in 1 .. step'[d] - 1 : Good(seen'[d][i])
               /\ system' = "orders" /\ pc'[d] = "waiting" => wants'[d].order \in DOMAIN OrderUser
    BY <1>9 DEF ProgressInv, Calls
  <2>2. /\ step'[c] <= Calls' /\ Len(seen'[c]) \in {step'[c] - 1, step'[c]}
        /\ pc'[c] # "done" => Len(seen'[c]) = step'[c] - 1 /\ reply'[c] = "none"
        /\ pc'[c] # "waiting"
    BY <1>1, <1>2, <1>4, <1>5, <1>6 DEF Calls
  <2>3. ASSUME system' # "posts", NEW i \in 1 .. step'[c] - 1 PROVE Good(seen'[c][i])
    <3>1. \A j \in 1 .. k - 1 : Good(seen[c][j])
      BY <1>1, <2>3 DEF ProgressInv
    <3>2. i \in 1 .. k - 1 \/ (i = k /\ Good(a))
      BY <1>1, <1>6, <2>3
    <3>. QED
      BY <1>5, <3>1, <3>2 DEF Good
  <2>. QED
    BY <2>1, <2>2, <2>3 DEF ProgressInv, Good
<1>15. EmailsUnique'
  BY DEF EmailsUnique
<1>16. RepliesAreExplained'
  <2>1. /\ reply'[c] = "200" =>
              IF system = "orders" THEN OrderUser[wants[c].order] \in Users
              ELSE wants[c].token = "valid"
        /\ reply'[c] \in {"200", "ok"} => Len(seen'[c]) = step'[c]
        /\ reply'[c] # "502"
        /\ reply'[c] = "401" => wants[c].token # "valid"
    BY <1>1, <1>5, <1>6, <1>7 DEF TypeInv
  <2>. QED
    BY <1>9, <2>1 DEF RepliesAreExplained
<1>17. FatalInv'
  <2>1. ASSUME restarts = 0, reply'[c] = "fatal", step'[c] # 4, step'[c] = 6 => nextID <= 999
        PROVE  FALSE
    <3>1. system = "students" /\ step'[c] = k /\ k # 4
      BY <1>1, <1>6, <1>7, <2>1 DEF TypeInv
    <3>2. /\ k # 6 => Good(a)
          /\ k = 6 /\ nextID <= 999 => a.status = "NotFound"
      BY <1>1, <2>1, <3>1, HeardNow
    <3>. QED
      BY <1>4, <1>6, <1>7, <2>1, <3>1, <3>2
  <2>. QED
    BY <1>9, <2>1 DEF FatalInv
<1>. QED
  BY <1>8, <1>12, <1>13, <1>14, <1>15, <1>16, <1>17

\* An answer that arrives is one that may be believed.
LEMMA ReceiveStep ==
    ASSUME IInv, NEW c \in Callers, Receive(c)
    PROVE  IInv'
<1>1. PICK m \in replies : m.call = Call(c) /\ Learn(c, m.answer)
  BY DEF Receive
<1>2. /\ pc[c] = "waiting"
      /\ UNCHANGED <<system, wants, requests, replies, data, nextID, restarts>>
  BY DEF Receive, peerVars
<1>3. m.answer \in Answers
  BY DEF IInv, TypeInv
<1>4. m.call.from = c /\ m.call.step = step[c]
  BY <1>1 DEF Call
<1>5. Right(m.call.from, m.call.step, m.answer)
  BY DEF IInv, AnswerInv
<1>. QED
  BY <1>1, <1>2, <1>3, <1>4, <1>5, LearnStep

\* A caller that has given up has heard nothing, and says so.
LEMMA GiveUpStep ==
    ASSUME IInv, NEW c \in Callers, GiveUp(c)
    PROVE  IInv'
<1>. USE DEF IInv
<1>1. /\ pc[c] = "waiting"
      /\ UNCHANGED <<system, wants, requests, replies, data, nextID, restarts>>
  BY DEF GiveUp, peerVars
<1>2. CASE system = "posts"
  <2>1. Learn(c, Status("lost"))
    BY <1>2 DEF GiveUp
  <2>2. Status("lost") \in Answers /\ Status("lost").status = "lost"
    BY DEF Status, Answers, Statuses, Addresses
  <2>. QED
    BY <1>1, <1>2, <2>1, <2>2, LearnStep
<1>3. CASE system # "posts"
  <2>1. /\ pc' = [pc EXCEPT ![c] = "done"]
        /\ reply' = [reply EXCEPT ![c] = Outcome(c, FALSE)]
        /\ UNCHANGED <<step, seen>>
    BY <1>3 DEF GiveUp, Finish
  <2>2. /\ system = "orders" => Outcome(c, FALSE) = "502"
        /\ system = "tasks" => Outcome(c, FALSE) = "401"
        /\ system = "students" => Outcome(c, FALSE) = "fatal"
    BY DEF Outcome
  <2>3. TypeInv'
    BY <1>1, <1>3, <2>1, <2>2 DEF TypeInv
  <2>4. /\ Grows
        /\ \A d \in Callers : /\ Extends(seen'[d], seen[d]) /\ step[d] <= step'[d]
                              /\ step'[d] = step[d] /\ pc[d] # "idle" => pc'[d] # "idle"
    <3>1. Grows
      BY <1>1 DEF Grows, TypeInv
    <3>2. \A d \in Callers : pc[d] # "idle" => pc'[d] # "idle"
      BY <2>1 DEF TypeInv
    <3>. QED
      BY <2>1, <3>1, <3>2, NothingHeard
  <2>5. CallInv' /\ AnswerInv' /\ SeenInv'
    BY <1>1, <2>1, <2>3, <2>4, HistoryStays DEF CallInv, AnswerInv, SeenInv
  <2>6. ProgressInv'
    BY <1>1, <2>1 DEF TypeInv, ProgressInv, Calls, Good
  <2>7. EmailsUnique'
    BY <1>1 DEF EmailsUnique
  <2>8. Len(seen[c]) = step[c] - 1 /\ step[c] \in 1 .. 6 /\ seen[c] \in Seq(Answers)
    BY <1>1, Progress DEF ProgressInv
  <2>9. system \in {"orders", "tasks"} => seen[c] = << >>
    <3>1. system \in {"orders", "tasks"} => step[c] <= 1
      BY DEF ProgressInv, Calls
    <3>. QED
      BY <2>8, <3>1, EmptySeq
  <2>10. RepliesAreExplained'
    BY <1>1, <1>3, <2>1, <2>2, <2>9 DEF TypeInv, RepliesAreExplained
  <2>11. FatalInv'
    <3>1. Len(seen[c]) < step[c]
      BY <2>8
    <3>2. \A d \in Callers \ {c} : reply'[d] = reply[d]
      BY <2>1 DEF TypeInv
    <3>. QED
      BY <1>1, <2>1, <3>1, <3>2 DEF FatalInv
  <2>. QED
    BY <2>3, <2>5, <2>6, <2>7, <2>10, <2>11
<1>. QED
  BY <1>2, <1>3

\* After a restart nothing is promised any more.
LEMMA RestartStep ==
    ASSUME IInv, Restart
    PROVE  IInv'
<1>. USE DEF IInv
<1>1. /\ restarts' \in 1 .. MaxRestarts
      /\ data' = Seeds /\ nextID' = 4 /\ requests' = {}
      /\ UNCHANGED <<system, wants, step, pc, reply, seen, replies>>
  BY RestartsAssumption DEF Restart, callerVars, TypeInv
<1>2. TypeInv'
  <2>1. data' \in [1 .. nextID' - 1 -> Stored]
    BY <1>1 DEF Seeds, Stored, Addresses
  <2>. QED
    BY <1>1, <2>1 DEF TypeInv
<1>3. /\ Grows
      /\ \A d \in Callers : /\ Extends(seen'[d], seen[d]) /\ step[d] <= step'[d]
                            /\ step'[d] = step[d] /\ pc[d] # "idle" => pc'[d] # "idle"
  BY <1>1, NothingHeard DEF Grows
<1>4. CallInv' /\ AnswerInv' /\ SeenInv'
  BY <1>1, <1>2, <1>3, HistoryStays DEF CallInv, AnswerInv, SeenInv
<1>5. ProgressInv'
  BY <1>1 DEF ProgressInv, Calls, Good
<1>6. EmailsUnique'
  BY <1>1 DEF Seeds, EmailsUnique
<1>7. RepliesAreExplained'
  BY <1>1 DEF RepliesAreExplained
<1>8. FatalInv'
  BY <1>1 DEF FatalInv
<1>. QED
  BY <1>2, <1>4, <1>5, <1>6, <1>7, <1>8

\* A step in which nothing changes.
LEMMA StutterStep ==
    ASSUME IInv, UNCHANGED vars
    PROVE  IInv'
<1>. USE DEF IInv
<1>1. UNCHANGED <<system, wants, step, pc, reply, seen, requests, replies,
                  data, nextID, restarts>>
  BY DEF vars, callerVars, peerVars
<1>2. TypeInv'
  BY <1>1 DEF TypeInv
<1>3. /\ Grows
      /\ \A d \in Callers : Extends(seen'[d], seen[d]) /\ step[d] <= step'[d]
  <2>1. Grows
    BY <1>1 DEF Grows, TypeInv
  <2>. QED
    BY <1>1, <2>1, NothingHeard
<1>4. CallInv' /\ AnswerInv' /\ SeenInv'
  BY <1>1, <1>2, <1>3, HistoryStays DEF CallInv, AnswerInv, SeenInv
<1>5. ProgressInv'
  BY <1>1 DEF ProgressInv, Calls, Good
<1>6. EmailsUnique' /\ RepliesAreExplained' /\ FatalInv'
  BY <1>1 DEF EmailsUnique, RepliesAreExplained, FatalInv
<1>. QED
  BY <1>2, <1>4, <1>5, <1>6

\* Every step keeps the invariant.
LEMMA NextIInv == IInv /\ [Next]_vars => IInv'
<1>. SUFFICES ASSUME IInv, [Next]_vars PROVE IInv'
  OBVIOUS
<1>1. ASSUME NEW c \in Callers, CallerStep(c) PROVE IInv'
  BY <1>1, RefuseStep, SendStep, ReceiveStep, GiveUpStep DEF CallerStep
<1>2. ASSUME NEW call \in requests, Handle(call) PROVE IInv'
  BY <1>2, HandleStep
<1>. QED
  BY <1>1, <1>2, RestartStep, StutterStep DEF Next

\* So it always holds.
LEMMA SpecIInv == Spec => []IInv
BY InitIInv, NextIInv, PTL DEF Spec
-----------------------------------------------------------------------------
(* What the run checks.                                                    *)

\* The variables have their types, ids are given out without gaps, and a caller
\* has heard of every call but perhaps the one it is at.
THEOREM TypeCorrect == Spec => []TypeOK
<1>1. IInv => TypeOK
  <2>. SUFFICES ASSUME IInv PROVE TypeOK
    OBVIOUS
  <2>1. \A c \in Callers : Len(seen[c]) \in {step[c] - 1, step[c]}
    BY DEF IInv, ProgressInv
  <2>2. DOMAIN data = 1 .. nextID - 1 /\ \A id \in DOMAIN data : data[id].plain
    BY DEF IInv, TypeInv, Stored
  <2>. QED
    BY <2>1, <2>2 DEF IInv, TypeInv, TypeOK
<1>. QED
  BY <1>1, SpecIInv, PTL

\* 200 means that the user exists or the token is valid, and a valid request is
\* refused only when no answer came back (clients of pz1 and pz7).
THEOREM AnswersTell == Spec => []RepliesAreExplained
<1>1. IInv => RepliesAreExplained
  BY DEF IInv
<1>. QED
  BY <1>1, SpecIInv, PTL

\* No two students have addresses that differ in capitals or spaces only
\* (Create of the repositories of pz2 and pz3).
THEOREM AddressesUnique == Spec => []EmailsUnique
<1>1. IInv => EmailsUnique
  BY DEF IInv
<1>. QED
  BY <1>1, SpecIInv, PTL

\* What a caller was told of its student is true and stays true until the
\* server is restarted, whatever answers were lost on the way (pz2 and pz3).
THEOREM ToldIsTrue == Spec => []CreatedIsFound
<1>1. IInv => CreatedIsFound
  <2>. SUFFICES ASSUME IInv, restarts = 0, NEW c \in Callers
       PROVE  /\ system = "students" /\ Len(seen[c]) >= 4 =>
                    CASE seen[c][4].status = "OK" ->
                           data[seen[c][4].id].address = wants[c].email.address
                      [] seen[c][4].status = "AlreadyExists" -> Exists(wants[c].email)
                      [] OTHER -> wants[c].email.address = NoEmail
              /\ system = "students" /\ Len(seen[c]) >= 5 =>
                    seen[c][5].id = seen[c][4].id /\ seen[c][5].address = seen[c][4].address
              /\ reply[c] = "fatal" /\ step[c] # 4 /\ (step[c] = 6 => nextID <= 999) =>
                    Len(seen[c]) < step[c]
              /\ system = "posts" /\ Len(seen[c]) = 2 /\ wants[c].email.address # NoEmail =>
                    /\ seen[c][1].status # "lost" => seen[c][2].status \in {"AlreadyExists", "lost"}
                    /\ seen[c][2].status = "AlreadyExists" => Exists(wants[c].email)
    BY DEF CreatedIsFound
  <2>. USE DEF IInv
  <2>1. system = "students" /\ Len(seen[c]) >= 4 => Told(wants[c].email, seen[c][4])
    BY ToldBefore
  <2>2. ASSUME system = "students", Len(seen[c]) >= 5
        PROVE  seen[c][5].id = seen[c][4].id /\ seen[c][5].address = seen[c][4].address
    <3>1. Right(c, 5, seen[c][5])
      BY <2>2, Progress DEF SeenInv, Heard
    <3>2. QuestionAt(c, 5) = Get(seen[c][4].id)
      BY <2>2 DEF QuestionAt
    <3>3. Found(seen[c][4].id, seen[c][5])
      BY <3>1, <3>2, AskingType DEF Right
    <3>4. Good(seen[c][4])
      BY <2>2, Progress DEF ProgressInv
    <3>5. Told(wants[c].email, seen[c][4])
      BY <2>1, <2>2, Progress
    <3>. QED
      BY <3>3, <3>4, <3>5 DEF Found, Told, Good
  <2>3. ASSUME system = "posts", Len(seen[c]) = 2, wants[c].email.address # NoEmail
        PROVE  /\ seen[c][1].status # "lost" => seen[c][2].status \in {"AlreadyExists", "lost"}
               /\ seen[c][2].status = "AlreadyExists" => Exists(wants[c].email)
    <3>1. Right(c, 2, seen[c][2]) \/ seen[c][2].status = "lost"
      BY <2>3 DEF SeenInv, Heard
    <3>2. QuestionAt(c, 2) = New("post", wants[c].email)
      BY <2>3 DEF QuestionAt, Question, ScriptCalls
    <3>3. ASSUME Right(c, 2, seen[c][2])
          PROVE  /\ seen[c][1].status # "lost" => seen[c][2].status = "AlreadyExists"
                 /\ Told(wants[c].email, seen[c][2])
      BY <2>3, <3>2, <3>3, AskingType DEF Right
    <3>. QED
      BY <3>1, <3>3 DEF Told
  <2>. QED
    BY <2>1, <2>2, <2>3 DEF Told, FatalInv
<1>. QED
  BY <1>1, SpecIInv, PTL
=============================================================================
