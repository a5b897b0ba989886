----------------------------- MODULE WebSession -----------------------------
(***************************************************************************)
(* pz6-web-security: sessions with a name, a list of comments and a CSRF   *)
(* token that every accepted POST replaces.  The store locks each call, a  *)
(* handler makes several: it gets a pointer to the profile, compares the   *)
(* token through that pointer without the lock, writes, makes a new token  *)
(* and stores it.  Other requests of the session, and a logout, come in    *)
(* between.                                                                *)
(*                                                                         *)
(* The unlocked comparison reads the token the profile has at some moment  *)
(* after Get.  Tokens all have one length, so a racing read is never torn. *)
(***************************************************************************)
EXTENDS Naturals, Sequences

CONSTANTS
    Sessions,       \* session ids RandomToken gives out, each once
    NamePosts,      \* requests POST /profile
    CommentPosts,   \* requests POST /comments
    NoSession       \* no session cookie

Posts == NamePosts \union CommentPosts

ASSUME PostsAssumption == NamePosts \intersect CommentPosts = {}
ASSUME NoSessionAssumption == NoSession \notin Sessions

\* CSRF tokens, numbered as they are made.  0 is a token nobody was given.
Token == Nat

VARIABLES
    \* store.Store; a profile outlives its entry in the map
    users,          \* session ids in the map
    profile,        \* the UserProfile of each session
    made,           \* tokens made so far
    \* the browsers
    seen,           \* tokens rendered into some form
    \* the handlers
    pc,             \* how far each POST is
    asks,           \* its cookie and its csrf_token
    reply,          \* its answer
    \* history
    wrote,          \* its name or comment was stored
    found,          \* the token of the session when the POST got the profile
    before          \* the POSTs answered by then

storeVars == <<users, profile, made>>
historyVars == <<wrote, found, before>>
vars == <<storeVars, seen, pc, asks, reply, historyVars>>

NoProfile == [name |-> NoSession, token |-> 0, comments |-> << >>]

Init ==
    /\ users = {}
    /\ profile = [s \in Sessions |-> NoProfile]
    /\ made = 0
    /\ seen = {0}
    /\ pc = [r \in Posts |-> "new"]
    /\ asks = [r \in Posts |-> [session |-> NoSession, token |-> 0]]
    /\ reply = [r \in Posts |-> "none"]
    /\ wrote = [r \in Posts |-> FALSE]
    /\ found = [r \in Posts |-> 0]
    /\ before = [r \in Posts |-> {}]

Session(r) == asks[r].session

-----------------------------------------------------------------------------
(* The store: one critical section each.                                   *)

\* A mutated Store: the profile is reached through the pointer of the handler.
StoreByPointer(s, new) ==
    /\ profile' = [profile EXCEPT ![s] = new]
    /\ UNCHANGED users

\* UpdateName, AddComment and UpdateCSRF change a profile that is in the map.
Store(s, new) ==
    /\ s \in users
    /\ profile' = [profile EXCEPT ![s] = new]
    /\ UNCHANGED users

-----------------------------------------------------------------------------
(* Requests other than POST.                                               *)

\* A mutated Login: the profile is saved without a CSRFToken.
LoginWithoutToken(s) ==
    /\ profile[s] = NoProfile
    /\ users' = users \union {s}
    /\ profile' = [profile EXCEPT ![s] =
                     [name |-> "Student", token |-> 0, comments |-> << >>]]
    /\ UNCHANGED <<made, seen, pc, asks, reply, historyVars>>

\* GET /login: a fresh session id and a fresh token.
Login(s) ==
    /\ profile[s] = NoProfile
    /\ made' = made + 1
    /\ users' = users \union {s}
    /\ profile' = [profile EXCEPT ![s] =
                     [name |-> "Student", token |-> made', comments |-> << >>]]
    /\ UNCHANGED <<seen, pc, asks, reply, historyVars>>

\* GET /logout.
Logout(s) ==
    /\ s \in users
    /\ users' = users \ {s}
    /\ UNCHANGED <<profile, made, seen, pc, asks, reply, historyVars>>

\* A mutated Render: every form gets a token of its own.
RenderFresh(s) ==
    /\ s \in users
    /\ made' = made + 1
    /\ profile' = [profile EXCEPT ![s].token = made']
    /\ seen' = seen \union {made'}
    /\ UNCHANGED <<users, pc, asks, reply, historyVars>>

\* GET /profile and GET /comments render the token into a form.
Render(s) ==
    /\ s \in users
    /\ seen' = seen \union {profile[s].token}
    /\ UNCHANGED <<storeVars, pc, asks, reply, historyVars>>

-----------------------------------------------------------------------------
(* POST /profile and POST /comments.                                       *)

Goto(r, here) ==
    /\ pc' = [pc EXCEPT ![r] = here]
    /\ UNCHANGED reply

Answer(r, status) ==
    /\ pc' = [pc EXCEPT ![r] = "done"]
    /\ reply' = [reply EXCEPT ![r] = status]

\* currentProfile: a cookie that names no session in the map is sent to /login.
GetProfile(r, s, token) ==
    /\ pc[r] = "new"
    /\ asks' = [asks EXCEPT ![r] = [session |-> s, token |-> token]]
    /\ before' = [before EXCEPT ![r] = {q \in Posts : pc[q] = "done"}]
    /\ \/ /\ s \notin users
          /\ Answer(r, "login")
          /\ UNCHANGED found
       \/ /\ s \in users
          /\ found' = [found EXCEPT ![r] = profile[s].token]
          /\ Goto(r, "held")
    /\ UNCHANGED <<storeVars, seen, wrote>>

\* A mutated Matches: the token of any session is good.
MatchesAny(r) == \E s \in users : asks[r].token = profile[s].token

Matches(r) == asks[r].token = profile[Session(r)].token

\* The form may also be unreadable, or have a blank name or text.
Check(r) ==
    /\ pc[r] = "held"
    /\ \/ ~Matches(r) /\ Answer(r, "403")
       \/ Matches(r) /\ Goto(r, "checked")
       \/ Answer(r, "400")
    /\ UNCHANGED <<storeVars, seen, asks, historyVars>>

\* A mutated Written: the comment is appended to the list as it was when the
\* handler got the profile.
WrittenOver(r) ==
    LET p == profile[Session(r)]
    IN  IF r \in NamePosts THEN [p EXCEPT !.name = r]
        ELSE [p EXCEPT !.comments =
                Append(SelectSeq(@, LAMBDA c : c \in before[r]), r)]

\* The new name, and the text of the comment, are told apart by the request.
Written(r) ==
    LET p == profile[Session(r)]
    IN  IF r \in NamePosts THEN [p EXCEPT !.name = r]
        ELSE [p EXCEPT !.comments = Append(@, r)]

\* UpdateName or AddComment.
Write(r) ==
    /\ pc[r] = "checked"
    /\ \/ /\ Store(Session(r), Written(r))
          /\ wrote' = [wrote EXCEPT ![r] = TRUE]
          /\ Goto(r, "written")
       \/ /\ Session(r) \notin users
          /\ Answer(r, "401")
          /\ UNCHANGED <<users, profile, wrote>>
    /\ UNCHANGED <<made, seen, asks, found, before>>

\* A mutated Rotate: POST /comments leaves the token alone.
RotateNamesOnly(r) ==
    /\ pc[r] = "written"
    /\ \/ Answer(r, "500") /\ UNCHANGED storeVars
       \/ /\ Session(r) \in users
          /\ made' = made + 1
          /\ Store(Session(r), [profile[Session(r)] EXCEPT
                                  !.token = IF r \in NamePosts THEN made' ELSE @])
          /\ Answer(r, "303")
    /\ UNCHANGED <<seen, asks, historyVars>>

\* A mutated Rotate: the result of UpdateCSRF is not looked at.
RotateUnchecked(r) ==
    /\ pc[r] = "written"
    /\ made' = made + 1
    /\ Answer(r, "303")
    /\ \/ Store(Session(r), [profile[Session(r)] EXCEPT !.token = made'])
       \/ Session(r) \notin users /\ UNCHANGED <<users, profile>>
    /\ UNCHANGED <<seen, asks, historyVars>>

\* RandomToken, which may fail, and UpdateCSRF.
Rotate(r) ==
    /\ pc[r] = "written"
    /\ \/ Answer(r, "500") /\ UNCHANGED storeVars
       \/ /\ made' = made + 1
          /\ \/ /\ Store(Session(r), [profile[Session(r)] EXCEPT !.token = made'])
                /\ Answer(r, "303")
             \/ /\ Session(r) \notin users
                /\ Answer(r, "401")
                /\ UNCHANGED <<users, profile>>
    /\ UNCHANGED <<seen, asks, historyVars>>

-----------------------------------------------------------------------------

\* The token of the form is one that some page has shown, or none of them.
Begin(r) ==
    \E s \in Sessions \union {NoSession} : \E token \in seen : GetProfile(r, s, token)

PostStep(r) == Begin(r) \/ Check(r) \/ Write(r) \/ Rotate(r)

ProfilePost == \E r \in NamePosts : PostStep(r)
CommentsPost == \E r \in CommentPosts : PostStep(r)

Next ==
    \/ \E s \in Sessions : Login(s) \/ Logout(s) \/ Render(s)
    \/ ProfilePost
    \/ CommentsPost

Spec == Init /\ [][Next]_vars

-----------------------------------------------------------------------------
(* Properties.                                                             *)

TypeOK ==
    /\ users \subseteq Sessions
    /\ profile \in [Sessions ->
          [name : Posts \union {"Student", NoSession}, token : Token,
           comments : Seq(CommentPosts)]]
    /\ made \in Nat
    /\ \A s \in users : profile[s].token \in 1 .. made
    /\ seen \subseteq 0 .. made
    /\ pc \in [Posts -> {"new", "held", "checked", "written", "done"}]
    /\ asks \in [Posts -> [session : Sessions \union {NoSession}, token : Token]]
    /\ reply \in [Posts -> {"none", "login", "303", "400", "401", "403", "500"}]
    /\ wrote \in [Posts -> BOOLEAN] /\ found \in [Posts -> Token]
    /\ before \in [Posts -> SUBSET Posts]

\* After a successful POST its token is not accepted any more: no POST of the
\* session that begins after the answer writes with it.
OldTokenRefused ==
    \A q, r \in Posts :
        /\ reply[q] = "303" /\ q \in before[r]
        /\ asks[q] = asks[r]
        => ~wrote[r]

\* A POST writes only with a token its own session had at some moment during
\* the request: the one found, or one another POST of the session put in since.
WritesAreEntitled ==
    \A r \in Posts :
        wrote[r] =>
            /\ asks[r].token # 0
            /\ \/ asks[r].token = found[r]
               \/ \E q \in Posts \ (before[r] \union {r}) :
                     Session(q) = Session(r) /\ reply[q] = "303"
            /\ \A s \in Sessions \ {Session(r)} : profile[s].token # asks[r].token

\* A POST that presents the token of its session is refused as forbidden only
\* when another POST of the session replaced the token meanwhile.
ForbiddenIsExplained ==
    \A r \in Posts :
        reply[r] = "403" /\ asks[r].token = found[r] =>
            \E q \in Posts \ (before[r] \union {r}) :
                Session(q) = Session(r) /\ reply[q] = "303"

\* What the other answers mean: 303 that the change is stored and the token is
\* no longer the session's, 500 that the change is stored and only the rotation
\* failed, 401 that the session was logged out during the request.
AnswersAreExplained ==
    \A r \in Posts :
        /\ reply[r] = "303" => /\ wrote[r]
                               /\ profile[Session(r)].token # asks[r].token
        /\ reply[r] = "500" => wrote[r]
        /\ reply[r] = "401" => Session(r) \notin users /\ found[r] # 0
        /\ reply[r] \in {"login", "400", "403"} => ~wrote[r]

\* No stored comment is lost or doubled, however the POSTs of a session overlap.
CommentsKept ==
    \A s \in Sessions :
        LET list == profile[s].comments
        IN  /\ \A r \in CommentPosts :
                  wrote[r] /\ Session(r) = s <=> \E i \in DOMAIN list : list[i] = r
            /\ \A i, j \in DOMAIN list : list[i] = list[j] => i = j

\* A session that was logged out never comes back, and nobody who still holds
\* its profile changes it.
DeletedStaysDead ==
    [][\A s \in Sessions :
          profile[s] # NoProfile /\ s \notin users =>
              s \notin users' /\ profile'[s] = profile[s]]_vars
=============================================================================
