-------------------------- MODULE WebSessionProofs --------------------------
(***************************************************************************)
(* Proofs about WebSession for all sets of sessions and of POSTs: every    *)
(* invariant the runs check, and the action property.                      *)
(***************************************************************************)
EXTENDS WebSession, TLAPS

\* A POST that has got a profile and is not answered yet.
Busy == {"held", "checked", "written"}

\* Another POST of the session of r, answered after r began, gave the session a
\* new token.
Replaced(r) ==
    \E q \in Posts \ (before[r] \union {r}) :
        Session(q) = Session(r) /\ reply[q] = "303"

\* How far a POST is tells what it has done, and whether it is answered.
ProgressInv ==
    \A r \in Posts :
        /\ pc[r] = "done" <=> reply[r] # "none"
        /\ pc[r] \in {"new", "held", "checked"} => ~wrote[r]
        /\ pc[r] = "written" => wrote[r]
        /\ reply[r] \in {"303", "500"} => wrote[r]
        /\ reply[r] \in {"login", "400", "403"} => ~wrote[r]
        /\ \A q \in before[r] : pc[q] = "done"

\* A handler that is past currentProfile holds a profile that was stored once,
\* so that nobody can log in to its session again.
HoldInv ==
    \A r \in Posts :
        /\ asks[r].token \in 0 .. made
        /\ pc[r] \in Busy \/ wrote[r] \/ reply[r] = "401" =>
              /\ Session(r) \in Sessions
              /\ profile[Session(r)] # NoProfile
              /\ found[r] \in 1 .. made
        /\ reply[r] = "401" => Session(r) \notin users

\* Tokens are made once: no two sessions have one token, and none is ahead of
\* the counter.
TokenInv ==
    /\ \A s \in Sessions : profile[s].token \in 0 .. made
    /\ \A s \in Sessions : profile[s].token = 0 => profile[s] = NoProfile
    /\ \A s, t \in Sessions :
          profile[s].token = profile[t].token /\ profile[s].token # 0 => s = t

\* What a POST knows of the token of its session.
MatchInv ==
    \A r \in Posts :
        /\ pc[r] = "held" =>
              profile[Session(r)].token = found[r] \/ Replaced(r)
        /\ pc[r] \in {"checked", "written"} \/ wrote[r] =>
              /\ asks[r].token # 0
              /\ asks[r].token = found[r] \/ Replaced(r)
              /\ \A s \in Sessions \ {Session(r)} : profile[s].token # asks[r].token
        /\ reply[r] = "303" => profile[Session(r)].token # asks[r].token

\* A token that a successful POST has used up gets no later POST past Check.
UsedInv ==
    \A q, r \in Posts :
        reply[q] = "303" /\ q \in before[r] /\ asks[q] = asks[r] =>
            pc[r] \notin {"checked", "written"} /\ ~wrote[r]

IInv ==
    /\ TypeOK /\ ProgressInv /\ HoldInv /\ TokenInv /\ MatchInv /\ UsedInv
    /\ ForbiddenIsExplained /\ CommentsKept

-----------------------------------------------------------------------------

\* Nobody is logged in, and no POST has begun.
LEMMA InitIInv == Init => IInv
<1>. SUFFICES ASSUME Init PROVE IInv
  OBVIOUS
<1>. USE PostsAssumption, NoSessionAssumption DEF Init
<1>1. TypeOK
  BY DEF TypeOK, NoProfile, Token
<1>2. ProgressInv /\ UsedInv /\ ForbiddenIsExplained
  BY DEF ProgressInv, UsedInv, ForbiddenIsExplained
<1>3. HoldInv /\ TokenInv /\ MatchInv
  BY DEF HoldInv, TokenInv, MatchInv, Busy, NoProfile, Session
<1>4. CommentsKept
  <2>1. \A s \in Sessions : profile[s].comments = << >>
    BY DEF NoProfile
  <2>2. \A r \in CommentPosts : ~wrote[r]
    BY DEF Posts
  <2>3. DOMAIN << >> = {}
    OBVIOUS
  <2>4. \A s \in Sessions : DOMAIN profile[s].comments = {}
    BY <2>1, <2>3
  <2>. QED
    BY <2>2, <2>4 DEF CommentsKept
<1>. QED
  BY <1>1, <1>2, <1>3, <1>4 DEF IInv

\* Login gives a session that never had a profile a token nobody has.
LEMMA LoginStep ==
    ASSUME IInv, NEW s \in Sessions, Login(s)
    PROVE  IInv'
<1>. USE DEF IInv, Login, historyVars
<1>1. TypeOK'
  BY DEF TypeOK, Token
<1>2. ProgressInv' /\ UsedInv' /\ ForbiddenIsExplained'
  BY DEF ProgressInv, UsedInv, ForbiddenIsExplained, Session
<1>3. HoldInv'
  BY DEF HoldInv, TypeOK, Session, NoProfile, Token
<1>4. TokenInv'
  BY DEF TokenInv, TypeOK, Token, NoProfile
<1>5. MatchInv'
  BY DEF MatchInv, HoldInv, Replaced, TypeOK, Session, Token, Busy
<1>6. CommentsKept'
  BY DEF CommentsKept, NoProfile, TypeOK, Session, HoldInv
<1>. QED
  BY <1>1, <1>2, <1>3, <1>4, <1>5, <1>6

\* Logout and the pages with a form change no profile and no POST.
LEMMA PageStep ==
    ASSUME IInv, NEW s \in Sessions, Logout(s) \/ Render(s)
    PROVE  IInv'
<1>. USE DEF IInv, Logout, Render, storeVars, historyVars
<1>1. TypeOK'
  <2>1. profile[s].token \in 0 .. made
    BY DEF TokenInv
  <2>2. seen' \subseteq 0 .. made /\ users' \subseteq users
    BY <2>1 DEF TypeOK
  <2>. QED
    BY <2>2 DEF TypeOK
<1>2. ProgressInv' /\ UsedInv' /\ ForbiddenIsExplained' /\ CommentsKept'
  BY DEF ProgressInv, UsedInv, ForbiddenIsExplained, CommentsKept, Session
<1>3. HoldInv' /\ TokenInv'
  BY DEF HoldInv, TokenInv, Session
<1>4. MatchInv'
  BY DEF MatchInv, Replaced, Session
<1>. QED
  BY <1>1, <1>2, <1>3, <1>4

\* What a POST gets at its beginning: the profile, or an answer.
LEMMA BeginStep ==
    ASSUME IInv, NEW r \in Posts, Begin(r)
    PROVE  IInv'
<1>. PICK s \in Sessions \union {NoSession}, token \in seen : GetProfile(r, s, token)
  BY DEF Begin
<1>. USE NoSessionAssumption DEF IInv, GetProfile, Answer, Goto, storeVars
<1>0. /\ made \in Nat /\ token \in 0 .. made /\ token \in Token
      /\ ~wrote[r] /\ reply[r] = "none" /\ pc[r] = "new"
      /\ asks' = [asks EXCEPT ![r] = [session |-> s, token |-> token]]
      /\ UNCHANGED <<profile, made, users, wrote>>
  BY DEF TypeOK, Token, ProgressInv
<1>a. ASSUME s \notin users /\ Answer(r, "login") /\ UNCHANGED found
      PROVE  TypeOK' /\ HoldInv' /\ MatchInv'
  <2>1. TypeOK'
    BY <1>0, <1>a DEF TypeOK
  <2>2. HoldInv'
    BY <1>0, <1>a DEF HoldInv, ProgressInv, TypeOK, Session, Busy
  <2>3. /\ \A q \in Posts \ {r} :
              /\ asks'[q] = asks[q] /\ pc'[q] = pc[q] /\ reply'[q] = reply[q]
              /\ before'[q] = before[q] /\ found'[q] = found[q]
        /\ pc'[r] = "done" /\ reply'[r] = "login" /\ ~wrote'[r]
    BY <1>0, <1>a DEF TypeOK
  <2>4. \A q \in Posts \ {r} : Replaced(q) => Replaced(q)'
    BY <1>0, <2>3 DEF Replaced, Session
  <2>5. MatchInv'
    BY <1>0, <2>3, <2>4 DEF MatchInv, Session
  <2>. QED
    BY <2>1, <2>2, <2>5
<1>b. ASSUME /\ s \in users
             /\ found' = [found EXCEPT ![r] = profile[s].token]
             /\ Goto(r, "held")
      PROVE  TypeOK' /\ HoldInv' /\ MatchInv'
  <2>0. s \in Sessions /\ profile[s].token \in 1 .. made /\ profile[s].token \in Token
    BY <1>0, <1>b DEF TypeOK, Token
  <2>1. TypeOK'
    BY <1>0, <1>b, <2>0 DEF TypeOK
  <2>2. profile[s] # NoProfile
    BY <2>0 DEF NoProfile
  <2>3. HoldInv'
    BY <1>0, <1>b, <2>0, <2>2 DEF HoldInv, ProgressInv, TypeOK, Session, Busy
  <2>4. MatchInv'
    BY <1>0, <1>b, <2>0 DEF MatchInv, ProgressInv, Replaced, TypeOK, Session
  <2>. QED
    BY <2>1, <2>3, <2>4
<1>1. TypeOK' /\ HoldInv' /\ MatchInv'
  BY <1>a, <1>b
<1>2. ProgressInv'
  BY DEF ProgressInv, TypeOK
<1>3. TokenInv'
  BY DEF TokenInv
<1>4. UsedInv' /\ ForbiddenIsExplained'
  BY DEF UsedInv, ForbiddenIsExplained, ProgressInv, TypeOK, Session
<1>5. CommentsKept'
  BY DEF CommentsKept, ProgressInv, TypeOK, Session, Posts
<1>. QED
  BY <1>1, <1>2, <1>3, <1>4, <1>5

\* Check answers, or lets a POST past whose token is the session's.
LEMMA CheckStep ==
    ASSUME IInv, NEW r \in Posts, Check(r)
    PROVE  IInv'
<1>. USE DEF IInv, Check, Matches, Answer, Goto, storeVars, historyVars
<1>1. TypeOK'
  BY DEF TypeOK
<1>2. ProgressInv'
  BY DEF ProgressInv, TypeOK
<1>3. HoldInv' /\ TokenInv'
  BY DEF HoldInv, TokenInv, TypeOK, Session, Busy
<1>4. MatchInv'
  BY DEF MatchInv, HoldInv, TokenInv, ProgressInv, Replaced, TypeOK, Session, Busy, Token
<1>5. UsedInv'
  BY DEF UsedInv, MatchInv, ProgressInv, TypeOK, Session
<1>6. ForbiddenIsExplained'
  BY DEF ForbiddenIsExplained, MatchInv, ProgressInv, Replaced, TypeOK, Session
<1>7. CommentsKept'
  BY DEF CommentsKept, Session
<1>. QED
  BY <1>1, <1>2, <1>3, <1>4, <1>5, <1>6, <1>7

\* A session that is gone: the answer is 401 and nothing is stored.  (Of Rotate
\* this is the step with a new token that found no place.)
LEMMA GoneStep ==
    ASSUME IInv, NEW r \in Posts, pc[r] \in {"checked", "written"},
           Session(r) \notin users, Answer(r, "401"),
           made' \in {made, made + 1},
           UNCHANGED <<users, profile, seen, asks, historyVars>>
    PROVE  IInv'
<1>. USE DEF IInv, Answer, historyVars
<1>0. made \in Nat /\ made' \in Nat /\ made <= made'
  BY DEF TypeOK
<1>1. TypeOK'
  BY <1>0 DEF TypeOK
<1>2. ProgressInv'
  BY DEF ProgressInv, TypeOK
<1>3. HoldInv'
  BY <1>0 DEF HoldInv, TypeOK, Session, Busy
<1>4. TokenInv'
  BY <1>0 DEF TokenInv
<1>5. MatchInv'
  BY DEF MatchInv, ProgressInv, Replaced, TypeOK, Session
<1>6. UsedInv'
  BY DEF UsedInv, ProgressInv, TypeOK, Session
<1>7. ForbiddenIsExplained'
  BY DEF ForbiddenIsExplained, ProgressInv, TypeOK, Session
<1>8. CommentsKept'
  BY DEF CommentsKept, Session
<1>. QED
  BY <1>1, <1>2, <1>3, <1>4, <1>5, <1>6, <1>7, <1>8

\* Write changes the name or the comments of a profile, never its token.
LEMMA WriteStep ==
    ASSUME IInv, NEW r \in Posts, Write(r),
           Store(Session(r), Written(r)),
           wrote' = [wrote EXCEPT ![r] = TRUE],
           Goto(r, "written")
    PROVE  IInv'
<1>. USE DEF IInv, Write, Goto
<1>. DEFINE s == Session(r)
            p == Written(r)
<1>0. /\ s \in Sessions /\ s \in users /\ ~wrote[r] /\ pc[r] = "checked"
      /\ profile' = [profile EXCEPT ![s] = p]
      /\ UNCHANGED <<users, made, seen, asks, reply, found, before>>
  BY DEF Store, HoldInv, Busy, ProgressInv
<1>1. /\ p.token = profile[s].token /\ p # NoProfile
      /\ p \in [name : Posts \union {"Student", NoSession}, token : Token,
                 comments : Seq(CommentPosts)]
      /\ r \in CommentPosts => p.comments = Append(profile[s].comments, r)
      /\ r \in NamePosts => p.comments = profile[s].comments
  <2>1. /\ profile[s] \in [name : Posts \union {"Student", NoSession}, token : Token,
                            comments : Seq(CommentPosts)]
        /\ profile[s].token \in 1 .. made /\ made \in Nat
    BY <1>0 DEF TypeOK
  <2>2. CASE r \in NamePosts
    BY <2>1, <2>2, PostsAssumption DEF Written, Posts, NoProfile
  <2>3. CASE r \in CommentPosts
    <3>1. r \notin NamePosts /\ p = [profile[s] EXCEPT !.comments = Append(@, r)]
      BY <2>3, PostsAssumption DEF Written
    <3>2. Append(profile[s].comments, r) \in Seq(CommentPosts)
      BY <2>1, <2>3
    <3>3. p.token = profile[s].token /\ p.comments = Append(profile[s].comments, r)
      BY <2>1, <3>1
    <3>4. p = [name |-> profile[s].name, token |-> profile[s].token,
               comments |-> Append(profile[s].comments, r)]
      BY <2>1, <3>1
    <3>5. p # NoProfile
      BY <2>1, <3>3 DEF NoProfile
    <3>6. p \in [name : Posts \union {"Student", NoSession}, token : Token,
                 comments : Seq(CommentPosts)]
      BY <2>1, <3>2, <3>4
    <3>. QED
      BY <2>3, <3>1, <3>3, <3>5, <3>6
  <2>. QED
    BY <2>2, <2>3 DEF Posts
<1>2. /\ \A t \in Sessions : profile'[t].token = profile[t].token
      /\ \A t \in Sessions : profile[t] # NoProfile => profile'[t] # NoProfile
      /\ \A t \in Sessions : profile[t].token = 0 => profile'[t] = profile[t]
  BY <1>0, <1>1 DEF TypeOK
<1>3. TypeOK'
  BY <1>0, <1>1 DEF TypeOK
<1>4. ProgressInv'
  BY <1>0 DEF ProgressInv, TypeOK
<1>5. HoldInv'
  BY <1>0, <1>2 DEF HoldInv, TypeOK, Session, Busy
<1>6. TokenInv'
  BY <1>0, <1>2 DEF TokenInv
<1>7. MatchInv'
  BY <1>0, <1>2 DEF MatchInv, HoldInv, ProgressInv, Replaced, TypeOK, Session, Busy
<1>8. UsedInv' /\ ForbiddenIsExplained'
  <2>1. \A q \in Posts : pc[q] = "done" => ~(q = r)
    BY <1>0
  <2>2. UsedInv'
    BY <1>0 DEF UsedInv, TypeOK
  <2>3. ForbiddenIsExplained'
    BY <1>0 DEF ForbiddenIsExplained, Session
  <2>. QED
    BY <2>2, <2>3
<1>9. CommentsKept'
  <2>1. ASSUME NEW t \in Sessions, t # s
        PROVE  profile'[t] = profile[t]
    BY <1>0, <2>1 DEF TypeOK
  <2>2. CASE r \in NamePosts
    BY <1>0, <1>1, <2>1, <2>2, PostsAssumption DEF CommentsKept, TypeOK, Session
  <2>3. CASE r \in CommentPosts
    <3>. DEFINE old == profile[s].comments
                new == profile'[s].comments
    <3>1. /\ old \in Seq(CommentPosts) /\ new = Append(old, r)
          /\ \A i \in DOMAIN old : old[i] # r
      BY <1>0, <1>1, <2>3 DEF CommentsKept, TypeOK
    <3>2. /\ DOMAIN new = DOMAIN old \union {Len(old) + 1}
          /\ Len(old) + 1 \notin DOMAIN old
          /\ new[Len(old) + 1] = r
          /\ \A i \in DOMAIN old : new[i] = old[i]
      BY <3>1
    <3>3. /\ \A q \in Posts \ {r} : wrote'[q] = wrote[q]
          /\ wrote'[r]
          /\ \A q \in Posts : asks'[q] = asks[q]
      BY <1>0 DEF TypeOK
    <3>4. ASSUME NEW q \in CommentPosts
          PROVE  wrote'[q] /\ Session(q) = s <=> \E i \in DOMAIN new : new[i] = q
      <4>1. wrote[q] /\ Session(q) = s <=> \E i \in DOMAIN old : old[i] = q
        BY <1>0 DEF CommentsKept
      <4>2. CASE q = r
        BY <3>2, <3>3, <4>2
      <4>3. CASE q # r
        BY <3>2, <3>3, <4>1, <4>3 DEF Posts
      <4>. QED
        BY <4>2, <4>3
    <3>5. \A i, j \in DOMAIN new : new[i] = new[j] => i = j
      <4>1. \A i, j \in DOMAIN old : old[i] = old[j] => i = j
        BY <1>0 DEF CommentsKept
      <4>. QED
        BY <3>1, <3>2, <4>1
    <3>6. ASSUME NEW t \in Sessions, t # s, NEW q \in CommentPosts
          PROVE  wrote'[q] /\ Session(q) = t <=> wrote[q] /\ Session(q) = t
      BY <3>3, <3>6 DEF Posts
    <3>. QED
      BY <1>0, <2>1, <3>4, <3>5, <3>6 DEF CommentsKept, Session
  <2>. QED
    BY <2>2, <2>3 DEF Posts
<1>. QED
  BY <1>3, <1>4, <1>5, <1>6, <1>7, <1>8, <1>9

\* RandomToken failed: the answer is 500, and what was written stays.
LEMMA UnrotatedStep ==
    ASSUME IInv, NEW r \in Posts, pc[r] = "written",
           Answer(r, "500"), UNCHANGED <<storeVars, seen, asks, historyVars>>
    PROVE  IInv'
<1>. USE DEF IInv, Answer, storeVars, historyVars
<1>1. TypeOK'
  BY DEF TypeOK
<1>2. ProgressInv'
  BY DEF ProgressInv, TypeOK
<1>3. HoldInv' /\ TokenInv'
  BY DEF HoldInv, TokenInv, TypeOK, Session, Busy
<1>4. MatchInv'
  BY DEF MatchInv, ProgressInv, Replaced, TypeOK, Session
<1>5. UsedInv'
  BY DEF UsedInv, ProgressInv, TypeOK
<1>6. ForbiddenIsExplained'
  BY DEF ForbiddenIsExplained, ProgressInv, TypeOK, Session
<1>7. CommentsKept'
  BY DEF CommentsKept, Session
<1>. QED
  BY <1>1, <1>2, <1>3, <1>4, <1>5, <1>6, <1>7

\* Rotate gives the session a token nobody has, and the answer is 303.
LEMMA RotatedStep ==
    ASSUME IInv, NEW r \in Posts, pc[r] = "written", made' = made + 1,
           Store(Session(r), [profile[Session(r)] EXCEPT !.token = made']),
           Answer(r, "303"), UNCHANGED <<seen, asks, historyVars>>
    PROVE  IInv'
<1>. USE DEF IInv, Answer, historyVars
<1>. DEFINE s == Session(r)
            p == [profile[s] EXCEPT !.token = made']
<1>0. /\ s \in Sessions /\ s \in users /\ wrote[r] /\ made \in Nat
      /\ made' = made + 1 /\ made' \in Nat /\ made' \in Token
      /\ profile' = [profile EXCEPT ![s] = p]
      /\ UNCHANGED <<users, asks, wrote, found, before>>
  BY DEF Store, HoldInv, Busy, ProgressInv, TypeOK, Token
<1>1. /\ p.token = made + 1 /\ p # NoProfile
      /\ p \in [name : Posts \union {"Student", NoSession}, token : Token,
                 comments : Seq(CommentPosts)]
      /\ p.comments = profile[s].comments
  <2>1. profile[s] \in [name : Posts \union {"Student", NoSession}, token : Token,
                        comments : Seq(CommentPosts)]
    BY <1>0 DEF TypeOK
  <2>. QED
    BY <1>0, <2>1 DEF NoProfile
<1>2. /\ profile'[s] = p
      /\ \A t \in Sessions : t # s => profile'[t] = profile[t]
  BY <1>0 DEF TypeOK
<1>3. TypeOK'
  BY <1>0, <1>1, <1>2 DEF TypeOK
<1>4. ProgressInv'
  BY <1>0 DEF ProgressInv, TypeOK
<1>5. HoldInv'
  BY <1>0, <1>1, <1>2 DEF HoldInv, TypeOK, Session, Busy
<1>6. TokenInv'
  BY <1>0, <1>1, <1>2 DEF TokenInv
<1>7. MatchInv'
  <2>1. /\ pc'[r] = "done" /\ reply'[r] = "303"
        /\ \A q \in Posts \ {r} : pc'[q] = pc[q] /\ reply'[q] = reply[q]
    BY DEF TypeOK
  <2>2. \A q \in Posts : Replaced(q) => Replaced(q)'
    BY <1>0, <2>1 DEF Replaced, Session, ProgressInv
  <2>3. ASSUME NEW q \in Posts, pc[q] = "held", Session(q) = s
        PROVE  Replaced(q)'
    BY <1>0, <2>1, <2>3 DEF Replaced, Session, ProgressInv
  <2>4. ASSUME NEW q \in Posts
        PROVE  /\ asks[q].token \in 0 .. made
               /\ asks[q].token # made + 1
    BY <1>0 DEF HoldInv
  <2>5. ASSUME NEW q \in Posts, pc'[q] = "held"
        PROVE  profile'[Session(q)].token = found[q] \/ Replaced(q)'
    <3>1. pc[q] = "held" /\ Session(q) \in Sessions
      BY <2>1, <2>5 DEF HoldInv, Busy
    <3>2. CASE Session(q) = s
      BY <2>3, <3>1, <3>2
    <3>3. CASE Session(q) # s
      BY <1>2, <2>2, <3>1, <3>3 DEF MatchInv
    <3>. QED
      BY <3>2, <3>3
  <2>6. ASSUME NEW q \in Posts, pc'[q] \in {"checked", "written"} \/ wrote[q]
        PROVE  /\ asks[q].token # 0
               /\ asks[q].token = found[q] \/ Replaced(q)'
               /\ \A t \in Sessions \ {Session(q)} : profile'[t].token # asks[q].token
    <3>1. pc[q] \in {"checked", "written"} \/ wrote[q]
      BY <2>1, <2>6
    <3>. QED
      BY <1>1, <1>2, <2>2, <2>4, <3>1 DEF MatchInv
  <2>7. ASSUME NEW q \in Posts, reply'[q] = "303"
        PROVE  profile'[Session(q)].token # asks[q].token
    <3>1. Session(q) \in Sessions
      BY <1>0, <2>1, <2>7 DEF HoldInv, ProgressInv
    <3>. QED
      BY <1>1, <1>2, <2>1, <2>4, <2>7, <3>1 DEF MatchInv
  <2>. QED
    BY <1>0, <2>5, <2>6, <2>7 DEF MatchInv, Session
<1>8. UsedInv'
  BY <1>0 DEF UsedInv, ProgressInv, TypeOK
<1>9. ForbiddenIsExplained'
  BY <1>0 DEF ForbiddenIsExplained, ProgressInv, TypeOK, Session
<1>10. CommentsKept'
  BY <1>0, <1>1, <1>2 DEF CommentsKept, Session
<1>. QED
  BY <1>3, <1>4, <1>5, <1>6, <1>7, <1>8, <1>9, <1>10

\* The two halves of a POST after its check.
LEMMA WriteOrRotateStep ==
    ASSUME IInv, NEW r \in Posts, Write(r) \/ Rotate(r)
    PROVE  IInv'
<1>1. CASE Write(r)
  BY <1>1, WriteStep, GoneStep DEF Write, historyVars
<1>2. CASE Rotate(r)
  BY <1>2, UnrotatedStep, RotatedStep, GoneStep DEF Rotate
<1>. QED
  BY <1>1, <1>2

\* Steps that change nothing.
LEMMA StutterStep == IInv /\ UNCHANGED vars => IInv'
BY DEF IInv, TypeOK, ProgressInv, HoldInv, TokenInv, MatchInv, UsedInv,
       ForbiddenIsExplained, CommentsKept, Replaced, Session, vars, storeVars,
       historyVars

\* The invariant is inductive,
LEMMA NextIInv == IInv /\ [Next]_vars => IInv'
BY LoginStep, PageStep, BeginStep, CheckStep, WriteOrRotateStep, StutterStep
   DEF Next, ProfilePost, CommentsPost, PostStep, Posts

\* so it always holds.
LEMMA SpecIInv == Spec => []IInv
BY InitIInv, NextIInv, PTL DEF Spec

-----------------------------------------------------------------------------

\* Every session, profile, token and answer has the declared shape; a session
\* that is in the map has a token (Handler.login, Store.UpdateCSRF).
THEOREM TypeCorrect == Spec => []TypeOK
BY SpecIInv, PTL DEF IInv

\* The token of a POST that succeeded is worth nothing to any later POST of the
\* session (UpdateCSRF at the end of profilePost and commentsPost).
THEOREM UsedTokensRefused == Spec => []OldTokenRefused
<1>1. IInv => OldTokenRefused
  BY DEF IInv, UsedInv, OldTokenRefused
<1>. QED
  BY SpecIInv, <1>1, PTL

\* A POST that stores something had a token of its own session, and of no other
\* (the comparison on the shared profile in profilePost and commentsPost).
THEOREM OnlyEntitledWrite == Spec => []WritesAreEntitled
<1>1. IInv => WritesAreEntitled
  BY DEF IInv, MatchInv, Replaced, WritesAreEntitled
<1>. QED
  BY SpecIInv, <1>1, PTL

\* A form with the token of its session is forbidden only because another POST
\* of the session was faster.
THEOREM ForbiddenOnlyWhenReplaced == Spec => []ForbiddenIsExplained
BY SpecIInv, PTL DEF IInv

\* 303, 500, 401 and the refusals say what became of the name or the comment.
THEOREM AnswersTell == Spec => []AnswersAreExplained
<1>1. IInv => AnswersAreExplained
  BY DEF IInv, ProgressInv, HoldInv, MatchInv, TypeOK, AnswersAreExplained
<1>. QED
  BY SpecIInv, <1>1, PTL

\* Every comment stored is in its session's list once (Store.AddComment).
THEOREM NoCommentLost == Spec => []CommentsKept
BY SpecIInv, PTL DEF IInv

\* Nothing changes a session after its logout: the handlers that still hold its
\* profile write through the store, which looks it up again.
THEOREM LoggedOutForGood == Spec => DeletedStaysDead
<1>. DEFINE Dead(s) == profile[s] # NoProfile /\ s \notin users
            Kept == \A s \in Sessions :
                       Dead(s) => s \notin users' /\ profile'[s] = profile[s]
<1>1. ASSUME TypeOK, [Next]_vars
      PROVE  Kept
  <2>. SUFFICES ASSUME NEW s \in Sessions, Dead(s)
                PROVE  s \notin users' /\ profile'[s] = profile[s]
    OBVIOUS
  <2>. USE DEF storeVars
  <2>1. ASSUME NEW t \in Sessions, Login(t) \/ Logout(t) \/ Render(t)
        PROVE  s \notin users' /\ profile'[s] = profile[s]
    BY <1>1, <2>1 DEF TypeOK, Login, Logout, Render
  <2>2. ASSUME NEW t \in Sessions \union {NoSession}, NEW new, Store(t, new)
        PROVE  s \notin users' /\ profile'[s] = profile[s]
    BY <1>1, <2>2 DEF TypeOK, Store
  <2>3. ASSUME NEW r \in Posts, PostStep(r)
        PROVE  s \notin users' /\ profile'[s] = profile[s]
    <3>1. Session(r) \in Sessions \union {NoSession}
      BY <1>1 DEF TypeOK, Session
    <3>. QED
      BY <2>2, <2>3, <3>1 DEF PostStep, Begin, GetProfile, Check, Write, Rotate
  <2>4. CASE UNCHANGED vars
    BY <2>4 DEF vars
  <2>. QED
    BY <1>1, <2>1, <2>3, <2>4 DEF Next, ProfilePost, CommentsPost, Posts
<1>2. TypeOK /\ [Next]_vars => [Kept]_vars
  BY <1>1
<1>. QED
  BY <1>2, TypeCorrect, PTL DEF Spec, DeletedStaysDead
=============================================================================
