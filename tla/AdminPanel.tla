----------------------------- MODULE AdminPanel -----------------------------
(***************************************************************************)
(* Sign-in to the administration panel and what it authorises              *)
(* (src/admin/mod.rs): failed attempts, sessions and the last test behind  *)
(* one mutex that every request takes once to be checked, and once more to *)
(* sign out or to start a test.  A save goes to the blocking pool instead, *)
(* where it runs even when nobody waits for it.                            *)
(*                                                                         *)
(* A token nobody has is never presented, so a cookie stands for the       *)
(* session it was minted for; a form carries the CSRF token of some        *)
(* session.  The sign-in form's own double submit is a test without state. *)
(***************************************************************************)
EXTENDS Clock, Instants, FiniteSets, Functions

CONSTANTS
  Sessions,     \* tokens minted by signing in
  Requests,     \* form posts of a signed-in browser
  MaxAttempts,  \* failed attempts that lock sign-in (5)
  Lockout,      \* how long one counts (900 s)
  MaxSessions,  \* live sessions (128)
  SessionLife,  \* SESSION_LIFETIME (3600 s)
  TestGap       \* between two tests (10 s)

ASSUME PanelAssumption ==
  /\ MaxAttempts \in Nat \ {0} /\ MaxSessions \in Nat \ {0}
  /\ Lockout \in Nat \ {0} /\ SessionLife \in Nat \ {0} /\ TestGap \in Nat \ {0}

VARIABLES
  attempts,     \* expiries of the failed attempts, oldest first
  sessions,     \* expiry of each session in the map
  lastTest,     \* when the last test started
  request,      \* where each form post is, and what it presented
  judged,       \* history: when wrong tokens were judged and tests started of late
  minted,       \* history: the tokens handed out
  signedIn      \* history: when each signed in, of those who did within the hour,
                \* in this process, and did not sign out

panelVars == <<attempts, sessions, lastTest, request, judged, minted, signedIn>>
history == <<judged, minted, signedIn>>

Never == -1
Limited == {"wrong token", "test"}
NoPost == [at |-> "idle", entitled |-> FALSE]
Jobs == {"save", "logout", "test"}

PanelInit ==
  /\ attempts = <<>> /\ sessions = <<>> /\ lastTest = Never
  /\ request = [r \in Requests |-> NoPost]
  /\ judged = [k \in Limited |-> <<>>]
  /\ minted = {} /\ signedIn = <<>>

Unexpired == Later(attempts, now)
Live == {s \in DOMAIN sessions : sessions[s] > now}
LockedOut == Len(Unexpired) >= MaxAttempts

Judge(kind) == judged' = [judged EXCEPT ![kind] = Append(@, now)]

(* A fault: an attempt that is refused unread counts as another.           *)
ExtendLockout ==
  /\ LockedOut
  /\ attempts' = Append(Unexpired, now + Lockout)
  /\ UNCHANGED <<now, sessions, lastTest, request, history>>

(* login, while the panel is locked: no token is read.                     *)
RefuseUnread ==
  /\ LockedOut
  /\ attempts' = Unexpired
  /\ UNCHANGED <<now, sessions, lastTest, request, history>>

(* A fault: reaching the limit starts counting anew.                       *)
WrongTokenForgiven ==
  /\ ~LockedOut
  /\ attempts' = Append(IF Len(Unexpired) = MaxAttempts - 1 THEN <<>> ELSE Unexpired,
                        now + Lockout)
  /\ Judge("wrong token")
  /\ UNCHANGED <<now, sessions, lastTest, request, minted, signedIn>>

(* login, with a token that is not the configured one.                     *)
WrongToken ==
  /\ ~LockedOut
  /\ attempts' = Append(Unexpired, now + Lockout)
  /\ Judge("wrong token")
  /\ UNCHANGED <<now, sessions, lastTest, request, minted, signedIn>>

(* A fault: sessions that have expired do not leave the map.               *)
SignInUnpurged(s) ==
  /\ ~LockedOut
  /\ s \notin minted
  /\ attempts' = Unexpired
  /\ IF Cardinality(Live) >= MaxSessions
     THEN UNCHANGED <<sessions, minted, signedIn>>
     ELSE /\ sessions' = With(sessions, s, now + SessionLife)
          /\ signedIn' = With(signedIn, s, now)
          /\ minted' = minted \cup {s}
  /\ UNCHANGED <<now, lastTest, request, judged>>

(* The right token: a session, unless too many are alive.                  *)
SignIn(s) ==
  /\ ~LockedOut
  /\ s \notin minted
  /\ attempts' = Unexpired
  /\ IF Cardinality(Live) >= MaxSessions
     THEN sessions' = Restrict(sessions, Live) /\ UNCHANGED <<minted, signedIn>>
     ELSE /\ sessions' = With(Restrict(sessions, Live), s, now + SessionLife)
          /\ signedIn' = With(signedIn, s, now)
          /\ minted' = minted \cup {s}
  /\ UNCHANGED <<now, lastTest, request, judged>>

(* authenticate, as the dashboard uses it: expired sessions leave the map. *)
View ==
  /\ sessions' = Restrict(sessions, Live)
  /\ UNCHANGED <<now, attempts, lastTest, request, history>>

(* The history's own answer to whether a form is its session's and may     *)
(* pass now.                                                               *)
Entitled(s, csrf) == csrf = s /\ s \in DOMAIN signedIn

End(r, how) ==
  request' = [request EXCEPT ![r] = [at |-> how, entitled |-> @.entitled]]

(* A fault: any live session's CSRF token will do.                         *)
CheckAnyCsrf(r, job, s, csrf) ==
  /\ request[r].at # "checked"
  /\ sessions' = Restrict(sessions, Live)
  /\ request' = [request EXCEPT ![r] =
       IF s \in Live /\ csrf \in Live
       THEN [at |-> "checked", job |-> job, session |-> s, entitled |-> Entitled(s, csrf)]
       ELSE [at |-> "refused", entitled |-> Entitled(s, csrf)]]
  /\ UNCHANGED <<now, attempts, lastTest, history>>

(* check_csrf: the session is alive and the form carries its token.        *)
CheckCsrf(r, job, s, csrf) ==
  /\ request[r].at # "checked"
  /\ sessions' = Restrict(sessions, Live)
  /\ request' = [request EXCEPT ![r] =
       IF s \in Live /\ csrf = s
       THEN [at |-> "checked", job |-> job, session |-> s, entitled |-> Entitled(s, csrf)]
       ELSE [at |-> "refused", entitled |-> Entitled(s, csrf)]]
  /\ UNCHANGED <<now, attempts, lastTest, history>>

Checked(r, job) == request[r].at = "checked" /\ request[r].job = job

(* logout's second lock.                                                   *)
SignOut(r) ==
  /\ Checked(r, "logout")
  /\ sessions' = Restrict(sessions, DOMAIN sessions \ {request[r].session})
  /\ signedIn' = Restrict(signedIn, DOMAIN signedIn \ {request[r].session})
  /\ End(r, "done")
  /\ UNCHANGED <<now, attempts, lastTest, judged, minted>>

(* test_model's second lock: a test every TestGap at most, whoever asks,   *)
(* and the playground runs outside it.                                     *)
StartTest(r) ==
  /\ Checked(r, "test")
  /\ IF lastTest # Never /\ now - lastTest < TestGap
     THEN End(r, "limited") /\ UNCHANGED <<lastTest, judged>>
     ELSE End(r, "done") /\ lastTest' = now /\ Judge("test")
  /\ UNCHANGED <<now, attempts, sessions, minted, signedIn>>

(* save's job on the blocking pool; PolicyStore has what it does.          *)
CommitSave(r) ==
  /\ Checked(r, "save")
  /\ End(r, "done")
  /\ UNCHANGED <<now, attempts, sessions, lastTest, history>>

(* "Memory-only sessions intentionally expire on restart."                 *)
PanelRestart ==
  /\ attempts' = <<>> /\ sessions' = <<>> /\ lastTest' = Never
  /\ request' = [r \in Requests |->
       IF request[r].at = "checked" THEN NoPost ELSE request[r]]
  /\ judged' = [k \in Limited |-> <<>>]
  /\ signedIn' = <<>>
  /\ UNCHANGED <<now, minted>>

(* Time passes.  History goes back as far as the properties look.          *)
SpanOf == [k \in Limited |-> IF k = "test" THEN TestGap ELSE Lockout]

PanelTick ==
  /\ ClockTick
  /\ judged' = [k \in Limited |-> Later(judged[k], now' - SpanOf[k])]
  /\ signedIn' = Restrict(signedIn, {s \in DOMAIN signedIn : now' < signedIn[s] + SessionLife})
  /\ UNCHANGED <<attempts, sessions, lastTest, request, minted>>

PanelNext ==
  \/ RefuseUnread \/ WrongToken \/ View
  \/ \E s \in Sessions : SignIn(s)
  \/ \E r \in Requests :
       \/ \E job \in Jobs, s, csrf \in minted : CheckCsrf(r, job, s, csrf)
       \/ SignOut(r) \/ StartTest(r) \/ CommitSave(r)

-----------------------------------------------------------------------------
PanelTypeOK ==
  /\ Len(attempts) <= MaxAttempts /\ \A i \in DOMAIN attempts : attempts[i] \in 0..now + Lockout
  /\ DOMAIN sessions \subseteq Sessions /\ Cardinality(DOMAIN sessions) <= MaxSessions
  /\ \A s \in DOMAIN sessions : sessions[s] \in 0..now + SessionLife
  /\ lastTest \in 0..now \cup {Never}
  /\ request \in [Requests ->
       [at : {"checked"}, job : Jobs, session : Sessions, entitled : BOOLEAN]
       \cup [at : {"idle", "refused", "limited", "done"}, entitled : BOOLEAN]]

(* However sign-ins and tests interleave, no more than five wrong tokens   *)
(* are judged in any fifteen minutes and no two tests start within ten     *)
(* seconds, in one process (docs/admin-panel.md: "one start every ten      *)
(* seconds globally").                                                     *)
Throttle == INSTANCE Limiter WITH
  Kinds <- Limited, granted <- judged,
  LimitOf <- [k \in Limited |-> IF k = "test" THEN 1 ELSE MaxAttempts]

PanelIsThrottled == Throttle!Spec

(* The right token is refused only while the lock was earned by tokens     *)
(* that were judged wrong within the last fifteen minutes, attempts made   *)
(* on a locked panel not among them, or while that many administrators     *)
(* signed in within the hour and have not signed out.                      *)
SignInOpensAgain ==
  /\ LockedOut => Len(judged["wrong token"]) >= MaxAttempts
  /\ Cardinality(Live) >= MaxSessions => Cardinality(DOMAIN signedIn) >= MaxSessions

(* What a form post does was authorised by the form's own session, signed  *)
(* in, not signed out, not an hour old and of this process when it was     *)
(* checked, and no such post is turned away: although the check and the    *)
(* effect take the lock apart and a save outlives its session.             *)
FormsActForTheirSession ==
  \A r \in Requests :
    /\ request[r].at \in {"checked", "done", "limited"} => request[r].entitled
    /\ request[r].at = "refused" => ~request[r].entitled
=============================================================================
