--------------------------- MODULE SessionProofs ---------------------------
(* Theorems about credentials and registrations, for every set of tickets, *)
(* logins, keys and calls, whatever the tickets claim and whatever the     *)
(* lives of tickets, credentials and registrations are.                    *)
EXTENDS Sessions, TLAPS

(***************************************************************************)
(* The inductive invariant.                                                *)
(***************************************************************************)

(* What an exchange is about to insert follows from its ticket alone, which *)
(* was good when the call was submitted.                                   *)
Drafted(e) ==
  LET claims == ClaimsOf[draft[e].ticket]
      row    == draft[e].row
  IN draft[e] # NoDraft =>
       /\ row.login = claims.login
       /\ row.expires <= claims.sessionExp
       /\ row.expires < claims.exp + CredentialLife
       /\ row.expires <= claims.iat + TicketLife + CredentialLife

(* A session is the draft of its exchange, and its key is spent; only an   *)
(* exchange that was committed has one.                                    *)
Paid(e) ==
  /\ exchange[e] = "submitted" => draft[e] # NoDraft
  /\ exchange[e] \in {"idle", "submitted"} => sessions[e] = NoSession
  /\ exchange[e] \in {"committed", "answered"} => sessions[e] # NoSession
  /\ sessions[e] # NoSession =>
       /\ draft[e] # NoDraft
       /\ sessions[e] = draft[e].row
       /\ ClaimsOf[draft[e].ticket].key \in consumed

(* A call presents a token that somebody was told, so the row it finds is  *)
(* there to stay.                                                          *)
Presents(c) ==
  call[c] # "idle" => credential[c] \in Exchanges /\ exchange[credential[c]] = "answered"

(* The login that a call acts for, and whose revocation it may be late for. *)
Owner(c) == sessions[credential[c]].login

Refused(c) ==
  late[c] => Owner(c) \in revoked /\ call[c] \in {"found", "denied", "lost"}

(* What a call registered is its login's, and what a call was answered     *)
(* about a registration still is the answer, since the clock it was        *)
(* answered by was read before.                                            *)
Registered(c) ==
  /\ clock[c] <= now
  /\ registrations[c] # NoRegistration =>
       call[c] = "registered" /\ registrations[c].login = Owner(c)
  /\ call[c] \in {"served", "unknown"} =>
       asked[c] \in Calls /\ registrations[asked[c]] # NoRegistration
  /\ call[c] = "served" => registrations[asked[c]].login = Owner(c)
  /\ call[c] = "unknown" => \/ registrations[asked[c]].login # Owner(c)
                            \/ registrations[asked[c]].expires <= now

SessionInv ==
  /\ TypeOK
  /\ TicketBuysOnce
  /\ \A e \in Exchanges : Drafted(e) /\ Paid(e)
  /\ \A c \in Calls : Presents(c) /\ Refused(c) /\ Registered(c)

(***************************************************************************)
(* A row is not the absence of one: it says when it expires.               *)
(***************************************************************************)
LEMMA RowsAreRows == NoSession \notin Session /\ NoRegistration \notin Session
BY DEF NoSession, NoRegistration, Session

LEMMA DraftsAreDrafts == NoDraft \notin [ticket : Tickets, row : Session]
BY DEF NoDraft

(* Types.                                                                  *)
LEMMA TypeStep ==
  ASSUME SessionInv, [Next]_vars
  PROVE  TypeOK'
<1>0. TypeOK /\ (\A x \in Exchanges : Paid(x)) /\ (\A y \in Calls : Presents(y))
  BY DEF SessionInv
<1>1. CASE UNCHANGED vars
  BY <1>1, <1>0 DEF vars, TypeOK, tables, turns
<1>2. ASSUME NEW e \in Exchanges, NEW ticket \in Tickets, SubmitExchange(e, ticket)
      PROVE  TypeOK'
  <2>1. ClaimsOf[ticket] \in Claims
    BY ClaimsAssumption
  <2>2. Earlier(now + CredentialLife, ClaimsOf[ticket].sessionExp) \in Int
    BY <2>1, <1>0, ClockAssumption DEF TypeOK, Earlier, Claims
  <2> QED
    BY <1>2, <1>0, <2>1, <2>2 DEF SubmitExchange, TypeOK, tables, turns, Session, Claims
<1>3. ASSUME NEW e \in Exchanges, RunExchange(e)
      PROVE  TypeOK'
  <2>1. exchange[e] = "submitted" /\ draft[e] \in [ticket : Tickets, row : Session]
    BY <1>3, <1>0 DEF RunExchange, TypeOK, Paid
  <2>2. ClaimsOf[draft[e].ticket].key \in Keys
    BY <2>1, ClaimsAssumption DEF Claims
  <2> QED
    BY <1>3, <1>0, <2>1, <2>2 DEF RunExchange, TypeOK, tables, turns
<1>4. ASSUME NEW e \in Exchanges, FailExchange(e)
      PROVE  TypeOK'
  BY <1>4, <1>0 DEF FailExchange, TypeOK, tables, turns
<1>5. ASSUME NEW e \in Exchanges, AnswerExchange(e)
      PROVE  TypeOK'
  BY <1>5, <1>0 DEF AnswerExchange, TypeOK, tables, turns
<1>6. ASSUME NEW c \in Calls, NEW e \in Exchanges, FindSession(c, e)
      PROVE  TypeOK'
  BY <1>6, <1>0 DEF FindSession, TypeOK, tables, turns
<1>7. ASSUME NEW c \in Calls, CheckRevoked(c)
      PROVE  TypeOK'
  BY <1>7, <1>0 DEF CheckRevoked, TypeOK, tables, turns
<1>8. ASSUME NEW c \in Calls, Revoke(c)
      PROVE  TypeOK'
  <2>1. sessions[credential[c]] \in Session
    BY <1>8, <1>0 DEF Revoke, TypeOK, Paid, Presents
  <2> QED
    BY <1>8, <1>0, <2>1 DEF Revoke, TypeOK, tables, turns, Session
<1>9. ASSUME NEW c \in Calls, Register(c)
      PROVE  TypeOK'
  <2>1. sessions[credential[c]] \in Session
    BY <1>9, <1>0 DEF Register, TypeOK, Paid, Presents
  <2>2. clock[c] + RegistrationLife \in Int
    BY <1>0, ClockAssumption DEF TypeOK
  <2> QED
    BY <1>9, <1>0, <2>1, <2>2 DEF Register, TypeOK, tables, turns, Session
<1>10. ASSUME NEW c \in Calls, NEW d \in Calls, FindRegistration(c, d)
      PROVE  TypeOK'
  BY <1>10, <1>0 DEF FindRegistration, TypeOK, tables, turns
<1>11. CASE Tick
  BY <1>11, <1>0, ClockAssumption DEF Tick, TypeOK, tables, turns
<1>12. CASE Crash
  BY <1>12, <1>0 DEF Crash, TypeOK, tables, turns
<1>13. ASSUME NEW c \in Calls, ReadClock(c)
      PROVE  TypeOK'
  BY <1>13, <1>0 DEF ReadClock, TypeOK, tables, turns
<1> QED
  BY <1>1, <1>2, <1>3, <1>4, <1>5, <1>6, <1>7, <1>8, <1>9, <1>10, <1>11, <1>12,
     <1>13 DEF Next

(* The expiry of a draft is fixed from claims that were just validated.    *)
LEMMA DraftedStep ==
  ASSUME SessionInv, [Next]_vars, NEW x \in Exchanges
  PROVE  Drafted(x)'
<1>0. TypeOK /\ (\A e \in Exchanges : Drafted(e) /\ Paid(e)) /\ (\A c \in Calls : Presents(c))
  BY DEF SessionInv
<1>1. CASE UNCHANGED vars
  BY <1>1, <1>0 DEF vars, TypeOK, Drafted, tables, turns
<1>2. ASSUME NEW e \in Exchanges, NEW ticket \in Tickets, SubmitExchange(e, ticket)
      PROVE  Drafted(x)'
  <2>1. ClaimsOf[ticket] \in Claims
    BY ClaimsAssumption
  <2> QED
    BY <1>2, <1>0, <2>1, ClockAssumption
       DEF SubmitExchange, Valid, Earlier, TypeOK, Drafted, Claims
<1>3. ASSUME NEW e \in Exchanges, RunExchange(e)
      PROVE  Drafted(x)'
  BY <1>3, <1>0 DEF RunExchange, TypeOK, Drafted, tables, turns
<1>4. ASSUME NEW e \in Exchanges, FailExchange(e)
      PROVE  Drafted(x)'
  BY <1>4, <1>0 DEF FailExchange, TypeOK, Drafted, tables, turns
<1>5. ASSUME NEW e \in Exchanges, AnswerExchange(e)
      PROVE  Drafted(x)'
  BY <1>5, <1>0 DEF AnswerExchange, TypeOK, Drafted, tables, turns
<1>6. ASSUME NEW c \in Calls, NEW e \in Exchanges, FindSession(c, e)
      PROVE  Drafted(x)'
  BY <1>6, <1>0 DEF FindSession, TypeOK, Drafted, tables, turns
<1>7. ASSUME NEW c \in Calls, CheckRevoked(c)
      PROVE  Drafted(x)'
  BY <1>7, <1>0 DEF CheckRevoked, TypeOK, Drafted, tables, turns
<1>8. ASSUME NEW c \in Calls, Revoke(c)
      PROVE  Drafted(x)'
  BY <1>8, <1>0 DEF Revoke, TypeOK, Drafted, tables, turns
<1>9. ASSUME NEW c \in Calls, Register(c)
      PROVE  Drafted(x)'
  BY <1>9, <1>0 DEF Register, TypeOK, Drafted, tables, turns
<1>10. ASSUME NEW c \in Calls, NEW d \in Calls, FindRegistration(c, d)
      PROVE  Drafted(x)'
  BY <1>10, <1>0 DEF FindRegistration, TypeOK, Drafted, tables, turns
<1>11. CASE Tick
  BY <1>11, <1>0 DEF Tick, TypeOK, Drafted, tables, turns
<1>12. CASE Crash
  BY <1>12, <1>0 DEF Crash, TypeOK, Drafted, tables, turns
<1>13. ASSUME NEW c \in Calls, ReadClock(c)
      PROVE  Drafted(x)'
  BY <1>13, <1>0 DEF ReadClock, TypeOK, Drafted, tables, turns
<1> QED
  BY <1>1, <1>2, <1>3, <1>4, <1>5, <1>6, <1>7, <1>8, <1>9, <1>10, <1>11, <1>12,
     <1>13 DEF Next

(* A session is inserted with its draft and its key in one transaction.    *)
LEMMA PaidStep ==
  ASSUME SessionInv, [Next]_vars, NEW x \in Exchanges
  PROVE  Paid(x)'
<1>0. TypeOK /\ (\A e \in Exchanges : Drafted(e) /\ Paid(e)) /\ (\A c \in Calls : Presents(c))
  BY DEF SessionInv
<1>1. CASE UNCHANGED vars
  BY <1>1, <1>0, RowsAreRows, DraftsAreDrafts DEF vars, TypeOK, Paid, tables, turns
<1>2. ASSUME NEW e \in Exchanges, NEW ticket \in Tickets, SubmitExchange(e, ticket)
      PROVE  Paid(x)'
  <2>1. sessions' = sessions /\ consumed' = consumed
    BY <1>2 DEF SubmitExchange, tables
  <2>2. CASE x = e
    BY <1>2, <2>1, <2>2, <1>0, DraftsAreDrafts DEF SubmitExchange, TypeOK, Paid, NoDraft
  <2>3. CASE x # e
    <3>1. exchange'[x] = exchange[x] /\ draft'[x] = draft[x]
      BY <1>2, <2>3, <1>0 DEF SubmitExchange, TypeOK
    <3> QED
      BY <2>1, <3>1, <1>0 DEF Paid
  <2> QED
    BY <2>2, <2>3
<1>3. ASSUME NEW e \in Exchanges, RunExchange(e)
      PROVE  Paid(x)'
  BY <1>3, <1>0, RowsAreRows, DraftsAreDrafts DEF RunExchange, TypeOK, Paid, tables, turns
<1>4. ASSUME NEW e \in Exchanges, FailExchange(e)
      PROVE  Paid(x)'
  BY <1>4, <1>0, RowsAreRows, DraftsAreDrafts DEF FailExchange, TypeOK, Paid, tables, turns
<1>5. ASSUME NEW e \in Exchanges, AnswerExchange(e)
      PROVE  Paid(x)'
  BY <1>5, <1>0, RowsAreRows, DraftsAreDrafts DEF AnswerExchange, TypeOK, Paid, tables, turns
<1>6. ASSUME NEW c \in Calls, NEW e \in Exchanges, FindSession(c, e)
      PROVE  Paid(x)'
  BY <1>6, <1>0, RowsAreRows, DraftsAreDrafts DEF FindSession, TypeOK, Paid, tables, turns
<1>7. ASSUME NEW c \in Calls, CheckRevoked(c)
      PROVE  Paid(x)'
  BY <1>7, <1>0, RowsAreRows, DraftsAreDrafts DEF CheckRevoked, TypeOK, Paid, tables, turns
<1>8. ASSUME NEW c \in Calls, Revoke(c)
      PROVE  Paid(x)'
  BY <1>8, <1>0, RowsAreRows, DraftsAreDrafts DEF Revoke, TypeOK, Paid, tables, turns
<1>9. ASSUME NEW c \in Calls, Register(c)
      PROVE  Paid(x)'
  BY <1>9, <1>0, RowsAreRows, DraftsAreDrafts DEF Register, TypeOK, Paid, tables, turns
<1>10. ASSUME NEW c \in Calls, NEW d \in Calls, FindRegistration(c, d)
      PROVE  Paid(x)'
  BY <1>10, <1>0, RowsAreRows, DraftsAreDrafts DEF FindRegistration, TypeOK, Paid, tables, turns
<1>11. CASE Tick
  BY <1>11, <1>0, RowsAreRows, DraftsAreDrafts DEF Tick, TypeOK, Paid, tables, turns
<1>12. CASE Crash
  BY <1>12, <1>0, RowsAreRows, DraftsAreDrafts DEF Crash, TypeOK, Paid, tables, turns
<1>13. ASSUME NEW c \in Calls, ReadClock(c)
      PROVE  Paid(x)'
  BY <1>13, <1>0, RowsAreRows, DraftsAreDrafts DEF ReadClock, TypeOK, Paid, tables, turns
<1> QED
  BY <1>1, <1>2, <1>3, <1>4, <1>5, <1>6, <1>7, <1>8, <1>9, <1>10, <1>11, <1>12,
     <1>13 DEF Next

(* The transaction that inserts a session finds its key unspent, and every *)
(* session there is has spent its own.                                     *)
LEMMA OnceStep ==
  ASSUME SessionInv, [Next]_vars
  PROVE  TicketBuysOnce'
<1>0. TypeOK /\ TicketBuysOnce /\ (\A x \in Exchanges : Paid(x))
  BY DEF SessionInv
<1>1. CASE UNCHANGED <<sessions, draft>>
  BY <1>0, <1>1 DEF TicketBuysOnce
<1>2. ASSUME NEW e \in Exchanges, NEW ticket \in Tickets, SubmitExchange(e, ticket)
      PROVE  TicketBuysOnce'
  <2>1. sessions' = sessions /\ sessions[e] = NoSession
    BY <1>2, <1>0 DEF SubmitExchange, tables, Paid
  <2>2. \A f \in Exchanges : f # e => draft'[f] = draft[f]
    BY <1>2, <1>0 DEF SubmitExchange, TypeOK
  <2> QED
    BY <2>1, <2>2, <1>0 DEF TicketBuysOnce
<1>3. ASSUME NEW e \in Exchanges, RunExchange(e)
      PROVE  TicketBuysOnce'
  <2>1. draft' = draft
    BY <1>3 DEF RunExchange
  <2>2. CASE draft[e].row.login \in revoked \/ ClaimsOf[draft[e].ticket].key \in consumed
    BY <2>1, <2>2, <1>3, <1>1 DEF RunExchange
  <2>3. CASE ClaimsOf[draft[e].ticket].key \notin consumed
    <3>1. \A f \in Exchanges : sessions[f] # NoSession =>
            ClaimsOf[draft[f].ticket].key # ClaimsOf[draft[e].ticket].key
      BY <2>3, <1>0 DEF Paid
    <3>2. \A f \in Exchanges : f # e => sessions'[f] = sessions[f]
      BY <1>3, <1>0 DEF RunExchange, TypeOK
    <3> QED
      BY <2>1, <3>1, <3>2, <1>0 DEF TicketBuysOnce
  <2> QED
    BY <2>2, <2>3
<1> QED
  BY <1>1, <1>2, <1>3
     DEF Next, vars, tables, FailExchange, AnswerExchange, FindSession, CheckRevoked, Revoke,
         ReadClock, Register, FindRegistration, Tick, Crash

(* An exchange that was answered stays answered.                           *)
LEMMA PresentsStep ==
  ASSUME SessionInv, [Next]_vars, NEW y \in Calls
  PROVE  Presents(y)'
<1>0. TypeOK /\ (\A e \in Exchanges : Drafted(e) /\ Paid(e)) /\ (\A c \in Calls : Presents(c))
  BY DEF SessionInv
<1>1. CASE UNCHANGED vars
  BY <1>1, <1>0 DEF vars, TypeOK, Presents, tables, turns
<1>2. ASSUME NEW e \in Exchanges, NEW ticket \in Tickets, SubmitExchange(e, ticket)
      PROVE  Presents(y)'
  BY <1>2, <1>0 DEF SubmitExchange, TypeOK, Presents, tables, turns
<1>3. ASSUME NEW e \in Exchanges, RunExchange(e)
      PROVE  Presents(y)'
  BY <1>3, <1>0 DEF RunExchange, TypeOK, Presents, tables, turns
<1>4. ASSUME NEW e \in Exchanges, FailExchange(e)
      PROVE  Presents(y)'
  BY <1>4, <1>0 DEF FailExchange, TypeOK, Presents, tables, turns
<1>5. ASSUME NEW e \in Exchanges, AnswerExchange(e)
      PROVE  Presents(y)'
  BY <1>5, <1>0 DEF AnswerExchange, TypeOK, Presents, tables, turns
<1>6. ASSUME NEW c \in Calls, NEW e \in Exchanges, FindSession(c, e)
      PROVE  Presents(y)'
  BY <1>6, <1>0 DEF FindSession, TypeOK, Presents, tables, turns
<1>7. ASSUME NEW c \in Calls, CheckRevoked(c)
      PROVE  Presents(y)'
  BY <1>7, <1>0 DEF CheckRevoked, TypeOK, Presents, tables, turns
<1>8. ASSUME NEW c \in Calls, Revoke(c)
      PROVE  Presents(y)'
  BY <1>8, <1>0 DEF Revoke, TypeOK, Presents, tables, turns
<1>9. ASSUME NEW c \in Calls, Register(c)
      PROVE  Presents(y)'
  BY <1>9, <1>0 DEF Register, TypeOK, Presents, tables, turns
<1>10. ASSUME NEW c \in Calls, NEW d \in Calls, FindRegistration(c, d)
      PROVE  Presents(y)'
  BY <1>10, <1>0 DEF FindRegistration, TypeOK, Presents, tables, turns
<1>11. CASE Tick
  BY <1>11, <1>0 DEF Tick, TypeOK, Presents, tables, turns
<1>12. CASE Crash
  BY <1>12, <1>0 DEF Crash, TypeOK, Presents, tables, turns
<1>13. ASSUME NEW c \in Calls, ReadClock(c)
      PROVE  Presents(y)'
  BY <1>13, <1>0 DEF ReadClock, TypeOK, Presents, tables, turns
<1> QED
  BY <1>1, <1>2, <1>3, <1>4, <1>5, <1>6, <1>7, <1>8, <1>9, <1>10, <1>11, <1>12,
     <1>13 DEF Next

(* Nobody takes a revocation back, and the second read follows the arrival. *)
LEMMA RefusedStep ==
  ASSUME SessionInv, [Next]_vars, NEW y \in Calls
  PROVE  Refused(y)'
<1>0. /\ TypeOK
      /\ \A x \in Exchanges : Paid(x)
      /\ \A z \in Calls : Presents(z) /\ Refused(z) /\ Registered(z)
  BY DEF SessionInv
<1>1. CASE UNCHANGED vars
  BY <1>1, <1>0 DEF vars, TypeOK, Paid, Presents, Refused, Owner, tables, turns
<1>2. ASSUME NEW e \in Exchanges, NEW ticket \in Tickets, SubmitExchange(e, ticket)
      PROVE  Refused(y)'
  BY <1>2, <1>0 DEF SubmitExchange, TypeOK, Paid, Presents, Refused, Owner, tables, turns
<1>3. ASSUME NEW e \in Exchanges, RunExchange(e)
      PROVE  Refused(y)'
  BY <1>3, <1>0 DEF RunExchange, TypeOK, Paid, Presents, Refused, Owner, tables, turns
<1>4. ASSUME NEW e \in Exchanges, FailExchange(e)
      PROVE  Refused(y)'
  BY <1>4, <1>0 DEF FailExchange, TypeOK, Paid, Presents, Refused, Owner, tables, turns
<1>5. ASSUME NEW e \in Exchanges, AnswerExchange(e)
      PROVE  Refused(y)'
  BY <1>5, <1>0 DEF AnswerExchange, TypeOK, Paid, Presents, Refused, Owner, tables, turns
<1>6. ASSUME NEW c \in Calls, NEW e \in Exchanges, FindSession(c, e)
      PROVE  Refused(y)'
  BY <1>6, <1>0 DEF FindSession, TypeOK, Paid, Presents, Refused, Owner, tables, turns
<1>7. ASSUME NEW c \in Calls, CheckRevoked(c)
      PROVE  Refused(y)'
  BY <1>7, <1>0 DEF CheckRevoked, TypeOK, Paid, Presents, Refused, Owner, tables, turns
<1>8. ASSUME NEW c \in Calls, Revoke(c)
      PROVE  Refused(y)'
  BY <1>8, <1>0 DEF Revoke, TypeOK, Paid, Presents, Refused, Owner, tables, turns
<1>9. ASSUME NEW c \in Calls, Register(c)
      PROVE  Refused(y)'
  BY <1>9, <1>0 DEF Register, TypeOK, Paid, Presents, Refused, Owner, tables, turns
<1>10. ASSUME NEW c \in Calls, NEW d \in Calls, FindRegistration(c, d)
      PROVE  Refused(y)'
  BY <1>10, <1>0 DEF FindRegistration, TypeOK, Paid, Presents, Refused, Owner, tables, turns
<1>11. CASE Tick
  BY <1>11, <1>0 DEF Tick, TypeOK, Paid, Presents, Refused, Owner, tables, turns
<1>12. CASE Crash
  BY <1>12, <1>0 DEF Crash, TypeOK, Paid, Presents, Refused, Owner, tables, turns
<1>13. ASSUME NEW c \in Calls, ReadClock(c)
      PROVE  Refused(y)'
  BY <1>13, <1>0 DEF ReadClock, TypeOK, Paid, Presents, Refused, Owner, tables, turns
<1> QED
  BY <1>1, <1>2, <1>3, <1>4, <1>5, <1>6, <1>7, <1>8, <1>9, <1>10, <1>11, <1>12,
     <1>13 DEF Next

(* Neither rows nor sessions change once they are inserted.                *)
LEMMA RegisteredStep ==
  ASSUME SessionInv, [Next]_vars, NEW y \in Calls
  PROVE  Registered(y)'
<1>0. /\ TypeOK
      /\ \A x \in Exchanges : Paid(x)
      /\ \A z \in Calls : Presents(z) /\ Refused(z) /\ Registered(z)
  BY DEF SessionInv
<1>1. CASE UNCHANGED vars
  BY <1>1, <1>0 DEF vars, TypeOK, Paid, Presents, Registered, Owner, tables, turns
<1>2. ASSUME NEW e \in Exchanges, NEW ticket \in Tickets, SubmitExchange(e, ticket)
      PROVE  Registered(y)'
  BY <1>2, <1>0 DEF SubmitExchange, TypeOK, Paid, Presents, Registered, Owner, tables, turns
<1>3. ASSUME NEW e \in Exchanges, RunExchange(e)
      PROVE  Registered(y)'
  BY <1>3, <1>0 DEF RunExchange, TypeOK, Paid, Presents, Registered, Owner, tables, turns
<1>4. ASSUME NEW e \in Exchanges, FailExchange(e)
      PROVE  Registered(y)'
  BY <1>4, <1>0 DEF FailExchange, TypeOK, Paid, Presents, Registered, Owner, tables, turns
<1>5. ASSUME NEW e \in Exchanges, AnswerExchange(e)
      PROVE  Registered(y)'
  BY <1>5, <1>0 DEF AnswerExchange, TypeOK, Paid, Presents, Registered, Owner, tables, turns
<1>6. ASSUME NEW c \in Calls, NEW e \in Exchanges, FindSession(c, e)
      PROVE  Registered(y)'
  BY <1>6, <1>0 DEF FindSession, TypeOK, Paid, Presents, Registered, Owner, tables, turns
<1>7. ASSUME NEW c \in Calls, CheckRevoked(c)
      PROVE  Registered(y)'
  BY <1>7, <1>0 DEF CheckRevoked, TypeOK, Paid, Presents, Registered, Owner, tables, turns
<1>8. ASSUME NEW c \in Calls, Revoke(c)
      PROVE  Registered(y)'
  BY <1>8, <1>0 DEF Revoke, TypeOK, Paid, Presents, Registered, Owner, tables, turns
<1>9. ASSUME NEW c \in Calls, Register(c)
      PROVE  Registered(y)'
  BY <1>9, <1>0 DEF Register, TypeOK, Paid, Presents, Registered, Owner, tables, turns
<1>10. ASSUME NEW c \in Calls, NEW d \in Calls, FindRegistration(c, d)
      PROVE  Registered(y)'
  <2>1. /\ credential' = credential /\ sessions' = sessions /\ now' = now
        /\ registrations' = registrations /\ clock' = clock
    BY <1>10 DEF FindRegistration, tables
  <2>2. CASE y = c
    <3>1. call[c] = "waiting" /\ registrations[d] # NoRegistration /\ asked'[c] = d
      BY <1>10, <1>0 DEF FindRegistration, TypeOK
    <3>2. /\ call'[c] \in {"served", "unknown"}
          /\ call'[c] = "served" => registrations[d].login = sessions[credential[c]].login
          /\ call'[c] = "unknown" => \/ registrations[d].login # sessions[credential[c]].login
                                    \/ ~(registrations[d].expires > clock[c])
      BY <1>10, <1>0 DEF FindRegistration, TypeOK
    <3>3. registrations[d].expires \in Int /\ now \in Int /\ clock[c] \in Int /\ clock[c] <= now
      BY <3>1, <1>0 DEF TypeOK, Session, Registered
    <3>4. registrations[c] = NoRegistration
      BY <3>1, <1>0 DEF Registered
    <3> QED
      BY <2>1, <2>2, <3>1, <3>2, <3>3, <3>4 DEF Registered, Owner
  <2>3. CASE y # c
    <3>1. asked'[y] = asked[y] /\ call'[y] = call[y]
      BY <1>10, <2>3, <1>0 DEF FindRegistration, TypeOK
    <3> QED
      BY <2>1, <3>1, <1>0 DEF Registered, Owner
  <2> QED
    BY <2>2, <2>3
<1>11. CASE Tick
  <2>1. now <= now'
    BY <1>11, <1>0 DEF Tick, TypeOK
  <2>2. asked[y] \in Calls /\ registrations[asked[y]] # NoRegistration
           => registrations[asked[y]].expires \in Int
    BY <1>0 DEF TypeOK, Session
  <2> QED
    BY <1>11, <1>0, <2>1, <2>2 DEF Tick, TypeOK, Registered, Owner, tables, turns
<1>12. CASE Crash
  BY <1>12, <1>0 DEF Crash, TypeOK, Paid, Presents, Registered, Owner, tables, turns
<1>13. ASSUME NEW c \in Calls, ReadClock(c)
      PROVE  Registered(y)'
  BY <1>13, <1>0 DEF ReadClock, TypeOK, Paid, Presents, Registered, Owner, tables, turns
<1> QED
  BY <1>1, <1>2, <1>3, <1>4, <1>5, <1>6, <1>7, <1>8, <1>9, <1>10, <1>11, <1>12,
     <1>13 DEF Next

(***************************************************************************)
(* The invariant.                                                          *)
(***************************************************************************)
LEMMA SessionInitially == Init => SessionInv
<1>1. Init => TypeOK
  BY ClockAssumption DEF Init, TypeOK
<1>2. Init => /\ TicketBuysOnce
              /\ \A e \in Exchanges : Drafted(e) /\ Paid(e)
              /\ \A c \in Calls : Presents(c) /\ Refused(c) /\ Registered(c)
  BY DEF Init, TicketBuysOnce, Drafted, Paid, Presents, Refused, Registered
<1> QED
  BY <1>1, <1>2 DEF SessionInv

LEMMA SessionInvStep == SessionInv /\ [Next]_vars => SessionInv'
<1> SUFFICES ASSUME SessionInv, [Next]_vars
             PROVE  SessionInv'
  OBVIOUS
<1>1. \A e \in Exchanges : Drafted(e)' /\ Paid(e)'
  BY DraftedStep, PaidStep
<1>2. \A c \in Calls : Presents(c)' /\ Refused(c)' /\ Registered(c)'
  BY PresentsStep, RefusedStep, RegisteredStep
<1> QED
  BY <1>1, <1>2, TypeStep, OnceStep DEF SessionInv

(* Whatever clients, callers, the clock and crashes do, the calls and the  *)
(* tables stay consistent with one another.                                *)
THEOREM SessionsStayConsistent == Spec => []SessionInv
BY SessionInitially, SessionInvStep, PTL DEF Spec

(***************************************************************************)
(* The properties.                                                         *)
(***************************************************************************)

(* Every variable keeps its type.                                          *)
THEOREM SessionTypes == Spec => []TypeOK
<1>1. SessionInv => TypeOK
  BY DEF SessionInv
<1> QED
  BY <1>1, SessionsStayConsistent, PTL

(* revoke ends every credential of its login at once: a call that arrives  *)
(* afterwards is never let in, though authenticate reads the session first *)
(* and the revocations later, and whichever credential of the login the    *)
(* call presents.                                                          *)
THEOREM RevokedStaysOutAlways == Spec => []RevokedStaysOut
<1>1. SessionInv => RevokedStaysOut
  BY DEF SessionInv, Refused, RevokedStaysOut
<1> QED
  BY <1>1, SessionsStayConsistent, PTL

(* exchange looks for a revocation in the transaction that inserts the     *)
(* session, so no credential is born for a login already revoked.          *)
THEOREM NoCredentialIsBornRevoked == Spec => NoCredentialAfterRevoke
<1>1. ASSUME [Next]_vars,
             NEW e \in Exchanges, sessions[e] = NoSession, sessions'[e] # NoSession, TypeOK
      PROVE  sessions'[e].login \notin revoked
  <2>1. PICK f \in Exchanges : RunExchange(f)
    BY <1>1 DEF Next, vars, tables, SubmitExchange, FailExchange, AnswerExchange, FindSession,
                CheckRevoked, Revoke, ReadClock, Register, FindRegistration, Tick, Crash
  <2>2. f = e /\ sessions'[e] = draft[e].row /\ draft[e].row.login \notin revoked
    BY <2>1, <1>1 DEF RunExchange, TypeOK
  <2> QED
    BY <2>2
<1>2. TypeOK /\ [Next]_vars =>
        [\A e \in Exchanges : sessions[e] = NoSession /\ sessions'[e] # NoSession
           => sessions'[e].login \notin revoked]_vars
  BY <1>1
<1> QED
  BY <1>2, SessionTypes, PTL DEF Spec, NoCredentialAfterRevoke

(* The key of a ticket buys one credential, whatever exchanges race for    *)
(* it, retry it or are cut short by a crash.                               *)
THEOREM TicketsBuyOnce == Spec => []TicketBuysOnce
<1>1. SessionInv => TicketBuysOnce
  BY DEF SessionInv
<1> QED
  BY <1>1, SessionsStayConsistent, PTL

(* A credential ends with the host session, and ten minutes after a moment *)
(* when its ticket was good, however long its exchange was under way.      *)
THEOREM CredentialsStayBounded == Spec => []CredentialsAreBounded
<1>1. SessionInv => CredentialsAreBounded
  BY DEF SessionInv, Drafted, Paid, CredentialsAreBounded
<1> QED
  BY <1>1, SessionsStayConsistent, PTL

(* A turn is served the registrations of its login and of no other, across *)
(* all credentials the login ever had; its own are refused only when they  *)
(* have expired.                                                           *)
THEOREM RegistrationsStayWithTheLogin == Spec => []RegistrationsFollowTheLogin
<1>1. ASSUME SessionInv, NEW c \in Calls, call[c] # "idle"
      PROVE  Owner(c) = ClaimsOf[draft[credential[c]].ticket].login
  <2>1. credential[c] \in Exchanges /\ sessions[credential[c]] # NoSession
    BY <1>1 DEF SessionInv, Presents, Paid
  <2> QED
    BY <2>1, <1>1 DEF SessionInv, Paid, Drafted, Owner
<1>2. ASSUME SessionInv, NEW c \in Calls, call[c] \in {"served", "unknown"}
      PROVE  /\ asked[c] \in Calls /\ call[asked[c]] # "idle"
             /\ registrations[asked[c]].login = Owner(asked[c])
  BY <1>2 DEF SessionInv, Registered
<1>3. SessionInv => RegistrationsFollowTheLogin
  BY <1>1, <1>2 DEF SessionInv, Registered, RegistrationsFollowTheLogin
<1> QED
  BY <1>3, SessionsStayConsistent, PTL
=============================================================================
