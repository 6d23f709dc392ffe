------------------------------ MODULE Sessions ------------------------------
(***************************************************************************)
(* Credentials and registrations (src/service.rs, exchange, authenticate  *)
(* and register; src/model.rs, TicketClaims; src/repository.rs, exchange,  *)
(* authenticate, revoke, register and manifest): a product backend signs   *)
(* tickets for its logins, a ticket is exchanged once for an opaque        *)
(* credential that expires, revoking a login ends all of its credentials   *)
(* and refuses its later tickets, and what a login registers is its own    *)
(* for a day.                                                              *)
(*                                                                         *)
(* Exchanging is one transaction, authenticating is two separate reads,    *)
(* and each runs on a blocking thread while the clock and the other calls  *)
(* go on.  A crash loses calls in progress and keeps the tables.           *)
(***************************************************************************)
EXTENDS Integers, FiniteSets

CONSTANTS
  Tickets,          \* signed tickets in circulation
  ClaimsOf,         \* what each says
  Logins,           \* [iss, tenant, sub, sid], TicketClaims' session_key
  Keys,             \* [iss, jti], the key of table consumed_tickets
  Exchanges,        \* calls of POST /v1/sessions/exchange; each makes its own token
  Calls,            \* calls that authenticate with a token
  TicketLife,       \* longest life of a ticket (120 s)
  Skew,             \* how far ahead an issuer's clock may be (5 s)
  CredentialLife,   \* longest life of a credential (10 min)
  RegistrationLife, \* life of a registration (24 h)
  LastTick          \* bound: the clock stops here

Claims == [login : Logins, key : Keys, iat : Int, exp : Int, sessionExp : Int]

ASSUME ClaimsAssumption == ClaimsOf \in [Tickets -> Claims]
ASSUME ClockAssumption ==
  /\ TicketLife \in Nat /\ Skew \in Nat /\ CredentialLife \in Nat \ {0}
  /\ RegistrationLife \in Nat \ {0} /\ LastTick \in Nat

VARIABLES
  now,              \* Utc::now()
  consumed,         \* table consumed_tickets
  sessions,         \* table sessions, by the exchange that made the token
  revoked,          \* table revoked_sessions
  exchange,         \* where each exchange call is
  draft,            \* the ticket it exchanges and the row it is about to insert
  call,             \* where each authenticated call is
  credential,       \* the exchange whose token it presents
  late,             \* history: its login was revoked when it arrived
  clock,            \* Utc::now() as a call for registrations read it
  registrations,    \* table registrations, by the call that made the row
  asked             \* history: the registration a turn named

tables == <<consumed, sessions, revoked>>
turns == <<clock, registrations, asked>>
vars == <<now, tables, exchange, draft, call, credential, late, turns>>

NoSession == [login |-> "none"]
NoDraft == [ticket |-> "none"]
NoCredential == "none"
NoRegistration == [login |-> "none"]
NoCall == "none"

Session == [login : Logins, expires : Int]

-----------------------------------------------------------------------------
Init ==
  /\ now = 0
  /\ consumed = {} /\ revoked = {}
  /\ sessions = [e \in Exchanges |-> NoSession]
  /\ exchange = [e \in Exchanges |-> "idle"]
  /\ draft = [e \in Exchanges |-> NoDraft]
  /\ call = [c \in Calls |-> "idle"]
  /\ credential = [c \in Calls |-> NoCredential]
  /\ late = [c \in Calls |-> FALSE]
  /\ clock = [c \in Calls |-> 0]
  /\ registrations = [c \in Calls |-> NoRegistration]
  /\ asked = [c \in Calls |-> NoCall]

(* TicketClaims::validate and the decoder's expiry test, which has no      *)
(* leeway.                                                                 *)
Valid(claims) ==
  /\ claims.sessionExp > now /\ claims.exp > now
  /\ claims.iat <= now + Skew /\ claims.iat >= now - TicketLife
  /\ claims.exp - claims.iat <= TicketLife
  /\ claims.exp > claims.iat

Earlier(a, b) == IF a <= b THEN a ELSE b

(* A fault: the credential lives ten minutes whatever the host session.    *)
SubmitUnbounded(e, ticket) ==
  LET claims == ClaimsOf[ticket]
  IN /\ exchange[e] = "idle"
     /\ Valid(claims)
     /\ draft' = [draft EXCEPT ![e] =
          [ticket |-> ticket, row |-> [login |-> claims.login, expires |-> now + CredentialLife]]]
     /\ exchange' = [exchange EXCEPT ![e] = "submitted"]
     /\ UNCHANGED <<now, tables, call, credential, late, turns>>

(* The claims are checked and the expiry is fixed before the transaction   *)
(* is handed to the blocking pool.                                         *)
SubmitExchange(e, ticket) ==
  LET claims == ClaimsOf[ticket]
  IN /\ exchange[e] = "idle"
     /\ IF Valid(claims)
        THEN /\ draft' = [draft EXCEPT ![e] =
                  [ticket |-> ticket,
                   row |-> [login |-> claims.login,
                            expires |-> Earlier(now + CredentialLife, claims.sessionExp)]]]
             /\ exchange' = [exchange EXCEPT ![e] = "submitted"]
        ELSE /\ exchange' = [exchange EXCEPT ![e] = "refused"]
             /\ UNCHANGED draft
     /\ UNCHANGED <<now, tables, call, credential, late, turns>>

(* Faults of the transaction: it does not look for a revocation, it takes  *)
(* a consumed key again, it consumes something else than the key.          *)
RunUnrevoked(e) ==
  /\ exchange[e] = "submitted"
  /\ ClaimsOf[draft[e].ticket].key \notin consumed
  /\ consumed' = consumed \cup {ClaimsOf[draft[e].ticket].key}
  /\ sessions' = [sessions EXCEPT ![e] = draft[e].row]
  /\ exchange' = [exchange EXCEPT ![e] = "committed"]
  /\ UNCHANGED <<now, revoked, draft, call, credential, late, turns>>

RunReplayable(e) ==
  /\ exchange[e] = "submitted"
  /\ draft[e].row.login \notin revoked
  /\ consumed' = consumed \cup {ClaimsOf[draft[e].ticket].key}
  /\ sessions' = [sessions EXCEPT ![e] = draft[e].row]
  /\ exchange' = [exchange EXCEPT ![e] = "committed"]
  /\ UNCHANGED <<now, revoked, draft, call, credential, late, turns>>

RunByTicket(e) ==
  /\ exchange[e] = "submitted"
  /\ draft[e].row.login \notin revoked /\ draft[e].ticket \notin consumed
  /\ consumed' = consumed \cup {draft[e].ticket}
  /\ sessions' = [sessions EXCEPT ![e] = draft[e].row]
  /\ exchange' = [exchange EXCEPT ![e] = "committed"]
  /\ UNCHANGED <<now, revoked, draft, call, credential, late, turns>>

(* The transaction: no revocation, a ticket never consumed, both inserts.  *)
RunExchange(e) ==
  LET row == draft[e].row
      key == ClaimsOf[draft[e].ticket].key
  IN /\ exchange[e] = "submitted"
     /\ IF row.login \in revoked \/ key \in consumed
        THEN /\ exchange' = [exchange EXCEPT ![e] = "refused"]
             /\ UNCHANGED <<consumed, sessions>>
        ELSE /\ consumed' = consumed \cup {key}
             /\ sessions' = [sessions EXCEPT ![e] = row]
             /\ exchange' = [exchange EXCEPT ![e] = "committed"]
     /\ UNCHANGED <<now, revoked, draft, call, credential, late, turns>>

(* No connection, a busy timeout or a failed statement: nothing is kept.   *)
FailExchange(e) ==
  /\ exchange[e] = "submitted"
  /\ exchange' = [exchange EXCEPT ![e] = "refused"]
  /\ UNCHANGED <<now, tables, draft, call, credential, late, turns>>

(* Only the answer tells anyone the token: the table holds its hash.       *)
AnswerExchange(e) ==
  /\ exchange[e] = "committed"
  /\ exchange' = [exchange EXCEPT ![e] = "answered"]
  /\ UNCHANGED <<now, tables, draft, call, credential, late, turns>>

(* A fault: only the credential that asked for the revocation is refused.  *)
CheckOwnCredential(c) ==
  /\ call[c] = "found"
  /\ call' = [call EXCEPT ![c] =
        IF \E d \in Calls : call[d] = "revoked" /\ credential[d] = credential[c]
        THEN "denied" ELSE "granted"]
  /\ UNCHANGED <<now, tables, exchange, draft, credential, late, turns>>

(* authenticate's first read: an unexpired row under the token's hash.     *)
FindSession(c, e) ==
  /\ call[c] = "idle"
  /\ exchange[e] = "answered"
  /\ credential' = [credential EXCEPT ![c] = e]
  /\ late' = [late EXCEPT ![c] = sessions[e].login \in revoked]
  /\ call' = [call EXCEPT ![c] = IF sessions[e].expires > now THEN "found" ELSE "denied"]
  /\ UNCHANGED <<now, tables, exchange, draft, turns>>

(* Its second read, of the revocations, made after the first.              *)
CheckRevoked(c) ==
  /\ call[c] = "found"
  /\ call' = [call EXCEPT ![c] =
                IF sessions[credential[c]].login \in revoked THEN "denied" ELSE "granted"]
  /\ UNCHANGED <<now, tables, exchange, draft, credential, late, turns>>

(* A granted call may be the revocation of its own login.                  *)
Revoke(c) ==
  /\ call[c] = "granted"
  /\ revoked' = revoked \cup {sessions[credential[c]].login}
  /\ call' = [call EXCEPT ![c] = "revoked"]
  /\ UNCHANGED <<now, consumed, sessions, exchange, draft, credential, late, turns>>

(* Registering and finding a registration read the clock for their one     *)
(* statement before they wait for the connection it runs on.               *)
ReadClock(c) ==
  /\ call[c] = "granted"
  /\ clock' = [clock EXCEPT ![c] = now]
  /\ call' = [call EXCEPT ![c] = "waiting"]
  /\ UNCHANGED <<now, tables, exchange, draft, credential, late, registrations, asked>>

(* POST /v1/assistants/init: a row of a fresh id, owned by the identity of *)
(* the login.  Module PolicyStore models what the row offers.              *)
Register(c) ==
  /\ call[c] = "waiting"
  /\ registrations' = [registrations EXCEPT ![c] =
        [login |-> sessions[credential[c]].login, expires |-> clock[c] + RegistrationLife]]
  /\ call' = [call EXCEPT ![c] = "registered"]
  /\ UNCHANGED <<now, tables, exchange, draft, credential, late, clock, asked>>

(* A fault: a registration is found by the credential that made it.        *)
FindByCredential(c, d) ==
  /\ call[c] = "waiting"
  /\ registrations[d] # NoRegistration
  /\ asked' = [asked EXCEPT ![c] = d]
  /\ call' = [call EXCEPT ![c] =
        IF credential[d] = credential[c] /\ registrations[d].expires > clock[c]
        THEN "served" ELSE "unknown"]
  /\ UNCHANGED <<now, tables, exchange, draft, credential, late, clock, registrations>>

(* POST /v1/turns names a registration: an unexpired row of its identity.  *)
FindRegistration(c, d) ==
  /\ call[c] = "waiting"
  /\ registrations[d] # NoRegistration
  /\ asked' = [asked EXCEPT ![c] = d]
  /\ call' = [call EXCEPT ![c] =
        IF /\ registrations[d].login = sessions[credential[c]].login
           /\ registrations[d].expires > clock[c]
        THEN "served" ELSE "unknown"]
  /\ UNCHANGED <<now, tables, exchange, draft, credential, late, clock, registrations>>

Tick ==
  /\ now < LastTick
  /\ now' = now + 1
  /\ UNCHANGED <<tables, exchange, draft, call, credential, late, turns>>

(* Calls in progress are gone; a token nobody was told is lost for good.   *)
Crash ==
  /\ \/ \E e \in Exchanges : exchange[e] \in {"submitted", "committed"}
     \/ \E c \in Calls : call[c] \in {"found", "granted", "waiting"}
  /\ exchange' = [e \in Exchanges |->
       IF exchange[e] \in {"submitted", "committed"} THEN "lost" ELSE exchange[e]]
  /\ call' = [c \in Calls |-> IF call[c] \in {"found", "granted", "waiting"} THEN "lost" ELSE call[c]]
  /\ UNCHANGED <<now, tables, draft, credential, late, turns>>

Next ==
  \/ \E e \in Exchanges :
       \/ \E ticket \in Tickets : SubmitExchange(e, ticket)
       \/ RunExchange(e) \/ FailExchange(e) \/ AnswerExchange(e)
  \/ \E c \in Calls :
       \/ \E e \in Exchanges : FindSession(c, e)
       \/ CheckRevoked(c) \/ Revoke(c) \/ ReadClock(c) \/ Register(c)
       \/ \E d \in Calls : FindRegistration(c, d)
  \/ Tick
  \/ Crash

Spec == Init /\ [][Next]_vars

-----------------------------------------------------------------------------
TypeOK ==
  /\ now \in 0..LastTick
  /\ consumed \subseteq Keys /\ revoked \subseteq Logins
  /\ sessions \in [Exchanges -> Session \cup {NoSession}]
  /\ exchange \in [Exchanges -> {"idle", "submitted", "committed", "answered", "refused", "lost"}]
  /\ draft \in [Exchanges -> [ticket : Tickets, row : Session] \cup {NoDraft}]
  /\ call \in [Calls -> {"idle", "found", "granted", "denied", "revoked", "lost",
                         "waiting", "registered", "served", "unknown"}]
  /\ credential \in [Calls -> Exchanges \cup {NoCredential}]
  /\ late \in [Calls -> BOOLEAN]
  /\ clock \in [Calls -> 0..LastTick]
  /\ registrations \in [Calls -> Session \cup {NoRegistration}]
  /\ asked \in [Calls -> Calls \cup {NoCall}]

(* A call that arrives after its login was revoked is never let in, though *)
(* authenticate reads the session and the revocations apart and credentials *)
(* of the login may have been rotated (README: revoke "revokes all         *)
(* credentials for that login ID").                                        *)
RevokedStaysOut ==
  \A c \in Calls : late[c] => call[c] \in {"found", "denied", "lost"}

(* No credential is born for a login that is already revoked, however long *)
(* its exchange waited after its ticket was checked (README: revoke        *)
(* "rejects future tickets for it").                                       *)
NoCredentialAfterRevoke ==
  [][\A e \in Exchanges : sessions[e] = NoSession /\ sessions'[e] # NoSession
       => sessions'[e].login \notin revoked]_vars

(* One key buys one credential, whatever calls race or retry it, across    *)
(* restarts (README: tickets "can be consumed once").                      *)
TicketBuysOnce ==
  \A e, f \in Exchanges :
    /\ sessions[e] # NoSession /\ sessions[f] # NoSession
    /\ ClaimsOf[draft[e].ticket].key = ClaimsOf[draft[f].ticket].key
    => e = f

(* A credential never outlives the host session nor its ten minutes, which *)
(* run from a moment when its ticket was still good (README: "lasts at     *)
(* most ten minutes and cannot outlive the host session").                 *)
CredentialsAreBounded ==
  \A e \in Exchanges : sessions[e] # NoSession =>
    LET claims == ClaimsOf[draft[e].ticket]
    IN /\ sessions[e].expires <= claims.sessionExp
       /\ sessions[e].expires < claims.exp + CredentialLife
       /\ sessions[e].expires <= claims.iat + TicketLife + CredentialLife
       /\ sessions[e].login = claims.login

(* A registration serves the login whose ticket paid for the credential it *)
(* was made with, and no other; to that login it is unknown only once it   *)
(* has expired, however often its credentials were rotated (README:        *)
(* "Rotation preserves registration and budget identity").                 *)
RegistrationsFollowTheLogin ==
  \A c, d \in Calls : asked[c] = d =>
    LET same == ClaimsOf[draft[credential[c]].ticket].login
                  = ClaimsOf[draft[credential[d]].ticket].login
    IN /\ call[c] = "served" => same
       /\ call[c] = "unknown" => ~same \/ registrations[d].expires <= now
=============================================================================
