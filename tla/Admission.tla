----------------------------- MODULE Admission ------------------------------
(***************************************************************************)
(* The admission guard in front of /v1 (src/admission.rs): a fixed window  *)
(* per peer and class of endpoint, in a bounded table behind a mutex.      *)
(*                                                                         *)
(* check reads the clock before it takes the lock, so a worker may judge   *)
(* its request at an instant that other workers have left behind; a window *)
(* it opens then starts in the past.  MaxLag bounds how long a worker      *)
(* waits for the lock.                                                     *)
(***************************************************************************)
EXTENDS Clock, Instants, FiniteSets, Functions

CONSTANTS
  PeerKeys,     \* keys of the table, <<peer, class of endpoint>>, that occur
  Workers,      \* threads that run the middleware
  Window,       \* length of a window (60 s)
  QuotaOf,      \* requests per window and class (exchange 10, other 120)
  TableSize,    \* windows the table holds (10 000)
  MaxLag        \* bound: ticks between a worker's clock reading and its lock

Classes == {"exchange", "other"}

ASSUME AdmissionAssumption ==
  /\ Window \in Nat /\ MaxLag \in 0..(Window - 1) /\ TableSize \in Nat \ {0}
  /\ IsFiniteSet(PeerKeys) /\ \A k \in PeerKeys : k[2] \in Classes
  /\ QuotaOf \in [Classes -> Nat \ {0}]

VARIABLES
  windows,      \* HashMap<(IpAddr, bool), Window>
  waiting,      \* the key and the clock reading of each worker's request
  admitted      \* history: when requests of a key were let through of late

admissionVars == <<windows, waiting, admitted>>

NoRequest == [key |-> <<>>, at |-> 0]

AdmissionInit ==
  /\ windows = <<>>
  /\ waiting = [w \in Workers |-> NoRequest]
  /\ admitted = [k \in PeerKeys |-> <<>>]

(* enforce: a request for /v1/ from a connected peer, whatever its headers *)
(* say of where it comes from.                                             *)
Arrive(w, k) ==
  /\ waiting[w] = NoRequest
  /\ waiting' = [waiting EXCEPT ![w] = [key |-> k, at |-> now]]
  /\ UNCHANGED <<now, windows, admitted>>

(* Faults: a full table is cleared; a window one tick too old is kept.     *)
RetainedIfRoom(at) ==
  IF Cardinality(DOMAIN windows) >= TableSize THEN <<>>
  ELSE Restrict(windows, {k \in DOMAIN windows : at - windows[k].start < Window})

RetainedTooLong(at) ==
  Restrict(windows, {k \in DOMAIN windows : at - windows[k].start <= Window})

(* The windows that a request judged at an instant leaves in the table.    *)
Retained(at) ==
  Restrict(windows, {k \in DOMAIN windows : at - windows[k].start < Window})

NoPlace(w) ==
  LET kept == DOMAIN Retained(waiting[w].at)
  IN waiting[w].key \notin kept /\ Cardinality(kept) >= TableSize

Spent(w) ==
  LET key == waiting[w].key
      kept == Retained(waiting[w].at)
  IN key \in DOMAIN kept /\ kept[key].count >= QuotaOf[key[2]]

Done(w) == waiting' = [waiting EXCEPT ![w] = NoRequest]

(* check, under the lock: Limited, or counted in a window.                 *)
Turnaway(w) ==
  /\ waiting[w] # NoRequest
  /\ NoPlace(w) \/ Spent(w)
  /\ windows' = Retained(waiting[w].at)
  /\ Done(w)
  /\ UNCHANGED <<now, admitted>>

LetThrough(w) ==
  LET key == waiting[w].key
      kept == Retained(waiting[w].at)
      window == IF key \in DOMAIN kept THEN kept[key]
                ELSE [start |-> waiting[w].at, count |-> 0]
  IN /\ waiting[w] # NoRequest
     /\ ~NoPlace(w) /\ ~Spent(w)
     /\ windows' = With(kept, key, [window EXCEPT !.count = @ + 1])
     /\ admitted' = [admitted EXCEPT ![key] = Append(@, now)]
     /\ Done(w)
     /\ UNCHANGED now

(* Time passes while no worker has waited too long for the lock.  History  *)
(* goes back as far as the properties look.                                *)
Since(k, t) == Later(admitted[k], t)

AdmissionTick ==
  /\ ClockTick
  /\ \A w \in Workers : waiting[w] # NoRequest => now < waiting[w].at + MaxLag
  /\ admitted' = [k \in PeerKeys |-> Since(k, now' - Window - MaxLag)]
  /\ UNCHANGED <<windows, waiting>>

AdmissionNext ==
  \E w \in Workers : (\E k \in PeerKeys : Arrive(w, k)) \/ Turnaway(w) \/ LetThrough(w)

-----------------------------------------------------------------------------
AdmissionTypeOK ==
  /\ DOMAIN windows \subseteq PeerKeys
  /\ Cardinality(DOMAIN windows) <= TableSize
  /\ \A k \in DOMAIN windows : windows[k] \in [start : 0..now, count : 1..QuotaOf[k[2]]]
  /\ waiting \in [Workers -> [key : PeerKeys, at : 0..now] \cup {NoRequest}]

(* A window is fixed, so the end of one and the start of the next meet: in *)
(* any minute a key gets up to one request less than twice its quota, and  *)
(* never more, whatever other peers do to the table (SECURITY.md: "ten     *)
(* session exchange attempts per minute per TCP peer and 120 other").      *)
(* Clock readings taken before the lock shorten that minute by the lag.    *)
Quota == INSTANCE Limiter WITH
  Kinds <- PeerKeys,
  granted <- [k \in PeerKeys |-> Since(k, now - (Window - MaxLag))],
  SpanOf <- [k \in PeerKeys |-> Window - MaxLag],
  LimitOf <- [k \in PeerKeys |-> 2 * QuotaOf[k[2]] - 1]

QuotaIsKept == Quota!Spec

(* Nobody is turned away for what others did, except by a table full of    *)
(* peers that really were let through a moment ago ("bounded to 10,000     *)
(* entries and fails closed at capacity"): a peer that is refused has used *)
(* its own quota within the last window, or TableSize keys used theirs.    *)
RefusalsAreEarned ==
  \A w \in Workers : waiting[w] # NoRequest /\ (NoPlace(w) \/ Spent(w)) =>
    LET key == waiting[w].key
    IN \/ Len(admitted[key]) >= QuotaOf[key[2]]
       \/ /\ Cardinality({k \in PeerKeys : admitted[k] # <<>>}) >= TableSize
          /\ NoPlace(w)
=============================================================================
