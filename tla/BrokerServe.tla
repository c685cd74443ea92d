---------------------------- MODULE BrokerServe -----------------------------
(***************************************************************************)
(* The serving side of one aws-broker: the socket forwarded to the guest,  *)
(* which the guest may crowd.  The accept loop gives every connection a    *)
(* thread and a deadline timer, up to a bound; a /creds/ request holds one *)
(* of fewer slots while it waits for its profile's lock and mints, and the *)
(* timer shuts the socket down under a handler that is stuck on it.        *)
(***************************************************************************)
EXTENDS Naturals, FiniteSets

CONSTANTS
  Connection,      \* connections the guest has open at once, at most
  Profile,         \* the allowed profiles
  NoOne,           \* no connection, no profile
  MaxConnections,  \* MAX_CONNECTIONS
  MaxConcurrent    \* MAX_CONCURRENT_REQUESTS

ASSUME NoOneAssumption == NoOne \notin Connection \cup Profile
ASSUME BoundAssumption == MaxConnections \in Nat /\ MaxConcurrent \in Nat
ASSUME FiniteAssumption == IsFiniteSet(Connection)

VARIABLES
  pc,           \* where the thread of each connection is
  asked,        \* the profile it asks for
  sock,         \* its socket: "open", shut down, or closed
  timer,        \* its deadline timer
  connections,  \* UnixHTTPServer.connections, what is left of it
  slots,        \* the slots of the /creds/ requests, what is left of them
  lock,         \* State.lock of each profile: its holder
  fresh,        \* its State.creds expire later than REMINT_WINDOW_SECONDS from now
  noted         \* its last_mint_attempt is less than min_remint_interval ago

perConnection == <<pc, asked, sock, timer>>
perProfile == <<lock, fresh, noted>>
serveVars == <<perConnection, connections, slots, perProfile>>

InGet == {"check", "mint", "answer"}          \* holding the profile's lock
InSlot == {"lock", "leave"} \cup InGet        \* holding a slot
Handling == {"accept", "head", "send", "cancel", "close"} \cup InSlot

ServeTypeOK ==
  /\ pc \in [Connection -> {"none"} \cup Handling]
  /\ asked \in [Connection -> Profile \cup {NoOne}]
  /\ sock \in [Connection -> {"open", "shut", "closed"}]
  /\ timer \in [Connection -> {"off", "armed", "shutting"}]
  /\ connections \in 0 .. MaxConnections /\ slots \in 0 .. MaxConcurrent
  /\ lock \in [Profile -> Connection \cup {NoOne}]
  /\ fresh \in [Profile -> BOOLEAN] /\ noted \in [Profile -> BOOLEAN]

ServeInit ==
  /\ pc = [c \in Connection |-> "none"]
  /\ asked = [c \in Connection |-> NoOne]
  /\ sock = [c \in Connection |-> "closed"]
  /\ timer = [c \in Connection |-> "off"]
  /\ connections = MaxConnections /\ slots = MaxConcurrent
  /\ lock = [p \in Profile |-> NoOne]
  /\ fresh = [p \in Profile |-> FALSE] /\ noted = [p \in Profile |-> FALSE]

Goto(c, there) == pc' = [pc EXCEPT ![c] = there]

-----------------------------------------------------------------------------
(* The accept loop, and the end of a connection.                           *)

\* process_request, in the one thread of the accept loop: over the bound the
\* connection is closed at once, and nothing is spent on it.
Accept(c) ==
  /\ pc[c] = "none" /\ connections > 0
  /\ \A d \in Connection : pc[d] # "accept"
  /\ connections' = connections - 1
  /\ Goto(c, "accept")
  /\ sock' = [sock EXCEPT ![c] = "open"]
  /\ UNCHANGED <<asked, timer, slots, perProfile>>

\* A thread takes the connection over and arms its deadline.  A timer is a thread
\* too: where it cannot start, handle() raises before it reads anything.
ThreadStarts(c) ==
  /\ pc[c] = "accept"
  /\ \/ /\ Goto(c, "head")
        /\ timer' = [timer EXCEPT ![c] = "armed"] /\ UNCHANGED sock
     \/ /\ Goto(c, "close")
        /\ sock' = [sock EXCEPT ![c] = "closed"] /\ UNCHANGED timer
  /\ UNCHANGED <<asked, connections, slots, perProfile>>

\* No thread can start: the place is given back and the connection closed.
ThreadStartFails(c) ==
  /\ pc[c] = "accept"
  /\ connections' = connections + 1
  /\ Goto(c, "none")
  /\ sock' = [sock EXCEPT ![c] = "closed"]
  /\ UNCHANGED <<asked, timer, slots, perProfile>>

\* (A mutated form: finish_lock is not waited for.)
FinishWithoutLock(c) ==
  /\ pc[c] \in {"head", "send"}
  /\ Goto(c, "cancel")
  /\ UNCHANGED <<asked, sock, timer, connections, slots, perProfile>>

\* handle()'s finally: `finished` is set under the lock the timer holds while it
\* shuts the socket down.  It follows the reply, or an error of the socket.
Finish(c) ==
  /\ pc[c] \in {"head", "send"} /\ timer[c] # "shutting"
  /\ Goto(c, "cancel")
  /\ UNCHANGED <<asked, sock, timer, connections, slots, perProfile>>

Cancel(c) ==
  /\ pc[c] = "cancel"
  /\ Goto(c, "close")
  /\ timer' = [timer EXCEPT ![c] = IF @ = "armed" THEN "off" ELSE @]
  /\ sock' = [sock EXCEPT ![c] = "closed"]
  /\ UNCHANGED <<asked, connections, slots, perProfile>>

\* process_request_thread's finally.
Release(c) ==
  /\ pc[c] = "close"
  /\ Goto(c, "none")
  /\ connections' = connections + 1
  /\ asked' = [asked EXCEPT ![c] = NoOne]
  /\ UNCHANGED <<sock, timer, slots, perProfile>>

\* (A mutated form: the deadline is over once the head is read.)
DeadlineOfTheHead(c) ==
  /\ timer[c] = "armed"
  /\ timer' = [timer EXCEPT ![c] = IF pc[c] = "head" THEN "shutting" ELSE "off"]
  /\ UNCHANGED <<pc, asked, sock, connections, slots, perProfile>>

\* _deadline_passed takes finish_lock, looks at `finished` ...
DeadlinePassed(c) ==
  /\ timer[c] = "armed"
  /\ timer' = [timer EXCEPT ![c] = IF pc[c] = "cancel" THEN "off" ELSE "shutting"]
  /\ UNCHANGED <<pc, asked, sock, connections, slots, perProfile>>

\* ... and shuts the socket down before it lets go.
ShutSocket(c) ==
  /\ timer[c] = "shutting"
  /\ timer' = [timer EXCEPT ![c] = "off"]
  /\ sock' = [sock EXCEPT ![c] = "shut"]
  /\ UNCHANGED <<pc, asked, connections, slots, perProfile>>

-----------------------------------------------------------------------------
(* A request.                                                              *)

\* The head is read: /health, or a path that names nothing, is answered at once.
HealthRequest(c) ==
  /\ pc[c] = "head" /\ sock[c] = "open"
  /\ Goto(c, "send")
  /\ UNCHANGED <<asked, sock, timer, connections, slots, perProfile>>

\* GuestHandler.do_GET: without a slot the request is turned away, and with one
\* when its profile (NoOne stands for it) is not on the allow-list.
CredsRequest(c) ==
  /\ pc[c] = "head" /\ sock[c] = "open"
  /\ \E p \in Profile \cup {NoOne} :
       /\ asked' = [asked EXCEPT ![c] = p]
       /\ \/ /\ slots > 0 /\ slots' = slots - 1
             /\ Goto(c, IF p \in Profile THEN "lock" ELSE "leave")
          \/ slots = 0 /\ UNCHANGED slots /\ Goto(c, "send")
  /\ UNCHANGED <<sock, timer, connections, perProfile>>

TakeLock(c) ==
  /\ pc[c] = "lock" /\ lock[asked[c]] = NoOne
  /\ lock' = [lock EXCEPT ![asked[c]] = c]
  /\ Goto(c, "check")
  /\ UNCHANGED <<asked, sock, timer, connections, slots, fresh, noted>>

\* PROFILE_LOCK_TIMEOUT_SECONDS: ProfileBusy.
LockTimeout(c) ==
  /\ pc[c] = "lock" /\ lock[asked[c]] # NoOne
  /\ Goto(c, "leave")
  /\ UNCHANGED <<asked, sock, timer, connections, slots, perProfile>>

\* (A mutated form: the throttle is not looked at.)
CheckAgeOnly(c) ==
  /\ pc[c] = "check"
  /\ Goto(c, IF ~fresh[asked[c]] THEN "mint" ELSE "answer")
  /\ UNCHANGED <<asked, sock, timer, connections, slots, perProfile>>

\* State.get: needs_remint and throttled.
Check(c) ==
  /\ pc[c] = "check"
  /\ Goto(c, IF ~fresh[asked[c]] /\ ~noted[asked[c]] THEN "mint" ELSE "answer")
  /\ UNCHANGED <<asked, sock, timer, connections, slots, perProfile>>

\* _remint_locked: the cache is replaced by credentials that last or that expire
\* soon, or kept, when the mint failed, as the stale one it was.
Remint(c) ==
  /\ pc[c] = "mint"
  /\ Goto(c, "answer")
  /\ \E long \in BOOLEAN : fresh' = [fresh EXCEPT ![asked[c]] = long]
  /\ noted' = [noted EXCEPT ![asked[c]] = TRUE]
  /\ UNCHANGED <<asked, sock, timer, connections, slots, lock>>

\* An exception out of the mint: the lock is released, last_mint_attempt is not
\* set, and _guarded answers 500.
RemintRaises(c) ==
  /\ pc[c] = "mint"
  /\ Goto(c, "leave")
  /\ lock' = [lock EXCEPT ![asked[c]] = NoOne]
  /\ UNCHANGED <<asked, sock, timer, connections, slots, fresh, noted>>

\* The rest of get: whatever it returns, the lock is let go.
Answer(c) ==
  /\ pc[c] = "answer"
  /\ Goto(c, "leave")
  /\ lock' = [lock EXCEPT ![asked[c]] = NoOne]
  /\ UNCHANGED <<asked, sock, timer, connections, slots, fresh, noted>>

\* (A mutated form: the slot is kept, as it would be without the finally.)
LeaveKeepingSlot(c) ==
  /\ pc[c] = "leave"
  /\ Goto(c, "send")
  /\ UNCHANGED <<asked, sock, timer, connections, slots, perProfile>>

\* The slot goes back before the reply is sent.
LeaveSlot(c) ==
  /\ pc[c] = "leave"
  /\ Goto(c, "send")
  /\ slots' = slots + 1
  /\ UNCHANGED <<asked, sock, timer, connections, perProfile>>

-----------------------------------------------------------------------------
(* Time.                                                                   *)

\* seconds_to_expiry falls below REMINT_WINDOW_SECONDS.
Age(p) ==
  /\ fresh' = [fresh EXCEPT ![p] = FALSE]
  /\ UNCHANGED <<perConnection, connections, slots, lock, noted>>

IntervalPasses(p) ==
  /\ noted' = [noted EXCEPT ![p] = FALSE]
  /\ UNCHANGED <<perConnection, connections, slots, lock, fresh>>

Thread(c) ==
  \/ Cancel(c) \/ Release(c) \/ TakeLock(c) \/ LockTimeout(c) \/ Check(c)
  \/ Remint(c) \/ RemintRaises(c) \/ Answer(c) \/ LeaveSlot(c)

Timer(c) == DeadlinePassed(c) \/ ShutSocket(c)

Accepted(c) == ThreadStarts(c) \/ ThreadStartFails(c)

ServeNext ==
  \/ \E c \in Connection :
       \/ Accept(c) \/ Accepted(c) \/ HealthRequest(c) \/ CredsRequest(c) \/ Finish(c)
       \/ Thread(c) \/ Timer(c)
  \/ \E p \in Profile : Age(p) \/ IntervalPasses(p)

ServeSpec == ServeInit /\ [][ServeNext]_serveVars

\* The accept loop, the threads and timers of the broker run, and a mint ends by its timeout; the
\* client has to send nothing and to read nothing, but a handler blocked on a
\* socket that was shut down gets an error.
ServeLiveSpec ==
  /\ ServeSpec
  /\ \A c \in Connection :
       /\ WF_serveVars(Accepted(c)) /\ WF_serveVars(Thread(c)) /\ WF_serveVars(Timer(c))
       /\ WF_serveVars(sock[c] = "shut" /\ Finish(c))

-----------------------------------------------------------------------------
(* Properties.                                                             *)

\* Every thread holds one of the bounded connections, every /creds/ request one
\* of the slots, and both come back on every way out (UnixHTTPServer, do_GET).
NothingLeaks ==
  /\ connections + Cardinality({c \in Connection : pc[c] # "none"}) = MaxConnections
  /\ slots + Cardinality({c \in Connection : pc[c] \in InSlot}) = MaxConcurrent

\* A timer shuts down only the socket it was armed for while the handler is not
\* over: the descriptor of a closed one may be another connection's by then
\* (HealthHandler.handle, _deadline_passed).
ShutsOwnSocket ==
  \A c \in Connection : timer[c] = "shutting" => sock[c] = "open"

\* However many requests wait for a profile, none mints within an interval of an
\* attempt another has noted since it came (State.get decides under the lock).
MintsAreThrottled ==
  \A c \in Connection : pc[c] = "mint" => ~noted[asked[c]]

\* A trickling client cannot hold a thread for ever: every connection comes to
\* its end (handle, REQUEST_DEADLINE_SECONDS).
ConnectionsEnd ==
  \A c \in Connection : pc[c] # "none" ~> pc[c] = "none"
-----------------------------------------------------------------------------
(* The inductive strengthening of the three invariants.                    *)

\* ServeTypeOK without the bounds of the two semaphores, which follow from NothingLeaks.
Typed ==
  /\ pc \in [Connection -> {"none"} \cup Handling]
  /\ asked \in [Connection -> Profile \cup {NoOne}]
  /\ sock \in [Connection -> {"open", "shut", "closed"}]
  /\ timer \in [Connection -> {"off", "armed", "shutting"}]
  /\ connections \in Nat /\ slots \in Nat
  /\ lock \in [Profile -> Connection \cup {NoOne}]
  /\ fresh \in [Profile -> BOOLEAN] /\ noted \in [Profile -> BOOLEAN]

CountInv == Typed /\ NothingLeaks

\* A timer that may still act belongs to a handler that is not over, and to a
\* socket that was open when the thread took it over.
TimerInv ==
  \A c \in Connection :
    /\ pc[c] = "accept" => sock[c] = "open"
    /\ timer[c] # "off" => sock[c] = "open" /\ pc[c] \notin {"none", "accept", "close"}
    /\ timer[c] = "shutting" => pc[c] # "cancel"

\* A request in State.get holds its profile's lock.
MintLockInv ==
  \A c \in Connection :
    /\ pc[c] \in InSlot \ {"leave"} => asked[c] \in Profile
    /\ pc[c] \in InGet => lock[asked[c]] = c

ServeInv == CountInv /\ TimerInv /\ MintLockInv /\ MintsAreThrottled
=============================================================================
