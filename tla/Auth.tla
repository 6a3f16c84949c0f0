-------------------------------- MODULE Auth --------------------------------
(***************************************************************************)
(* Authentication (server/src/auth.c): registration, login with its rate   *)
(* limit and lockout, tokens and sessions, logout.  All tables are behind  *)
(* db_mutex, and a login takes it several times; what lies between two     *)
(* critical sections can interleave with other threads' calls.             *)
(*                                                                         *)
(* An HMAC is the text it was made of: two are equal when the texts are.   *)
(* A token is shown as a prefix with user and expiry, and the HMAC.        *)
(***************************************************************************)
EXTENDS Integers, FiniteSets

CONSTANTS AuthThreads, Users, Ips,
          MaxAttempts,   \* AUTH_MAX_LOGIN_ATTEMPTS
          ip_limit,      \* failures of an address in an hour (20)
          user_limit,    \* failures of a user in an hour (10)
          Hour,          \* the window, and the life of a session
          MaxClock,      \* bound of the clock
          MaxTokens      \* bound: session rows

ASSUME AuthAssumption ==
    /\ IsFiniteSet(AuthThreads) /\ {MaxAttempts, Hour} \subseteq Nat \ {0}
    /\ {ip_limit, user_limit, MaxClock, MaxTokens} \subseteq Nat

VARIABLES aclock,
          attempts,    \* users: login_attempts, -1 for a user who is not there
          asessions,   \* rows of sessions
          jti,         \* random ids drawn so far
          failures,    \* security_logs: rows LOGIN_FAILED, with address, user (0: none) and time
          db_mutex,    \* "free", or "hung": a thread waits for itself
          alogin,      \* the login of a thread
          handed,      \* access tokens given to callers
          refused      \* ... refused although their session is valid

authvars == <<aclock, attempts, asessions, jti, failures, db_mutex, alogin, handed, refused>>

Times == 0..MaxClock
NoUser == 0
NoLogin == [pc |-> "idle", user |-> NoUser, ip |-> NoUser, right |-> FALSE, token |-> 0]

AuthInit ==
    /\ aclock = 0 /\ jti = 0 /\ db_mutex = "free"
    /\ attempts = [u \in Users |-> -1]
    /\ asessions = {} /\ failures = {} /\ handed = {} /\ refused = {}
    /\ alogin = [t \in AuthThreads |-> NoLogin]

Registered(u) == attempts[u] # -1
MutexFree == db_mutex = "free"

SecondPasses ==
    /\ aclock < MaxClock
    /\ aclock' = aclock + 1
    /\ UNCHANGED <<attempts, asessions, jti, failures, db_mutex, alogin, handed, refused>>

-----------------------------------------------------------------------------
(* auth_register_user: the test for the name and the insertion are one critical
   section.  With tokens asked for, a login follows. *)
Register(t, u, i, login) ==
    /\ alogin[t].pc = "idle" /\ MutexFree /\ ~Registered(u)
    /\ attempts' = [attempts EXCEPT ![u] = 0]
    /\ alogin' = IF login
                 THEN [alogin EXCEPT ![t] = [NoLogin EXCEPT !.pc = "rate", !.user = u, !.ip = i, !.right = TRUE]]
                 ELSE alogin
    /\ UNCHANGED <<aclock, asessions, jti, failures, db_mutex, handed, refused>>

-----------------------------------------------------------------------------
(* rate_limit_check *)

LastHour == {f \in failures : f.created_at > aclock - Hour}

(* The two queries. *)
FailuresFrom(i) == Cardinality({f \in LastHour : f.ip = i})
FailuresOf(u) == Cardinality({f \in LastHour : f.user = u})

(* Mutation variant: only the user's failures are looked at. *)
WithinRateUserOnly(i, u) == FailuresOf(u) <= user_limit

WithinRate(i, u) == FailuresFrom(i) <= ip_limit /\ FailuresOf(u) <= user_limit

(* A statement that cannot be prepared lets a login pass; that takes a lack of
   memory and is left out. *)
Limited(t, l) ==
    /\ MutexFree
    /\ alogin' = [alogin EXCEPT ![t] = IF WithinRate(l.ip, l.user) THEN [l EXCEPT !.pc = "verify"] ELSE NoLogin]
    /\ UNCHANGED <<aclock, attempts, asessions, jti, failures, db_mutex, handed, refused>>

(* auth_login_user begins with it, called by a client ... *)
Login(t, u, i, right) ==
    /\ alogin[t].pc = "idle"
    /\ Limited(t, [NoLogin EXCEPT !.user = u, !.ip = i, !.right = right])

(* ... or by auth_register_user. *)
LoginAfterRegister(t) == alogin[t].pc = "rate" /\ Limited(t, alogin[t])

-----------------------------------------------------------------------------
(* auth_login_user after the rate limit.  No account is ever locked or
   disabled: the one place that would lock it does not get that far. *)

(* The user is not there. *)
UserNotFound(t) ==
    /\ alogin[t].pc = "verify" /\ MutexFree /\ ~Registered(alogin[t].user)
    /\ alogin' = [alogin EXCEPT ![t].pc = "fail", ![t].user = NoUser]
    /\ UNCHANGED <<aclock, attempts, asessions, jti, failures, db_mutex, handed, refused>>

(* The password is wrong.  With the last attempt auth_log_security_event
   takes db_mutex, which this thread holds. *)
WrongPassword(t) ==
    LET u == alogin[t].user IN
    /\ alogin[t].pc = "verify" /\ MutexFree /\ Registered(u) /\ ~alogin[t].right
    /\ IF attempts[u] + 1 >= MaxAttempts
       THEN db_mutex' = "hung" /\ UNCHANGED <<attempts, alogin>>
       ELSE /\ attempts' = [attempts EXCEPT ![u] = @ + 1]
            /\ alogin' = [alogin EXCEPT ![t].pc = "fail"] /\ UNCHANGED db_mutex
    /\ UNCHANGED <<aclock, asessions, jti, failures, handed, refused>>

RightPassword(t) ==
    LET u == alogin[t].user IN
    /\ alogin[t].pc = "verify" /\ MutexFree /\ Registered(u) /\ alogin[t].right
    /\ attempts' = [attempts EXCEPT ![u] = 0]
    /\ alogin' = [alogin EXCEPT ![t].pc = "tokens"]
    /\ UNCHANGED <<aclock, asessions, jti, failures, db_mutex, handed, refused>>

(* log_authentication_attempt *)
LogFailure(t) ==
    LET l == alogin[t] IN
    /\ l.pc = "fail" /\ MutexFree
    /\ failures' = failures \cup {[id |-> Cardinality(failures) + 1, ip |-> l.ip, user |-> l.user,
                                   created_at |-> aclock]}
    /\ alogin' = [alogin EXCEPT ![t] = NoLogin]
    /\ UNCHANGED <<aclock, attempts, asessions, jti, db_mutex, handed, refused>>

-----------------------------------------------------------------------------
(* Tokens *)

(* generate_access_token signs a text with the id, and shows less than it signs. *)
Signed(user, ip, at, id) == <<user, ip, at, at + Hour, id>>
Shown(user, exp) == <<user, exp>>

(* generate_refresh_token draws a random part and does not use it. *)
RefreshToken(user, ip, at) == <<user, ip, at>>

Row(user, ip, at, id) ==
    [user |-> user, id |-> id, signed |-> Signed(user, ip, at, id), expires |-> at + Hour,
     refresh |-> RefreshToken(user, ip, at), valid |-> TRUE]

(* Both tokens are UNIQUE columns. *)
Insertable(row) == \A s \in asessions : s.refresh # row.refresh /\ s.id # row.id

(* auth_generate_tokens, for the caller: its row cannot be inserted when the
   user logged in from the same address in the same second. *)
GenerateTokens(t) ==
    LET l == alogin[t]
        row == Row(l.user, l.ip, aclock, jti + 1)
    IN
    /\ l.pc = "tokens" /\ MutexFree /\ jti < MaxTokens
    /\ jti' = jti + 1
    /\ IF Insertable(row)
       THEN /\ asessions' = asessions \cup {row}
            /\ alogin' = [alogin EXCEPT ![t].pc = "session", ![t].token = jti + 1]
       ELSE alogin' = [alogin EXCEPT ![t] = NoLogin] /\ UNCHANGED asessions
    /\ UNCHANGED <<aclock, attempts, failures, db_mutex, handed, refused>>

(* auth_create_session generates a second pair, which nobody gets, and its
   result is not looked at. *)
CreateSession(t) ==
    LET l == alogin[t]
        row == Row(l.user, l.ip, aclock, jti + 1)
    IN
    /\ l.pc = "session" /\ MutexFree /\ jti < MaxTokens
    /\ jti' = jti + 1
    /\ asessions' = IF Insertable(row) THEN asessions \cup {row} ELSE asessions
    /\ handed' = handed \cup {l.token}
    /\ alogin' = [alogin EXCEPT ![t] = NoLogin]
    /\ UNCHANGED <<aclock, attempts, failures, db_mutex, refused>>

(* auth_logout_user *)
Logout(t, s) ==
    /\ alogin[t].pc = "idle" /\ MutexFree /\ s \in asessions /\ s.id \in handed /\ s.valid
    /\ asessions' = (asessions \ {s}) \cup {[s EXCEPT !.valid = FALSE]}
    /\ UNCHANGED <<aclock, attempts, jti, failures, db_mutex, alogin, handed, refused>>

(* validate_token_signature makes the HMAC of what the token shows; a token is
   cut at 63 characters besides, and one below 64 is refused. *)
SignatureHolds(s) == s.signed = Shown(s.user, s.expires)

SessionHolds(s) == s.valid /\ s.expires > aclock

(* auth_validate_token, auth_websocket_handshake *)
ValidateToken(t, s) ==
    /\ alogin[t].pc = "idle" /\ MutexFree /\ s \in asessions /\ s.id \in handed
    /\ refused' = IF SessionHolds(s) /\ ~SignatureHolds(s) THEN refused \cup {s.id} ELSE refused
    /\ UNCHANGED <<aclock, attempts, asessions, jti, failures, db_mutex, alogin, handed>>

AuthNext ==
    \/ SecondPasses
    \/ \E t \in AuthThreads :
         \/ \E u \in Users, i \in Ips, b \in BOOLEAN : Register(t, u, i, b) \/ Login(t, u, i, b)
         \/ LoginAfterRegister(t) \/ UserNotFound(t) \/ WrongPassword(t) \/ RightPassword(t) \/ LogFailure(t)
         \/ GenerateTokens(t) \/ CreateSession(t)
         \/ \E s \in asessions : Logout(t, s) \/ ValidateToken(t, s)

AuthSpec == AuthInit /\ [][AuthNext]_authvars

-----------------------------------------------------------------------------
(* Properties *)

AuthTypeOK ==
    /\ aclock \in Times /\ jti \in 0..MaxTokens /\ db_mutex \in {"free", "hung"}
    /\ attempts \in [Users -> -1..(MaxAttempts - 1)]
    /\ handed \subseteq 1..MaxTokens /\ refused \subseteq handed
    /\ {s.id : s \in asessions} \subseteq 1..jti

(* The limit is tested in one critical section and the failure is recorded in
   another one (lines 479-482, 588): threads pass the test together, but an
   address never fails more often in an hour than the limit and once for each
   thread (lines 1282-1336). *)
FailuresLimited ==
    \A i \in Ips : FailuresFrom(i) <= ip_limit + Cardinality(AuthThreads)

(* A token that a login returned is accepted while its session is valid:
   test_auth.c:33 asserts it. *)
IssuedTokenValidates == refused = {}
=============================================================================
