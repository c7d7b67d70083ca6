---------------------------- MODULE AuthManager ----------------------------
(***************************************************************************)
(* The token cache every sending goroutine shares (internal/sync/auth.go)  *)
(* and the call that uses the token (internal/sync/client.go). The         *)
(* department's login endpoint, which issues tokens and decides when they  *)
(* expire, is outside the repository.                                      *)
(*                                                                         *)
(* GetToken's read section changes nothing, so taking the read lock,       *)
(* looking and releasing it is one step. The write lock is held across the *)
(* login request.                                                          *)
(***************************************************************************)
EXTENDS Integers

CONSTANTS
  Callers,      \* goroutines inside SendGradeBatch
  Margin,       \* auth.go:40, 55: 30 s
  LoginTimeout, \* auth.go:32: http.Client.Timeout, 30 s
  Lifetimes,    \* expires_in values the department answers with
  MaxTime,      \* bound on the clock
  MaxLogins,    \* bound on the tokens issued
  None          \* no caller, no token

ASSUME AuthAssumption ==
  /\ Margin \in Nat
  /\ LoginTimeout \in Nat
  /\ Lifetimes \subseteq Nat
  /\ MaxTime \in Nat
  /\ MaxLogins \in Nat
  /\ None \notin Callers

\* The code's two constants are both 30 s.
Timing == LoginTimeout <= Margin

VARIABLES
  now,        \* the wall clock
  token,      \* AuthManager.token: a token, or None
  expiresAt,  \* AuthManager.expiresAt
  writer,     \* the caller that holds the write lock
  pc,         \* per caller
  began,      \* per caller: when its login request was sent
  answer,     \* per caller: the token on its way back to it, or None
  using,      \* per caller: the token GetToken returned to it
  logins,     \* tokens issued so far
  refused     \* serial numbers of tokens the department answered 401 to

vars == <<now, token, expiresAt, writer, pc, began, answer, using, logins,
          refused>>

\* dead: when the department stops accepting the token.
Tokens == [serial : 1 .. MaxLogins, life : Lifetimes, dead : Nat]
Steps == {"idle", "rlock", "lock", "login", "answer", "send"}

TypeOK ==
  /\ now \in 0 .. MaxTime
  /\ token \in Tokens \cup {None}
  /\ expiresAt \in Nat
  /\ writer \in Callers \cup {None}
  /\ pc \in [Callers -> Steps]
  /\ began \in [Callers -> 0 .. MaxTime]
  /\ answer \in [Callers -> Tokens \cup {None}]
  /\ using \in [Callers -> Tokens \cup {None}]
  /\ logins \in 0 .. MaxLogins
  /\ refused \subseteq 1 .. MaxLogins

Init ==
  /\ now = 0
  /\ token = None
  /\ expiresAt = 0
  /\ writer = None
  /\ pc = [c \in Callers |-> "idle"]
  /\ began = [c \in Callers |-> 0]
  /\ answer = [c \in Callers |-> None]
  /\ using = [c \in Callers |-> None]
  /\ logins = 0
  /\ refused = {}

-----------------------------------------------------------------------------
\* Mutant of Fresh: the margin is forgotten.
FreshWithoutMargin == token # None /\ now < expiresAt

\* a.token != "" && time.Now().Before(a.expiresAt.Add(-30 * time.Second)).
Fresh == token # None /\ now + Margin < expiresAt

\* GetToken returns t to caller c.
Got(c, t) ==
  /\ pc' = [pc EXCEPT ![c] = "send"]
  /\ using' = [using EXCEPT ![c] = t]

\* GetToken, or SendGradeBatch itself, returns to processBatch.
Back(c) ==
  /\ pc' = [pc EXCEPT ![c] = "idle"]
  /\ using' = [using EXCEPT ![c] = None]

\* Time passes; a login request in flight is given up after LoginTimeout.
Tick ==
  /\ now < MaxTime
  /\ writer # None => now < began[writer] + LoginTimeout
  /\ now' = now + 1
  /\ UNCHANGED <<token, expiresAt, writer, pc, began, answer, using, logins,
                 refused>>

(* SendGradeBatch calls GetToken.                                          *)
GetToken(c) ==
  /\ pc[c] = "idle"
  /\ pc' = [pc EXCEPT ![c] = "rlock"]
  /\ UNCHANGED <<now, token, expiresAt, writer, began, answer, using, logins,
                 refused>>

(* Under the read lock: return the cached token, or go on to refreshToken. *)
ReadCached(c) ==
  /\ pc[c] = "rlock"
  /\ writer = None
  /\ \/ Fresh /\ Got(c, token)
     \/ ~Fresh /\ pc' = [pc EXCEPT ![c] = "lock"] /\ UNCHANGED using
  /\ UNCHANGED <<now, token, expiresAt, writer, began, answer, logins,
                 refused>>

\* Mutant of Refresh: the lock is given back before the login request is sent.
RefreshUnlocked(c) ==
  /\ pc[c] = "lock"
  /\ writer = None
  /\ \/ /\ Fresh
        /\ Got(c, token)
        /\ UNCHANGED began
     \/ /\ ~Fresh
        /\ began' = [began EXCEPT ![c] = now]
        /\ pc' = [pc EXCEPT ![c] = "login"]
        /\ UNCHANGED using
  /\ UNCHANGED <<now, token, expiresAt, writer, answer, logins, refused>>

(* Under the write lock: the double check, then the login request, which   *)
(* is sent with the lock held.                                             *)
Refresh(c) ==
  /\ pc[c] = "lock"
  /\ writer = None
  /\ \/ /\ Fresh
        /\ Got(c, token)
        /\ UNCHANGED <<writer, began>>
     \/ /\ ~Fresh
        /\ writer' = c
        /\ began' = [began EXCEPT ![c] = now]
        /\ pc' = [pc EXCEPT ![c] = "login"]
        /\ UNCHANGED using
  /\ UNCHANGED <<now, token, expiresAt, answer, logins, refused>>

(* The department issues a token; its lifetime starts now.                 *)
Issue(c) ==
  /\ pc[c] = "login"
  /\ logins < MaxLogins
  /\ \E life \in Lifetimes :
       answer' = [answer EXCEPT ![c] =
                    [serial |-> logins + 1, life |-> life, dead |-> now + life]]
  /\ logins' = logins + 1
  /\ pc' = [pc EXCEPT ![c] = "answer"]
  /\ UNCHANGED <<now, token, expiresAt, writer, began, using, refused>>

\* Mutant of LoggedIn: the margin is taken off here, and then again by Fresh.
LoggedInEarly(c) ==
  /\ pc[c] = "answer"
  /\ token' = answer[c]
  /\ expiresAt' = (now + answer[c].life) - Margin
  /\ answer' = [answer EXCEPT ![c] = None]
  /\ writer' = None
  /\ began' = [began EXCEPT ![c] = 0]
  /\ Got(c, answer[c])
  /\ UNCHANGED <<now, logins, refused>>

(* The answer arrives: expires_in is counted from now.                     *)
LoggedIn(c) ==
  /\ pc[c] = "answer"
  /\ token' = answer[c]
  /\ expiresAt' = now + answer[c].life
  /\ answer' = [answer EXCEPT ![c] = None]
  /\ writer' = None
  /\ began' = [began EXCEPT ![c] = 0]
  /\ Got(c, answer[c])
  /\ UNCHANGED <<now, logins, refused>>

\* Mutant of LoginFails: the error path forgets to unlock.
LoginFailsLocked(c) ==
  /\ pc[c] \in {"login", "answer"}
  /\ answer' = [answer EXCEPT ![c] = None]
  /\ began' = [began EXCEPT ![c] = 0]
  /\ Back(c)
  /\ UNCHANGED <<now, token, expiresAt, writer, logins, refused>>

(* No answer in time, a status other than 200, a body that is not JSON, or *)
(* a cancelled context. The old token stays in the cache.                  *)
LoginFails(c) ==
  /\ pc[c] \in {"login", "answer"}
  /\ answer' = [answer EXCEPT ![c] = None]
  /\ writer' = None
  /\ began' = [began EXCEPT ![c] = 0]
  /\ Back(c)
  /\ UNCHANGED <<now, token, expiresAt, logins, refused>>

(* The batch is sent with the token. The department may refuse it with 401 *)
(* at any time; a dead token it always refuses. 401 leaves the cache alone.*)
Send(c) ==
  /\ pc[c] = "send"
  /\ \/ now < using[c].dead /\ UNCHANGED refused
     \/ refused' = refused \cup {using[c].serial}
  /\ Back(c)
  /\ UNCHANGED <<now, token, expiresAt, writer, began, answer, logins>>

Next ==
  \/ Tick
  \/ \E c \in Callers :
       \/ GetToken(c)
       \/ ReadCached(c)
       \/ Refresh(c)
       \/ Issue(c)
       \/ LoggedIn(c)
       \/ LoginFails(c)
       \/ Send(c)

\* Go's RWMutex starves nobody; a login request ends by its timeout at the
\* latest, and so does a send.
Fairness ==
  \A c \in Callers :
    /\ SF_vars(ReadCached(c))
    /\ SF_vars(Refresh(c))
    /\ WF_vars(LoggedIn(c) \/ LoginFails(c))
    /\ WF_vars(Send(c))

Spec == Init /\ [][Next]_vars /\ Fairness

-----------------------------------------------------------------------------
\* In this step caller c is given the cached token.
ServedFromCache(c) == pc[c] \in {"rlock", "lock"} /\ pc'[c] = "send"

(* A token taken from the cache is still accepted by the department at     *)
(* that moment: the margin covers the time the login answer was on its way *)
(* (auth.go:32, 40, 55, 95).                                               *)
CachedTokenIsAlive ==
  [][\A c \in Callers : ServedFromCache(c) => now < using'[c].dead]_vars

(* While a login is under way the cache holds no fresh token, and nobody   *)
(* else is logging in: of the goroutines that found the token stale        *)
(* together, one logs in and the others take its token. Only a token with  *)
(* a lifetime within the margin helps no other: each of them then logs in, *)
(* one after the other (auth.go:51-57).                                    *)
LoggingIn(c) == pc[c] \in {"login", "answer"}
LoginIsNeeded ==
  \A c \in Callers :
    LoggingIn(c) => ~Fresh /\ \A d \in Callers \ {c} : ~LoggingIn(d)

(* No caller waits for the lock, or for a token, for ever.                 *)
GetTokenReturns ==
  \A c \in Callers : pc[c] = "rlock" ~> pc[c] \in {"send", "idle"}

(* "Token might be expired, retry will refresh it" (client.go:98): a token *)
(* that was answered with 401 is not handed out again.                     *)
RefusedTokenIsRefreshed ==
  [][\A c \in Callers :
       ServedFromCache(c) => using'[c].serial \notin refused]_vars
=============================================================================
