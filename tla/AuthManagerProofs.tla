------------------------- MODULE AuthManagerProofs -------------------------
(***************************************************************************)
(* Proofs about AuthManager: for every number of goroutines, every token   *)
(* lifetime, and every margin that is no shorter than the login timeout, a *)
(* token taken from the cache has not expired; and one caller at a time    *)
(* logs in, when the cache holds no fresh token.                           *)
(***************************************************************************)
EXTENDS AuthManager, TLAPS

\* The write lock is held by exactly the caller whose login is in flight, that
\* login is not older than its timeout, and the cache is as stale as the caller
\* found it.
LoginInv ==
  \A c \in Callers :
    pc[c] \in {"login", "answer"}
      => /\ writer = c
         /\ began[c] <= now
         /\ now <= began[c] + LoginTimeout
         /\ ~Fresh

\* A token on its way was issued after the login request was sent.
AnswerInv ==
  \A c \in Callers :
    pc[c] = "answer"
      => answer[c] \in Tokens /\ began[c] + answer[c].life <= answer[c].dead

\* The cache overestimates the lifetime of its token by the login timeout at
\* most.
CacheInv == token # None => expiresAt <= token.dead + LoginTimeout

\* A caller that sends has a token.
UsingInv == \A c \in Callers : pc[c] = "send" => using[c] \in Tokens

IInv == TypeOK /\ LoginInv /\ AnswerInv /\ CacheInv /\ UsingInv

USE DEF Steps

LEMMA InitIInv == Init => IInv
BY AuthAssumption
DEF AuthAssumption, Init, IInv, TypeOK, LoginInv, AnswerInv, CacheInv, UsingInv,
    Fresh, Tokens

LEMMA NextIInv == IInv /\ [Next]_vars => IInv'
<1> SUFFICES ASSUME IInv, [Next]_vars PROVE IInv'
  OBVIOUS
<1> USE AuthAssumption
    DEF AuthAssumption, IInv, TypeOK, LoginInv, AnswerInv, CacheInv, UsingInv,
        Fresh
<1>1. CASE Tick
  BY <1>1 DEF Tick, Tokens
<1>2. ASSUME NEW c \in Callers, GetToken(c) PROVE IInv'
  BY <1>2 DEF GetToken
<1>3. ASSUME NEW c \in Callers, ReadCached(c) PROVE IInv'
  BY <1>3 DEF ReadCached, Got
<1>4. ASSUME NEW c \in Callers, Refresh(c) PROVE IInv'
  BY <1>4 DEF Refresh, Got
<1>5. ASSUME NEW c \in Callers, Issue(c) PROVE IInv'
  BY <1>5 DEF Issue, Tokens
<1>6. ASSUME NEW c \in Callers, LoggedIn(c) PROVE IInv'
  <2>1. answer[c] \in Tokens
    BY <1>6 DEF LoggedIn
  <2>2. answer[c].life \in Nat /\ answer[c].dead \in Nat
    BY <2>1 DEF Tokens
  <2>3. /\ now <= began[c] + LoginTimeout
        /\ began[c] + answer[c].life <= answer[c].dead
    BY <1>6 DEF LoggedIn
  <2>4. now + answer[c].life <= answer[c].dead + LoginTimeout
    BY <2>2, <2>3
  <2>5. CacheInv' /\ expiresAt' \in Nat
    BY <1>6, <2>2, <2>4 DEF LoggedIn
  <2>6. TypeOK'
    BY <1>6, <2>1, <2>5 DEF LoggedIn, Got
  <2>7. LoginInv' /\ AnswerInv' /\ UsingInv'
    BY <1>6, <2>1 DEF LoggedIn, Got
  <2> QED
    BY <2>5, <2>6, <2>7
<1>7. ASSUME NEW c \in Callers, LoginFails(c) PROVE IInv'
  BY <1>7 DEF LoginFails, Back
<1>8. ASSUME NEW c \in Callers, Send(c) PROVE IInv'
  <2>1. using[c] \in Tokens
    BY <1>8 DEF Send
  <2>2. using[c].serial \in 1 .. MaxLogins
    BY <2>1 DEF Tokens
  <2> QED
    BY <1>8, <2>2 DEF Send, Back
<1>9. CASE UNCHANGED vars
  BY <1>9 DEF vars
<1> QED
  BY <1>1, <1>2, <1>3, <1>4, <1>5, <1>6, <1>7, <1>8, <1>9 DEF Next

(* The cache, the lock and the tokens in flight keep their types.          *)
THEOREM AuthTypeCorrect == Spec => []TypeOK
<1>1. IInv => TypeOK
  BY DEF IInv
<1> QED
  BY <1>1, InitIInv, NextIInv, PTL DEF Spec

-----------------------------------------------------------------------------
\* Why the margin is enough: what the cache calls fresh is alive.
LEMMA FreshIsAlive ==
  ASSUME IInv, Timing, Fresh
  PROVE  now < token.dead
<1>1. expiresAt <= token.dead + LoginTimeout /\ now + Margin < expiresAt
  BY DEF IInv, CacheInv, Fresh
<1>2. token \in Tokens
  BY DEF IInv, TypeOK, Fresh
<1>3. token.dead \in Nat
  BY <1>2 DEF Tokens
<1> QED
  BY <1>1, <1>3, AuthAssumption DEF AuthAssumption, IInv, TypeOK, Timing

LEMMA AliveStep ==
  ASSUME IInv, Timing, [Next]_vars, NEW c \in Callers, ServedFromCache(c)
  PROVE  now < using'[c].dead
<1> USE DEF IInv, TypeOK, ServedFromCache
<1>1. CASE ReadCached(c) \/ Refresh(c)
  <2>1. Fresh /\ using'[c] = token
    BY <1>1 DEF ReadCached, Refresh, Got
  <2> QED
    BY <2>1, FreshIsAlive
<1>2. ReadCached(c) \/ Refresh(c)
  BY DEF Next, vars, Tick, GetToken, ReadCached, Refresh, Issue, LoggedIn,
         LoginFails, Send, Got, Back
<1> QED
  BY <1>1, <1>2

(* A token served from the cache has not expired at the department, if the *)
(* login timeout is no longer than the margin.                             *)
THEOREM CachedTokenAlive ==
  ASSUME Timing
  PROVE  Spec => CachedTokenIsAlive
<1>1. IInv /\ [Next]_vars =>
        [\A c \in Callers : ServedFromCache(c) => now < using'[c].dead]_vars
  BY AliveStep
<1> QED
  BY <1>1, InitIInv, NextIInv, PTL DEF Spec, CachedTokenIsAlive

-----------------------------------------------------------------------------
(* However many goroutines find the token stale at once, one logs in at a  *)
(* time, and none while the cache holds a fresh token (auth.go:51-57).     *)
THEOREM LoginNeeded == Spec => []LoginIsNeeded
<1>1. IInv => LoginIsNeeded
  BY DEF IInv, LoginInv, LoginIsNeeded, LoggingIn
<1> QED
  BY <1>1, InitIInv, NextIInv, PTL DEF Spec
=============================================================================
