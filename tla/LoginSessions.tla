---------------------------- MODULE LoginSessions ----------------------------
(***************************************************************************)
(* Login by email (graphql auth/magic-link.ts, mail.ts, expand.ts,          *)
(* challenge.ts, revoke.ts, index.ts and models login.ts): an email brings  *)
(* a link with a challenge and its code, completing the challenge opens a   *)
(* session, and requests that present its token are the account's until it  *)
(* is revoked or expires.                                                   *)
(*                                                                         *)
(* A login is named by the call that asked for it, and its challenge by the *)
(* login; a session and its token by the completion that opened it.  The    *)
(* mail provider is external; no code removes an account.                    *)
(***************************************************************************)
EXTENDS Integers, FiniteSets

CONSTANTS
  Logins,      \* calls of loginByEmail
  Completions, \* calls of completeLoginChallenge
  Bearers,     \* requests that present a token
  Accounts,    \* the accounts addresses may be of
  Known,       \* those that exist
  Lifetime,    \* how long a challenge lives
  MaxTime,     \* bound on the clock
  NoRow       \* no row, no session, no answer

ASSUME LoginAssumption ==
  Known \subseteq Accounts /\ Lifetime \in Nat /\ MaxTime \in Nat

\* What is stored is told from what is not.
ASSUME NoRowAssumption ==
  /\ NoRow \notin [account : Accounts, expires : Nat, consumed : Nat]
  /\ NoRow \notin [account : Accounts, open : BOOLEAN]
  /\ NoRow \notin Completions

VARIABLES
  clock,
  challenges, \* rows of login_challenges, by login
  sessions,   \* rows of sessions, by the completion that inserted them
  login,      \* each login call: where it is, for which address
  completion, \* each completion call
  bearer      \* each request: the session its context holds

loginVars ==
  <<clock, challenges, sessions, login, completion, bearer>>

Times == 0 .. MaxTime
Unused == MaxTime + 1 \* not consumed

LoginInit ==
  /\ clock = 0
  /\ challenges = [l \in Logins |-> NoRow]
  /\ sessions = [c \in Completions |-> NoRow]
  /\ login = [l \in Logins |-> [at |-> "idle", account |-> NoRow]]
  /\ completion = [c \in Completions |->
       [at |-> "idle", of |-> NoRow, now |-> 0, right |-> FALSE]]
  /\ bearer = [b \in Bearers |-> [at |-> "idle", session |-> NoRow]]

-----------------------------------------------------------------------------
LoginAt(l, point) == login' = [login EXCEPT ![l].at = point]
CompletionAt(c, point) == completion' = [completion EXCEPT ![c].at = point]

\* The verification URL expands to an allowed origin with both variables, or
\* the mutation fails before anything is read.
LoginByEmail(l) ==
  /\ login[l].at = "idle"
  /\ \/ \E a \in Accounts :
          login' = [login EXCEPT ![l] = [at |-> "find", account |-> a]]
     \/ LoginAt(l, "failed")
  /\ UNCHANGED <<clock, challenges, sessions, completion, bearer>>

\* An unknown address is answered with an identifier all the same.
FindAccount(l) ==
  /\ login[l].at = "find"
  /\ LoginAt(l, IF login[l].account \in Known THEN "insert" ELSE "answered")
  /\ UNCHANGED <<clock, challenges, sessions, completion, bearer>>

InsertChallenge(l) ==
  /\ login[l].at = "insert"
  /\ challenges' = [challenges EXCEPT ![l] =
       [account |-> login[l].account, expires |-> clock + Lifetime,
        consumed |-> Unused]]
  /\ LoginAt(l, "mail")
  /\ UNCHANGED <<clock, sessions, completion, bearer>>

\* A cancelled request fails; what else goes wrong in the mail is only logged.
SendMail(l) ==
  /\ login[l].at = "mail"
  /\ \E outcome \in {"answered", "failed"} : LoginAt(l, outcome)
  /\ UNCHANGED <<clock, challenges, sessions, completion, bearer>>

-----------------------------------------------------------------------------
\* The time the challenge is judged by is read once.
CompleteLoginChallenge(c) ==
  /\ completion[c].at = "idle"
  /\ \E l \in Logins, right \in BOOLEAN :
       completion' = [completion EXCEPT ![c] =
         [at |-> "find", of |-> l, now |-> clock, right |-> right]]
  /\ UNCHANGED <<clock, challenges, sessions, login, bearer>>

ChallengeRow(c) == challenges[completion[c].of]

ChallengeOpen(c) ==
  /\ ChallengeRow(c) # NoRow
  /\ ChallengeRow(c).consumed = Unused
  /\ ChallengeRow(c).expires > completion[c].now

FindLoginChallenge(c) ==
  /\ completion[c].at = "find"
  /\ CompletionAt(c, IF ChallengeOpen(c) THEN "compare" ELSE "refused")
  /\ UNCHANGED <<clock, challenges, sessions, login, bearer>>

\* The token is made and hashed, then the codes are compared.
CompareCodes(c) ==
  /\ completion[c].at = "compare"
  /\ CompletionAt(c, IF completion[c].right THEN "consume" ELSE "refused")
  /\ UNCHANGED <<clock, challenges, sessions, login, bearer>>

\* The update waits for a transaction that updated the row, and judges the row
\* that one leaves.
Updates(d, c) ==
  completion[d].at = "session" /\ completion[d].of = completion[c].of

\* Mutant: the challenge is consumed before the transaction.
ConsumeAlone(c) ==
  /\ completion[c].at = "consume"
  /\ IF ChallengeOpen(c)
     THEN /\ challenges' =
               [challenges EXCEPT ![completion[c].of].consumed =
                  completion[c].now]
          /\ CompletionAt(c, "session")
     ELSE CompletionAt(c, "refused") /\ UNCHANGED challenges
  /\ UNCHANGED <<clock, sessions, login, bearer>>

\* consumeLoginChallenge(): its update is not seen before the commit.
ConsumeLoginChallenge(c) ==
  /\ completion[c].at = "consume"
  /\ \A d \in Completions : ~Updates(d, c)
  /\ CompletionAt(c, IF ChallengeOpen(c) THEN "session" ELSE "refused")
  /\ UNCHANGED <<clock, challenges, sessions, login, bearer>>

\* The session is inserted and the transaction commits both.
InsertSession(c) ==
  /\ completion[c].at = "session"
  /\ challenges' = [challenges EXCEPT ![completion[c].of].consumed =
                      completion[c].now]
  /\ sessions' = [sessions EXCEPT ![c] =
                    [account |-> ChallengeRow(c).account, open |-> TRUE]]
  /\ CompletionAt(c, "read")
  /\ UNCHANGED <<clock, login, bearer>>

\* The session is read back and returned with its token.
AnswerSession(c) ==
  /\ completion[c].at = "read"
  /\ CompletionAt(c, IF sessions[c].open THEN "given" ELSE "refused")
  /\ UNCHANGED <<clock, challenges, sessions, login, bearer>>

\* A database error fails the call, and rolls its transaction back.
CompletionFails(c) ==
  /\ completion[c].at \in {"find", "consume", "session", "read"}
  /\ CompletionAt(c, "failed")
  /\ UNCHANGED <<clock, challenges, sessions, login, bearer>>

-----------------------------------------------------------------------------
\* The context of a request finds the session of its token.
LoadContext(b) ==
  /\ bearer[b].at = "idle"
  /\ \E c \in Completions :
       /\ completion[c].at = "given"
       /\ bearer' = [bearer EXCEPT ![b] =
            [at |-> "loaded",
             session |-> IF sessions[c].open THEN c ELSE NoRow]]
  /\ UNCHANGED <<clock, challenges, sessions, login, completion>>

\* revokeSession() deletes the row of the context's session.
RevokeSession(b) ==
  /\ bearer[b].at = "loaded"
  /\ bearer[b].session # NoRow
  /\ sessions' = [sessions EXCEPT ![bearer[b].session].open = FALSE]
  /\ bearer' = [bearer EXCEPT ![b].at = "revoked"]
  /\ UNCHANGED <<clock, challenges, login, completion>>

SessionExpires(c) ==
  /\ sessions[c] # NoRow
  /\ sessions[c].open
  /\ sessions' = [sessions EXCEPT ![c].open = FALSE]
  /\ UNCHANGED <<clock, challenges, login, completion, bearer>>

ClockTicks ==
  /\ clock < MaxTime
  /\ clock' = clock + 1
  /\ UNCHANGED <<challenges, sessions, login, completion, bearer>>

Completing(c) ==
  \/ CompleteLoginChallenge(c) \/ FindLoginChallenge(c) \/ CompareCodes(c)
  \/ ConsumeLoginChallenge(c) \/ InsertSession(c) \/ AnswerSession(c)
  \/ CompletionFails(c)

LoginNext ==
  \/ \E l \in Logins : \/ LoginByEmail(l) \/ FindAccount(l)
                       \/ InsertChallenge(l) \/ SendMail(l)
  \/ \E c \in Completions : Completing(c) \/ SessionExpires(c)
  \/ \E b \in Bearers : LoadContext(b) \/ RevokeSession(b)
  \/ ClockTicks

LoginSpec == LoginInit /\ [][LoginNext]_loginVars

-----------------------------------------------------------------------------
(* Properties                                                              *)

LoginTypeOK ==
  /\ clock \in Times
  /\ challenges \in [Logins -> {NoRow} \union
       [account : Accounts, expires : Nat, consumed : Times \union {Unused}]]
  /\ sessions \in [Completions -> {NoRow} \union
       [account : Accounts, open : BOOLEAN]]
  /\ login \in [Logins ->
       [at : {"idle", "find", "insert", "mail", "answered", "failed"},
        account : Accounts \union {NoRow}]]
  /\ completion \in [Completions ->
       [at : {"idle", "find", "compare", "consume", "session", "read", "given",
              "refused", "failed"},
        of : Logins \union {NoRow}, now : Times, right : BOOLEAN]]
  /\ bearer \in [Bearers -> [at : {"idle", "loaded", "revoked"},
                             session : Completions \union {NoRow}]]

Opened(l) == {c \in Completions : sessions[c] # NoRow /\ completion[c].of = l}

\* However many completions of a challenge race, fail or are repeated, it opens
\* one session, of its own account and to a caller that knew the code in time;
\* a challenge is used up exactly when it has opened it, so that a completion
\* that fails leaves it to the next.
OneSessionPerChallenge ==
  \A l \in Logins :
    /\ Cardinality(Opened(l)) <= 1
    /\ challenges[l] # NoRow =>
         (challenges[l].consumed # Unused <=> Opened(l) # {})
    /\ \A c \in Opened(l) :
         /\ sessions[c].account = challenges[l].account
         /\ completion[c].right
         /\ completion[c].now < challenges[l].expires
=============================================================================
