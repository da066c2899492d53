------------------------------ MODULE Sessions ------------------------------
(* Authentication: password login, enrolment and confirmation of the       *)
(* second factor, logout (backend/api/auth.py), the checks in front of     *)
(* every page (backend/security/dependencies.py), tokens (jwt.py), codes   *)
(* (totp.py), and the server session of main.py.  The endpoints are plain  *)
(* functions, so each request runs in a worker thread of its own, with a   *)
(* database session of its own: the row of the administrator is read       *)
(* before the endpoint begins and written when it commits.  Answers are    *)
(* lost, or arrive after the answers to later requests.                    *)
EXTENDS Naturals

CONSTANTS
    Browsers,
    Requests,     \* bound of the model on requests under way
    NoToken,
    NoSecret,     \* no enrolment has been started
    Idle,
    Lifetime,     \* access_token_expire_minutes
    CookieAge,    \* max_age of the cookies
    MaxTime,      \* bounds of the model: on the clock,
    MaxSecrets,   \* on the secrets generated,
    MaxRestarts   \* and on the restarts of the process

ASSUME SessionAssumption == Lifetime \in Nat /\ CookieAge \in Nat

VARIABLES
    account,     \* the row of the administrator: secret and totp_enabled
    secrets,     \* secrets generated so far; they are numbered
    session,     \* server_session_id: the number of the process
    jar,         \* for each browser its two cookies, with their ends
    task,        \* for each request under way, where it is
    phone,       \* the secrets that the authenticator of the user knows
    clock,
    out,         \* browsers without a login since their logout or a restart
    overlapped   \* a row was written that had changed since it was read

sessionVars == <<account, secrets, session, jar, task, phone, clock, out,
                 overlapped>>

Secrets == 1 .. MaxSecrets

NoCookies == [token |-> NoToken, tokenEnd |-> 0, session |-> 0, sessionEnd |-> 0]

-----------------------------------------------------------------------------
(* Tokens and what they give access to.  "since" is when the password was  *)
(* entered that a token goes back to; no token shows it.                   *)

\* create_access_token
NewToken(purpose, since) ==
    [purpose |-> purpose, exp |-> clock + Lifetime, since |-> since]

\* _get_token_payload: a browser sends the cookies that have not ended.
Presented(b) ==
    /\ jar[b].token # NoToken
    /\ clock < jar[b].tokenEnd
    /\ jar[b].session = session /\ clock < jar[b].sessionEnd
    /\ clock < jar[b].token.exp

\* Faulty variant: the purpose is not looked at.
PendingOrFull(b) == Presented(b)

\* get_totp_enrollment_user
Pending(b) == Presented(b) /\ jar[b].token.purpose = "totp_enrollment"

\* get_current_user: what the pages and the control API ask for.
Access(b) == Presented(b) /\ jar[b].token.purpose = "authenticated"

-----------------------------------------------------------------------------
(* Requests.                                                               *)

KeepHistory == UNCHANGED <<out, overlapped>>

Take(q, t) ==
    /\ task[q] = Idle
    /\ task' = [task EXCEPT ![q] = t]
    /\ UNCHANGED <<account, session, jar, phone, clock>> /\ KeepHistory

Answer(kind, b, content) == [pc |-> "answer", kind |-> kind, browser |-> b,
                             content |-> content]

\* The password is right; an endpoint that refuses changes nothing.
Login(q, b) ==
    /\ Take(q, Answer("login", b,
                      [token |-> NewToken("totp_enrollment", clock),
                       session |-> session]))
    /\ UNCHANGED secrets

Logout(q, b) ==
    /\ Access(b)
    /\ Take(q, Answer("logout", b, session))
    /\ UNCHANGED secrets

\* totp_enroll, up to the commit
Enroll(q, b) ==
    /\ Pending(b)
    /\ ~account.enabled
    /\ secrets < MaxSecrets
    /\ secrets' = secrets + 1
    /\ Take(q, [pc |-> "commit", kind |-> "enroll", browser |-> b,
                read |-> account,
                new |-> [secret |-> secrets + 1, enabled |-> FALSE],
                since |-> jar[b].token.since])

FullAnswer(b, since) == Answer("confirm", b, NewToken("authenticated", since))

\* totp_confirm with a code of the secret in the row: an account that has
\* enabled the second factor gets its token at once.
ConfirmLogin(q, b) ==
    /\ Pending(b)
    /\ account.secret \in phone
    /\ account.enabled
    /\ Take(q, FullAnswer(b, jar[b].token.since))
    /\ UNCHANGED secrets

\* Faulty variant: the code is not verified.
ConfirmFirstAnyCode(q, b) ==
    /\ Pending(b)
    /\ account.secret # NoSecret /\ ~account.enabled
    /\ Take(q, [pc |-> "commit", kind |-> "confirm", browser |-> b,
                read |-> account,
                new |-> [account EXCEPT !.enabled = TRUE],
                since |-> jar[b].token.since])
    /\ UNCHANGED secrets

ConfirmFirst(q, b) ==
    /\ Pending(b)
    /\ account.secret \in phone
    /\ ~account.enabled
    /\ Take(q, [pc |-> "commit", kind |-> "confirm", browser |-> b,
                read |-> account,
                new |-> [account EXCEPT !.enabled = TRUE],
                since |-> jar[b].token.since])
    /\ UNCHANGED secrets

\* An UPDATE names the columns that differ from what was read, and no others.
Flushed(now, read, new) ==
    [column \in DOMAIN now |->
        IF new[column] # read[column] THEN new[column] ELSE now[column]]

Commit(q) ==
    LET t == task[q] IN
    /\ t # Idle /\ t.pc = "commit"
    /\ account' = Flushed(account, t.read, t.new)
    /\ overlapped' = (overlapped \/ account # t.read)
    /\ task' = [task EXCEPT ![q] =
                   IF t.kind = "confirm" THEN FullAnswer(t.browser, t.since)
                   ELSE Answer("enroll", t.browser, t.new.secret)]
    /\ UNCHANGED <<secrets, session, jar, phone, clock, out>>

\* The row is left as it was and the request ends in an error.
CommitFails(q) ==
    /\ task[q] # Idle /\ task[q].pc = "commit"
    /\ task' = [task EXCEPT ![q] = Idle]
    /\ UNCHANGED <<account, secrets, session, jar, phone, clock>>
    /\ KeepHistory

-----------------------------------------------------------------------------
(* Answers.                                                                *)

Answered(q, kind) ==
    /\ task[q] # Idle /\ task[q].pc = "answer" /\ task[q].kind = kind
    /\ task' = [task EXCEPT ![q] = Idle]
    /\ UNCHANGED <<account, secrets, session, clock, overlapped>>

\* login sets both cookies.
LoginAnswered(q) ==
    LET t == task[q] IN
    /\ Answered(q, "login")
    /\ jar' = [jar EXCEPT ![t.browser] =
                  [token |-> t.content.token,
                   tokenEnd |-> clock + CookieAge,
                   session |-> t.content.session,
                   sessionEnd |-> clock + CookieAge]]
    /\ out' = IF t.content.session = session THEN out \ {t.browser} ELSE out
    /\ UNCHANGED phone

\* The user reads the new secret into the authenticator.
EnrollAnswered(q) ==
    /\ Answered(q, "enroll")
    /\ phone' = phone \cup {task[q].content}
    /\ UNCHANGED <<jar, out>>

\* totp_confirm sets the cookie of the token only.
ConfirmAnswered(q) ==
    LET t == task[q] IN
    /\ Answered(q, "confirm")
    /\ jar' = [jar EXCEPT ![t.browser].token = t.content,
                          ![t.browser].tokenEnd = clock + CookieAge]
    /\ UNCHANGED <<phone, out>>

\* Faulty variant: only the cookie of the token is deleted.
LogoutHalfAnswered(q) ==
    LET t == task[q] IN
    /\ Answered(q, "logout")
    /\ jar' = [jar EXCEPT ![t.browser].token = NoToken]
    /\ out' = out \cup {t.browser}
    /\ UNCHANGED phone

LogoutAnswered(q) ==
    LET t == task[q] IN
    /\ Answered(q, "logout")
    /\ jar' = [jar EXCEPT ![t.browser] = NoCookies]
    /\ out' = out \cup {t.browser}
    /\ UNCHANGED phone

AnswerLost(q) ==
    /\ task[q] # Idle /\ task[q].pc = "answer"
    /\ task' = [task EXCEPT ![q] = Idle]
    /\ UNCHANGED <<account, secrets, session, jar, phone, clock>>
    /\ KeepHistory

-----------------------------------------------------------------------------
(* The process and the clock.                                              *)

\* The next process has a session of its own.  Requests that have not
\* committed are gone; answers that are on their way may still arrive.
Restart ==
    /\ session <= MaxRestarts
    /\ session' = session + 1
    /\ task' = [q \in Requests |->
                   IF task[q] # Idle /\ task[q].pc = "commit" THEN Idle
                   ELSE task[q]]
    /\ out' = Browsers
    /\ UNCHANGED <<account, secrets, jar, phone, clock, overlapped>>

\* A unit of the clock is half the lifetime of a token or less, a quarter of an
\* hour: no request takes that long between reading the row and committing.
SessionTick ==
    /\ clock < MaxTime
    /\ \A q \in Requests : task[q] # Idle => task[q].pc = "answer"
    /\ clock' = clock + 1
    /\ UNCHANGED <<account, secrets, session, jar, task, phone>> /\ KeepHistory

SessionInit ==
    /\ account = [secret |-> NoSecret, enabled |-> FALSE]
    /\ secrets = 0
    /\ session = 1
    /\ jar = [b \in Browsers |-> NoCookies]
    /\ task = [q \in Requests |-> Idle]
    /\ phone = {}
    /\ clock = 0
    /\ out = Browsers
    /\ overlapped = FALSE

RequestStep(q) ==
    \/ \E b \in Browsers :
          \/ Login(q, b) \/ Logout(q, b)
          \/ Enroll(q, b) \/ ConfirmLogin(q, b) \/ ConfirmFirst(q, b)
    \/ Commit(q) \/ CommitFails(q)
    \/ LoginAnswered(q) \/ EnrollAnswered(q)
    \/ ConfirmAnswered(q) \/ LogoutAnswered(q)
    \/ AnswerLost(q)

SessionNext == (\E q \in Requests : RequestStep(q)) \/ Restart \/ SessionTick

SessionSpec == SessionInit /\ [][SessionNext]_sessionVars

-----------------------------------------------------------------------------
\* authentication_service.py, "Password authentication alone must never create
\* an authenticated session", and auth.py: access goes back to a password that
\* was entered less than two lifetimes of a token ago, whatever was confirmed
\* again, answered late or overtaken since.
PasswordIsRecent ==
    \A b \in Browsers :
        Access(b) => clock < jar[b].token.since + 2 * Lifetime

\* auth.py, logout, "Clear the browser authentication cookies", and main.py,
\* "browser sessions from an older server instance are automatically
\* invalidated": after a logout and after a restart a browser has no access
\* before the next login, not even when an older confirmation arrives late.
LoggedOutStaysOut == \A b \in out : ~Access(b)

\* totp.py and auth.py: an account that asks for codes has a secret that an
\* authenticator knows, so that its administrator is not locked out, whichever
\* answers were lost and commits failed.  (Two requests that overlap between
\* reading the row and writing it break this.)
NotLockedOut == account.enabled /\ ~overlapped => account.secret \in phone

\* auth.py, totp_enroll: "Start TOTP enrollment for an administrator who has
\* not enabled it."  Does not hold: a second enrolment that read the row before
\* the confirmation of the first replaces the secret after it.
EnrollmentIsFinal == [][account.enabled => account' = account]_sessionVars
=============================================================================
