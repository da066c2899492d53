--------------------------- MODULE SessionsProofs ---------------------------
(* Access is recent and ends with a logout, for any number of browsers and *)
(* requests, any lifetimes and any bounds.                                 *)
EXTENDS Sessions, TLAPS

Token == [purpose : {"totp_enrollment", "authenticated"}, exp : Nat, since : Nat]

Jar == [token : Token \cup {NoToken}, tokenEnd : Nat,
        session : Nat, sessionEnd : Nat]

\* A token outlives its password by one lifetime, and by a second one after
\* the confirmation of a code.
Recent(token) ==
    /\ token.exp <= token.since + 2 * Lifetime
    /\ token.purpose = "totp_enrollment" => token.exp <= token.since + Lifetime

\* A request that will commit began with a token that has not ended by now;
\* what an answer brings is as sound as what is in a jar.
TaskSound(t, now, current) ==
    /\ t.browser \in Browsers
    /\ t.pc \in {"commit", "answer"}
    /\ t.pc = "commit" => t.since \in Nat /\ now < t.since + Lifetime
    /\ t.pc = "answer" /\ t.kind = "login" =>
          /\ t.content.token \in Token /\ Recent(t.content.token)
          /\ t.content.session \in 0 .. current
    /\ t.pc = "answer" /\ t.kind = "confirm" =>
          t.content \in Token /\ Recent(t.content)

TasksSound ==
    /\ task = [q \in Requests |-> task[q]]
    /\ \A q \in Requests : task[q] # Idle => TaskSound(task[q], clock, session)

JarsSound ==
    /\ jar \in [Browsers -> Jar]
    /\ \A b \in Browsers :
          /\ jar[b].token # NoToken => Recent(jar[b].token)
          /\ jar[b].session <= session

\* A browser that is out holds no cookie of the session of this process.
LoggedOutHasNoSession ==
    /\ out \subseteq Browsers
    /\ \A b \in out : jar[b].session # session

SessionInv ==
    /\ clock \in Nat /\ session \in Nat \ {0}
    /\ TasksSound
    /\ JarsSound
    /\ LoggedOutHasNoSession

-----------------------------------------------------------------------------
\* Who may enrol or confirm has a token that began less than a lifetime ago.
LEMMA TokenOfPending ==
    ASSUME clock \in Nat, JarsSound, NEW b \in Browsers, Pending(b)
    PROVE  /\ jar[b].token \in Token
           /\ jar[b].token.since \in Nat
           /\ clock < jar[b].token.since + Lifetime
BY SessionAssumption DEF JarsSound, Jar, Token, Recent, Pending, Presented

\* A new token is recent when the password, or the token it follows, is.
LEMMA NewTokenRecent ==
    ASSUME clock \in Nat, NEW since \in Nat
    PROVE  /\ since = clock =>
                 NewToken("totp_enrollment", since) \in Token
                 /\ Recent(NewToken("totp_enrollment", since))
           /\ clock < since + Lifetime =>
                 NewToken("authenticated", since) \in Token
                 /\ Recent(NewToken("authenticated", since))
BY SessionAssumption DEF NewToken, Token, Recent

\* A request at which a sound task is put leaves the tasks sound.
LEMMA TaskPut ==
    ASSUME TasksSound, NEW q \in Requests, NEW t,
           task' = [task EXCEPT ![q] = t],
           clock' = clock, session' = session,
           t = Idle \/ TaskSound(t, clock, session)
    PROVE  TasksSound'
<1>1. task' = [r \in Requests |-> IF r = q THEN t ELSE task[r]]
  BY DEF TasksSound
<1>. QED
  BY <1>1 DEF TasksSound, TaskSound, Recent
-----------------------------------------------------------------------------
\* A request that begins leaves the jars and the clock alone.
LEMMA TakeKeeps ==
    ASSUME SessionInv, NEW q \in Requests, NEW t, Take(q, t),
           t = Idle \/ TaskSound(t, clock, session)
    PROVE  SessionInv'
<1>1. TasksSound'
  BY TaskPut DEF SessionInv, Take
<1>. QED
  BY <1>1 DEF SessionInv, Take, KeepHistory, JarsSound, LoggedOutHasNoSession,
              Recent

\* What a request takes along is as sound as the jar it was sent with.
LEMMA BeginKeeps ==
    ASSUME SessionInv, NEW q \in Requests, NEW b \in Browsers,
           \/ Login(q, b) \/ Logout(q, b)
           \/ Enroll(q, b) \/ ConfirmLogin(q, b) \/ ConfirmFirst(q, b)
    PROVE  SessionInv'
<1>. clock \in Nat /\ session \in Nat \ {0} /\ JarsSound
  BY DEF SessionInv
<1>1. CASE Login(q, b)
  <2>. DEFINE t == Answer("login", b,
                          [token |-> NewToken("totp_enrollment", clock),
                           session |-> session])
  <2>1. TaskSound(t, clock, session)
    BY NewTokenRecent DEF TaskSound, Answer
  <2>. QED
    BY <1>1, <2>1, TakeKeeps DEF Login
<1>2. CASE Logout(q, b)
  <2>1. TaskSound(Answer("logout", b, session), clock, session)
    BY DEF TaskSound, Answer
  <2>. QED
    BY <1>2, <2>1, TakeKeeps DEF Logout
<1>3. CASE Enroll(q, b)
  <2>. DEFINE t == [pc |-> "commit", kind |-> "enroll", browser |-> b,
                    read |-> account,
                    new |-> [secret |-> secrets + 1, enabled |-> FALSE],
                    since |-> jar[b].token.since]
  <2>1. TaskSound(t, clock, session)
    BY <1>3, TokenOfPending DEF TaskSound, Enroll
  <2>. QED
    BY <1>3, <2>1, TakeKeeps DEF Enroll
<1>4. CASE ConfirmLogin(q, b)
  <2>1. TaskSound(FullAnswer(b, jar[b].token.since), clock, session)
    BY <1>4, TokenOfPending, NewTokenRecent
       DEF TaskSound, FullAnswer, Answer, ConfirmLogin
  <2>. QED
    BY <1>4, <2>1, TakeKeeps DEF ConfirmLogin
<1>5. CASE ConfirmFirst(q, b)
  <2>. DEFINE t == [pc |-> "commit", kind |-> "confirm", browser |-> b,
                    read |-> account,
                    new |-> [account EXCEPT !.enabled = TRUE],
                    since |-> jar[b].token.since]
  <2>1. TaskSound(t, clock, session)
    BY <1>5, TokenOfPending DEF TaskSound, ConfirmFirst
  <2>. QED
    BY <1>5, <2>1, TakeKeeps DEF ConfirmFirst
<1>. QED
  BY <1>1, <1>2, <1>3, <1>4, <1>5

\* The row is written, or not: the answer to a confirmation goes back to the
\* token that the request began with.
LEMMA CommitKeeps ==
    ASSUME SessionInv, NEW q \in Requests, Commit(q) \/ CommitFails(q)
    PROVE  SessionInv'
<1>. DEFINE t == task[q]
            u == IF t.kind = "confirm" THEN FullAnswer(t.browser, t.since)
                 ELSE Answer("enroll", t.browser, t.new.secret)
<1>1. CASE Commit(q)
  <2>1. t # Idle /\ t.pc = "commit" /\ TaskSound(t, clock, session)
    BY <1>1 DEF Commit, SessionInv, TasksSound
  <2>2. TaskSound(u, clock, session)
    BY <2>1, NewTokenRecent DEF TaskSound, FullAnswer, Answer, SessionInv
  <2>3. /\ task' = [task EXCEPT ![q] = u]
        /\ UNCHANGED <<session, jar, clock, out>>
    BY <1>1 DEF Commit
  <2>4. TasksSound'
    BY <2>2, <2>3, TaskPut DEF SessionInv
  <2>. QED
    BY <2>3, <2>4 DEF SessionInv, JarsSound, LoggedOutHasNoSession, Recent
<1>2. CASE CommitFails(q)
  <2>1. TasksSound'
    BY <1>2, TaskPut DEF SessionInv, CommitFails
  <2>. QED
    BY <1>2, <2>1 DEF CommitFails, KeepHistory, SessionInv, JarsSound,
                      LoggedOutHasNoSession, Recent
<1>. QED
  BY <1>1, <1>2

\* What a confirmation changes in the jars: a token, and no session.
LEMMA JarRefreshed ==
    ASSUME NEW b \in Browsers, NEW token \in Token, NEW end \in Nat,
           jar \in [Browsers -> Jar],
           jar' = [jar EXCEPT ![b].token = token, ![b].tokenEnd = end]
    PROVE  /\ jar' \in [Browsers -> Jar]
           /\ \A c \in Browsers :
                 /\ jar'[c].session = jar[c].session
                 /\ jar'[c].token = IF c = b THEN token ELSE jar[c].token
BY DEF Jar

\* An answer puts into the jar what was sound in the request, and only a login
\* brings a session.
LEMMA AnswerKeeps ==
    ASSUME SessionInv, NEW q \in Requests,
           \/ LoginAnswered(q) \/ EnrollAnswered(q)
           \/ ConfirmAnswered(q) \/ LogoutAnswered(q) \/ AnswerLost(q)
    PROVE  SessionInv'
<1>. DEFINE t == task[q]
<1>. USE SessionAssumption
<1>1. /\ t # Idle /\ t.pc = "answer" /\ TaskSound(t, clock, session)
      /\ task' = [task EXCEPT ![q] = Idle]
      /\ UNCHANGED <<session, clock>>
  BY DEF LoginAnswered, EnrollAnswered, ConfirmAnswered, LogoutAnswered,
         AnswerLost, Answered, SessionInv, TasksSound
<1>2. TasksSound'
  BY <1>1, TaskPut DEF SessionInv
<1>3. CASE LoginAnswered(q)
  <2>1. /\ t.browser \in Browsers
        /\ t.content.token \in Token /\ Recent(t.content.token)
        /\ t.content.session \in 0 .. session
    BY <1>1, <1>3 DEF TaskSound, LoginAnswered, Answered
  <2>. DEFINE new == [token |-> t.content.token,
                      tokenEnd |-> clock + CookieAge,
                      session |-> t.content.session,
                      sessionEnd |-> clock + CookieAge]
  <2>2. new \in Jar
    BY <2>1 DEF Jar, SessionInv
  <2>3. /\ jar' = [jar EXCEPT ![t.browser] = new]
        /\ out' = IF t.content.session = session THEN out \ {t.browser}
                  ELSE out
    BY <1>3 DEF LoginAnswered
  <2>4. JarsSound'
    BY <1>1, <2>1, <2>2, <2>3 DEF JarsSound, Jar, Recent, SessionInv
  <2>5. LoggedOutHasNoSession'
    BY <1>1, <2>1, <2>3 DEF JarsSound, LoggedOutHasNoSession, SessionInv
  <2>. QED
    BY <1>1, <1>2, <2>4, <2>5 DEF SessionInv
<1>4. CASE ConfirmAnswered(q)
  <2>1. t.browser \in Browsers /\ t.content \in Token /\ Recent(t.content)
    BY <1>1, <1>4 DEF TaskSound, ConfirmAnswered, Answered
  <2>2. /\ jar' = [jar EXCEPT ![t.browser].token = t.content,
                              ![t.browser].tokenEnd = clock + CookieAge]
        /\ out' = out
    BY <1>4 DEF ConfirmAnswered
  <2>3. JarsSound'
    <3>. HIDE DEF t
    <3>1. /\ jar \in [Browsers -> Jar] /\ clock \in Nat
          /\ \A b \in Browsers :
                /\ jar[b].token # NoToken => Recent(jar[b].token)
                /\ jar[b].session <= session
      BY DEF SessionInv, JarsSound
    <3>2. clock + CookieAge \in Nat
      BY <3>1
    <3>3. /\ jar' \in [Browsers -> Jar]
          /\ \A b \in Browsers :
                /\ jar'[b].session = jar[b].session
                /\ jar'[b].token = IF b = t.browser THEN t.content
                                                    ELSE jar[b].token
      BY <2>1, <2>2, <3>1, <3>2, JarRefreshed
    <3>4. ASSUME NEW b \in Browsers
          PROVE  /\ jar'[b].token # NoToken => Recent(jar'[b].token)
                 /\ jar'[b].session <= session
      BY <2>1, <3>1, <3>3
    <3>. QED
      BY <1>1, <3>3, <3>4 DEF JarsSound, Recent
  <2>4. LoggedOutHasNoSession'
    BY <1>1, <2>1, <2>2 DEF JarsSound, Jar, LoggedOutHasNoSession, SessionInv
  <2>. QED
    BY <1>1, <1>2, <2>3, <2>4 DEF SessionInv
<1>5. CASE LogoutAnswered(q)
  <2>1. /\ t.browser \in Browsers
        /\ jar' = [jar EXCEPT ![t.browser] = NoCookies]
        /\ out' = out \cup {t.browser}
    BY <1>1, <1>5 DEF TaskSound, LogoutAnswered
  <2>2. NoCookies \in Jar
    BY DEF NoCookies, Jar
  <2>3. JarsSound'
    BY <1>1, <2>1, <2>2 DEF JarsSound, NoCookies, Recent, SessionInv
  <2>4. LoggedOutHasNoSession'
    BY <1>1, <2>1 DEF JarsSound, NoCookies, LoggedOutHasNoSession, SessionInv
  <2>. QED
    BY <1>1, <1>2, <2>3, <2>4 DEF SessionInv
<1>6. CASE EnrollAnswered(q) \/ AnswerLost(q)
  BY <1>1, <1>2, <1>6 DEF EnrollAnswered, AnswerLost, KeepHistory, SessionInv,
                          JarsSound, LoggedOutHasNoSession, Recent
<1>. QED
  BY <1>3, <1>4, <1>5, <1>6

\* A restart makes every session that has been an old one.
LEMMA RestartKeeps ==
    ASSUME SessionInv, Restart
    PROVE  SessionInv'
<1>1. TasksSound'
  BY DEF SessionInv, Restart, TasksSound, TaskSound, Recent
<1>2. JarsSound'
  BY DEF SessionInv, Restart, JarsSound, Jar, Recent
<1>3. LoggedOutHasNoSession'
  BY DEF SessionInv, Restart, JarsSound, Jar, LoggedOutHasNoSession
<1>. QED
  BY <1>1, <1>2, <1>3 DEF SessionInv, Restart

\* No request that is about to commit sees the clock move.
LEMMA TickKeeps ==
    ASSUME SessionInv, SessionTick
    PROVE  SessionInv'
<1>1. TasksSound'
  BY DEF SessionInv, SessionTick, TasksSound, TaskSound, Recent
<1>. QED
  BY <1>1 DEF SessionInv, SessionTick, KeepHistory, JarsSound, Recent,
              LoggedOutHasNoSession

\* Every step of a request, of the process or of the clock keeps the invariant.
LEMMA SessionStep ==
    ASSUME SessionInv, [SessionNext]_sessionVars
    PROVE  SessionInv'
<1>1. CASE \E q \in Requests : RequestStep(q)
  <2>. PICK q \in Requests : RequestStep(q)
    BY <1>1
  <2>. QED
    BY BeginKeeps, CommitKeeps, AnswerKeeps DEF RequestStep
<1>2. CASE Restart
  BY <1>2, RestartKeeps
<1>3. CASE SessionTick
  BY <1>3, TickKeeps
<1>4. CASE UNCHANGED sessionVars
  BY <1>4 DEF sessionVars, SessionInv, TasksSound, TaskSound, JarsSound, Recent,
              LoggedOutHasNoSession
<1>. QED
  BY <1>1, <1>2, <1>3, <1>4 DEF SessionNext

\* Jars, requests and sessions are sound in every reachable state.
THEOREM SessionsSound == SessionSpec => []SessionInv
<1>1. SessionInit => SessionInv
  BY DEF SessionInit, SessionInv, TasksSound, JarsSound, Jar, NoCookies,
         LoggedOutHasNoSession
<1>. QED
  BY <1>1, SessionStep, PTL DEF SessionSpec

-----------------------------------------------------------------------------
\* Whoever has access has entered a password less than two lifetimes of a token
\* ago, whatever requests overlapped and whichever answers were late.
THEOREM AccessIsRecent == SessionSpec => []PasswordIsRecent
<1>1. SessionInv => PasswordIsRecent
  BY SessionAssumption DEF SessionInv, JarsSound, Jar, Token, Recent,
                           PasswordIsRecent, Access, Presented
<1>. QED
  BY <1>1, SessionsSound, PTL

\* A browser that was logged out, or whose process is gone, has no access
\* before its next login.
THEOREM AccessEnds == SessionSpec => []LoggedOutStaysOut
<1>1. SessionInv => LoggedOutStaysOut
  BY DEF SessionInv, LoggedOutHasNoSession, LoggedOutStaysOut, Access, Presented
<1>. QED
  BY <1>1, SessionsSound, PTL

-----------------------------------------------------------------------------
(* The second factor.                                                      *)

Row(r) == r = [secret |-> r.secret, enabled |-> r.enabled]

\* A request writes one of two rows: the one it read, switched on with a secret
\* that the authenticator knows, or one that is switched off.
WritesSound(t, known) ==
    /\ Row(t.read)
    /\ t.kind = "confirm" =>
          t.new = [secret |-> t.read.secret, enabled |-> TRUE]
          /\ t.read.secret \in known
    /\ t.kind # "confirm" =>
          t.new = [secret |-> t.new.secret, enabled |-> FALSE]

EnrolmentInv ==
    /\ Row(account)
    /\ task = [q \in Requests |-> task[q]]
    /\ \A q \in Requests :
          task[q] # Idle /\ task[q].pc = "commit" => WritesSound(task[q], phone)
    /\ NotLockedOut

\* A request that is not to commit writes nothing, and phones forget nothing.
LEMMA EnrolmentTaskPut ==
    ASSUME EnrolmentInv, NEW q \in Requests, NEW t,
           task' = [task EXCEPT ![q] = t],
           account' = account, overlapped' = overlapped, phone \subseteq phone',
           t # Idle /\ t.pc = "commit" => WritesSound(t, phone)
    PROVE  EnrolmentInv'
<1>1. task' = [r \in Requests |-> IF r = q THEN t ELSE task[r]]
  BY DEF EnrolmentInv
<1>. QED
  BY <1>1 DEF EnrolmentInv, WritesSound, Row, NotLockedOut

\* What a request is about to write is sound.
LEMMA EnrolmentBegins ==
    ASSUME EnrolmentInv, NEW q \in Requests, NEW b \in Browsers,
           \/ Login(q, b) \/ Logout(q, b)
           \/ Enroll(q, b) \/ ConfirmLogin(q, b) \/ ConfirmFirst(q, b)
    PROVE  EnrolmentInv'
<1>1. CASE Login(q, b) \/ Logout(q, b) \/ ConfirmLogin(q, b)
  BY <1>1, EnrolmentTaskPut
  DEF Login, Logout, ConfirmLogin, FullAnswer, Answer, Take, KeepHistory
<1>2. CASE Enroll(q, b)
  <2>. DEFINE t == [pc |-> "commit", kind |-> "enroll", browser |-> b,
                    read |-> account,
                    new |-> [secret |-> secrets + 1, enabled |-> FALSE],
                    since |-> jar[b].token.since]
  <2>1. WritesSound(t, phone)
    BY DEF WritesSound, EnrolmentInv, Row
  <2>. QED
    BY <1>2, <2>1, EnrolmentTaskPut DEF Enroll, Take, KeepHistory
<1>3. CASE ConfirmFirst(q, b)
  <2>. DEFINE t == [pc |-> "commit", kind |-> "confirm", browser |-> b,
                    read |-> account,
                    new |-> [account EXCEPT !.enabled = TRUE],
                    since |-> jar[b].token.since]
  <2>1. [account EXCEPT !.enabled = TRUE]
           = [secret |-> account.secret, enabled |-> TRUE]
    <3>1. account = [secret |-> account.secret, enabled |-> account.enabled]
      BY DEF EnrolmentInv, Row
    <3>2. \A x : [account EXCEPT !.enabled = x]
                    = [secret |-> account.secret, enabled |-> x]
      BY <3>1
    <3>. QED
      BY <3>2, Zenon
  <2>2. WritesSound(t, phone)
    BY <1>3, <2>1 DEF WritesSound, EnrolmentInv, Row, ConfirmFirst
  <2>3. Take(q, t)
    BY <1>3, Zenon DEF ConfirmFirst
  <2>. HIDE DEF t
  <2>. QED
    BY <2>2, <2>3, EnrolmentTaskPut DEF Take, KeepHistory
<1>. QED
  BY <1>1, <1>2, <1>3

\* A commit that overlapped no other writes exactly the row it has prepared.
LEMMA EnrolmentCommits ==
    ASSUME EnrolmentInv, NEW q \in Requests, Commit(q)
    PROVE  EnrolmentInv'
<1>. DEFINE t == task[q]
            u == IF t.kind = "confirm" THEN FullAnswer(t.browser, t.since)
                 ELSE Answer("enroll", t.browser, t.new.secret)
<1>1. /\ WritesSound(t, phone) /\ phone' = phone
      /\ account' = Flushed(account, t.read, t.new)
      /\ overlapped' = (overlapped \/ account # t.read)
      /\ task' = [task EXCEPT ![q] = u]
  BY DEF EnrolmentInv, Commit
<1>2. Row(account) /\ DOMAIN account = {"secret", "enabled"}
  BY DEF EnrolmentInv, Row
<1>3. /\ DOMAIN account' = {"secret", "enabled"}
      /\ \A column \in {"secret", "enabled"} :
            account'[column] = IF t.new[column] # t.read[column]
                               THEN t.new[column] ELSE account[column]
      /\ account' = [column \in {"secret", "enabled"} |-> account'[column]]
  BY <1>1, <1>2 DEF Flushed
<1>4. /\ Row(account')
      /\ account = t.read =>
            account'.secret = t.new.secret /\ account'.enabled = t.new.enabled
  BY <1>3 DEF Row
<1>5. NotLockedOut'
  <2>. SUFFICES ASSUME account'.enabled, ~overlapped'
                PROVE  account'.secret \in phone'
    BY Zenon DEF NotLockedOut
  <2>1. account = t.read
    BY <1>1, Zenon
  <2>2. t.new.enabled
    BY <1>4, <2>1, Zenon
  <2>3. t.kind = "confirm"
    BY <1>1, <2>2 DEF WritesSound
  <2>4. t.new.secret = t.read.secret /\ t.read.secret \in phone
    BY <1>1, <2>3 DEF WritesSound
  <2>. QED
    BY <1>1, <1>4, <2>1, <2>4
<1>6. task' = [r \in Requests |-> IF r = q THEN u ELSE task[r]]
  BY <1>1 DEF EnrolmentInv
<1>7. u.pc = "answer"
  BY DEF FullAnswer, Answer
<1>. QED
  BY <1>1, <1>4, <1>5, <1>6, <1>7 DEF EnrolmentInv

\* Every step keeps what requests are about to write sound.
LEMMA EnrolmentStep ==
    ASSUME EnrolmentInv, [SessionNext]_sessionVars
    PROVE  EnrolmentInv'
<1>1. CASE \E q \in Requests : RequestStep(q)
  <2>. PICK q \in Requests : RequestStep(q)
    BY <1>1
  <2>1. CASE \/ CommitFails(q) \/ AnswerLost(q) \/ LoginAnswered(q)
             \/ EnrollAnswered(q) \/ ConfirmAnswered(q) \/ LogoutAnswered(q)
    BY <2>1, EnrolmentTaskPut
    DEF CommitFails, AnswerLost, LoginAnswered, EnrollAnswered,
        ConfirmAnswered, LogoutAnswered, Answered, KeepHistory
  <2>. QED
    BY <2>1, EnrolmentBegins, EnrolmentCommits DEF RequestStep
<1>2. CASE Restart
  BY <1>2 DEF Restart, EnrolmentInv, WritesSound, Row, NotLockedOut
<1>3. CASE SessionTick \/ UNCHANGED sessionVars
  BY <1>3 DEF SessionTick, KeepHistory, sessionVars, EnrolmentInv, WritesSound,
              Row, NotLockedOut
<1>. QED
  BY <1>1, <1>2, <1>3 DEF SessionNext

\* totp.py and auth.py: as long as no two requests overlap between reading the
\* row and writing it, an account that asks for codes has a secret that the
\* authenticator knows, whichever answers are lost and commits fail.
THEOREM AdministratorNotLockedOut == SessionSpec => []NotLockedOut
<1>1. SessionInit => EnrolmentInv
  BY DEF SessionInit, EnrolmentInv, Row, NotLockedOut
<1>2. EnrolmentInv => NotLockedOut
  BY DEF EnrolmentInv
<1>. QED
  BY <1>1, <1>2, EnrolmentStep, PTL DEF SessionSpec
=============================================================================
