------------------------- MODULE AdminSessionsProofs -------------------------
(***************************************************************************)
(* Three invariants of AdminSessions, for any tabs, browsers, passwords    *)
(* and tokens, and any number of changes, logouts and faults: its types,   *)
(* OldSessionsStraddle, which is inductive given the types, and            *)
(* CallerStaysIn, which needs to know that a token on its way to a caller  *)
(* is nobody else's: else a logout could take it away.                     *)
(***************************************************************************)
EXTENDS AdminSessions, TLAPS

USE TabsAssumption, PasswordsAssumption, TokensAssumption, BoundsAssumption

-----------------------------------------------------------------------------
\* new_session_token gives a token that no session, cookie or call has.
LEMMA NewTokenIsNew ==
  ASSUME Unused # {}
  PROVE  /\ NewToken \in Tokens \ sessions
         /\ \A b \in Browsers : cookie[b] # NewToken
         /\ \A t \in Tabs : call[t].token # NewToken /\ call[t].sent # NewToken
<1>1. NewToken \in Unused
  BY DEF NewToken
<1>2. NewToken \in Tokens /\ NewToken \notin sessions /\ NewToken \notin {cookie[b] : b \in Browsers}
      /\ NewToken \notin UNION {{call[t].token, call[t].sent} : t \in Tabs}
  BY <1>1 DEF Unused
<1>3. \A t \in Tabs : call[t].token \in UNION {{call[u].token, call[u].sent} : u \in Tabs}
                      /\ call[t].sent \in UNION {{call[u].token, call[u].sent} : u \in Tabs}
  OBVIOUS
<1> QED
  BY <1>2, <1>3

LEMMA IdleIsCall == Idle \in CallType
  BY DEF Idle, CallType, Cookies, Hashes

\* The ways in which a handler goes on keep its record one of a call.
LEMMA CallSteps ==
  ASSUME NEW c \in CallType
  PROVE  /\ [c EXCEPT !.pc = "create", !.seen = NoPassword] \in CallType
         /\ [c EXCEPT !.pc = "answer", !.seen = NoPassword] \in CallType
         /\ [c EXCEPT !.pc = "set", !.sent = NoToken] \in CallType
         /\ [c EXCEPT !.pc = "check"] \in CallType
         /\ \A n \in Nat : [c EXCEPT !.pc = "drop", !.version = n] \in CallType
         /\ \A n \in Nat : [c EXCEPT !.pc = "clone", !.drops = n] \in CallType
         /\ \A h \in Hashes : [c EXCEPT !.pc = "write", !.seen = h] \in CallType
         /\ \A s \in Tokens : [c EXCEPT !.pc = "answer", !.token = s, !.version = 0] \in CallType
<1> NoPassword \in Hashes /\ NoToken \in Cookies /\ \A s \in Tokens : s \in Cookies
  BY DEF Hashes, Cookies
<1> QED
  BY DEF CallType

-----------------------------------------------------------------------------
LEMMA TypeInit == Init => TypeOK
<1> SUFFICES ASSUME Init PROVE TypeOK
  OBVIOUS
<1>1. hash \in Hashes /\ disk \in Hashes /\ sessions \subseteq Tokens
  BY DEF Init, Hashes
<1>2. cookie \in [Browsers -> Cookies] /\ call \in [Tabs -> CallType]
  BY IdleIsCall DEF Init, Cookies
<1>3. born \in [sessions -> [under : Nat, straddled : BOOLEAN]]
  BY DEF Init
<1>4. /\ version \in Nat /\ drops \in Nat
      /\ changes \in 0..MaxChanges /\ logouts \in 0..MaxLogouts /\ faults \in 0..MaxFaults
  BY DEF Init
<1>5. lapsed \in BOOLEAN
  BY Zenon DEF Init
<1> QED
  BY <1>1, <1>2, <1>3, <1>4, <1>5 DEF TypeOK

LEMMA TypeNext == TypeOK /\ [Next]_vars => TypeOK'
<1> SUFFICES ASSUME TypeOK, [Next]_vars PROVE TypeOK'
  OBVIOUS
<1> USE IdleIsCall DEF TypeOK, UnchangedStore, UnchangedGhosts, bounds, ghosts
<1>1. ASSUME NEW t \in Tabs, Handler(t) PROVE TypeOK'
  <2> USE <1>1
  <2> call[t] \in CallType /\ call \in [Tabs -> CallType]
    OBVIOUS
  <2>1. CASE Verify(t)
    <3>1. call' = [call EXCEPT ![t] = Idle]
          \/ call' = [call EXCEPT ![t] = [call[t] EXCEPT !.pc = "create", !.seen = NoPassword]]
      BY <2>1 DEF Verify, SetCall
    <3>2. call' \in [Tabs -> CallType]
      BY <3>1, CallSteps
    <3> QED
      BY <2>1, <3>2 DEF Verify
  <2>2. CASE Create(t)
    <3>1. NewToken \in Tokens
      BY <2>2, NewTokenIsNew DEF Create
    <3>2. call' \in [Tabs -> CallType]
      <4>1. call' = [call EXCEPT ![t] = [call[t] EXCEPT !.pc = "answer", !.token = NewToken, !.version = 0]]
        BY <2>2 DEF Create
      <4> QED
        BY <3>1, <4>1, CallSteps
    <3>3. sessions' \subseteq Tokens
      BY <2>2, <3>1 DEF Create
    <3>4. call[t].version \in Nat
      BY DEF CallType
    <3>5. born' \in [sessions' -> [under : Nat, straddled : BOOLEAN]]
      <4>1. \A s \in sessions' : s # NewToken => s \in sessions
        BY <2>2 DEF Create
      <4>2. \A s \in sessions' :
              (IF s = NewToken THEN [under |-> call[t].version, straddled |-> call[t].version # version]
               ELSE born[s]) \in [under : Nat, straddled : BOOLEAN]
        BY <3>4, <4>1
      <4> QED
        BY <2>2, <4>2 DEF Create
    <3> QED
      BY <2>2, <3>2, <3>3, <3>5 DEF Create
  <2>3. CASE Answer(t)
    <3>1. BrowserOf[t] \in Browsers /\ call[t].token \in Cookies
      BY DEF CallType
    <3> QED
      BY <2>3, <3>1 DEF Answer, SetCall
  <2>4. CASE Guard(t)
    <3>1. call' = [call EXCEPT ![t] = [call[t] EXCEPT !.pc = "set", !.sent = NoToken]]
          \/ call' = [call EXCEPT ![t] = [call[t] EXCEPT !.pc = "check"]]
      BY <2>4 DEF Guard, SetCall
    <3>2. call' \in [Tabs -> CallType]
      BY <3>1, CallSteps
    <3> QED
      BY <2>4, <3>2 DEF Guard
  <2>5. CASE CheckSession(t)
    <3>1. call' = [call EXCEPT ![t] = [call[t] EXCEPT !.pc = "set", !.sent = NoToken]]
          \/ call' = [call EXCEPT ![t] = Idle]
      BY <2>5 DEF CheckSession, SetCall
    <3>2. call' \in [Tabs -> CallType]
      BY <3>1, CallSteps
    <3> QED
      BY <2>5, <3>2 DEF CheckSession
  <2>6. CASE SetHash(t)
    <3>1. call' = [call EXCEPT ![t] = [call[t] EXCEPT !.pc = "drop", !.version = version + 1]]
      BY <2>6 DEF SetHash
    <3>2. version + 1 \in Nat /\ call' \in [Tabs -> CallType]
      <4>1. version + 1 \in Nat
        OBVIOUS
      <4>2. [call[t] EXCEPT !.pc = "drop", !.version = version + 1] \in CallType
        BY <4>1, CallSteps
      <4> QED
        BY <3>1, <4>1, <4>2
    <3>3. hash' \in Hashes
      BY <2>6 DEF SetHash, CallType
    <3> QED
      BY <2>6, <3>2, <3>3 DEF SetHash
  <2>7. CASE DropSessions(t)
    <3>1. call' = [call EXCEPT ![t] = [call[t] EXCEPT !.pc = "clone", !.drops = drops + 1]]
      BY <2>7 DEF DropSessions
    <3>2. drops + 1 \in Nat /\ call' \in [Tabs -> CallType]
      <4>1. drops + 1 \in Nat
        OBVIOUS
      <4>2. [call[t] EXCEPT !.pc = "clone", !.drops = drops + 1] \in CallType
        BY <4>1, CallSteps
      <4> QED
        BY <3>1, <4>1, <4>2
    <3>3. sessions' \subseteq Tokens /\ born' \in [sessions' -> [under : Nat, straddled : BOOLEAN]]
      BY <2>7 DEF DropSessions
    <3> QED
      BY <2>7, <3>2, <3>3 DEF DropSessions
  <2>8. CASE CloneHash(t)
    <3>1. call' = [call EXCEPT ![t] = [call[t] EXCEPT !.pc = "write", !.seen = hash]]
      BY <2>8 DEF CloneHash
    <3>2. call' \in [Tabs -> CallType]
      BY <3>1, CallSteps
    <3> QED
      BY <2>8, <3>2 DEF CloneHash
  <2>9. CASE WriteConfig(t)
    <3>1. call' = [call EXCEPT ![t] = [call[t] EXCEPT !.pc = "answer", !.seen = NoPassword]]
          \/ call' = [call EXCEPT ![t] = [call[t] EXCEPT !.pc = "create", !.seen = NoPassword]]
      BY <2>9 DEF WriteConfig, SetCall
    <3>2. call' \in [Tabs -> CallType]
      BY <3>1, CallSteps
    <3>3. disk' \in Hashes
      BY <2>9 DEF WriteConfig, CallType
    <3> QED
      BY <2>9, <3>2, <3>3 DEF WriteConfig
  <2> QED
    BY <2>1, <2>2, <2>3, <2>4, <2>5, <2>6, <2>7, <2>8, <2>9 DEF Handler
<1>2. ASSUME NEW t \in Tabs, NEW password \in Passwords, Login(t, password) PROVE TypeOK'
  <2>1. \A pc \in {"create", "verify"} :
          [Idle EXCEPT !.pc = pc, !.typed = password, !.seen = hash, !.version = version] \in CallType
    BY DEF CallType, Hashes
  <2>2. call' \in [Tabs -> CallType]
    BY <1>2, <2>1 DEF Login, SetCall
  <2> QED
    BY <1>2, <2>2 DEF Login
<1>3. ASSUME NEW t \in Tabs, Logout(t) PROVE TypeOK'
  <2>1. [Idle EXCEPT !.pc = "answer", !.kind = "logout"] \in CallType
    BY DEF CallType
  <2>2. sessions' \subseteq sessions /\ born' = [s \in sessions' |-> born[s]]
    BY <1>3 DEF Logout
  <2>3. born' \in [sessions' -> [under : Nat, straddled : BOOLEAN]]
    BY <2>2
  <2> QED
    BY <1>3, <2>1, <2>2, <2>3 DEF Logout, SetCall
<1>4. ASSUME NEW t \in Tabs, NEW password \in Hashes, Change(t, password) PROVE TypeOK'
  <2>1. Cookie(t) \in Cookies
    BY DEF Cookie
  <2>2. [Idle EXCEPT !.pc = "guard", !.kind = "change", !.sent = Cookie(t), !.typed = password] \in CallType
    BY <2>1 DEF CallType
  <2> QED
    BY <1>4, <2>2 DEF Change, SetCall
<1>5. ASSUME NEW t \in Tabs, SaveFails(t) \/ HangUp(t) PROVE TypeOK'
  <2>1. call' = [call EXCEPT ![t] = Idle] /\ faults' \in 0..MaxFaults
    BY <1>5 DEF SaveFails, HangUp, SetCall, Fault
  <2>2. call' \in [Tabs -> CallType]
    BY <2>1
  <2>3. lapsed' \in BOOLEAN
    BY <1>5, Zenon DEF SaveFails, HangUp
  <2> QED
    BY <1>5, <2>1, <2>2, <2>3 DEF SaveFails, HangUp, Fault
<1>6. CASE Restart
  <2>1. call' \in [Tabs -> CallType] /\ faults' \in 0..MaxFaults
    BY <1>6 DEF Restart, Fault
  <2>2. sessions' \subseteq Tokens /\ born' \in [sessions' -> [under : Nat, straddled : BOOLEAN]]
    BY <1>6 DEF Restart
  <2> QED
    BY <1>6, <2>1, <2>2 DEF Restart, Fault
<1>7. CASE Rest \/ UNCHANGED vars
  BY <1>7 DEF Rest, vars
<1> QED
  BY <1>1, <1>2, <1>3, <1>4, <1>5, <1>6, <1>7 DEF Next

\* Type correctness: hash and sessions of the server, cookies and calls.
THEOREM TypeCorrect == Spec => []TypeOK
  BY TypeInit, TypeNext, PTL DEF Spec

-----------------------------------------------------------------------------
(***************************************************************************)
(* OldSessionsStraddle.  Only SetHash moves the version, and the drop is   *)
(* due from then on; only Create adds a session, and notes the version     *)
(* its call began under.                                                   *)
(***************************************************************************)
\* A step that leaves hash and sessions alone and ends no drop that is due.
LEMMA StraddleKept ==
  ASSUME OldSessionsStraddle,
         sessions' \subseteq sessions, \A s \in sessions' : born'[s] = born[s],
         version' = version,
         lapsed => lapsed',
         \A t \in Tabs : call[t].pc = "drop" => call'[t].pc = "drop" \/ lapsed'
  PROVE  OldSessionsStraddle'
  BY DEF OldSessionsStraddle

LEMMA StraddleNext == TypeOK /\ OldSessionsStraddle /\ [Next]_vars => OldSessionsStraddle'
<1> SUFFICES ASSUME TypeOK, OldSessionsStraddle, [Next]_vars PROVE OldSessionsStraddle'
  OBVIOUS
<1> USE DEF UnchangedStore, UnchangedGhosts
<1> call \in [Tabs -> CallType]
  BY DEF TypeOK
<1>1. ASSUME NEW t \in Tabs, Handler(t) PROVE OldSessionsStraddle'
  <2>1. CASE Verify(t) \/ Answer(t) \/ Guard(t) \/ CheckSession(t) \/ CloneHash(t) \/ WriteConfig(t)
    <3>1. call[t].pc # "drop" /\ \A u \in Tabs \ {t} : call'[u] = call[u]
      BY <2>1 DEF Verify, Answer, Guard, CheckSession, CloneHash, WriteConfig, SetCall
    <3>2. sessions' = sessions /\ born' = born /\ version' = version /\ lapsed' = lapsed
      BY <2>1 DEF Verify, Answer, Guard, CheckSession, CloneHash, WriteConfig
    <3> QED
      BY <3>1, <3>2, StraddleKept
  <2>2. CASE Create(t)
    <3>1. /\ sessions' = sessions \cup {NewToken} /\ version' = version /\ lapsed' = lapsed
          /\ born'[NewToken] = [under |-> call[t].version, straddled |-> call[t].version # version]
          /\ \A s \in sessions : s # NewToken => born'[s] = born[s]
      BY <2>2 DEF Create
    <3>2. \A u \in Tabs : call[u].pc = "drop" => call'[u].pc = "drop"
      BY <2>2 DEF Create
    <3>3. born'[NewToken].under = version \/ born'[NewToken].straddled
      <4>1. /\ born'[NewToken].under = call[t].version
            /\ born'[NewToken].straddled = (call[t].version # version)
        BY <3>1
      <4> QED
        BY <4>1, Zenon
    <3> QED
      BY <3>1, <3>2, <3>3 DEF OldSessionsStraddle
  <2>3. CASE SetHash(t)
    <3>1. call'[t].pc = "drop"
      BY <2>3 DEF SetHash, CallType
    <3> QED
      BY <3>1 DEF OldSessionsStraddle
  <2>4. CASE DropSessions(t)
    BY <2>4 DEF DropSessions, OldSessionsStraddle
  <2> QED
    BY <1>1, <2>1, <2>2, <2>3, <2>4 DEF Handler
<1>2. ASSUME NEW t \in Tabs,
             \/ \E password \in Passwords : Login(t, password)
             \/ Logout(t)
             \/ \E password \in Hashes : Change(t, password)
      PROVE  OldSessionsStraddle'
  <2>1. call[t].pc = "idle" /\ \A u \in Tabs \ {t} : call'[u] = call[u]
    BY <1>2 DEF Login, Logout, Change, SetCall
  <2>2. version' = version /\ lapsed' = lapsed /\ sessions' \subseteq sessions
    BY <1>2 DEF Login, Logout, Change
  <2>3. \A s \in sessions' : born'[s] = born[s]
    BY <1>2 DEF Login, Logout, Change
  <2> QED
    BY <2>1, <2>2, <2>3, StraddleKept
<1>3. ASSUME NEW t \in Tabs, SaveFails(t) \/ HangUp(t) PROVE OldSessionsStraddle'
  <2>1. /\ sessions' = sessions /\ born' = born /\ version' = version
        /\ \A u \in Tabs \ {t} : call'[u] = call[u]
    BY <1>3 DEF SaveFails, HangUp, SetCall
  <2>2. (lapsed => lapsed') /\ (call[t].pc = "drop" => lapsed')
    <3>1. CASE SaveFails(t)
      BY <3>1 DEF SaveFails
    <3>2. CASE HangUp(t)
      BY <3>2, Zenon DEF HangUp
    <3> QED
      BY <1>3, <3>1, <3>2
  <2> QED
    BY <2>1, <2>2, StraddleKept
<1>4. CASE Restart
  BY <1>4 DEF Restart, OldSessionsStraddle
<1>5. CASE Rest \/ UNCHANGED vars
  <2>1. UNCHANGED vars
    BY <1>5 DEF Rest
  <2> QED
    BY <2>1, StraddleKept DEF vars, ghosts
<1> QED
  BY <1>1, <1>2, <1>3, <1>4, <1>5 DEF Next

\* put_admin_password sets the hash and drops the sessions in two steps, in this
\* order: whatever comes in between, a session of an old password that survives
\* is one of a login or change that straddles the new one.
THEOREM OldSessionsAreKnown == Spec => []OldSessionsStraddle
<1>1. Init => OldSessionsStraddle
  BY DEF Init, OldSessionsStraddle
<1> QED
  BY <1>1, StraddleNext, TypeCorrect, PTL DEF Spec

-----------------------------------------------------------------------------
(***************************************************************************)
(* CallerStaysIn.                                                          *)
(***************************************************************************)
\* A call has a token only when it is answered, one that is no cookie yet and no
\* other call's; and it saw no more drops than there were.
TokensApart ==
  \A t \in Tabs :
    /\ call[t].pc # "answer" => call[t].token = NoToken
    /\ call[t].drops <= drops
    /\ call[t].token # NoToken =>
         /\ \A b \in Browsers : cookie[b] # call[t].token
         /\ \A u \in Tabs \ {t} : call[u].token # call[t].token

CallerInvariant == TokensApart /\ CallerStaysIn

\* A step of one call that hands out no token, and takes no session away that a
\* caller is about to be given.
LEMMA CallerKept ==
  ASSUME TypeOK, CallerInvariant, NEW t \in Tabs,
         \A u \in Tabs \ {t} : call'[u] = call[u],
         call'[t].token \in {NoToken, call[t].token},
         call'[t].pc # "answer" => call'[t].token = NoToken,
         call'[t].drops <= drops',
         call'[t].pc = "answer" /\ call'[t].kind = "change" => call'[t].typed = NoPassword,
         cookie' = cookie, drops' = drops,
         \A u \in Tabs : call[u].pc = "answer" /\ call[u].token \in sessions
                           => call[u].token \in sessions'
  PROVE  CallerInvariant'
<1>1. TokensApart'
  BY DEF CallerInvariant, TokensApart
<1>2. CallerStaysIn'
  BY DEF CallerInvariant, CallerStaysIn
<1> QED
  BY <1>1, <1>2 DEF CallerInvariant

LEMMA CallerNext == TypeOK /\ CallerInvariant /\ [Next]_vars => CallerInvariant'
<1> SUFFICES ASSUME TypeOK, CallerInvariant, [Next]_vars PROVE CallerInvariant'
  OBVIOUS
<1> USE DEF UnchangedStore, UnchangedGhosts
<1> call \in [Tabs -> CallType] /\ drops \in Nat
  BY DEF TypeOK
<1> DEFINE Alone(t) == \A u \in Tabs \ {t} : call'[u] = call[u]
<1>1. ASSUME NEW t \in Tabs, Handler(t) PROVE CallerInvariant'
  <2>0. Alone(t) /\ call[t].drops <= drops /\ (call[t].pc # "answer" => call[t].token = NoToken)
    BY <1>1 DEF Handler, Verify, Create, Answer, Guard, CheckSession, SetHash, DropSessions, CloneHash,
                WriteConfig, SetCall, CallerInvariant, TokensApart
  <2>1. CASE Verify(t) \/ Guard(t) \/ CheckSession(t) \/ SetHash(t) \/ CloneHash(t)
    <3>1. cookie' = cookie /\ drops' = drops /\ sessions' = sessions /\ call[t].pc # "answer"
      BY <2>1 DEF Verify, Guard, CheckSession, SetHash, CloneHash
    <3>2. /\ call'[t].token \in {NoToken, call[t].token} /\ call'[t].drops \in {0, call[t].drops}
          /\ call'[t].pc # "answer"
      <4>1. CASE Verify(t)
        BY <4>1 DEF Verify, SetCall, CallType, Idle
      <4>2. CASE Guard(t)
        BY <4>2 DEF Guard, SetCall, CallType
      <4>3. CASE CheckSession(t)
        BY <4>3 DEF CheckSession, SetCall, CallType, Idle
      <4>4. CASE SetHash(t) \/ CloneHash(t)
        BY <4>4 DEF SetHash, CloneHash, CallType
      <4> QED
        BY <2>1, <4>1, <4>2, <4>3, <4>4
    <3> QED
      BY <2>0, <3>1, <3>2, CallerKept
  <2>2. CASE WriteConfig(t)
    <3>1. cookie' = cookie /\ drops' = drops /\ sessions' = sessions /\ call[t].pc = "write"
      BY <2>2 DEF WriteConfig
    <3>2. /\ call'[t].token = call[t].token /\ call'[t].drops = call[t].drops
          /\ call'[t].pc = "answer" => call'[t].typed = NoPassword
      BY <2>2 DEF WriteConfig, SetCall, CallType
    <3> QED
      BY <2>0, <3>1, <3>2, CallerKept
  <2>3. CASE Create(t)
    <3>1. /\ sessions' = sessions \cup {NewToken} /\ cookie' = cookie /\ drops' = drops
          /\ call'[t].token = NewToken /\ call'[t].drops = call[t].drops /\ call'[t].pc = "answer"
      BY <2>3 DEF Create, CallType
    <3>2. /\ \A b \in Browsers : cookie[b] # NewToken
          /\ \A u \in Tabs : call[u].token # NewToken
      BY <2>3, NewTokenIsNew DEF Create
    <3>3. TokensApart'
      BY <2>0, <3>1, <3>2 DEF CallerInvariant, TokensApart
    <3>4. CallerStaysIn'
      BY <2>0, <3>1 DEF CallerInvariant, CallerStaysIn
    <3> QED
      BY <3>3, <3>4 DEF CallerInvariant
  <2>4. CASE Answer(t)
    <3>1. /\ call'[t] = Idle /\ drops' = drops /\ sessions' = sessions
          /\ \A b \in Browsers : cookie'[b] \in {cookie[b], call[t].token}
      BY <2>4 DEF Answer, SetCall, TypeOK
    <3>2. Idle.token = NoToken /\ Idle.pc = "idle" /\ Idle.drops = 0
      BY DEF Idle
    <3>3. TokensApart'
      BY <2>0, <3>1, <3>2 DEF CallerInvariant, TokensApart
    <3>4. CallerStaysIn'
      BY <2>0, <3>1, <3>2 DEF CallerInvariant, CallerStaysIn
    <3> QED
      BY <3>3, <3>4 DEF CallerInvariant
  <2>5. CASE DropSessions(t)
    <3>1. /\ cookie' = cookie /\ drops' = drops + 1
          /\ call'[t].token = call[t].token /\ call'[t].drops = drops + 1 /\ call'[t].pc = "clone"
          /\ call[t].pc = "drop"
      BY <2>5 DEF DropSessions, CallType
    <3>2. \A u \in Tabs : call[u].drops \in Nat
      BY DEF CallType
    <3>3. TokensApart'
      BY <2>0, <3>1, <3>2 DEF CallerInvariant, TokensApart
    <3>4. CallerStaysIn'
      <4>1. \A u \in Tabs \ {t} : drops' > call'[u].drops
        BY <2>0, <3>1, <3>2 DEF CallerInvariant, TokensApart
      <4> QED
        BY <3>1, <4>1 DEF CallerStaysIn
    <3> QED
      BY <3>3, <3>4 DEF CallerInvariant
  <2> QED
    BY <1>1, <2>1, <2>2, <2>3, <2>4, <2>5 DEF Handler
<1>2. ASSUME NEW t \in Tabs, NEW password \in Hashes,
             (password \in Passwords /\ Login(t, password)) \/ Change(t, password)
      PROVE  CallerInvariant'
  <2>1. /\ Alone(t) /\ cookie' = cookie /\ drops' = drops /\ sessions' = sessions
        /\ call'[t].token = NoToken /\ call'[t].drops = 0 /\ call'[t].pc # "answer"
    <3>1. CASE Login(t, password)
      BY <3>1 DEF Login, SetCall, Idle
    <3>2. CASE Change(t, password)
      BY <3>2 DEF Change, SetCall, Idle
    <3> QED
      BY <1>2, <3>1, <3>2
  <2> QED
    BY <2>1, CallerKept
<1>3. ASSUME NEW t \in Tabs, Logout(t) PROVE CallerInvariant'
  <2>1. /\ Alone(t) /\ cookie' = cookie /\ drops' = drops /\ sessions' = sessions \ {Cookie(t)}
        /\ call'[t].token = NoToken /\ call'[t].drops = 0 /\ call'[t].kind = "logout"
    BY <1>3 DEF Logout, SetCall, Idle
  <2>2. \A u \in Tabs : call[u].token \in sessions => call[u].token # Cookie(t)
    <3>1. BrowserOf[t] \in Browsers /\ NoToken \notin sessions
      BY DEF TypeOK
    <3> QED
      BY <3>1 DEF CallerInvariant, TokensApart, Cookie
  <2> QED
    BY <2>1, <2>2, CallerKept
<1>4. ASSUME NEW t \in Tabs, SaveFails(t) \/ HangUp(t) PROVE CallerInvariant'
  <2>1. /\ Alone(t) /\ cookie' = cookie /\ drops' = drops /\ sessions' = sessions
        /\ call'[t].token = NoToken /\ call'[t].drops = 0 /\ call'[t].pc # "answer"
    BY <1>4 DEF SaveFails, HangUp, SetCall, Idle
  <2> QED
    BY <2>1, CallerKept
<1>5. CASE Restart
  <2>1. \A t \in Tabs : call'[t].pc = "idle" /\ call'[t].token = NoToken /\ call'[t].drops = 0
    BY <1>5 DEF Restart, Idle
  <2>2. drops' = drops
    BY <1>5 DEF Restart
  <2> QED
    BY <2>1, <2>2 DEF CallerInvariant, TokensApart, CallerStaysIn
<1>6. CASE Rest \/ UNCHANGED vars
  <2>1. UNCHANGED vars
    BY <1>6 DEF Rest
  <2>2. call' = call /\ cookie' = cookie /\ sessions' = sessions /\ drops' = drops
    BY <2>1 DEF vars, ghosts
  <2> QED
    BY <2>2 DEF CallerInvariant, TokensApart, CallerStaysIn
<1> QED
  BY <1>1, <1>2, <1>3, <1>4, <1>5, <1>6 DEF Next, Hashes

\* The caller of put_admin_password gets a session that is valid, unless another
\* change has dropped it: no logout, login or fault can take it away before.
THEOREM CallerIsLetIn == Spec => []CallerStaysIn
<1>1. Init => CallerInvariant
  BY DEF Init, Idle, CallerInvariant, TokensApart, CallerStaysIn
<1>2. CallerInvariant => CallerStaysIn
  BY DEF CallerInvariant
<1> QED
  BY <1>1, <1>2, CallerNext, TypeCorrect, PTL DEF Spec
=============================================================================
