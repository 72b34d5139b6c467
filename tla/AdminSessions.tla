---------------------------- MODULE AdminSessions ----------------------------
(***************************************************************************)
(* Who is logged in to the admin UI: the password hash of AppState, the    *)
(* SessionStore, and the handlers that touch both, each under its own      *)
(* lock and with awaits in between.                                        *)
(*                                                                         *)
(* login reads the hash, verifies it on another thread, and creates the    *)
(* session after that.  put_admin_password sets the hash, drops all        *)
(* sessions, saves, and creates a session for its caller.  A handler may   *)
(* be dropped at any of its awaits, and a restart forgets all sessions.    *)
(*                                                                         *)
(* A hash is the password it was made from; "version" counts the hashes    *)
(* that were set, so that a session can be told by the hash it was made    *)
(* under.  Saving is two steps here, the clone of the hash and the write;  *)
(* ConfigPersistence has the rest of it.                                   *)
(***************************************************************************)
EXTENDS Naturals

CONSTANTS
  Tabs, Browsers,  \* a tab has one call at a time; tabs of a browser share its cookie
  BrowserOf,       \* the browser of each tab
  Passwords,       \* without blanks around them, which a change trims and a login does not
  InitialHashes,   \* what config.toml may hold at startup
  NoPassword,      \* the empty hash: the admin UI is open
  Tokens,          \* session tokens; one that nobody has any more stands for a new one
  NoToken,         \* the empty or expired cookie
  MaxChanges,      \* bound: calls of put_admin_password
  MaxLogouts,      \* bound: logouts
  MaxFaults        \* bound: dropped handlers, failed saves and restarts

ASSUME TabsAssumption == BrowserOf \in [Tabs -> Browsers]
ASSUME PasswordsAssumption ==
  NoPassword \notin Passwords /\ InitialHashes \subseteq Passwords \cup {NoPassword}
ASSUME TokensAssumption == NoToken \notin Tokens
ASSUME BoundsAssumption == MaxChanges \in Nat /\ MaxLogouts \in Nat /\ MaxFaults \in Nat

Hashes == Passwords \cup {NoPassword}
Cookies == Tokens \cup {NoToken}

VARIABLES
  hash,      \* admin_password_hash
  disk,      \* the hash in config.toml
  sessions,  \* SessionStore: the valid tokens
  cookie,    \* the token each browser keeps
  call,      \* the call of each tab
  version,   \* ghost: how often the hash was set
  drops,     \* ghost: how often all sessions were dropped
  born,      \* ghost: of each session, the version it was made under and whether
             \*   another hash had been set by the time it was created
  lapsed,    \* ghost: a change was cut off between hash and sessions
  changes, logouts, faults

ghosts == <<version, drops, born, lapsed>>
bounds == <<changes, logouts, faults>>
vars == <<hash, disk, sessions, cookie, call, ghosts, bounds>>

Idle == [pc |-> "idle", kind |-> "login", sent |-> NoToken, typed |-> NoPassword,
         seen |-> NoPassword, version |-> 0, drops |-> 0, token |-> NoToken]

Init ==
  /\ hash \in InitialHashes /\ disk = hash
  /\ sessions = {}
  /\ cookie = [b \in Browsers |-> NoToken]
  /\ call = [t \in Tabs |-> Idle]
  /\ version = 0 /\ drops = 0 /\ lapsed = FALSE
  /\ born = [s \in {} |-> 0]
  /\ changes = 0 /\ logouts = 0 /\ faults = 0

Cookie(t) == cookie[BrowserOf[t]]
SetCall(t, c) == call' = [call EXCEPT ![t] = c]
UnchangedStore == UNCHANGED <<sessions, born>>
UnchangedGhosts == UNCHANGED <<version, drops, lapsed>>

-----------------------------------------------------------------------------
(***************************************************************************)
(* login.  The page offers it to a browser without a valid session.        *)
(***************************************************************************)
Login(t, password) ==
  /\ call[t].pc = "idle" /\ Cookie(t) \notin sessions
  /\ SetCall(t, [Idle EXCEPT !.pc = IF hash = NoPassword THEN "create" ELSE "verify",
                             !.typed = password, !.seen = hash, !.version = version])
  /\ UNCHANGED <<hash, disk, cookie, bounds>> /\ UnchangedStore /\ UnchangedGhosts

\* spawn_blocking(verify_password) against the hash cloned at the beginning.
Verify(t) ==
  /\ call[t].pc = "verify"
  /\ SetCall(t, IF call[t].typed = call[t].seen THEN [call[t] EXCEPT !.pc = "create", !.seen = NoPassword] ELSE Idle)
  /\ UNCHANGED <<hash, disk, cookie, bounds>> /\ UnchangedStore /\ UnchangedGhosts

\* new_session_token gives one that nobody has.
Unused ==
  Tokens \ (sessions \cup {cookie[b] : b \in Browsers}
            \cup UNION {{call[t].token, call[t].sent} : t \in Tabs})
NewToken == CHOOSE token \in Unused : TRUE

\* Mutant: a browser that already has a token keeps it.
Create_KeepsCookie(t) ==
  /\ call[t].pc = "create" /\ Unused # {}
  /\ LET token == IF Cookie(t) # NoToken THEN Cookie(t) ELSE NewToken IN
     /\ call' = [call EXCEPT ![t].pc = "answer", ![t].token = token, ![t].version = 0]
     /\ sessions' = IF Cookie(t) # NoToken THEN sessions ELSE sessions \cup {token}
     /\ born' = [s \in sessions' |-> [under |-> call[t].version, straddled |-> FALSE]]
  /\ UNCHANGED <<hash, disk, cookie, bounds>> /\ UnchangedGhosts

\* SessionStore::create, by a login or for the caller of a change.
Create(t) ==
  /\ call[t].pc = "create" /\ Unused # {}
  /\ sessions' = sessions \cup {NewToken}
  /\ born' = [s \in sessions' |->
                IF s = NewToken
                THEN [under |-> call[t].version, straddled |-> call[t].version # version]
                ELSE born[s]]
  /\ call' = [call EXCEPT ![t].pc = "answer", ![t].token = NewToken, ![t].version = 0]
  /\ UNCHANGED <<hash, disk, cookie, bounds>> /\ UnchangedGhosts

\* The browser gets the answer and keeps the cookie set in it.
Answer(t) ==
  /\ call[t].pc = "answer"
  /\ cookie' = [cookie EXCEPT ![BrowserOf[t]] = call[t].token]
  /\ SetCall(t, Idle)
  /\ UNCHANGED <<hash, disk, bounds>> /\ UnchangedStore /\ UnchangedGhosts

-----------------------------------------------------------------------------
\* Mutant: a logout clears the store.
Logout_Everybody(t) ==
  /\ call[t].pc = "idle" /\ Cookie(t) # NoToken
  /\ logouts < MaxLogouts /\ logouts' = logouts + 1
  /\ sessions' = {} /\ born' = [s \in {} |-> 0]
  /\ SetCall(t, [Idle EXCEPT !.pc = "answer", !.kind = "logout"])
  /\ UNCHANGED <<hash, disk, cookie, changes, faults>> /\ UnchangedGhosts

\* logout, which needs no valid session.
Logout(t) ==
  /\ call[t].pc = "idle" /\ Cookie(t) # NoToken
  /\ logouts < MaxLogouts /\ logouts' = logouts + 1
  /\ sessions' = sessions \ {Cookie(t)}
  /\ born' = [s \in sessions' |-> born[s]]
  /\ SetCall(t, [Idle EXCEPT !.pc = "answer", !.kind = "logout"])
  /\ UNCHANGED <<hash, disk, cookie, changes, faults>> /\ UnchangedGhosts

-----------------------------------------------------------------------------
(***************************************************************************)
(* put_admin_password, behind session_auth_middleware.                     *)
(***************************************************************************)
Change(t, password) ==
  /\ call[t].pc = "idle"
  /\ changes < MaxChanges /\ changes' = changes + 1
  /\ SetCall(t, [Idle EXCEPT !.pc = "guard", !.kind = "change",
                             !.sent = Cookie(t), !.typed = password])
  /\ UNCHANGED <<hash, disk, cookie, logouts, faults>> /\ UnchangedStore /\ UnchangedGhosts

\* The middleware: no password, no check ...
Guard(t) ==
  /\ call[t].pc = "guard"
  /\ SetCall(t, IF hash = NoPassword THEN [call[t] EXCEPT !.pc = "set", !.sent = NoToken]
                ELSE [call[t] EXCEPT !.pc = "check"])
  /\ UNCHANGED <<hash, disk, cookie, bounds>> /\ UnchangedStore /\ UnchangedGhosts

\* ... else the token must be valid, or the call is answered 401.
CheckSession(t) ==
  /\ call[t].pc = "check"
  /\ SetCall(t, IF call[t].sent \in sessions
                THEN [call[t] EXCEPT !.pc = "set", !.sent = NoToken] ELSE Idle)
  /\ UNCHANGED <<hash, disk, cookie, bounds>> /\ UnchangedStore /\ UnchangedGhosts

\* The new password is hashed on another thread, then set.
SetHash(t) ==
  /\ call[t].pc = "set"
  /\ hash' = call[t].typed /\ version' = version + 1
  /\ call' = [call EXCEPT ![t].pc = "drop", ![t].version = version + 1]
  /\ UNCHANGED <<disk, cookie, drops, lapsed, bounds>> /\ UnchangedStore

\* Mutant: the session of the caller is kept.
DropSessions_KeepsCaller(t) ==
  /\ call[t].pc = "drop"
  /\ sessions' = sessions \cap {Cookie(t)} /\ born' = [s \in sessions' |-> born[s]]
  /\ drops' = drops + 1 /\ lapsed' = FALSE
  /\ call' = [call EXCEPT ![t].pc = "clone", ![t].drops = drops + 1]
  /\ UNCHANGED <<hash, disk, cookie, version, bounds>>

\* invalidate_all.
DropSessions(t) ==
  /\ call[t].pc = "drop"
  /\ sessions' = {} /\ born' = [s \in {} |-> 0]
  /\ drops' = drops + 1 /\ lapsed' = FALSE
  /\ call' = [call EXCEPT ![t].pc = "clone", ![t].drops = drops + 1]
  /\ UNCHANGED <<hash, disk, cookie, version, bounds>>

\* save_config_to_disk clones the hash ...
CloneHash(t) ==
  /\ call[t].pc = "clone"
  /\ call' = [call EXCEPT ![t].pc = "write", ![t].seen = hash]
  /\ UNCHANGED <<hash, disk, cookie, bounds>> /\ UnchangedStore /\ UnchangedGhosts

\* ... and writes it.  Without a password there is no session to create.
WriteConfig(t) ==
  /\ call[t].pc = "write"
  /\ disk' = call[t].seen
  /\ SetCall(t, [call[t] EXCEPT !.pc = IF call[t].typed = NoPassword THEN "answer" ELSE "create",
                                !.seen = NoPassword])
  /\ UNCHANGED <<hash, cookie, bounds>> /\ UnchangedStore /\ UnchangedGhosts

-----------------------------------------------------------------------------
Fault == faults < MaxFaults /\ faults' = faults + 1 /\ UNCHANGED <<changes, logouts>>

\* The save fails: answered 500, hash and sessions stay as they are.
SaveFails(t) ==
  /\ Fault
  /\ call[t].pc = "write"
  /\ SetCall(t, Idle)
  /\ UNCHANGED <<hash, disk, cookie>> /\ UnchangedStore /\ UnchangedGhosts

\* The browser hangs up: the handler is dropped at its await, or the answer lost.
HangUp(t) ==
  /\ Fault
  /\ call[t].pc # "idle"
  /\ lapsed' = (lapsed \/ call[t].pc = "drop")
  /\ SetCall(t, Idle)
  /\ UNCHANGED <<hash, disk, cookie, version, drops>> /\ UnchangedStore

\* Mutant: an empty hash is read back as none.
Restart_Unset ==
  /\ Fault
  /\ hash' = IF disk = NoPassword THEN NoToken ELSE disk
  /\ sessions' = {} /\ born' = [s \in {} |-> 0] /\ lapsed' = FALSE
  /\ call' = [t \in Tabs |-> Idle]
  /\ UNCHANGED <<disk, cookie, version, drops>>

\* The gateway stops and starts again: sessions live in memory only.
Restart ==
  /\ Fault
  /\ hash' = disk
  /\ sessions' = {} /\ born' = [s \in {} |-> 0] /\ lapsed' = FALSE
  /\ call' = [t \in Tabs |-> Idle]
  /\ UNCHANGED <<disk, cookie, version, drops>>

\* No call is under way.
Rest == (\A t \in Tabs : call[t].pc = "idle") /\ UNCHANGED vars

-----------------------------------------------------------------------------
\* The steps the server takes by itself once a call has come in.
Handler(t) ==
  \/ Verify(t) \/ Create(t) \/ Answer(t)
  \/ Guard(t) \/ CheckSession(t) \/ SetHash(t) \/ DropSessions(t) \/ CloneHash(t) \/ WriteConfig(t)

Next ==
  \/ \E t \in Tabs : Handler(t)
  \/ \E t \in Tabs, password \in Passwords : Login(t, password)
  \/ \E t \in Tabs : Logout(t)
  \/ \E t \in Tabs, password \in Hashes : Change(t, password)
  \/ \E t \in Tabs : SaveFails(t) \/ HangUp(t)
  \/ Restart
  \/ Rest

Spec == Init /\ [][Next]_vars
FairSpec == Spec /\ \A t \in Tabs : WF_vars(Handler(t))

-----------------------------------------------------------------------------
CallType ==
  [pc : {"idle", "verify", "create", "answer", "guard", "check", "set", "drop", "clone", "write"},
   kind : {"login", "logout", "change"}, sent : Cookies, typed : Hashes, seen : Hashes,
   version : Nat, drops : Nat, token : Cookies]

\* Every variable has its type.
TypeOK ==
  /\ hash \in Hashes /\ disk \in Hashes
  /\ sessions \subseteq Tokens
  /\ cookie \in [Browsers -> Cookies]
  /\ call \in [Tabs -> CallType]
  /\ version \in Nat /\ drops \in Nat /\ lapsed \in BOOLEAN
  /\ born \in [sessions -> [under : Nat, straddled : BOOLEAN]]
  /\ changes \in 0..MaxChanges /\ logouts \in 0..MaxLogouts /\ faults \in 0..MaxFaults

\* A session made under a hash that is no longer in force belongs to a login or
\* a change during which another hash was set; or the drop of the sessions is
\* still due, or was cut off with its handler.  That put_admin_password sets the
\* hash before it drops the sessions, all of them, is what makes this so.
OldSessionsStraddle ==
  \A s \in sessions :
    \/ born[s].under = version
    \/ born[s].straddled
    \/ \E t \in Tabs : call[t].pc = "drop"
    \/ lapsed

\* The caller of a change is given a session that is valid when it gets it
\* ("so they aren't logged out by their own change"), unless another change has
\* dropped all sessions since this one did.
CallerStaysIn ==
  \A t \in Tabs :
    call[t].kind = "change" /\ call[t].pc = "answer" /\ call[t].typed # NoPassword =>
      call[t].token \in sessions \/ drops > call[t].drops

LetIn(b) == hash = NoPassword \/ cookie[b] \in sessions

\* One who keeps trying the password in force gets in and stays in, whatever
\* changes, failed saves, hang-ups and restarts came before.
RightPasswordGetsIn ==
  \A b \in Browsers :
    SF_vars(\E t \in Tabs : BrowserOf[t] = b /\ Login(t, hash)) => <>[]LetIn(b)
=============================================================================
