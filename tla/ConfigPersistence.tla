-------------------------- MODULE ConfigPersistence --------------------------
(***************************************************************************)
(* How a change made in the admin UI reaches config.toml, and what a       *)
(* restart finds there.                                                    *)
(*                                                                         *)
(* The configuration lives in six RwLocks.  Every handler of admin.rs that *)
(* changes it follows the same steps: it changes one of the six, then      *)
(* save_config_to_disk clones the six one after the other, takes           *)
(* config_write_lock, and overwrites the file, which truncates it first.   *)
(* Handlers run concurrently, can be dropped at any await when the caller  *)
(* hangs up, and the process may die at any point.                         *)
(*                                                                         *)
(* Of a field only its version matters: the number of changes made to it.  *)
(***************************************************************************)
EXTENDS Naturals, Sequences, FiniteSets

CONSTANTS
  Callers,      \* admin calls that may run at a time
  MaxChanges,   \* bound: changes in all
  MaxFaults     \* bound: failed saves, dropped handlers and crashes

ASSUME BoundsAssumption == MaxChanges \in Nat /\ MaxFaults \in Nat

\* The order in which save_config_to_disk clones the fields.
ReadOrder == <<"langfuse", "tokens", "backends", "privacy", "rules", "password">>
Fields == {"langfuse", "tokens", "backends", "privacy", "rules", "password"}

\* The order of the sections in the file.  "server" stands for the header of
\* the section that holds privacy_mode; the rest of it never changes.
FileOrder == <<"backends", "langfuse", "tokens", "server", "privacy", "password", "rules">>
FileSize == 7
Place(f) == CHOOSE k \in 1..FileSize : FileOrder[k] = f

VARIABLES
  up,        \* "running", "down", or "failed" when load returned an error
  mem,       \* the version of each field in AppState
  file,      \* config.toml: versions, the sections written, whether it ends inside a line
  call,      \* the admin calls; ghost: since, what memory held after a call's change
  acked,     \* ghost: the last version of each field whose call was answered "ok"
  behind,    \* ghost: the fields whose file version an older snapshot, a failed or dropped save left behind
  changes, faults

vars == <<up, mem, file, call, acked, behind, changes, faults>>

Versions == [Fields -> 0..MaxChanges]
NoVersions == [f \in Fields |-> 0]
Idle == [pc |-> "idle", field |-> "langfuse", version |-> 0, read |-> 0,
         snap |-> NoVersions, since |-> NoVersions]

Whole(versions) == [versions |-> versions, size |-> FileSize, midline |-> FALSE]

\* The file as Config::load_or_create has just created it.
Init ==
  /\ up = "running"
  /\ mem = NoVersions
  /\ file = Whole(NoVersions)
  /\ call = [c \in Callers |-> Idle]
  /\ acked = NoVersions
  /\ behind = {}
  /\ changes = 0 /\ faults = 0

-----------------------------------------------------------------------------
(***************************************************************************)
(* The handlers.  A call that is refused (404, 409, 400) changes nothing.  *)
(***************************************************************************)
Change(c, f) ==
  /\ up = "running" /\ call[c].pc = "idle"
  /\ changes < MaxChanges /\ changes' = changes + 1
  /\ mem' = [mem EXCEPT ![f] = @ + 1]
  /\ call' = [call EXCEPT ![c] = [Idle EXCEPT !.pc = "reading", !.field = f,
                                              !.version = mem[f] + 1, !.since = mem']]
  /\ UNCHANGED <<up, file, acked, behind, faults>>

AddToken(c)      == Change(c, "tokens")
DeleteToken(c)   == Change(c, "tokens")
PutConfig(c)     == Change(c, "privacy")
PutLangfuse(c)   == Change(c, "langfuse")
PutPassword(c)   == Change(c, "password")
AddBackend(c)    == Change(c, "backends")
UpdateBackend(c) == Change(c, "backends")
DeleteBackend(c) == Change(c, "backends")
AddRule(c)       == Change(c, "rules")
UpdateRule(c)    == Change(c, "rules")
DeleteRule(c)    == Change(c, "rules")

\* Mutant: the privacy mode is saved as server_config has it, which was read at startup.
ReadField_ServerConfig(c) ==
  /\ call[c].pc = "reading" /\ call[c].read < Len(ReadOrder)
  /\ LET f == ReadOrder[call[c].read + 1] IN
     call' = [call EXCEPT ![c].snap[f] = IF f = "privacy" THEN 0 ELSE mem[f], ![c].read = @ + 1]
  /\ UNCHANGED <<up, mem, file, acked, behind, changes, faults>>

\* save_config_to_disk clones the next field.
ReadField(c) ==
  /\ call[c].pc = "reading" /\ call[c].read < Len(ReadOrder)
  /\ LET f == ReadOrder[call[c].read + 1] IN
     call' = [call EXCEPT ![c].snap[f] = mem[f], ![c].read = @ + 1]
  /\ UNCHANGED <<up, mem, file, acked, behind, changes, faults>>

\* Mutant: the lock is taken before the last field is cloned.
Lock_TooEarly(c) ==
  /\ call[c].pc = "reading" /\ call[c].read + 1 >= Len(ReadOrder)
  /\ \A d \in Callers : call[d].pc \notin {"locked", "writing"}
  /\ call' = [call EXCEPT ![c].pc = "locked"]
  /\ UNCHANGED <<up, mem, file, acked, behind, changes, faults>>

Lock(c) ==
  /\ call[c].pc = "reading" /\ call[c].read = Len(ReadOrder)
  /\ \A d \in Callers : call[d].pc \notin {"locked", "writing"}
  /\ call' = [call EXCEPT ![c].pc = "locked"]
  /\ UNCHANGED <<up, mem, file, acked, behind, changes, faults>>

\* Config::save: fs::write opens the file with truncation ...
Truncate(c) ==
  /\ call[c].pc = "locked"
  /\ file' = [file EXCEPT !.size = 0, !.midline = FALSE]
  /\ call' = [call EXCEPT ![c].pc = "writing"]
  /\ UNCHANGED <<up, mem, acked, behind, changes, faults>>

\* ... writes it, the guard is dropped, and the caller gets its "ok".
Write(c) ==
  /\ call[c].pc = "writing"
  /\ LET snap == call[c].snap
         f    == call[c].field
     IN  /\ file' = Whole(snap)
         /\ acked' = [acked EXCEPT ![f] = IF @ < call[c].version THEN call[c].version ELSE @]
         /\ behind' = {g \in Fields : /\ snap[g] # mem[g]
                                      /\ g \in behind \/ snap[g] < file.versions[g]}
  /\ call' = [call EXCEPT ![c] = Idle]
  /\ UNCHANGED <<up, mem, changes, faults>>

-----------------------------------------------------------------------------
(***************************************************************************)
(* What can go wrong.                                                      *)
(***************************************************************************)
Fault == faults < MaxFaults /\ faults' = faults + 1 /\ UNCHANGED changes

\* The call ends without having written: the field it changed stays changed.
GiveUp(c) ==
  /\ call' = [call EXCEPT ![c] = Idle]
  /\ behind' = behind \cup {f \in {call[c].field} : file.versions[f] # mem[f]}
  /\ UNCHANGED <<up, mem, file, acked>>

\* The caller hangs up and the server drops the handler at an await.
Dropped(c) ==
  /\ Fault
  /\ call[c].pc = "reading"
  /\ GiveUp(c)

\* toml::to_string refuses a value, or the file cannot be opened: answered 500.
OpenFails(c) ==
  /\ Fault
  /\ call[c].pc = "locked"
  /\ GiveUp(c)

\* What is in the file when only the first k sections of a write got there.
Torn(versions, k, midline) ==
  [versions |-> [f \in Fields |-> IF Place(f) <= k THEN versions[f] ELSE 0],
   size |-> k, midline |-> midline]

\* The disk is full: 500, and the file ends somewhere.
WriteFails(c) ==
  /\ Fault
  /\ call[c].pc = "writing"
  /\ \E k \in 0..(FileSize - 1), midline \in BOOLEAN :
       /\ file' = Torn(call[c].snap, k, midline)
       /\ behind' = {f \in Fields : file'.versions[f] # mem[f]}
  /\ call' = [call EXCEPT ![c] = Idle]
  /\ UNCHANGED <<up, mem, acked>>

\* The process dies, maybe inside a write.
Crash ==
  /\ Fault
  /\ up = "running" /\ up' = "down"
  /\ LET writers == {c \in Callers : call[c].pc = "writing"} IN
     IF writers = {} THEN file' = file
     ELSE \E c \in writers, k \in 0..(FileSize - 1), midline \in BOOLEAN :
            file' = Torn(call[c].snap, k, midline)
  /\ call' = [c \in Callers |-> Idle]
  /\ behind' = {}
  /\ UNCHANGED <<mem, acked>>

(***************************************************************************)
(* main loads the file.  toml fails on a line cut short, serde on a file   *)
(* without [langfuse] or [server]; every other section has a default, the  *)
(* value it had at first: no tokens, no password, no rules.                *)
(***************************************************************************)
Loadable == ~file.midline /\ Place("langfuse") <= file.size /\ Place("server") <= file.size

Restart ==
  /\ up = "down"
  /\ IF Loadable
     THEN /\ up' = "running" /\ mem' = file.versions /\ acked' = file.versions
     ELSE /\ up' = "failed" /\ UNCHANGED <<mem, acked>>
  /\ UNCHANGED <<file, call, behind, changes, faults>>

\* Nothing to do until the next call, or for good after a failed start.
Rest ==
  /\ up # "down" /\ \A c \in Callers : call[c].pc = "idle"
  /\ UNCHANGED vars

-----------------------------------------------------------------------------
Handler(c) ==
  \/ AddToken(c) \/ DeleteToken(c) \/ PutConfig(c) \/ PutLangfuse(c) \/ PutPassword(c)
  \/ AddBackend(c) \/ UpdateBackend(c) \/ DeleteBackend(c)
  \/ AddRule(c) \/ UpdateRule(c) \/ DeleteRule(c)

Save(c) ==
  \/ ReadField(c) \/ Lock(c) \/ Truncate(c) \/ Write(c)
  \/ Dropped(c) \/ OpenFails(c) \/ WriteFails(c)

Next ==
  \/ \E c \in Callers : Handler(c)
  \/ \E c \in Callers : Save(c)
  \/ Crash
  \/ Restart
  \/ Rest

Spec == Init /\ [][Next]_vars

-----------------------------------------------------------------------------
InFlight == {c \in Callers : call[c].pc # "idle"}

CallType == [pc : {"idle", "reading", "locked", "writing"}, field : Fields,
             version : 0..MaxChanges, read : 0..Len(ReadOrder), snap : Versions, since : Versions]

\* Every variable has its type.
TypeOK ==
  /\ up \in {"running", "down", "failed"}
  /\ mem \in Versions /\ acked \in Versions
  /\ file \in [versions : Versions, size : 0..FileSize, midline : BOOLEAN]
  /\ call \in [Callers -> CallType]
  /\ behind \in SUBSET Fields
  /\ changes \in 0..MaxChanges /\ faults \in 0..MaxFaults

\* A field that differs between memory and file is being saved by the call that
\* changed it last, or an older snapshot overwrote it, or its save failed:
\* save_config_to_disk loses a change in no other way, whatever the overlap of
\* the clones, the lock and the writes.
LostOnlyIfBehind ==
  up = "running" =>
    \A f \in Fields :
      \/ mem[f] = file.versions[f]
      \/ f \in behind
      \/ \E c \in InFlight : call[c].field = f /\ call[c].version = mem[f]

\* A call is answered "ok" only when its own change is in the file, whole: the
\* clone is made after the change, and the answer after the write.
AnsweredMeansWritten ==
  [][ \A f \in Fields :
        acked'[f] > acked[f] => Loadable' /\ file'.versions[f] >= acked'[f] ]_vars

\* A save writes no field as it was before the save's own change: what an earlier
\* call changed and did not get into the file, because its save failed, was dropped
\* or was overtaken by an older snapshot, is in the file after any save that starts
\* later, whatever field that one is about and whatever runs beside it
\* (save_config_to_disk clones all six fields, each from memory).
SavesAreCurrent ==
  [][ \A c \in Callers : Write(c) =>
        \A f \in Fields : file'.versions[f] >= call[c].since[f] ]_vars

-----------------------------------------------------------------------------
(***************************************************************************)
(* What the repository says of itself and the code does not keep.          *)
(***************************************************************************)
\* README.md:122 "all changes are persisted back to the volume automatically":
\* a restart finds every change that was answered "ok".
AnsweredSurvivesRestart ==
  [][ Restart => up' = "running" /\ \A f \in Fields : acked[f] <= mem'[f] ]_vars
=============================================================================
