----------------------- MODULE ConfigPersistenceProofs -----------------------
(***************************************************************************)
(* ConfigPersistence for any number of calls, changes and faults: types,   *)
(* that a change is lost only to an older snapshot or a fault, that an     *)
(* answer comes after the write of what it answers for, and that a save    *)
(* that starts later writes what the ones before it left behind.           *)
(***************************************************************************)
EXTENDS ConfigPersistence, TLAPS

(***************************************************************************)
(* The two orders list every field.                                        *)
(***************************************************************************)
LEMMA Orders ==
  /\ Len(ReadOrder) = 6 /\ \A k \in 1..6 : ReadOrder[k] \in Fields
  /\ \A f \in Fields : \E k \in 1..6 : ReadOrder[k] = f
<1>1. Len(ReadOrder) = 6 /\ \A k \in 1..6 : ReadOrder[k] \in Fields
  BY DEF ReadOrder, Fields
<1>2. /\ ReadOrder[1] = "langfuse" /\ ReadOrder[2] = "tokens" /\ ReadOrder[3] = "backends"
      /\ ReadOrder[4] = "privacy" /\ ReadOrder[5] = "rules" /\ ReadOrder[6] = "password"
  BY DEF ReadOrder
<1>3. \A f \in Fields : \E k \in 1..6 : ReadOrder[k] = f
  BY <1>2 DEF Fields
<1> QED BY <1>1, <1>3

LEMMA IdleType == NoVersions \in Versions /\ Idle \in CallType
  BY BoundsAssumption, Orders DEF NoVersions, Versions, Idle, CallType, Fields

LEMMA TornType ==
  ASSUME NEW v \in Versions, NEW k \in 0..(FileSize - 1), NEW midline \in BOOLEAN
  PROVE  Torn(v, k, midline) \in [versions : Versions, size : 0..FileSize, midline : BOOLEAN]
  BY BoundsAssumption DEF Torn, Versions, FileSize

-----------------------------------------------------------------------------
(***************************************************************************)
(* Types.  Inductive only with the fact that no version, in memory, in the *)
(* file or in a clone, is above the number of changes made.                *)
(***************************************************************************)
Counted ==
  \A f \in Fields :
    /\ mem[f] <= changes /\ file.versions[f] <= changes
    /\ \A c \in Callers : call[c].snap[f] <= changes

TypeInvariant == TypeOK /\ Counted

LEMMA InitType == Init => TypeInvariant
<1> SUFFICES ASSUME Init PROVE TypeInvariant
  OBVIOUS
<1>1. file \in [versions : Versions, size : 0..FileSize, midline : BOOLEAN]
  BY IdleType DEF Init, Whole, FileSize
<1>2. changes \in 0..MaxChanges /\ faults \in 0..MaxFaults
  BY BoundsAssumption DEF Init
<1>3. Counted
  BY DEF Init, Counted, NoVersions, Whole, Idle
<1> QED BY <1>1, <1>2, <1>3, IdleType DEF Init, TypeOK, TypeInvariant

\* Every handler is a Change of one of the fields.
LEMMA HandlerIsChange ==
  ASSUME NEW c \in Callers, Handler(c)
  PROVE  \E f \in Fields : Change(c, f)
  BY DEF Handler, AddToken, DeleteToken, PutConfig, PutLangfuse, PutPassword, AddBackend,
         UpdateBackend, DeleteBackend, AddRule, UpdateRule, DeleteRule, Fields

LEMMA ChangeType ==
  ASSUME TypeInvariant, NEW c \in Callers, NEW f \in Fields, Change(c, f)
  PROVE  TypeInvariant'
<1> USE DEF TypeInvariant
<1>1. changes \in Nat /\ changes < MaxChanges /\ changes' = changes + 1 /\ MaxChanges \in Nat
  BY BoundsAssumption DEF Change, TypeOK
<1>2. /\ mem \in [Fields -> Nat] /\ mem[f] <= changes
      /\ mem' = [mem EXCEPT ![f] = mem[f] + 1]
  BY DEF Change, TypeOK, Counted, Versions
<1>3. mem' \in Versions /\ mem[f] + 1 \in 0..MaxChanges
  BY <1>1, <1>2 DEF Versions, TypeOK
<1> DEFINE new == [Idle EXCEPT !.pc = "reading", !.field = f, !.version = mem[f] + 1,
                               !.since = mem']
<1>4. new \in CallType /\ new.snap = NoVersions
  BY <1>3, IdleType DEF CallType, Idle
<1>5. call' = [call EXCEPT ![c] = new]
  BY DEF Change
<1> HIDE DEF new
<1>6. call' \in [Callers -> CallType]
  BY <1>4, <1>5 DEF TypeOK
<1>7. TypeOK'
  BY <1>1, <1>3, <1>6 DEF Change, TypeOK
<1>8. ASSUME NEW g \in Fields PROVE mem'[g] <= changes' /\ file'.versions[g] <= changes'
  <2>1. mem[g] <= changes /\ file.versions[g] <= changes /\ mem[g] \in Nat /\ file.versions[g] \in Nat
    BY DEF Counted, TypeOK, Versions
  <2> QED BY <1>1, <1>2, <2>1 DEF Change
<1>9. ASSUME NEW g \in Fields, NEW d \in Callers PROVE call'[d].snap[g] <= changes'
  <2>1. call[d].snap[g] <= changes /\ call[d].snap[g] \in Nat
    BY DEF Counted, TypeOK, CallType, Versions
  <2>2. call'[d].snap[g] = call[d].snap[g] \/ call'[d].snap[g] = 0
    BY <1>4, <1>5 DEF TypeOK, NoVersions
  <2> QED BY <1>1, <2>1, <2>2
<1> QED BY <1>7, <1>8, <1>9 DEF Counted

LEMMA NatFacts ==
  ASSUME TypeInvariant
  PROVE  /\ changes \in Nat
         /\ \A f \in Fields : /\ mem[f] \in Nat /\ file.versions[f] \in Nat
                              /\ mem[f] <= changes /\ file.versions[f] <= changes
                              /\ \A c \in Callers : call[c].snap[f] \in Nat /\ call[c].snap[f] <= changes
  BY DEF TypeInvariant, TypeOK, Counted, CallType, Versions

\* Counted is kept by a step that copies versions and makes no change.
LEMMA CountedKept ==
  ASSUME TypeInvariant, changes' = changes, mem' = mem,
         \A f \in Fields : file'.versions[f] <= changes,
         \A c \in Callers, f \in Fields : call'[c].snap[f] \in {call[c].snap[f], mem[f], 0}
  PROVE  Counted'
<1>1. ASSUME NEW f \in Fields, NEW c \in Callers PROVE call'[c].snap[f] <= changes
  <2>1. call'[c].snap[f] = call[c].snap[f] \/ call'[c].snap[f] = mem[f] \/ call'[c].snap[f] = 0
    OBVIOUS
  <2> QED BY <2>1, NatFacts
<1>2. ASSUME NEW f \in Fields PROVE mem'[f] <= changes' /\ file'.versions[f] <= changes'
  BY NatFacts
<1> QED BY <1>1, <1>2 DEF Counted

LEMMA ReadFieldType ==
  ASSUME TypeInvariant, NEW c \in Callers, ReadField(c)
  PROVE  TypeInvariant'
<1> USE DEF TypeInvariant
<1> DEFINE f == ReadOrder[call[c].read + 1]
<1>1. f \in Fields /\ call[c].read + 1 \in 0..6
  BY Orders DEF ReadField, TypeOK, CallType
<1>2. call' = [call EXCEPT ![c].snap[f] = mem[f], ![c].read = call[c].read + 1]
  BY DEF ReadField
<1> HIDE DEF f
<1>3. call' \in [Callers -> CallType]
  BY <1>1, <1>2, Orders DEF TypeOK, CallType, Versions
<1>4. \A d \in Callers, g \in Fields : call'[d].snap[g] \in {call[d].snap[g], mem[g]}
  BY <1>1, <1>2 DEF TypeOK, CallType, Versions
<1>5. Counted'
  BY <1>4, CountedKept, NatFacts DEF ReadField
<1> QED BY <1>3, <1>5 DEF ReadField, TypeOK

\* The call of c ends or moves on with the clone it has.
LEMMA CallMovesType ==
  ASSUME TypeInvariant, NEW c \in Callers,
         call' = [call EXCEPT ![c] = Idle] \/ \E p \in {"locked", "writing"} : call' = [call EXCEPT ![c].pc = p]
  PROVE  /\ call' \in [Callers -> CallType]
         /\ \A d \in Callers, g \in Fields : call'[d].snap[g] \in {call[d].snap[g], 0}
<1> USE DEF TypeInvariant
<1>1. CASE call' = [call EXCEPT ![c] = Idle]
  <2>1. \A d \in Callers : call'[d] = IF d = c THEN Idle ELSE call[d]
    BY <1>1 DEF TypeOK
  <2>2. \A g \in Fields : Idle.snap[g] = 0
    BY DEF Idle, NoVersions
  <2>3. call' \in [Callers -> CallType]
    BY <1>1, IdleType DEF TypeOK
  <2> QED BY <2>1, <2>2, <2>3
<1>2. CASE \E p \in {"locked", "writing"} : call' = [call EXCEPT ![c].pc = p]
  <2>1. PICK p \in {"locked", "writing"} : call' = [call EXCEPT ![c].pc = p]
    BY <1>2
  <2>2. \A d \in Callers : call'[d] = IF d = c THEN [call[c] EXCEPT !.pc = p] ELSE call[d]
    BY <2>1 DEF TypeOK
  <2>3. [call[c] EXCEPT !.pc = p] \in CallType /\ [call[c] EXCEPT !.pc = p].snap = call[c].snap
    BY DEF TypeOK, CallType
  <2>4. call' \in [Callers -> CallType]
    BY <2>1, <2>3 DEF TypeOK
  <2> QED BY <2>2, <2>3, <2>4
<1> QED BY <1>1, <1>2

LEMMA SaveType ==
  ASSUME TypeInvariant, NEW c \in Callers, Save(c)
  PROVE  TypeInvariant'
<1> USE DEF TypeInvariant
<1>1. CASE ReadField(c)
  BY <1>1, ReadFieldType
<1>2. CASE Lock(c)
  <2>1. /\ call' \in [Callers -> CallType]
        /\ \A d \in Callers, g \in Fields : call'[d].snap[g] \in {call[d].snap[g], 0}
    BY <1>2, CallMovesType DEF Lock
  <2>2. Counted'
    BY <1>2, <2>1, CountedKept, NatFacts DEF Lock
  <2> QED BY <1>2, <2>1, <2>2 DEF Lock, TypeOK
<1>3. CASE Truncate(c)
  <2>1. /\ file' \in [versions : Versions, size : 0..FileSize, midline : BOOLEAN]
        /\ file'.versions = file.versions
    <3>1. file' = [file EXCEPT !.size = 0, !.midline = FALSE] /\ 0 \in 0..FileSize
      BY <1>3 DEF Truncate, FileSize
    <3> QED BY <3>1 DEF TypeOK
  <2>2. /\ call' \in [Callers -> CallType]
        /\ \A d \in Callers, g \in Fields : call'[d].snap[g] \in {call[d].snap[g], 0}
    BY <1>3, CallMovesType DEF Truncate
  <2>3. Counted'
    BY <1>3, <2>1, <2>2, CountedKept, NatFacts DEF Truncate
  <2> QED BY <1>3, <2>1, <2>2, <2>3 DEF Truncate, TypeOK
<1>4. CASE Write(c)
  <2>1. call[c].snap \in Versions /\ call[c].field \in Fields /\ call[c].version \in 0..MaxChanges
    BY DEF TypeOK, CallType
  <2>2. /\ file' \in [versions : Versions, size : 0..FileSize, midline : BOOLEAN]
        /\ file'.versions = call[c].snap
    BY <1>4, <2>1 DEF Write, Whole, FileSize
  <2>3. acked' \in Versions
    BY <1>4, <2>1 DEF Write, TypeOK, Versions
  <2>4. behind' \in SUBSET Fields
    BY <1>4 DEF Write
  <2>5. /\ call' \in [Callers -> CallType]
        /\ \A d \in Callers, g \in Fields : call'[d].snap[g] \in {call[d].snap[g], 0}
    BY <1>4, CallMovesType DEF Write
  <2>6. Counted'
    BY <1>4, <2>2, <2>5, CountedKept, NatFacts DEF Write
  <2> QED BY <1>4, <2>2, <2>3, <2>4, <2>5, <2>6 DEF Write, TypeOK
<1>5. ASSUME Fault, GiveUp(c) PROVE TypeInvariant'
  <2>1. faults' \in 0..MaxFaults /\ changes' = changes
    BY <1>5, BoundsAssumption DEF Fault, TypeOK
  <2>2. behind' \in SUBSET Fields
    BY <1>5 DEF GiveUp, TypeOK, CallType
  <2>3. /\ call' \in [Callers -> CallType]
        /\ \A d \in Callers, g \in Fields : call'[d].snap[g] \in {call[d].snap[g], 0}
    BY <1>5, CallMovesType DEF GiveUp
  <2>4. Counted'
    BY <1>5, <2>1, <2>3, CountedKept, NatFacts DEF GiveUp
  <2> QED BY <1>5, <2>1, <2>2, <2>3, <2>4 DEF GiveUp, TypeOK
<1>6. CASE WriteFails(c)
  <2>1. faults' \in 0..MaxFaults /\ changes' = changes
    BY <1>6, BoundsAssumption DEF WriteFails, Fault, TypeOK
  <2>2. PICK k \in 0..(FileSize - 1), midline \in BOOLEAN : file' = Torn(call[c].snap, k, midline)
    BY <1>6 DEF WriteFails
  <2>3. call[c].snap \in Versions
    BY DEF TypeOK, CallType
  <2>4. /\ file' \in [versions : Versions, size : 0..FileSize, midline : BOOLEAN]
        /\ \A f \in Fields : file'.versions[f] \in {call[c].snap[f], 0}
    BY <2>2, <2>3, TornType DEF Torn
  <2>5. behind' \in SUBSET Fields
    BY <1>6 DEF WriteFails
  <2>6. /\ call' \in [Callers -> CallType]
        /\ \A d \in Callers, g \in Fields : call'[d].snap[g] \in {call[d].snap[g], 0}
    BY <1>6, CallMovesType DEF WriteFails
  <2>7. Counted'
    <3>1. \A f \in Fields : file'.versions[f] <= changes
      BY <2>4, NatFacts
    <3> QED BY <1>6, <2>1, <2>6, <3>1, CountedKept DEF WriteFails
  <2> QED BY <1>6, <2>1, <2>4, <2>5, <2>6, <2>7 DEF WriteFails, TypeOK
<1> QED BY <1>1, <1>2, <1>3, <1>4, <1>5, <1>6 DEF Save, Dropped, OpenFails

LEMMA CrashType ==
  ASSUME TypeInvariant, Crash
  PROVE  TypeInvariant'
<1> USE DEF TypeInvariant
<1>1. faults' \in 0..MaxFaults /\ changes' = changes
  BY BoundsAssumption DEF Crash, Fault, TypeOK
<1>2. /\ file' \in [versions : Versions, size : 0..FileSize, midline : BOOLEAN]
      /\ \A f \in Fields : file'.versions[f] <= changes
  <2>1. CASE file' = file
    BY <2>1, NatFacts DEF TypeOK
  <2>2. CASE file' # file
    <3>1. PICK c \in Callers, k \in 0..(FileSize - 1), midline \in BOOLEAN :
                 file' = Torn(call[c].snap, k, midline)
      BY <2>2 DEF Crash
    <3>2. call[c].snap \in Versions
      BY DEF TypeOK, CallType
    <3>3. \A f \in Fields : file'.versions[f] \in {call[c].snap[f], 0}
      BY <3>1 DEF Torn
    <3> QED BY <3>1, <3>2, <3>3, TornType, NatFacts
  <2> QED BY <2>1, <2>2
<1>3. call' \in [Callers -> CallType] /\ \A d \in Callers, g \in Fields : call'[d].snap[g] = 0
  BY IdleType DEF Crash, Idle, NoVersions
<1>4. Counted'
  BY <1>1, <1>2, <1>3, NatFacts DEF Crash, Counted
<1> QED BY <1>1, <1>2, <1>3, <1>4 DEF Crash, TypeOK

LEMMA NextType == TypeInvariant /\ [Next]_vars => TypeInvariant'
<1> SUFFICES ASSUME TypeInvariant, [Next]_vars PROVE TypeInvariant'
  OBVIOUS
<1>1. ASSUME NEW c \in Callers, Handler(c) PROVE TypeInvariant'
  BY <1>1, HandlerIsChange, ChangeType
<1>2. ASSUME NEW c \in Callers, Save(c) PROVE TypeInvariant'
  BY <1>2, SaveType
<1>3. CASE Crash
  BY <1>3, CrashType
<1>4. CASE Restart
  BY <1>4, NatFacts DEF Restart, TypeInvariant, TypeOK, Counted
<1>5. CASE Rest \/ UNCHANGED vars
  BY <1>5 DEF Rest, vars, TypeInvariant, TypeOK, Counted
<1> QED BY <1>1, <1>2, <1>3, <1>4, <1>5 DEF Next

(***************************************************************************)
(* Every reachable state of memory, file and calls has the types of        *)
(* TypeOK.                                                                 *)
(***************************************************************************)
THEOREM TypeCorrect == Spec => []TypeOK
  BY InitType, NextType, PTL DEF Spec, TypeInvariant

-----------------------------------------------------------------------------
(***************************************************************************)
(* What is known of a call on its way, which LostOnlyIfBehind needs at its *)
(* write: what it has cloned is not newer than memory, the field it        *)
(* changed was cloned after the change, and everything is cloned before    *)
(* the lock is taken.                                                      *)
(***************************************************************************)
ClonesInOrder(c) ==
  /\ up = "running"
  /\ call[c].version <= mem[call[c].field]
  /\ \A k \in 1..call[c].read :
       /\ call[c].snap[ReadOrder[k]] <= mem[ReadOrder[k]]
       /\ ReadOrder[k] = call[c].field => call[c].version <= call[c].snap[ReadOrder[k]]
  /\ call[c].pc \in {"locked", "writing"} => call[c].read = Len(ReadOrder)

SaveInvariant == LostOnlyIfBehind /\ \A c \in InFlight : ClonesInOrder(c)

\* A call that has cloned everything: the consequences for each field.
LEMMA ClonedAll ==
  ASSUME TypeInvariant, SaveInvariant, NEW c \in Callers, call[c].pc = "writing"
  PROVE  /\ \A f \in Fields : call[c].snap[f] <= mem[f]
         /\ call[c].version <= call[c].snap[call[c].field]
<1>1. ClonesInOrder(c) /\ call[c].read = 6 /\ call[c].field \in Fields
  BY Orders DEF SaveInvariant, InFlight, ClonesInOrder, TypeInvariant, TypeOK, CallType
<1> QED BY <1>1, Orders DEF ClonesInOrder

LEMMA InitSave == Init => SaveInvariant
  BY DEF Init, SaveInvariant, LostOnlyIfBehind, InFlight, Whole, Idle

LEMMA ChangeSave ==
  ASSUME TypeInvariant, SaveInvariant, NEW c \in Callers, NEW f \in Fields, Change(c, f)
  PROVE  SaveInvariant'
<1> DEFINE new == [Idle EXCEPT !.pc = "reading", !.field = f, !.version = mem[f] + 1,
                               !.since = mem']
<1>1. /\ new.pc = "reading" /\ new.field = f /\ new.version = mem[f] + 1 /\ new.read = 0
  BY DEF Idle
<1>2. \A d \in Callers : call'[d] = IF d = c THEN new ELSE call[d]
  BY DEF Change, TypeInvariant, TypeOK
<1> HIDE DEF new
<1>3. \A g \in Fields : mem'[g] = IF g = f THEN mem[f] + 1 ELSE mem[g]
  BY DEF Change, TypeInvariant, TypeOK, Versions
<1>4. ASSUME NEW g \in Fields
      PROVE  \/ mem'[g] = file'.versions[g] \/ g \in behind'
             \/ \E d \in InFlight' : call'[d].field = g /\ call'[d].version = mem'[g]
  <2>1. CASE g = f
    BY <1>1, <1>2, <1>3, <2>1 DEF InFlight
  <2>2. CASE g # f
    <3>1. \A d \in InFlight : d # c
      BY DEF InFlight, Change
    <3>2. \A d \in InFlight : d \in InFlight' /\ call'[d] = call[d]
      BY <1>2, <3>1 DEF InFlight
    <3>3. /\ up = "running" /\ mem'[g] = mem[g] /\ file' = file /\ behind' = behind
      BY <1>3, <2>2 DEF Change
    <3>4. \/ mem[g] = file.versions[g] \/ g \in behind
          \/ \E d \in InFlight : call[d].field = g /\ call[d].version = mem[g]
      BY <3>3 DEF SaveInvariant, LostOnlyIfBehind
    <3> QED BY <3>2, <3>3, <3>4
  <2> QED BY <2>1, <2>2
<1>5. ASSUME NEW d \in InFlight' PROVE ClonesInOrder(d)'
  <2>1. CASE d = c
    <3>1. /\ call'[d].field = f /\ call'[d].version = mem[f] + 1 /\ call'[d].read = 0
          /\ call'[d].pc = "reading"
      BY <1>1, <1>2, <2>1
    <3>2. mem'[f] = mem[f] + 1 /\ mem[f] \in Nat
      BY <1>3, NatFacts
    <3> QED BY <3>1, <3>2 DEF ClonesInOrder, Change
  <2>2. CASE d # c
    <3>1. ClonesInOrder(d) /\ call'[d] = call[d] /\ d \in Callers
      BY <1>2, <2>2 DEF InFlight, SaveInvariant
    <3>2. /\ call[d].field \in Fields /\ call[d].version \in Nat /\ call[d].read \in 0..6
          /\ \A g \in Fields : call[d].snap[g] \in Nat
      BY <3>1, NatFacts, Orders DEF TypeInvariant, TypeOK, CallType
    <3>3. \A g \in Fields : mem[g] \in Nat /\ mem[g] <= mem'[g] /\ mem'[g] \in Nat
      BY <1>3, NatFacts
    <3>4. call[d].version <= mem'[call[d].field]
      BY <3>1, <3>2, <3>3 DEF ClonesInOrder
    <3>5. ASSUME NEW k \in 1..call[d].read PROVE call[d].snap[ReadOrder[k]] <= mem'[ReadOrder[k]]
      <4>1. ReadOrder[k] \in Fields
        BY <3>2, Orders
      <4>2. call[d].snap[ReadOrder[k]] <= mem[ReadOrder[k]]
        BY <3>1 DEF ClonesInOrder
      <4> QED BY <3>2, <3>3, <4>1, <4>2
    <3> QED BY <3>1, <3>4, <3>5 DEF ClonesInOrder, Change
  <2> QED BY <2>1, <2>2
<1> QED BY <1>4, <1>5 DEF SaveInvariant, LostOnlyIfBehind

\* Cloning one more field: the clone equals memory, the others are as before.
LEMMA ReadFieldSave ==
  ASSUME TypeInvariant, SaveInvariant, NEW c \in Callers, ReadField(c)
  PROVE  SaveInvariant'
<1> DEFINE n == call[c].read + 1
           f == ReadOrder[n]
<1>1. /\ f \in Fields /\ n \in 1..6 /\ call[c].read \in 0..5 /\ call[c].snap \in [Fields -> Nat]
      /\ call[c].version \in Nat
  BY Orders DEF ReadField, TypeInvariant, TypeOK, CallType, Versions
<1>2. \A d \in Callers : d # c => call'[d] = call[d]
  BY DEF ReadField, TypeInvariant, TypeOK
<1>3. /\ call'[c].pc = "reading" /\ call'[c].field = call[c].field
      /\ call'[c].version = call[c].version /\ call'[c].read = n
      /\ call'[c].snap = [call[c].snap EXCEPT ![f] = mem[f]]
  BY DEF ReadField, TypeInvariant, TypeOK, CallType
<1>4. mem' = mem /\ file' = file /\ behind' = behind /\ up' = up
  BY DEF ReadField
<1>5. InFlight' = InFlight /\ c \in InFlight
  BY <1>2, <1>3 DEF InFlight, ReadField
<1>6. LostOnlyIfBehind'
  <2>1. \A d \in InFlight : call'[d].field = call[d].field /\ call'[d].version = call[d].version
    BY <1>2, <1>3 DEF InFlight
  <2> QED BY <1>4, <1>5, <2>1 DEF SaveInvariant, LostOnlyIfBehind
<1>7. ClonesInOrder(c)'
  <2>1. ClonesInOrder(c) /\ call[c].field \in Fields
    BY <1>5 DEF SaveInvariant, TypeInvariant, TypeOK, CallType
  <2> HIDE DEF f, n
  <2>2. ASSUME NEW k \in 1..n
        PROVE  /\ call'[c].snap[ReadOrder[k]] <= mem[ReadOrder[k]]
               /\ ReadOrder[k] = call[c].field => call[c].version <= call'[c].snap[ReadOrder[k]]
    <3>1. ReadOrder[k] \in Fields
      BY <1>1, Orders
    <3>2. CASE ReadOrder[k] = f
      BY <1>1, <1>3, <2>1, <3>1, <3>2, NatFacts DEF ClonesInOrder
    <3>3. CASE ReadOrder[k] # f
      <4>1. k \in 1..call[c].read
        BY <1>1, <3>3 DEF f, n
      <4> QED BY <1>1, <1>3, <2>1, <3>1, <3>3, <4>1 DEF ClonesInOrder
    <3> QED BY <3>2, <3>3
  <2> QED BY <1>3, <1>4, <2>1, <2>2 DEF ClonesInOrder
<1>8. ASSUME NEW d \in InFlight', d # c PROVE ClonesInOrder(d)'
  BY <1>2, <1>4, <1>5, <1>8 DEF SaveInvariant, ClonesInOrder, InFlight
<1> QED BY <1>6, <1>7, <1>8 DEF SaveInvariant

\* The other calls of a step in which only c moves or ends.
LEMMA OtherCalls ==
  ASSUME TypeInvariant, SaveInvariant, NEW c \in Callers, mem' = mem, up' = up,
         \A d \in Callers : d # c => call'[d] = call[d]
  PROVE  \A d \in InFlight' : d # c => d \in InFlight /\ ClonesInOrder(d)'
  BY DEF SaveInvariant, ClonesInOrder, InFlight

LEMMA LockSave ==
  ASSUME TypeInvariant, SaveInvariant, NEW c \in Callers, NEW p \in {"locked", "writing"},
         call' = [call EXCEPT ![c].pc = p], mem' = mem, up' = up, behind' = behind,
         file'.versions = file.versions, c \in InFlight, call[c].read = Len(ReadOrder)
  PROVE  SaveInvariant'
<1>1. \A d \in Callers : call'[d] = IF d = c THEN [call[c] EXCEPT !.pc = p] ELSE call[d]
  BY DEF TypeInvariant, TypeOK
<1>2. /\ call'[c].pc = p /\ call'[c].field = call[c].field /\ call'[c].read = call[c].read
      /\ call'[c].version = call[c].version /\ call'[c].snap = call[c].snap
  BY <1>1 DEF TypeInvariant, TypeOK, CallType
<1>3. InFlight' = InFlight
  BY <1>1, <1>2 DEF InFlight
<1>4. ClonesInOrder(c)'
  BY <1>2 DEF SaveInvariant, ClonesInOrder
<1>5. \A d \in InFlight' : d # c => ClonesInOrder(d)'
  BY <1>1, OtherCalls
<1>6. \A d \in InFlight : call'[d].field = call[d].field /\ call'[d].version = call[d].version
  BY <1>1, <1>2 DEF InFlight
<1>7. LostOnlyIfBehind'
  BY <1>3, <1>6 DEF SaveInvariant, LostOnlyIfBehind
<1> QED BY <1>4, <1>5, <1>7 DEF SaveInvariant

(***************************************************************************)
(* A write: what the file held of a field is overwritten by the clone.  If *)
(* the clone is older than memory then the file had it newer, and the      *)
(* field is behind, or it was behind, or another call is saving it.        *)
(***************************************************************************)
LEMMA WriteSave ==
  ASSUME TypeInvariant, SaveInvariant, NEW c \in Callers, Write(c)
  PROVE  SaveInvariant'
<1> DEFINE snap == call[c].snap
<1>1. /\ call[c].pc = "writing" /\ c \in InFlight /\ up' = up /\ mem' = mem
      /\ file'.versions = snap
      /\ behind' = {g \in Fields : snap[g] # mem[g] /\ (g \in behind \/ snap[g] < file.versions[g])}
  BY DEF Write, InFlight, Whole
<1>2. /\ \A g \in Fields : snap[g] <= mem[g] /\ snap[g] \in Nat /\ mem[g] \in Nat
      /\ call[c].version <= snap[call[c].field]
  BY <1>1, ClonedAll, NatFacts
<1>3. /\ \A d \in Callers : d # c => call'[d] = call[d]
      /\ c \notin InFlight'
  BY DEF Write, TypeInvariant, TypeOK, InFlight, Idle
<1>4. ASSUME up = "running", NEW g \in Fields, snap[g] # mem[g], g \notin behind'
      PROVE  \E d \in InFlight' : call'[d].field = g /\ call'[d].version = mem[g]
  <2>1. g \notin behind /\ ~(snap[g] < file.versions[g])
    BY <1>1, <1>4
  <2>2. mem[g] # file.versions[g]
    BY <1>2, <1>4, <2>1, NatFacts
  <2>3. PICK d \in InFlight : call[d].field = g /\ call[d].version = mem[g]
    BY <1>4, <2>1, <2>2 DEF SaveInvariant, LostOnlyIfBehind
  <2>4. d # c
    BY <1>2, <1>4, <2>3
  <2> QED BY <1>3, <2>3, <2>4 DEF InFlight
<1>5. LostOnlyIfBehind'
  BY <1>1, <1>4 DEF LostOnlyIfBehind
<1>6. \A d \in InFlight' : ClonesInOrder(d)'
  BY <1>1, <1>3, OtherCalls
<1> QED BY <1>5, <1>6 DEF SaveInvariant

\* A call that ends without writing leaves its field behind, if it differs.
LEMMA GiveUpSave ==
  ASSUME TypeInvariant, SaveInvariant, NEW c \in Callers, GiveUp(c)
  PROVE  SaveInvariant'
<1>1. /\ \A d \in Callers : d # c => call'[d] = call[d]
      /\ c \notin InFlight' /\ mem' = mem /\ up' = up /\ file' = file
      /\ behind' = behind \cup {f \in {call[c].field} : file.versions[f] # mem[f]}
  BY DEF GiveUp, TypeInvariant, TypeOK, InFlight, Idle
<1>2. \A d \in InFlight' : ClonesInOrder(d)'
  BY <1>1, OtherCalls
<1>3. ASSUME up = "running", NEW g \in Fields, mem[g] # file.versions[g], g \notin behind'
      PROVE  \E d \in InFlight' : call'[d].field = g /\ call'[d].version = mem[g]
  <2>1. PICK d \in InFlight : call[d].field = g /\ call[d].version = mem[g]
    BY <1>1, <1>3 DEF SaveInvariant, LostOnlyIfBehind
  <2>2. d # c
    BY <1>1, <1>3, <2>1
  <2> QED BY <1>1, <2>1, <2>2 DEF InFlight
<1>4. LostOnlyIfBehind'
  BY <1>1, <1>3 DEF LostOnlyIfBehind
<1> QED BY <1>2, <1>4 DEF SaveInvariant

LEMMA SaveSave ==
  ASSUME TypeInvariant, SaveInvariant, NEW c \in Callers, Save(c)
  PROVE  SaveInvariant'
<1>1. CASE ReadField(c)
  BY <1>1, ReadFieldSave
<1>2. CASE Lock(c)
  BY <1>2, LockSave DEF Lock, InFlight
<1>3. CASE Truncate(c)
  <2>1. file'.versions = file.versions
    BY <1>3 DEF Truncate, TypeInvariant, TypeOK
  <2>2. c \in InFlight /\ call[c].read = Len(ReadOrder)
    BY <1>3 DEF Truncate, InFlight, SaveInvariant, ClonesInOrder
  <2> QED BY <1>3, <2>1, <2>2, LockSave DEF Truncate
<1>4. CASE Write(c)
  BY <1>4, WriteSave
<1>5. CASE Dropped(c) \/ OpenFails(c)
  BY <1>5, GiveUpSave DEF Dropped, OpenFails
<1>6. CASE WriteFails(c)
  <2>1. /\ \A d \in Callers : d # c => call'[d] = call[d]
        /\ c \notin InFlight' /\ mem' = mem /\ up' = up
        /\ behind' = {f \in Fields : file'.versions[f] # mem[f]}
    BY <1>6 DEF WriteFails, TypeInvariant, TypeOK, InFlight, Idle
  <2>2. LostOnlyIfBehind'
    BY <2>1 DEF LostOnlyIfBehind
  <2>3. \A d \in InFlight' : ClonesInOrder(d)'
    BY <2>1, OtherCalls
  <2> QED BY <2>2, <2>3 DEF SaveInvariant
<1> QED BY <1>1, <1>2, <1>3, <1>4, <1>5, <1>6 DEF Save

LEMMA NextSave == TypeInvariant /\ SaveInvariant /\ [Next]_vars => SaveInvariant'
<1> SUFFICES ASSUME TypeInvariant, SaveInvariant, [Next]_vars PROVE SaveInvariant'
  OBVIOUS
<1>1. ASSUME NEW c \in Callers, Handler(c) PROVE SaveInvariant'
  BY <1>1, HandlerIsChange, ChangeSave
<1>2. ASSUME NEW c \in Callers, Save(c) PROVE SaveInvariant'
  BY <1>2, SaveSave
<1>3. CASE Crash
  <2>1. up' = "down" /\ InFlight' = {}
    BY <1>3 DEF Crash, InFlight, Idle
  <2> QED BY <2>1 DEF SaveInvariant, LostOnlyIfBehind
<1>4. CASE Restart
  <2>1. InFlight = {} /\ InFlight' = {}
    BY <1>4 DEF Restart, SaveInvariant, ClonesInOrder, InFlight
  <2>2. up' = "running" => mem' = file'.versions
    BY <1>4 DEF Restart
  <2> QED BY <2>1, <2>2 DEF SaveInvariant, LostOnlyIfBehind
<1>5. CASE Rest \/ UNCHANGED vars
  BY <1>5 DEF Rest, vars, SaveInvariant, LostOnlyIfBehind, ClonesInOrder, InFlight
<1> QED BY <1>1, <1>2, <1>3, <1>4, <1>5 DEF Next

(***************************************************************************)
(* save_config_to_disk loses a change only to an older snapshot that       *)
(* overtakes it, or to a failed or dropped save.                           *)
(***************************************************************************)
THEOREM LossesAreKnown == Spec => []LostOnlyIfBehind
  BY InitType, NextType, InitSave, NextSave, PTL DEF Spec, SaveInvariant

(***************************************************************************)
(* A call is answered "ok" only when its own change is in the file.        *)
(***************************************************************************)
THEOREM AnsweredAfterWrite == Spec => AnsweredMeansWritten
<1> DEFINE A == \A f \in Fields :
                  acked'[f] > acked[f] => Loadable' /\ file'.versions[f] >= acked'[f]
<1>1. ASSUME TypeInvariant, SaveInvariant, NEW c \in Callers, Write(c) PROVE A
  <2>1. /\ call[c].pc = "writing" /\ call[c].field \in Fields /\ call[c].version \in Nat
        /\ acked \in [Fields -> Nat]
    BY <1>1 DEF Write, TypeInvariant, TypeOK, CallType, Versions
  <2>2. call[c].version <= call[c].snap[call[c].field]
    BY <1>1, <2>1, ClonedAll
  <2>3. file'.versions = call[c].snap /\ file'.size = FileSize /\ file'.midline = FALSE
    BY <1>1 DEF Write, Whole
  <2>4. Place("langfuse") \in 1..FileSize /\ Place("server") \in 1..FileSize
    <3>1. FileOrder[2] = "langfuse" /\ FileOrder[4] = "server"
      BY DEF FileOrder
    <3> QED BY <3>1 DEF Place, FileSize
  <2>5. Loadable'
    BY <2>3, <2>4 DEF Loadable, FileSize
  <2>6. ASSUME NEW f \in Fields, acked'[f] > acked[f]
        PROVE  f = call[c].field /\ acked'[f] = call[c].version
    BY <1>1, <2>1, <2>6 DEF Write
  <2>7. ASSUME NEW f \in Fields, acked'[f] > acked[f] PROVE file'.versions[f] >= acked'[f]
    <3>1. call[c].snap[f] \in Nat
      BY <1>1, NatFacts
    <3> QED BY <2>1, <2>2, <2>3, <2>6, <2>7, <3>1
  <2> QED BY <2>5, <2>7
<1>2. ASSUME TypeInvariant, Restart PROVE A
  <2>1. file' = file /\ \A f \in Fields : file.versions[f] \in Nat /\ acked[f] \in Nat
    BY <1>2, NatFacts DEF Restart, TypeInvariant, TypeOK, Versions
  <2>2. Loadable' = Loadable
    BY <2>1 DEF Loadable
  <2>3. CASE Loadable
    BY <1>2, <2>1, <2>2, <2>3 DEF Restart
  <2>4. CASE ~Loadable
    BY <1>2, <2>1, <2>4 DEF Restart
  <2> QED BY <2>3, <2>4
<1>3. ASSUME TypeInvariant, acked' = acked PROVE A
  <2>1. \A f \in Fields : acked[f] \in Nat
    BY <1>3 DEF TypeInvariant, TypeOK, Versions
  <2> QED BY <1>3, <2>1
<1>4. ASSUME TypeInvariant, SaveInvariant, [Next]_vars PROVE A
  <2>1. ASSUME NEW c \in Callers, Handler(c) PROVE acked' = acked
    BY <2>1, HandlerIsChange DEF Change
  <2>2. ASSUME NEW c \in Callers, Save(c), ~Write(c) PROVE acked' = acked
    BY <2>2 DEF Save, ReadField, Lock, Truncate, Dropped, OpenFails, GiveUp, WriteFails
  <2>3. CASE Crash \/ Rest \/ UNCHANGED vars
    BY <1>3, <1>4, <2>3 DEF Crash, Rest, vars
  <2> HIDE DEF A
  <2> QED BY <1>1, <1>2, <1>3, <1>4, <2>1, <2>2, <2>3 DEF Next
<1>5. TypeInvariant /\ SaveInvariant /\ [Next]_vars => [A]_vars
  BY <1>4
<1> QED BY <1>5, InitType, NextType, InitSave, NextSave, PTL DEF Spec, AnsweredMeansWritten

-----------------------------------------------------------------------------
(***************************************************************************)
(* What SavesAreCurrent rests on: memory does not go back while a call is  *)
(* on its way, so neither does any of the clones it has made since.        *)
(***************************************************************************)
Caught(c) ==
  /\ \A f \in Fields : call[c].since[f] <= mem[f]
  /\ \A k \in 1..call[c].read : call[c].since[ReadOrder[k]] <= call[c].snap[ReadOrder[k]]

AllCaught == \A c \in InFlight : Caught(c)

LEMMA SinceFacts ==
  ASSUME TypeInvariant
  PROVE  \A c \in Callers : /\ call[c].read \in 0..6
                             /\ \A f \in Fields : call[c].since[f] \in Nat
  BY Orders DEF TypeInvariant, TypeOK, CallType, Versions

LEMMA ChangeCaught ==
  ASSUME TypeInvariant, AllCaught, NEW c \in Callers, NEW f \in Fields, Change(c, f)
  PROVE  AllCaught'
<1> DEFINE new == [Idle EXCEPT !.pc = "reading", !.field = f, !.version = mem[f] + 1,
                               !.since = mem']
<1>1. new.read = 0 /\ new.since = mem'
  BY DEF Idle
<1>2. \A d \in Callers : call'[d] = IF d = c THEN new ELSE call[d]
  BY DEF Change, TypeInvariant, TypeOK
<1> HIDE DEF new
<1>3. \A g \in Fields : mem[g] \in Nat /\ mem'[g] \in Nat /\ mem[g] <= mem'[g]
  BY NatFacts DEF Change, TypeInvariant, TypeOK, Versions
<1>4. ASSUME NEW d \in InFlight' PROVE Caught(d)'
  <2>1. CASE d = c
    <3>1. call'[d].read = 0 /\ call'[d].since = mem'
      BY <1>1, <1>2, <2>1
    <3> QED BY <1>3, <3>1 DEF Caught
  <2>2. CASE d # c
    <3>1. Caught(d) /\ call'[d] = call[d] /\ d \in Callers
      BY <1>2, <2>2 DEF InFlight, AllCaught
    <3>2. \A g \in Fields : call[d].since[g] <= mem'[g]
      BY <1>3, <3>1, SinceFacts DEF Caught
    <3> QED BY <3>1, <3>2 DEF Caught
  <2> QED BY <2>1, <2>2
<1> QED BY <1>4 DEF AllCaught

\* One more field is cloned: as it is in memory, which has what it had after the change.
LEMMA ReadFieldCaught ==
  ASSUME TypeInvariant, AllCaught, NEW c \in Callers, ReadField(c)
  PROVE  AllCaught'
<1> DEFINE n == call[c].read + 1
           f == ReadOrder[n]
<1>1. /\ f \in Fields /\ n \in 1..6 /\ call[c].read \in 0..5 /\ call[c].snap \in [Fields -> Nat]
  BY Orders DEF ReadField, TypeInvariant, TypeOK, CallType, Versions
<1>2. \A d \in Callers : d # c => call'[d] = call[d]
  BY DEF ReadField, TypeInvariant, TypeOK
<1>3. /\ call'[c].pc = "reading" /\ call'[c].since = call[c].since /\ call'[c].read = n
      /\ call'[c].snap = [call[c].snap EXCEPT ![f] = mem[f]]
  BY DEF ReadField, TypeInvariant, TypeOK, CallType
<1>4. mem' = mem /\ InFlight' = InFlight /\ c \in InFlight
  BY <1>2, <1>3 DEF InFlight, ReadField
<1>5. Caught(c)'
  <2>1. Caught(c)
    BY <1>4 DEF AllCaught
  <2> HIDE DEF f, n
  <2>2. ASSUME NEW k \in 1..n PROVE call'[c].since[ReadOrder[k]] <= call'[c].snap[ReadOrder[k]]
    <3>1. ReadOrder[k] \in Fields
      BY <1>1, Orders
    <3>2. CASE ReadOrder[k] = f
      BY <1>1, <1>3, <2>1, <3>1, <3>2 DEF Caught
    <3>3. CASE ReadOrder[k] # f
      <4>1. k \in 1..call[c].read
        BY <1>1, <3>3 DEF f, n
      <4> QED BY <1>1, <1>3, <2>1, <3>1, <3>3, <4>1 DEF Caught
    <3> QED BY <3>2, <3>3
  <2> QED BY <1>3, <1>4, <2>1, <2>2 DEF Caught
<1>6. ASSUME NEW d \in InFlight', d # c PROVE Caught(d)'
  <2>1. d \in InFlight /\ call'[d] = call[d]
    BY <1>2, <1>4, <1>6 DEF InFlight
  <2> QED BY <1>4, <2>1 DEF AllCaught, Caught
<1> QED BY <1>5, <1>6 DEF AllCaught

\* A call that moves on with its clones, or ends.
LEMMA OthersCaught ==
  ASSUME TypeInvariant, AllCaught, NEW c \in Callers, mem' = mem,
         \/ call' = [call EXCEPT ![c] = Idle]
         \/ /\ c \in InFlight
            /\ \E p \in {"locked", "writing"} : call' = [call EXCEPT ![c].pc = p]
  PROVE  AllCaught'
<1>1. ASSUME NEW d \in InFlight'
      PROVE  /\ d \in InFlight /\ call'[d].since = call[d].since
             /\ call'[d].snap = call[d].snap /\ call'[d].read = call[d].read
  <2>1. d \in Callers /\ call'[d].pc # "idle"
    BY DEF InFlight
  <2>2. CASE call' = [call EXCEPT ![c] = Idle]
    <3>1. d # c
      BY <2>1, <2>2 DEF Idle, TypeInvariant, TypeOK
    <3> QED BY <2>1, <2>2, <3>1 DEF InFlight, TypeInvariant, TypeOK
  <2>3. CASE /\ c \in InFlight
             /\ \E p \in {"locked", "writing"} : call' = [call EXCEPT ![c].pc = p]
    <3>1. PICK p \in {"locked", "writing"} : call' = [call EXCEPT ![c].pc = p]
      BY <2>3
    <3>2. call'[d] = IF d = c THEN [call[c] EXCEPT !.pc = p] ELSE call[d]
      BY <2>1, <3>1 DEF TypeInvariant, TypeOK
    <3>3. call[c] \in CallType
      BY DEF TypeInvariant, TypeOK
    <3> QED BY <2>1, <2>3, <3>2, <3>3 DEF InFlight, CallType
  <2> QED BY <2>2, <2>3
<1> QED BY <1>1 DEF AllCaught, Caught

LEMMA NextCaught ==
  ASSUME TypeInvariant, SaveInvariant, AllCaught, [Next]_vars
  PROVE  AllCaught'
<1>1. ASSUME NEW c \in Callers, Handler(c) PROVE AllCaught'
  BY <1>1, HandlerIsChange, ChangeCaught
<1>2. ASSUME NEW c \in Callers, Save(c) PROVE AllCaught'
  <2>1. CASE ReadField(c)
    BY <2>1, ReadFieldCaught
  <2>2. CASE Lock(c) \/ Truncate(c)
    BY <2>2, OthersCaught DEF Lock, Truncate, InFlight
  <2>3. CASE Write(c) \/ Dropped(c) \/ OpenFails(c) \/ WriteFails(c)
    BY <2>3, OthersCaught DEF Write, Dropped, OpenFails, GiveUp, WriteFails
  <2> QED BY <1>2, <2>1, <2>2, <2>3 DEF Save
<1>3. CASE Crash
  <2>1. InFlight' = {}
    BY <1>3 DEF Crash, InFlight, Idle
  <2> QED BY <2>1 DEF AllCaught
<1>4. CASE Restart
  <2>1. InFlight' = {}
    BY <1>4 DEF Restart, SaveInvariant, ClonesInOrder, InFlight
  <2> QED BY <2>1 DEF AllCaught
<1>5. CASE Rest \/ UNCHANGED vars
  BY <1>5 DEF Rest, vars, AllCaught, Caught, InFlight
<1> QED BY <1>1, <1>2, <1>3, <1>4, <1>5 DEF Next

(***************************************************************************)
(* A save writes no field older than memory had it when the save started,  *)
(* however many calls overlap: so it also writes the changes of the saves  *)
(* before it that failed, were dropped, or were overtaken.                 *)
(***************************************************************************)
THEOREM LaterSavesHeal == Spec => SavesAreCurrent
<1> DEFINE A == \A c \in Callers : Write(c) =>
                  \A f \in Fields : file'.versions[f] >= call[c].since[f]
<1>1. ASSUME TypeInvariant, SaveInvariant, AllCaught, NEW c \in Callers, Write(c), NEW f \in Fields
      PROVE  file'.versions[f] >= call[c].since[f]
  <2>1. c \in InFlight /\ call[c].pc = "writing" /\ file'.versions = call[c].snap
    BY <1>1 DEF Write, Whole, InFlight
  <2>2. call[c].read = 6 /\ Caught(c)
    BY <1>1, <2>1, Orders DEF SaveInvariant, ClonesInOrder, AllCaught
  <2>3. PICK k \in 1..6 : ReadOrder[k] = f
    BY Orders
  <2>4. call[c].since[f] <= call[c].snap[f]
    BY <2>2, <2>3 DEF Caught
  <2>5. call[c].since[f] \in Nat /\ call[c].snap[f] \in Nat
    BY <1>1, SinceFacts, NatFacts
  <2> QED BY <2>1, <2>4, <2>5
<1>2. TypeInvariant /\ SaveInvariant /\ AllCaught /\ [Next]_vars => [A]_vars
  BY <1>1
<1>3. Init => AllCaught
  BY DEF Init, AllCaught, InFlight, Idle
<1> QED BY <1>2, <1>3, InitType, NextType, InitSave, NextSave, NextCaught, PTL
       DEF Spec, SavesAreCurrent
=============================================================================
