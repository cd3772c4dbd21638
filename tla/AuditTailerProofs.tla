------------------------- MODULE AuditTailerProofs --------------------------
(***************************************************************************)
(* Theorems about AuditTailer, for any set of sessions and any bounds.     *)
(***************************************************************************)
EXTENDS AuditTailer, SequenceTheorems, TLAPS

-----------------------------------------------------------------------------
(* Type correctness. *)

\* What the writers of the log append is a line, and the log only grows.
LEMMA TrailStep ==
    ASSUME TypeOK, TrailNext
    PROVE  TrailTypeOK' /\ Len(history') >= Len(history)
<1> USE DEF TypeOK, TrailTypeOK
<1>1. ASSUME NEW k \in Kind, NEW s \in Session, Record(k, s),
             phase' \in [Session -> Phase]
      PROVE  TrailTypeOK' /\ Len(history') >= Len(history)
  <2>1. [kind |-> k, sid |-> s] \in Line
    BY DEF Line
  <2>2. history' \in Seq(Line) /\ Len(history') = Len(history) + 1
    BY <1>1, <2>1 DEF Record
  <2> QED  BY <1>1, <2>2 DEF Record
<1>2. ASSUME NEW s \in Session, LureOpened(s)
      PROVE  TrailTypeOK' /\ Len(history') >= Len(history)
  <2>1. phase' \in [Session -> Phase]
    BY <1>2 DEF LureOpened, Phase
  <2>2. CASE Record("opened", s)
    BY <1>1, <2>1, <2>2 DEF Kind
  <2>3. CASE UNCHANGED <<history, base, rotations>>
    BY <2>1, <2>3
  <2> QED  BY <1>2, <2>2, <2>3 DEF LureOpened
<1>3. ASSUME NEW s \in Session, LureOpenedLate(s)
      PROVE  TrailTypeOK' /\ Len(history') >= Len(history)
  BY <1>1, <1>3 DEF LureOpenedLate, Kind
<1>4. ASSUME NEW s \in Session, LureCommand(s)
      PROVE  TrailTypeOK' /\ Len(history') >= Len(history)
  <2>1. phase' \in [Session -> Phase]
    BY <1>4 DEF LureCommand, Phase
  <2> QED  BY <1>1, <1>4, <2>1 DEF LureCommand, Kind
<1>5. ASSUME NEW s \in Session, LureClosed(s)
      PROVE  TrailTypeOK' /\ Len(history') >= Len(history)
  <2>1. phase' \in [Session -> Phase]
    BY <1>5 DEF LureClosed, Phase
  <2> QED  BY <1>1, <1>5, <2>1 DEF LureClosed, Kind
<1>6. ASSUME NEW s \in Session, BridgeIntent(s)
      PROVE  TrailTypeOK' /\ Len(history') >= Len(history)
  BY <1>1, <1>6 DEF BridgeIntent, Kind
<1>7. ASSUME Rotate
      PROVE  TrailTypeOK' /\ Len(history') >= Len(history)
  BY <1>7, BoundsAssumption DEF Rotate
<1> QED  BY <1>2, <1>3, <1>4, <1>5, <1>6, <1>7 DEF TrailNext

-----------------------------------------------------------------------------
\* A handler that returns leaves a batch position within the log.
LEMMA LineDoneTypeOK ==
    ASSUME TypeOK, pc \in InBatch, cursor <= last, LineDone,
           UNCHANGED <<trailVars, held, acc, pending>>, StoreTypeOK'
    PROVE  TypeOK'
<1> USE DEF TypeOK, failVars
<1>1. cursor \in 1..last /\ last \in 1..Len(history)
  BY DEF BatchOK, ProcTypeOK
<1>2. TrailTypeOK' /\ Len(history') = Len(history)
  BY DEF trailVars, TrailTypeOK
<1>3. ProcTypeOK' /\ BatchOK'
  BY <1>1, <1>2 DEF LineDone, ProcTypeOK, BatchOK, PC, InBatch, InHandler
<1> QED  BY <1>1, <1>2, <1>3 DEF LineDone

\* A failed batch leaves the tailer idle.
LEMMA FailBatchTypeOK ==
    ASSUME TypeOK, FailBatch, UNCHANGED <<trailVars, storeVars, held, acc>>,
           faults' \in 0..MaxFaults
    PROVE  TypeOK'
<1> USE DEF TypeOK, failVars
<1>1. TrailTypeOK' /\ StoreTypeOK' /\ Len(history') = Len(history)
  BY DEF trailVars, TrailTypeOK, storeVars, StoreTypeOK
<1>2. ProcTypeOK' /\ BatchOK'
  BY DEF FailBatch, ProcTypeOK, BatchOK, PC, InBatch, InHandler
<1> QED  BY <1>1, <1>2 DEF FailBatch

\* update_session is entered with sequences of turns.
LEMMA UpdateSessionTypeOK ==
    ASSUME TypeOK, pc = "dispatch", cursor <= last, NEW s \in Session,
           NEW snapshotTurns \in Seq(Nat), UpdateSession(s, snapshotTurns)
    PROVE  TypeOK'
<1> USE DEF TypeOK, failVars
<1>1. TrailTypeOK' /\ StoreTypeOK' /\ Len(history') = Len(history)
  BY DEF UpdateSession, trailVars, TrailTypeOK, storeVars, StoreTypeOK
<1>2. Len(turns[s]) + 1 \in Nat \ {0}
  BY DEF StoreTypeOK
<1>3. pending' \in Seq(Nat)
  BY <1>2 DEF UpdateSession
<1>4. ProcTypeOK' /\ BatchOK'
  BY <1>1, <1>3 DEF UpdateSession, ProcTypeOK, BatchOK, PC, InBatch, InHandler
<1> QED  BY <1>1, <1>4 DEF UpdateSession

\* In a batch there is a line to handle, and it is a line of a session.
LEMMA LineAtCursor ==
    ASSUME TypeOK, pc \in InBatch, cursor <= last
    PROVE  cursor \in 1..Len(history) /\ line \in Line /\ sid \in Session
<1>1. cursor \in 1..Len(history) /\ history \in Seq(Line)
  BY DEF TypeOK, TrailTypeOK, ProcTypeOK, BatchOK
<1>2. line \in Line
  BY <1>1 DEF line
<1> QED  BY <1>1, <1>2 DEF sid, Line

\* A batch of n lines after the first b + o lines, within a file of f lines.
LEMMA BatchWithinFile ==
    ASSUME NEW b \in Nat, NEW f \in Nat, NEW o \in Nat, f > o,
           NEW n \in 1..(f - o), NEW l, l = b + f
    PROVE  b + o + n \in 1..l /\ b + o + 1 \in 1..(b + o + n)
OBVIOUS

\* The steps of the tailer's process keep the types.
LEMMA ProcessStep ==
    ASSUME TypeOK, Start \/ Crash \/ Stop \/ Work \/ StoreFault
    PROVE  TypeOK'
<1> USE DEF TypeOK, failVars
<1>a. ASSUME UNCHANGED trailVars
      PROVE  TrailTypeOK' /\ Len(history') = Len(history)
  BY <1>a DEF trailVars, TrailTypeOK
<1>b. ASSUME UNCHANGED storeVars  PROVE StoreTypeOK'
  BY <1>b DEF storeVars, StoreTypeOK
<1>c. ASSUME Lose  PROVE ProcTypeOK' /\ BatchOK'
  BY <1>c DEF Lose, Nobody, ProcTypeOK, BatchOK, PC, InBatch, InHandler
<1>1. CASE Start
  <2>1. ProcTypeOK' /\ BatchOK'
    BY <1>1 DEF Start, ProcTypeOK, BatchOK, PC, InBatch, InHandler
  <2> QED  BY <1>1, <1>a, <1>b, <2>1 DEF Start
<1>2. CASE Crash
  <2>1. restarts' \in 0..MaxRestarts
    BY <1>2, TailerAssumption DEF Crash
  <2> QED  BY <1>2, <1>a, <1>b, <1>c, <2>1 DEF Crash
<1>3. CASE Stop
  <2>1. cache' \in Nat
    BY <1>3 DEF Stop, ProcTypeOK
  <2> QED  BY <1>3, <1>a, <1>b, <1>c, <2>1, TailerAssumption DEF Stop
<1>4. CASE Poll
  <2>1. FileSize \in Nat
    BY DEF FileSize, TrailTypeOK
  <2>2. offset' \in Nat /\ (FileSize # offset' => FileSize > offset')
    BY <1>4, <2>1 DEF Poll, ProcTypeOK
  <2>3. ProcTypeOK' /\ BatchOK'
    BY <1>4, <1>a, <2>1, <2>2 DEF Poll, ProcTypeOK, BatchOK, PC, InBatch, InHandler
  <2> QED  BY <1>4, <1>a, <1>b, <2>3 DEF Poll
<1>5. CASE Read
  <2>1. FileSize \in Nat /\ base \in Nat /\ base + FileSize = Len(history)
    BY DEF FileSize, TrailTypeOK
  <2>2. CASE FileSize <= offset
    <3>1. ProcTypeOK' /\ BatchOK'
      BY <1>5, <2>2 DEF Read, ProcTypeOK, BatchOK, PC, InBatch, InHandler
    <3> QED  BY <1>5, <1>a, <1>b, <3>1 DEF Read
  <2>3. CASE FileSize > offset
    <3>1. offset \in Nat /\ span \in Nat \ {0}
      BY <1>5 DEF Read, ProcTypeOK, BatchOK
    <3>2. span' \in 1..(FileSize - offset) /\ pc' = "dispatch"
          /\ cursor' = base + offset + 1 /\ last' = base + offset + span'
      BY <1>5, <2>1, <2>3, <3>1 DEF Read
    <3>3. last' \in 1..Len(history) /\ cursor' \in 1..last'
      BY <2>1, <2>3, <3>1, <3>2, BatchWithinFile
    <3>4. ProcTypeOK' /\ BatchOK'
      BY <1>5, <1>a, <3>2, <3>3 DEF Read, ProcTypeOK, BatchOK, PC, InBatch, InHandler
    <3> QED  BY <1>5, <1>a, <1>b, <3>4 DEF Read
  <2> QED  BY <2>1, <2>2, <2>3 DEF ProcTypeOK
<1>6. CASE Commit
  <2>1. ProcTypeOK' /\ BatchOK'
    BY <1>6 DEF Commit, ProcTypeOK, BatchOK, PC, InBatch, InHandler
  <2> QED  BY <1>6, <1>a, <1>b, <2>1 DEF Commit
<1>7. CASE Save
  <2>1. ProcTypeOK' /\ BatchOK' /\ cache' \in Nat
    BY <1>7 DEF Save, ProcTypeOK, BatchOK, PC, InBatch, InHandler
  <2> QED  BY <1>7, <1>a, <1>b, <2>1 DEF Save
<1>8. CASE HandleOpened
  <2>1. pc = "dispatch" /\ cursor <= last /\ sid \in Session
    BY <1>8, LineAtCursor DEF HandleOpened, At, InBatch
  <2>2. (IF sid \in held THEN acc[sid] ELSE <<>>) \in Seq(Nat)
    BY <2>1 DEF ProcTypeOK
  <2> QED  BY <1>8, <2>1, <2>2, UpdateSessionTypeOK DEF HandleOpened
<1>9. CASE HandleCommand
  <2>1. pc = "dispatch" /\ cursor <= last /\ sid \in Session /\ cursor \in Nat
    BY <1>9, LineAtCursor DEF HandleCommand, At, InBatch
  <2>2. Known(sid) \in Seq(Nat)
    BY <2>1 DEF Known, ProcTypeOK, StoreTypeOK
  <2>3. Append(Known(sid), cursor) \in Seq(Nat)
    BY <2>1, <2>2
  <2> QED  BY <1>9, <2>1, <2>3, UpdateSessionTypeOK DEF HandleCommand
<1>10. CASE SkipReplay
  <2>1. pc \in InBatch /\ cursor <= last
    BY <1>10 DEF SkipReplay, At, InBatch
  <2> QED  BY <1>10, <1>b, <2>1, LineDoneTypeOK DEF SkipReplay
<1>11. CASE Upsert
  <2>1. pc \in InBatch /\ cursor <= last /\ sid \in Session
    BY <1>11, LineAtCursor DEF Upsert, InBatch, InHandler, BatchOK
  <2>2. StoreTypeOK'
    BY <1>11, <2>1 DEF Upsert, UpsertSession, StoreTypeOK, ProcTypeOK
  <2>3. ProcTypeOK' /\ BatchOK'
    BY <1>11, <1>a, <2>1 DEF Upsert, ProcTypeOK, BatchOK, PC, InBatch, InHandler
  <2> QED  BY <1>11, <1>a, <2>2, <2>3 DEF Upsert
<1>12. CASE RecordTurn
  <2>1. sid \in Session
    BY <1>12, LineAtCursor DEF RecordTurn, InBatch, InHandler, BatchOK
  <2>2. Head(pending) \in Nat
    BY <1>12 DEF RecordTurn, ProcTypeOK
  <2>3. StoreTypeOK'
    BY <1>12, <2>1, <2>2 DEF RecordTurn, InsertTurn, StoreTypeOK
  <2>4. ProcTypeOK' /\ BatchOK'
    BY <1>12, <1>a DEF RecordTurn, ProcTypeOK, BatchOK, PC, InBatch, InHandler
  <2> QED  BY <1>12, <1>a, <2>3, <2>4 DEF RecordTurn
<1>13. CASE CountTurn
  <2>1. sid \in Session
    BY <1>13, LineAtCursor DEF CountTurn, InBatch, InHandler, BatchOK
  <2>2. StoreTypeOK'
    BY <1>13, <2>1 DEF CountTurn, BumpCount, StoreTypeOK
  <2>3. pending' \in Seq(Nat)
    BY <1>13 DEF CountTurn, ProcTypeOK, BatchOK
  <2>4. ProcTypeOK' /\ BatchOK'
    BY <1>13, <1>a, <2>3 DEF CountTurn, ProcTypeOK, BatchOK, PC, InBatch, InHandler
  <2> QED  BY <1>13, <1>a, <2>2, <2>4 DEF CountTurn
<1>14. CASE Updated
  <2>1. pc \in InBatch /\ cursor <= last
    BY <1>14 DEF Updated, InBatch, InHandler, BatchOK
  <2> QED  BY <1>14, <1>b, <2>1, LineDoneTypeOK DEF Updated
<1>15. CASE HandleClosed
  <2>1. pc = "dispatch" /\ cursor <= last /\ sid \in Session
    BY <1>15, LineAtCursor DEF HandleClosed, At, InBatch
  <2>2. acc' \in [Session -> Seq(Nat)] /\ held' \subseteq Session
    BY <1>15, <2>1 DEF HandleClosed, ProcTypeOK
  <2>3. ProcTypeOK' /\ BatchOK'
    BY <1>15, <1>a, <2>1, <2>2 DEF HandleClosed, ProcTypeOK, BatchOK, PC, InBatch, InHandler
  <2> QED  BY <1>15, <1>a, <1>b, <2>3 DEF HandleClosed
<1>16. CASE End
  <2>1. pc \in InBatch /\ cursor <= last
    BY <1>16 DEF End, InBatch, InHandler, BatchOK
  <2>2. StoreTypeOK'
    BY <1>16 DEF End, EndSession, StoreTypeOK
  <2> QED  BY <1>16, <2>1, <2>2, LineDoneTypeOK DEF End
<1>17. CASE HandleIntent
  <2>1. pc \in InBatch /\ cursor <= last
    BY <1>17 DEF HandleIntent, At, InBatch
  <2>2. StoreTypeOK'
    BY <1>17 DEF HandleIntent, UpsertIntent, StoreTypeOK
  <2> QED  BY <1>17, <2>1, <2>2, LineDoneTypeOK DEF HandleIntent
<1>18. CASE IntentRefused
  BY <1>18, FailBatchTypeOK DEF IntentRefused
<1>19. CASE StoreFault
  <2>1. faults' \in 0..MaxFaults
    BY <1>19, TailerAssumption DEF StoreFault
  <2> QED  BY <1>19, <2>1, FailBatchTypeOK DEF StoreFault
<1> QED
  BY <1>1, <1>2, <1>3, <1>4, <1>5, <1>6, <1>7, <1>8, <1>9, <1>10, <1>11, <1>12,
     <1>13, <1>14, <1>15, <1>16, <1>17, <1>18, <1>19 DEF Work

LEMMA TypeOK_Next ==
    ASSUME TypeOK, [Next]_vars
    PROVE  TypeOK'
<1>1. CASE Trail
  <2>1. TrailTypeOK' /\ Len(history') >= Len(history)
        /\ UNCHANGED <<storeVars, tailerVars>>
    BY <1>1, TrailStep DEF Trail
  <2>2. Len(history) \in Nat /\ Len(history') \in Nat
    BY <2>1 DEF TypeOK, TrailTypeOK
  <2>3. StoreTypeOK' /\ ProcTypeOK'
    BY <2>1 DEF TypeOK, StoreTypeOK, ProcTypeOK, storeVars, tailerVars, procVars
  <2>4. BatchOK'
    BY <2>1, <2>2 DEF TypeOK, BatchOK, ProcTypeOK, tailerVars, procVars
  <2> QED  BY <2>1, <2>2, <2>3, <2>4 DEF TypeOK, tailerVars, failVars
<1>2. CASE Start \/ Crash \/ Stop \/ Work \/ StoreFault
  BY <1>2, ProcessStep
<1>3. CASE UNCHANGED vars
  BY <1>3 DEF TypeOK, TrailTypeOK, StoreTypeOK, ProcTypeOK, BatchOK, vars,
     trailVars, storeVars, tailerVars, procVars, failVars
<1> QED  BY <1>1, <1>2, <1>3 DEF Next

LEMMA InitTypeOK == Init => TypeOK
<1> SUFFICES ASSUME Init PROVE TypeOK
  OBVIOUS
<1>1. TrailTypeOK /\ StoreTypeOK /\ Len(history) = 0
  BY BoundsAssumption
  DEF Init, TrailInit, StoreInit, TrailTypeOK, StoreTypeOK, Line, Phase
<1>2. ProcTypeOK /\ BatchOK
  BY DEF Init, Nobody, ProcTypeOK, BatchOK, PC, InBatch, InHandler
<1>3. cache \in Nat /\ high \in 0..Len(history)
      /\ restarts \in 0..MaxRestarts /\ faults \in 0..MaxFaults
  BY <1>1, TailerAssumption DEF Init
<1>4. retried \in BOOLEAN
  BY Zenon DEF Init
<1> QED  BY <1>1, <1>2, <1>3, <1>4 DEF TypeOK

\* Every variable keeps its type, a batch stays within the log and a handler at
\* a line of its batch (audit_tailer.py, _poll_once and _dispatch_event).
THEOREM TypeCorrect == Spec => []TypeOK
BY InitTypeOK, TypeOK_Next, PTL DEF Spec

-----------------------------------------------------------------------------
(* The offset is never ahead of what was dispatched. *)

\* Until the first rotation a byte offset is a position in the log; everything
\* before the cursor was dispatched, and a batch ends where its span does.
NotAheadInv ==
    /\ TypeOK
    /\ rotations = 0 =>
        /\ base = 0
        /\ offset <= high
        /\ cache <= high
        /\ pc \in InBatch => cursor <= high + 1 /\ offset + span = last

LEMMA Successors == \A m, n \in Nat : m <= n => m + 1 <= n + 1
OBVIOUS

\* One batch position further, everything before it was dispatched.
LEMMA LineDoneNotAhead ==
    ASSUME NotAheadInv, TypeOK', pc \in InBatch, LineDone, UNCHANGED trailVars
    PROVE  NotAheadInv'
<1>1. offset \in Nat /\ cache \in Nat /\ high \in Nat /\ cursor \in Nat
      /\ span \in Nat /\ last \in Nat
  BY DEF NotAheadInv, TypeOK, TrailTypeOK, ProcTypeOK
<1>2. high' \in Nat /\ high <= high' /\ cursor <= high'
  BY <1>1 DEF LineDone
<1>3. rotations' = rotations /\ base' = base /\ offset' = offset
      /\ cache' = cache /\ span' = span /\ last' = last /\ cursor' = cursor + 1
  BY DEF LineDone, trailVars
<1>4. ASSUME rotations = 0
      PROVE  /\ base' = 0 /\ offset' <= high' /\ cache' <= high'
             /\ cursor' <= high' + 1 /\ offset' + span' = last'
  <2>1. base = 0 /\ offset <= high /\ cache <= high /\ offset + span = last
    BY <1>4 DEF NotAheadInv
  <2>2. offset <= high'
    BY <1>1, <1>2, <2>1
  <2>3. cache <= high'
    BY <1>1, <1>2, <2>1
  <2>4. cursor + 1 <= high' + 1
    BY <1>1, <1>2, Successors
  <2> QED  BY <1>3, <2>1, <2>2, <2>3, <2>4
<1>5. rotations' = rotations
  BY <1>3
<1> QED  BY <1>4, <1>5 DEF NotAheadInv

\* Between two lines and in an idle tailer the conjuncts survive any step that
\* moves neither the offset nor what was dispatched.
LEMMA StandStillNotAhead ==
    ASSUME NotAheadInv, TypeOK', UNCHANGED <<trailVars, offset, cache, high>>,
           \/ UNCHANGED <<span, last, cursor>> /\ (pc' \in InBatch => pc \in InBatch)
           \/ pc' \notin InBatch
    PROVE  NotAheadInv'
BY DEF NotAheadInv, trailVars

LEMMA NotAhead_Next ==
    ASSUME NotAheadInv, [Next]_vars
    PROVE  NotAheadInv'
<1>1. TypeOK /\ TypeOK'
  BY TypeOK_Next DEF NotAheadInv
<1>2. offset \in Nat /\ cache \in Nat /\ high \in Nat /\ cursor \in Nat
      /\ span \in Nat /\ last \in Nat /\ rotations \in Nat /\ rotations' \in Nat
  BY <1>1 DEF TypeOK, TrailTypeOK, ProcTypeOK
<1>3. CASE Trail
  <2>1. UNCHANGED <<offset, cache, high, span, last, cursor, pc>>
    BY <1>3 DEF Trail, tailerVars, procVars
  <2>2. rotations' = 0 => rotations = 0 /\ base' = base
    <3>1. CASE Rotate
      BY <1>2, <3>1 DEF Rotate
    <3>2. CASE \E s \in Session : \/ LureOpened(s) \/ LureOpenedLate(s)
                                  \/ LureCommand(s) \/ LureClosed(s) \/ BridgeIntent(s)
      BY <3>2 DEF LureOpened, LureOpenedLate, LureCommand, LureClosed,
         BridgeIntent, Record
    <3> QED  BY <1>3, <3>1, <3>2 DEF Trail, TrailNext
  <2> QED  BY <1>1, <2>1, <2>2 DEF NotAheadInv
<1>4. CASE Start
  BY <1>1, <1>2, <1>4 DEF Start, NotAheadInv, trailVars, InBatch, InHandler
<1>5. CASE Crash \/ Stop
  BY <1>1, <1>2, <1>5 DEF Crash, Stop, Lose, NotAheadInv, trailVars, InBatch, InHandler
<1>6. CASE Poll
  BY <1>1, <1>2, <1>6 DEF Poll, NotAheadInv, trailVars, InBatch, InHandler
<1>7. CASE Read
  <2>1. UNCHANGED <<trailVars, offset, cache, high>>
    BY <1>7 DEF Read
  <2>2. CASE pc' \notin InBatch
    BY <1>1, <2>1, <2>2, StandStillNotAhead
  <2>3. CASE pc' \in InBatch
    <3>1. cursor' = base + offset + 1 /\ last' = base + offset + span'
      BY <1>7, <2>3 DEF Read, InBatch, InHandler
    <3>2. span' \in Nat
      BY <1>1 DEF TypeOK, ProcTypeOK
    <3> QED  BY <1>1, <1>2, <2>1, <3>1, <3>2 DEF NotAheadInv, trailVars
  <2> QED  BY <2>2, <2>3
<1>8. CASE Commit
  <2>1. pc \in InBatch /\ cursor > last /\ offset' = offset + span
        /\ pc' \notin InBatch /\ UNCHANGED <<trailVars, cache, high>>
    BY <1>8 DEF Commit, InBatch, InHandler
  <2> QED  BY <1>1, <1>2, <2>1 DEF NotAheadInv, trailVars
<1>9. CASE Save
  BY <1>1, <1>9 DEF Save, NotAheadInv, trailVars, InBatch, InHandler
<1>10. CASE HandleOpened \/ HandleCommand \/ Upsert \/ RecordTurn \/ CountTurn
            \/ HandleClosed
  <2>1. UNCHANGED <<trailVars, offset, cache, high, span, last, cursor>>
        /\ pc \in InBatch
    BY <1>10 DEF HandleOpened, HandleCommand, UpdateSession, At, Upsert,
       RecordTurn, CountTurn, HandleClosed, InBatch, InHandler
  <2> QED  BY <1>1, <2>1, StandStillNotAhead
<1>11. CASE SkipReplay \/ Updated \/ End \/ HandleIntent
  <2>1. pc \in InBatch /\ LineDone /\ UNCHANGED trailVars
    BY <1>11 DEF SkipReplay, Updated, End, HandleIntent, At, InBatch, InHandler
  <2> QED  BY <1>1, <2>1, LineDoneNotAhead
<1>12. CASE IntentRefused \/ StoreFault
  <2>1. UNCHANGED <<trailVars, offset, cache, high>> /\ pc' \notin InBatch
    BY <1>12 DEF IntentRefused, StoreFault, FailBatch, InBatch, InHandler
  <2> QED  BY <1>1, <2>1, StandStillNotAhead
<1>13. CASE UNCHANGED vars
  BY <1>1, <1>13 DEF NotAheadInv, vars, trailVars, tailerVars, procVars
<1> QED
  BY <1>3, <1>4, <1>5, <1>6, <1>7, <1>8, <1>9, <1>10, <1>11, <1>12, <1>13
  DEF Next, Work

\* Neither the offset nor its saved copy passes a line that was not dispatched,
\* whatever crashes, stops or fails, until the file is first rotated
\* (audit_tailer.py, _poll_once: the offset advances after the whole batch).
THEOREM OffsetBehind == Spec => []OffsetNotAhead
<1>1. Init => NotAheadInv
  <2>1. Init => TypeOK
    BY InitTypeOK
  <2> QED  BY <2>1 DEF Init, TrailInit, NotAheadInv, InBatch, InHandler
<1>2. NotAheadInv /\ [Next]_vars => NotAheadInv'
  BY NotAhead_Next
<1>3. NotAheadInv => OffsetNotAhead
  BY DEF NotAheadInv, OffsetNotAhead
<1> QED  BY <1>1, <1>2, <1>3, PTL DEF Spec

-----------------------------------------------------------------------------
(* Turns, rows and accumulators while nothing is rotated and no statement  *)
(* fails: however often the process crashes, stops and repeats its lines.  *)

\* No rotation, no failing statement, and the opened line comes first.
Calm == MaxRotations = 0 /\ MaxFaults = 0 /\ OpenLine = "first"

\* A session begins with its only opened line.
FirstInv ==
    /\ \A s \in Session : phase[s] = "new" => \A n \in DOMAIN history : history[n].sid # s
    /\ \A s \in Session : phase[s] # "new" => HasLine("opened", s)
    /\ \A n \in DOMAIN history : \E m \in 1..n : history[m] = [kind |-> "opened", sid |-> history[n].sid]
    /\ \A m, n \in DOMAIN history :
           history[m].kind = "opened" /\ history[n].kind = "opened" /\ history[m].sid = history[n].sid => m = n

\* What the process has been through: in a handler of a turn the line at the cursor too.
Handling == pc \in {"upsert", "turn", "count"}
Reach == IF Handling THEN cursor ELSE IF pc \in InBatch THEN cursor - 1 ELSE offset

\* The turn at the cursor is to be inserted.
Fresh == pc \in {"upsert", "turn"} /\ pending # <<>>

\* A batch goes to the end of the file, past whatever earlier processes dispatched.
PassInv ==
    /\ pc = "read" => offset + span >= high /\ offset + span <= Len(history)
    /\ pc \in InBatch => last >= high
    /\ pc = "save" => offset >= high
    /\ pc \in {"idle", "read"} => offset >= high \/ held = {}
    /\ pc = "down" => held = {}

\* The turns of a session are its commands in their order, those dispatched and
\* perhaps the next.
TurnsInv(s) ==
    /\ \A i \in DOMAIN turns[s] : turns[s][i] \in Commands(s) /\ turns[s][i] <= high + 1
    /\ \A i, j \in DOMAIN turns[s] : i < j => turns[s][i] < turns[s][j]
    /\ \A n \in Commands(s) : n <= high => Stored(s, n)
    /\ turns[s] # <<>> => s \in rows

\* An accumulator has the commands the process has been through, and they are the
\* first of the turns; it outlives the closed line only for a later command.
AccInv(s) ==
    s \in held =>
        /\ \A n \in Commands(s) : n <= Reach => \E i \in DOMAIN acc[s] : acc[s][i] = n
        /\ \A i \in DOMAIN acc[s] : acc[s][i] \in Commands(s) /\ acc[s][i] <= Reach
        /\ \A i \in DOMAIN acc[s] :
              \/ i \in DOMAIN turns[s] /\ acc[s][i] = turns[s][i]
              \/ Fresh /\ s = sid /\ i = Len(acc[s])
        /\ \A m \in 1..Reach : history[m] = [kind |-> "closed", sid |-> s] =>
              \E n \in Commands(s) : n <= Reach /\ m <= n

\* update_session has at most the line's own turn to record, and only when it is not stored.
HandlerInv ==
    /\ Handling => sid \in held /\ line.kind \in {"opened", "command"}
    /\ Handling /\ line.kind = "command" /\ pending = <<>> => Stored(sid, cursor)
    /\ Fresh => /\ pending = <<cursor>> /\ line.kind = "command" /\ ~Stored(sid, cursor) /\ cursor > high
                /\ Len(acc[sid]) = Len(turns[sid]) + 1 /\ acc[sid][Len(acc[sid])] = cursor
    /\ pc = "count" => pending = <<cursor>> /\ line.kind = "command" /\ Stored(sid, cursor)
    /\ pc \in {"turn", "count"} => sid \in rows
    /\ pc = "end" => line.kind = "closed" /\ sid \notin held

RowsInv ==
    /\ \A n \in 1..high : history[n].sid \in rows
    /\ \A n \in 1..high : history[n].kind = "closed" => history[n].sid \in ended
    /\ \A s \in ended : \E n \in 1..high : history[n] = [kind |-> "closed", sid |-> s]

\* The turn that record_turn has inserted and not counted yet.
Uncounted(s) == IF pc = "count" /\ s = sid THEN 1 ELSE 0

CountInv(s) ==
    /\ count[s] + Uncounted(s) <= Len(turns[s])
    /\ Len(turns[s]) <= count[s] + Uncounted(s) + restarts
    /\ s \notin rows => count[s] = 0

CalmInv ==
    /\ NotAheadInv /\ FirstInv /\ PassInv /\ HandlerInv /\ RowsInv
    /\ \A s \in Session : TurnsInv(s) /\ AccInv(s) /\ CountInv(s)

\* Where the process is in the log, which is one file.
LEMMA CalmFacts ==
    ASSUME Calm, CalmInv
    PROVE  /\ rotations = 0 /\ base = 0 /\ FileSize = Len(history)
           /\ offset \in Nat /\ cache \in Nat /\ high \in Nat /\ cursor \in Nat /\ span \in Nat
           /\ last \in Nat /\ restarts \in Nat /\ Len(history) \in Nat
           /\ offset <= high /\ cache <= high /\ high <= Len(history)
           /\ pc \in InBatch => /\ cursor <= high + 1 /\ offset + span = last
                                /\ last <= Len(history) /\ cursor \in 1..last + 1
           /\ DOMAIN history = 1..Len(history) /\ history \in Seq(Line)
           /\ faults = 0
<1>1. TypeOK /\ NotAheadInv
  BY DEF CalmInv, NotAheadInv
<1>2. rotations = 0 /\ base = 0 /\ faults = 0
  BY <1>1 DEF Calm, TypeOK, TrailTypeOK, NotAheadInv
<1>3. history \in Seq(Line) /\ Len(history) \in Nat /\ DOMAIN history = 1..Len(history)
  BY <1>1 DEF TypeOK, TrailTypeOK
<1>4. FileSize = Len(history)
  BY <1>2, <1>3 DEF FileSize
<1>5. restarts \in Nat
  BY <1>1, TailerAssumption DEF TypeOK
<1> QED BY <1>1, <1>2, <1>3, <1>4, <1>5 DEF TypeOK, ProcTypeOK, BatchOK, NotAheadInv

\* The log as the tailer's invariants see it.
LEMMA CommandsAre ==
    ASSUME Calm, CalmInv, NEW s
    PROVE  /\ Commands(s) \subseteq 1..Len(history)
           /\ \A n \in 1..Len(history) : n \in Commands(s) <=> (history[n].kind = "command" /\ history[n].sid = s)
BY CalmFacts DEF Commands, IsCommand

\* In a handler there is a line at the cursor.
LEMMA AtCursor ==
    ASSUME Calm, CalmInv, pc \in InHandler \/ (pc = "dispatch" /\ cursor <= last)
    PROVE  /\ cursor \in 1..last /\ cursor \in 1..Len(history) /\ line \in Line /\ sid \in Session
           /\ line = history[cursor] /\ sid = history[cursor].sid /\ pc \in InBatch
<1>1. TypeOK
  BY DEF CalmInv, NotAheadInv
<1>2. pc \in InBatch /\ cursor <= last
  BY <1>1 DEF InBatch, TypeOK, BatchOK
<1> QED BY <1>1, <1>2, LineAtCursor, CalmFacts DEF line, sid

\* No line of a session comes before its opened line, and one does before its other lines.
LEMMA OpenedFirst ==
    ASSUME Calm, CalmInv, NEW n \in 1..Len(history)
    PROVE  /\ history[n].kind = "opened" => \A m \in 1..Len(history) : history[m].sid = history[n].sid => n <= m
           /\ history[n].kind # "opened" => \E m \in 1..n - 1 : history[m].sid = history[n].sid
<1>1. DOMAIN history = 1..Len(history) /\ Len(history) \in Nat
  BY CalmFacts
<1>2. ASSUME NEW m \in 1..Len(history)
      PROVE  \E k \in 1..m : history[k].kind = "opened" /\ history[k].sid = history[m].sid
  <2>1. PICK k \in 1..m : history[k] = [kind |-> "opened", sid |-> history[m].sid]
    BY <1>1 DEF CalmInv, FirstInv
  <2>2. history[k].kind = "opened" /\ history[k].sid = history[m].sid
    BY <2>1
  <2> QED BY <2>2
<1>3. ASSUME history[n].kind = "opened", NEW m \in 1..Len(history), history[m].sid = history[n].sid
      PROVE  n <= m
  <2>1. PICK k \in 1..m : history[k].kind = "opened" /\ history[k].sid = history[m].sid
    BY <1>2
  <2>2. k = n
    BY <1>1, <1>3, <2>1 DEF CalmInv, FirstInv
  <2> QED BY <1>1, <2>2
<1>4. ASSUME history[n].kind # "opened"
      PROVE  \E m \in 1..n - 1 : history[m].sid = history[n].sid
  <2>1. PICK k \in 1..n : history[k].kind = "opened" /\ history[k].sid = history[n].sid
    BY <1>2
  <2>2. k # n
    BY <1>4, <2>1
  <2>3. k \in 1..n - 1
    BY <1>1, <2>1, <2>2
  <2> QED BY <2>1, <2>3
<1> QED BY <1>3, <1>4

\* A writer appends a line; a session's first is the opened one.
LEMMA Grown ==
    ASSUME Calm, CalmInv, TrailNext
    PROVE  \E k \in Kind, s \in Session :
              /\ history' = Append(history, [kind |-> k, sid |-> s])
              /\ k = "opened" <=> phase[s] = "new"
              /\ phase'[s] # "new" /\ \A t \in Session : t # s => phase'[t] = phase[t]
<1>1. TypeOK /\ phase \in [Session -> Phase] /\ OpenLine = "first"
  BY DEF CalmInv, NotAheadInv, TypeOK, TrailTypeOK, Calm
<1>2. ~Rotate
  BY CalmFacts DEF Rotate, Calm
<1>3. ASSUME NEW s \in Session, LureOpened(s)
      PROVE  history' = Append(history, [kind |-> "opened", sid |-> s])
             /\ phase[s] = "new" /\ phase' = [phase EXCEPT ![s] = "open"]
  BY <1>1, <1>3 DEF LureOpened, Record
<1>4. ASSUME NEW s \in Session
      PROVE  ~LureOpenedLate(s)
  BY <1>1 DEF LureOpenedLate
<1>5. ASSUME NEW s \in Session, LureCommand(s)
      PROVE  history' = Append(history, [kind |-> "command", sid |-> s]) /\ phase[s] # "new"
             /\ phase'[s] # "new" /\ \A t \in Session : t # s => phase'[t] = phase[t]
  BY <1>1, <1>5 DEF LureCommand, Record
<1>6. ASSUME NEW s \in Session, LureClosed(s)
      PROVE  history' = Append(history, [kind |-> "closed", sid |-> s]) /\ phase[s] # "new"
             /\ phase'[s] # "new" /\ \A t \in Session : t # s => phase'[t] = phase[t]
  BY <1>1, <1>6 DEF LureClosed, Record
<1>7. ASSUME NEW s \in Session, BridgeIntent(s)
      PROVE  history' = Append(history, [kind |-> "intent", sid |-> s]) /\ phase[s] # "new" /\ phase' = phase
  BY <1>7 DEF BridgeIntent, Record
<1>8. {"opened", "command", "closed", "intent"} = Kind
  BY DEF Kind
<1>9. PICK s \in Session : LureOpened(s) \/ LureCommand(s) \/ LureClosed(s) \/ BridgeIntent(s)
  BY <1>2, <1>4 DEF TrailNext
<1>10. PICK k \in Kind :
          /\ history' = Append(history, [kind |-> k, sid |-> s])
          /\ k = "opened" <=> phase[s] = "new"
          /\ phase'[s] # "new" /\ \A t \in Session : t # s => phase'[t] = phase[t]
  <2>1. CASE LureOpened(s)
    <3>1. phase'[s] # "new" /\ \A t \in Session : t # s => phase'[t] = phase[t]
      BY <1>1, <1>3, <2>1
    <3> QED BY <1>3, <1>8, <2>1, <3>1
  <2>2. CASE LureCommand(s)
    BY <1>5, <1>8, <2>2
  <2>3. CASE LureClosed(s)
    BY <1>6, <1>8, <2>3
  <2>4. CASE BridgeIntent(s)
    BY <1>7, <1>8, <2>4
  <2> QED BY <1>9, <2>1, <2>2, <2>3, <2>4
<1> QED BY <1>10

LEMMA FirstKept ==
    ASSUME Calm, CalmInv, NEW k \in Kind, NEW s \in Session,
           history' = Append(history, [kind |-> k, sid |-> s]),
           k = "opened" <=> phase[s] = "new",
           phase'[s] # "new", \A t \in Session : t # s => phase'[t] = phase[t]
    PROVE  FirstInv'
<1> DEFINE n == Len(history)
           new == [kind |-> k, sid |-> s]
<1>1. n \in Nat /\ DOMAIN history = 1..n /\ history \in Seq(Line) /\ new \in Line
  BY CalmFacts DEF Line
<1>2. DOMAIN history' = 1..n + 1 /\ history'[n + 1] = new /\ \A i \in 1..n : history'[i] = history[i]
  BY <1>1, AppendProperties
<1>3. FirstInv
  BY DEF CalmInv
<1>4. new.kind = k /\ new.sid = s
  OBVIOUS
<1> HIDE DEF n, new
<1>5. \A i \in DOMAIN history' : i \in 1..n \/ i = n + 1
  BY <1>1, <1>2
<1>6. ASSUME NEW t \in Session, phase'[t] = "new", NEW i \in DOMAIN history'
      PROVE  history'[i].sid # t
  <2>1. t # s /\ phase[t] = "new"
    BY <1>6
  <2> QED BY <1>1, <1>2, <1>3, <1>4, <1>5, <2>1 DEF FirstInv
<1>7. ASSUME NEW t \in Session, phase'[t] # "new"
      PROVE  HasLine("opened", t)'
  <2>1. CASE t = s /\ phase[s] = "new"
    <3>1. history'[n + 1] = [kind |-> "opened", sid |-> t] /\ n + 1 \in DOMAIN history'
      BY <1>1, <1>2, <2>1 DEF new
    <3> QED BY <3>1 DEF HasLine
  <2>2. CASE phase[t] # "new"
    <3>1. PICK i \in 1..n : history[i] = [kind |-> "opened", sid |-> t]
      BY <1>1, <1>3, <2>2 DEF FirstInv, HasLine
    <3>2. i \in DOMAIN history' /\ history'[i] = [kind |-> "opened", sid |-> t]
      BY <1>1, <1>2, <3>1
    <3> QED BY <3>2 DEF HasLine
  <2> QED BY <1>7, <2>1, <2>2
<1>8. ASSUME NEW i \in DOMAIN history'
      PROVE  \E m \in 1..i : history'[m] = [kind |-> "opened", sid |-> history'[i].sid]
  <2>1. CASE i \in 1..n
    <3>1. PICK m \in 1..i : history[m] = [kind |-> "opened", sid |-> history[i].sid]
      BY <1>1, <1>3, <2>1 DEF FirstInv
    <3>2. m \in 1..n
      BY <1>1, <2>1, <3>1
    <3> QED BY <1>2, <2>1, <3>1, <3>2
  <2>2. CASE i = n + 1 /\ phase[s] = "new"
    <3>1. history'[i] = [kind |-> "opened", sid |-> history'[i].sid] /\ i \in 1..i
      BY <1>1, <1>2, <1>4, <2>2 DEF new
    <3> QED BY <3>1
  <2>3. CASE i = n + 1 /\ phase[s] # "new"
    <3>1. PICK m \in 1..n : history[m] = [kind |-> "opened", sid |-> s]
      BY <1>1, <1>3, <2>3 DEF FirstInv, HasLine
    <3>2. m \in 1..i /\ history'[m] = [kind |-> "opened", sid |-> s] /\ history'[i].sid = s
      BY <1>1, <1>2, <1>4, <2>3, <3>1
    <3> QED BY <3>2
  <2> QED BY <1>5, <2>1, <2>2, <2>3
<1>9. ASSUME NEW i \in DOMAIN history', NEW j \in DOMAIN history',
             history'[i].kind = "opened", history'[j].kind = "opened", history'[i].sid = history'[j].sid
      PROVE  i = j
  <2>1. ASSUME NEW m \in 1..n, k = "opened" PROVE history[m].sid # s
    BY <1>1, <1>3, <2>1 DEF FirstInv
  <2>2. CASE i \in 1..n /\ j \in 1..n
    BY <1>1, <1>2, <1>3, <1>9, <2>2 DEF FirstInv
  <2>3. CASE i \in 1..n /\ j = n + 1
    BY <1>2, <1>4, <1>9, <2>1, <2>3
  <2>4. CASE i = n + 1 /\ j \in 1..n
    BY <1>2, <1>4, <1>9, <2>1, <2>4
  <2> QED BY <1>5, <2>2, <2>3, <2>4
<1> QED BY <1>6, <1>7, <1>8, <1>9 DEF FirstInv

\* What the writers append changes nothing the tailer has been through.
LEMMA TrailKeeps ==
    ASSUME Calm, CalmInv, NotAheadInv', Trail
    PROVE  CalmInv'
<1>1. PICK k \in Kind, s \in Session :
          /\ history' = Append(history, [kind |-> k, sid |-> s])
          /\ k = "opened" <=> phase[s] = "new"
          /\ phase'[s] # "new" /\ \A t \in Session : t # s => phase'[t] = phase[t]
  BY Grown DEF Trail
<1>2. FirstInv'
  BY <1>1, FirstKept
<1> DEFINE n == Len(history)
<1>3. /\ n \in Nat /\ Len(history') = n + 1
      /\ DOMAIN history' = 1..n + 1 /\ \A i \in 1..n : history'[i] = history[i]
  <2>1. history \in Seq(Line) /\ [kind |-> k, sid |-> s] \in Line
    BY CalmFacts DEF Line
  <2> QED BY <1>1, <2>1, AppendProperties, CalmFacts
<1>4. /\ UNCHANGED <<rows, turns, count, ended, intents, cache, pc, offset, span, cursor, last, held, acc>>
      /\ UNCHANGED <<pending, high, restarts, faults>>
  BY DEF Trail, storeVars, tailerVars, procVars, failVars
<1>5. /\ high \in 0..n /\ cursor \in Nat /\ offset \in 0..n /\ (pc \in InBatch => cursor - 1 \in 0..n)
      /\ (Handling => cursor \in 1..n /\ line' = line /\ sid' = sid)
      /\ (pc = "end" => line' = line /\ sid' = sid)
  <2>1. pc \in InHandler => cursor \in 1..n /\ line = history[cursor] /\ sid = line.sid
    BY AtCursor DEF sid
  <2>2. pc \in InHandler => line' = line /\ sid' = sid
    BY <1>3, <1>4, <2>1 DEF line, sid
  <2> QED BY <2>1, <2>2, CalmFacts DEF Handling, InHandler
<1> HIDE DEF n
<1>6. \A t : /\ Commands(t)' \cap (1..n) = Commands(t)
             /\ \A m \in Commands(t)' : m \in 1..n + 1
  BY <1>3, CalmFacts DEF Commands, IsCommand, n
<1>7. Reach' = Reach /\ Reach \in 0..n /\ Fresh' = Fresh /\ Handling' = Handling
  BY <1>4, <1>5 DEF Reach, Fresh, Handling
<1>8. PassInv'
  BY <1>3, <1>4, CalmFacts DEF CalmInv, PassInv, n
<1>9. HandlerInv'
  BY <1>4, <1>5, <1>7 DEF CalmInv, HandlerInv, Handling, Fresh, Stored
<1>10. RowsInv'
  <2>1. \A i \in 1..high : i \in 1..n
    BY <1>3, <1>5
  <2> QED BY <1>3, <1>4, <2>1 DEF CalmInv, RowsInv
<1>11. ASSUME NEW t \in Session PROVE TurnsInv(t)' /\ AccInv(t)' /\ CountInv(t)'
  <2>1. TurnsInv(t) /\ AccInv(t) /\ CountInv(t)
    BY DEF CalmInv
  <2>2. TurnsInv(t)'
    <3>1. \A i \in Commands(t)' : i <= high => i \in Commands(t)
      BY <1>3, <1>5, <1>6
    <3> QED BY <1>4, <1>6, <2>1, <3>1 DEF TurnsInv, Stored
  <2>3. AccInv(t)'
    <3>1. \A i \in Commands(t)' : i <= Reach => i \in Commands(t)
      BY <1>3, <1>6, <1>7
    <3>2. \A m \in 1..Reach : history'[m] = history[m]
      BY <1>3, <1>7
    <3>3. Fresh => (t = sid' <=> t = sid)
      BY <1>5 DEF Fresh, Handling
    <3> QED BY <1>4, <1>6, <1>7, <2>1, <3>1, <3>2, <3>3 DEF AccInv
  <2>4. CountInv(t)'
    <3>1. Uncounted(t)' = Uncounted(t)
      BY <1>4, <1>5 DEF Uncounted, Handling
    <3> QED BY <1>4, <2>1, <3>1 DEF CountInv
  <2> QED BY <2>2, <2>3, <2>4
<1> QED BY <1>2, <1>8, <1>9, <1>10, <1>11 DEF CalmInv

\* Between batches, and wherever the process comes to its end, the store and the
\* log stand still.
LEMMA StillKeeps ==
    ASSUME Calm, CalmInv, NotAheadInv', PassInv',
           UNCHANGED <<trailVars, storeVars, high>>,
           ~Handling', pc' # "end", restarts' \in Nat, restarts' >= restarts,
           pc = "count" => restarts' = restarts + 1,
           \/ held' = {}
           \/ held' = held /\ acc' = acc /\ Reach' = Reach /\ ~Handling
    PROVE  CalmInv'
<1> USE DEF trailVars, storeVars
<1>1. FirstInv' /\ RowsInv'
  BY DEF CalmInv, FirstInv, RowsInv, HasLine
<1>2. ~Fresh'
  BY DEF Handling, Fresh
<1>3. HandlerInv'
  BY <1>2 DEF HandlerInv, Handling
<1>4. ASSUME NEW s \in Session PROVE TurnsInv(s)' /\ AccInv(s)' /\ CountInv(s)'
  <2>1. TurnsInv(s) /\ AccInv(s) /\ CountInv(s)
    BY DEF CalmInv
  <2>2. Commands(s)' = Commands(s)
    BY DEF Commands, IsCommand
  <2>3. TurnsInv(s)'
    BY <2>1, <2>2 DEF TurnsInv, Stored
  <2>4. AccInv(s)'
    <3>1. ~Handling => ~Fresh
      BY DEF Handling, Fresh
    <3> QED BY <1>2, <2>1, <2>2, <3>1 DEF AccInv
  <2>5. CountInv(s)'
    <3>1. Uncounted(s)' = 0 /\ Uncounted(s) \in {0, 1} /\ (pc # "count" => Uncounted(s) = 0)
      BY DEF Uncounted, Handling
    <3>2. count[s] \in Nat /\ Len(turns[s]) \in Nat /\ restarts \in Nat
      BY CalmFacts DEF CalmInv, NotAheadInv, TypeOK, StoreTypeOK
    <3>3. count'[s] = count[s] /\ Len(turns'[s]) = Len(turns[s]) /\ (s \notin rows' => s \notin rows)
      OBVIOUS
    <3> HIDE DEF Uncounted
    <3> QED BY <2>1, <3>1, <3>2, <3>3 DEF CountInv
  <2> QED BY <2>3, <2>4, <2>5
<1> QED BY <1>1, <1>3, <1>4 DEF CalmInv

LEMMA PassKeeps ==
    ASSUME Calm, CalmInv, NotAheadInv', Start \/ Crash \/ Stop \/ Poll \/ Read \/ Commit \/ Save
    PROVE  CalmInv'
<1> USE DEF InBatch, InHandler, Handling
<1>1. CASE Start
  <2>1. held = {} /\ held' = {}
    BY <1>1 DEF Start, CalmInv, PassInv
  <2>2. PassInv'
    BY <1>1, <2>1 DEF Start, PassInv
  <2> QED BY <1>1, <2>1, <2>2, StillKeeps, CalmFacts DEF Start
<1>2. CASE Crash \/ Stop
  <2>1. PassInv'
    BY <1>2 DEF Crash, Stop, Lose, PassInv
  <2> QED BY <1>2, <2>1, StillKeeps, CalmFacts DEF Crash, Stop, Lose
<1>3. CASE Poll
  <2>1. UNCHANGED <<trailVars, storeVars, high, restarts, held, acc>> /\ pc = "idle"
        /\ offset' = offset /\ offset <= Len(history) /\ FileSize = Len(history)
    BY <1>3, CalmFacts DEF Poll
  <2>2. PassInv'
    BY <1>3, <2>1, CalmFacts DEF Poll, CalmInv, PassInv, trailVars
  <2>3. ~Handling' /\ pc' # "end" /\ Reach' = Reach
    BY <1>3, <2>1 DEF Poll, Reach
  <2> QED BY <2>1, <2>2, <2>3, StillKeeps, CalmFacts
<1>4. CASE Read
  <2>1. UNCHANGED <<trailVars, storeVars, high, restarts, held, acc, offset>> /\ pc = "read"
        /\ FileSize = Len(history) /\ base = 0 /\ history' = history
    BY <1>4, CalmFacts DEF Read, trailVars
  <2>2. offset + span >= high /\ offset + span <= Len(history) /\ (offset >= high \/ held = {}) /\ span > 0
    BY <2>1 DEF CalmInv, PassInv, NotAheadInv, TypeOK, BatchOK
  <2>3. pc' = "dispatch" /\ span' = span /\ cursor' = offset + 1 /\ last' = offset + span
    BY <1>4, <2>1, <2>2, CalmFacts DEF Read
  <2>4. PassInv' /\ Reach' = Reach /\ ~Handling'
    BY <2>1, <2>2, <2>3, CalmFacts DEF PassInv, Reach
  <2> QED BY <2>1, <2>3, <2>4, StillKeeps, CalmFacts
<1>5. CASE Commit
  <2>1. /\ UNCHANGED <<trailVars, storeVars, high, restarts, held, acc>> /\ pc = "dispatch"
        /\ pc' = "save" /\ offset' = offset + span /\ cursor > last
    BY <1>5 DEF Commit
  <2>2. offset + span = last /\ cursor = last + 1 /\ last >= high /\ cursor \in Nat
    BY <2>1, CalmFacts DEF CalmInv, PassInv
  <2>3. PassInv' /\ Reach' = Reach
    BY <2>1, <2>2, CalmFacts DEF PassInv, Reach
  <2> QED BY <2>1, <2>3, StillKeeps, CalmFacts
<1>6. CASE Save
  <2>1. PassInv' /\ Reach' = Reach
    BY <1>6 DEF Save, CalmInv, PassInv, Reach
  <2> QED BY <1>6, <2>1, StillKeeps, CalmFacts DEF Save
<1> QED BY <1>1, <1>2, <1>3, <1>4, <1>5, <1>6

\* Nothing fails: an intent follows its session's opened line, which made the row.
LEMMA NothingFails ==
    ASSUME Calm, CalmInv
    PROVE  ~IntentRefused /\ ~StoreFault
<1>1. ~StoreFault
  BY CalmFacts DEF StoreFault, Calm
<1>2. ASSUME IntentRefused PROVE FALSE
  <2>1. cursor \in 1..last /\ cursor \in 1..Len(history) /\ sid = history[cursor].sid
        /\ history[cursor].kind = "intent" /\ cursor <= high + 1 /\ sid \notin rows
    BY <1>2, AtCursor, CalmFacts DEF IntentRefused, At
  <2>2. PICK m \in 1..cursor - 1 : history[m].sid = sid
    BY <2>1, OpenedFirst
  <2>3. m \in 1..high
    BY <2>1, <2>2, CalmFacts
  <2> QED BY <2>1, <2>2, <2>3 DEF CalmInv, RowsInv
<1> QED BY <1>1, <1>2

\* update_session is entered: only the line's own session is concerned.
LEMMA EnterKeeps ==
    ASSUME Calm, CalmInv, NotAheadInv', pc = "dispatch", cursor <= last, NEW q, UpdateSession(sid, q),
           AccInv(sid)', HandlerInv'
    PROVE  CalmInv'
<1> USE DEF UpdateSession, trailVars, storeVars
<1>1. /\ cursor \in 1..last /\ cursor \in 1..Len(history) /\ sid \in Session /\ sid = history[cursor].sid
      /\ cursor \in Nat /\ cursor <= high + 1
  BY AtCursor, CalmFacts
<1>2. FirstInv' /\ RowsInv'
  BY DEF CalmInv, FirstInv, RowsInv, HasLine
<1>3. PassInv'
  BY DEF CalmInv, PassInv, InBatch, InHandler
<1>4. Reach = cursor - 1 /\ Reach' = cursor /\ ~Fresh /\ sid' = sid
  BY DEF Reach, Fresh, Handling, InBatch, InHandler, sid, line
<1>5. ASSUME NEW t \in Session PROVE TurnsInv(t)' /\ AccInv(t)' /\ CountInv(t)'
  <2>1. TurnsInv(t) /\ AccInv(t) /\ CountInv(t)
    BY DEF CalmInv
  <2>2. Commands(t)' = Commands(t)
    BY DEF Commands, IsCommand
  <2>3. TurnsInv(t)'
    BY <2>1, <2>2 DEF TurnsInv, Stored
  <2>4. CountInv(t)'
    BY <2>1 DEF CountInv, Uncounted
  <2>5. CASE t = sid
    <3>1. AccInv(t)'
      BY <1>4, <2>5
    <3> QED BY <2>3, <2>4, <3>1
  <2>6. CASE t # sid
    <3>1. acc \in [Session -> Seq(Nat)]
      BY DEF CalmInv, NotAheadInv, TypeOK, ProcTypeOK
    <3>2. acc'[t] = acc[t] /\ (t \in held' => t \in held)
      BY <2>6, <3>1
    <3>3. \A n \in Commands(t) : n <= cursor => n <= cursor - 1
      <4>1. Commands(t) \subseteq 1..Len(history) /\ cursor \notin Commands(t)
        BY <1>1, <2>6, CommandsAre
      <4> QED BY <1>1, <4>1, CalmFacts
    <3>4. \A m \in 1..cursor : history[m] = [kind |-> "closed", sid |-> t] => m \in 1..cursor - 1
      <4>1. history[cursor] # [kind |-> "closed", sid |-> t]
        BY <1>1, <2>6
      <4> QED BY <1>1, <4>1
    <3>5. \A i \in DOMAIN acc[t] : t \in held => acc[t][i] <= cursor
      <4>1. acc[t] \in Seq(Nat)
        BY <3>1
      <4> QED BY <1>1, <1>4, <2>1, <4>1 DEF AccInv
    <3>6. \A n \in Commands(t) : n <= cursor - 1 => n <= cursor
      BY <1>1, CommandsAre
    <3> HIDE DEF UpdateSession
    <3>7. turns' = turns /\ history' = history
      BY DEF UpdateSession
    <3>8. AccInv(t)'
      BY <1>4, <2>1, <2>2, <3>2, <3>3, <3>4, <3>5, <3>6, <3>7 DEF AccInv
    <3> QED BY <2>3, <2>4, <3>8
  <2> QED BY <2>5, <2>6
<1> QED BY <1>2, <1>3, <1>5 DEF CalmInv

LEMMA OpenedKeeps ==
    ASSUME Calm, CalmInv, NotAheadInv', HandleOpened
    PROVE  CalmInv'
<1> DEFINE q == IF sid \in held THEN acc[sid] ELSE <<>>
           k == Len(turns[sid])
<1>1. pc = "dispatch" /\ cursor <= last /\ line.kind = "opened" /\ UpdateSession(sid, q)
  BY DEF HandleOpened, At
<1>2. /\ cursor \in 1..Len(history) /\ sid \in Session /\ line = history[cursor] /\ sid = history[cursor].sid
      /\ cursor \in Nat /\ Len(history) \in Nat
  BY <1>1, AtCursor, CalmFacts
<1>3. acc \in [Session -> Seq(Nat)] /\ turns \in [Session -> Seq(Nat)] /\ held \subseteq Session
  BY DEF CalmInv, NotAheadInv, TypeOK, ProcTypeOK, StoreTypeOK
<1>4. AccInv(sid) /\ TurnsInv(sid)
  BY <1>2 DEF CalmInv
<1>5. Reach = cursor - 1 /\ ~Fresh
  BY <1>1 DEF Reach, Fresh, Handling, InBatch, InHandler
<1>6. \A m \in 1..Len(history) : history[m].sid = sid => cursor <= m
  BY <1>1, <1>2, OpenedFirst
<1>7. /\ \A n \in Commands(sid) : ~(n <= cursor)
      /\ \A m \in 1..cursor : history[m] # [kind |-> "closed", sid |-> sid]
  <2>1. \A n \in Commands(sid) : n \in 1..Len(history) /\ history[n].sid = sid /\ history[n].kind = "command"
    BY CommandsAre
  <2>2. history[cursor].kind = "opened"
    BY <1>1, <1>2
  <2>3. \A n \in Commands(sid) : n # cursor /\ cursor <= n
    BY <1>6, <2>1, <2>2
  <2>4. ASSUME NEW m \in 1..cursor, history[m] = [kind |-> "closed", sid |-> sid] PROVE FALSE
    <3>1. m \in 1..Len(history) /\ history[m].sid = sid /\ history[m].kind = "closed"
      BY <1>2, <2>4
    <3>2. m = cursor
      BY <1>2, <1>6, <3>1
    <3> QED BY <2>2, <3>1, <3>2
  <2> QED BY <1>2, <2>1, <2>3, <2>4
\* An accumulator that is there has no turn either.
<1>8. q = <<>>
  <2>1. CASE sid \in held
    <3>1. \A i \in DOMAIN acc[sid] : acc[sid][i] \in Commands(sid) /\ acc[sid][i] <= cursor - 1
      BY <1>4, <1>5, <2>1 DEF AccInv
    <3>2. \A i \in DOMAIN acc[sid] : FALSE
      <4> SUFFICES ASSUME NEW i \in DOMAIN acc[sid] PROVE FALSE
        OBVIOUS
      <4>1. acc[sid][i] \in Nat /\ acc[sid][i] <= cursor
        BY <1>2, <1>3, <3>1
      <4> QED BY <1>7, <3>1, <4>1
    <3>3. acc[sid] \in Seq(Nat)
      BY <1>2, <1>3
    <3>4. acc[sid] = <<>>
      <4>1. Len(acc[sid]) \in Nat /\ DOMAIN acc[sid] = 1..Len(acc[sid])
        BY <3>3
      <4>2. Len(acc[sid]) = 0
        BY <3>2, <4>1
      <4> QED BY <3>3, <4>2, EmptySeq
    <3> QED BY <2>1, <3>4
  <2> QED BY <2>1
<1>9. /\ acc'[sid] = <<>> /\ pending' = <<>> /\ sid' = sid /\ line' = line /\ cursor' = cursor
      /\ held' = held \union {sid} /\ pc' = "upsert" /\ history' = history
  <2>1. SubSeq(<<>>, k + 1, Len(<<>>)) = <<>>
    <3>1. k + 1 \in Int /\ Len(<<>>) \in Int /\ Len(<<>>) < k + 1
      BY <1>2, <1>3
    <3> QED BY <3>1, SubSeqEmpty
  <2> QED BY <1>1, <1>2, <1>3, <1>8, <2>1 DEF UpdateSession, sid, line, trailVars
<1> HIDE DEF q, k
<1>10. HandlerInv'
  BY <1>1, <1>9 DEF HandlerInv, Handling, Fresh
<1>11. AccInv(sid)'
  <2>1. Commands(sid)' = Commands(sid)
    BY <1>9 DEF Commands, IsCommand
  <2>2. Reach' = cursor
    BY <1>9 DEF Reach, Handling
  <2> QED BY <1>7, <1>9, <2>1, <2>2 DEF AccInv
<1> QED BY <1>1, <1>10, <1>11, EnterKeeps

\* What the line of a command finds: the first turns of its session, which are all
\* its commands before the line.
LEMMA KnownIs ==
    ASSUME Calm, CalmInv, At("command"), ~IsReplay, NEW known, known = Known(sid)
    PROVE  /\ known \in Seq(Nat)
           /\ \A i \in DOMAIN known : /\ i \in DOMAIN turns[sid] /\ known[i] = turns[sid][i]
                                      /\ known[i] \in Commands(sid) /\ known[i] <= cursor - 1
           /\ \A n \in Commands(sid) : n <= cursor - 1 => \E i \in DOMAIN known : known[i] = n
<1>1. pc = "dispatch" /\ cursor <= last /\ line.kind = "command"
  BY DEF At
<1>2. /\ cursor \in 1..Len(history) /\ sid \in Session /\ line = history[cursor] /\ sid = history[cursor].sid
      /\ cursor \in Nat /\ Len(history) \in Nat /\ high \in Nat /\ cursor <= high + 1
  BY <1>1, AtCursor, CalmFacts DEF InBatch, InHandler
<1>3. acc \in [Session -> Seq(Nat)] /\ turns \in [Session -> Seq(Nat)] /\ held \subseteq Session
  BY DEF CalmInv, NotAheadInv, TypeOK, ProcTypeOK, StoreTypeOK
<1>4. AccInv(sid) /\ TurnsInv(sid)
  BY <1>2 DEF CalmInv
<1>5. Reach = cursor - 1 /\ ~Fresh
  BY <1>1 DEF Reach, Fresh, Handling, InBatch, InHandler
<1>6. CASE sid \in held
  <2>1. known = acc[sid]
    BY <1>6 DEF Known
  <2> QED BY <1>2, <1>3, <1>4, <1>5, <1>6, <2>1 DEF AccInv
<1>7. CASE sid \notin held
  <2>1. known = turns[sid]
    <3>1. sid \notin rows => turns[sid] = <<>>
      BY <1>4 DEF TurnsInv
    <3> QED BY <1>7, <3>1 DEF Known
  <2>2. ~Stored(sid, cursor)
    <3>1. ASSUME Stored(sid, cursor) PROVE sid \in rows
      <4>1. PICK i \in DOMAIN turns[sid] : turns[sid][i] = cursor
        BY <3>1 DEF Stored
      <4>2. turns[sid] # <<>>
        BY <4>1
      <4> QED BY <1>4, <4>2 DEF TurnsInv
    <3> QED BY <1>7, <3>1 DEF IsReplay
  <2>3. cursor \in Commands(sid) /\ cursor = high + 1
    <3>1. cursor \in Commands(sid)
      BY <1>1, <1>2, CommandsAre
    <3> QED BY <1>2, <1>4, <2>2, <3>1 DEF TurnsInv
  <2>4. ASSUME NEW i \in DOMAIN turns[sid]
        PROVE  turns[sid][i] \in Commands(sid) /\ turns[sid][i] <= cursor - 1
    <3>1. turns[sid][i] \in Commands(sid) /\ turns[sid][i] <= high + 1 /\ turns[sid][i] # cursor
      BY <1>4, <2>2 DEF TurnsInv, Stored
    <3>2. turns[sid][i] \in Nat
      BY <1>2, <1>3
    <3> QED BY <1>2, <2>3, <3>1, <3>2
  <2>5. ASSUME NEW n \in Commands(sid), n <= cursor - 1
        PROVE  \E i \in DOMAIN turns[sid] : turns[sid][i] = n
    <3>1. n <= high
      BY <1>2, <2>3, <2>5, CommandsAre
    <3> QED BY <1>4, <3>1 DEF TurnsInv, Stored
  <2> QED BY <1>2, <1>3, <2>1, <2>4, <2>5
<1> QED BY <1>6, <1>7

\* When the turn is stored it is the next of them; when it is not, they are all.
LEMMA NextTurn ==
    ASSUME Calm, CalmInv, At("command"), ~IsReplay, NEW known, known = Known(sid)
    PROVE  /\ Len(known) \in Nat /\ Len(turns[sid]) \in Nat
           /\ Stored(sid, cursor) =>
                Len(known) + 1 <= Len(turns[sid]) /\ turns[sid][Len(known) + 1] = cursor
           /\ ~Stored(sid, cursor) => Len(known) = Len(turns[sid]) /\ cursor > high
<1> DEFINE T == turns[sid]
           j == Len(known)
<1>1. /\ cursor \in 1..Len(history) /\ sid \in Session /\ line = history[cursor] /\ sid = history[cursor].sid
      /\ cursor \in Nat /\ high \in Nat /\ cursor <= high + 1 /\ line.kind = "command"
  BY AtCursor, CalmFacts DEF At, InBatch, InHandler
<1>2. T \in Seq(Nat) /\ Len(T) \in Nat /\ DOMAIN T = 1..Len(T)
  BY <1>1 DEF CalmInv, NotAheadInv, TypeOK, StoreTypeOK
<1>3. /\ known \in Seq(Nat) /\ j \in Nat /\ DOMAIN known = 1..j
      /\ \A i \in 1..j : i \in 1..Len(T) /\ known[i] = T[i] /\ known[i] <= cursor - 1
      /\ \A n \in Commands(sid) : n <= cursor - 1 => \E i \in 1..j : known[i] = n
  BY <1>2, KnownIs
<1>4. j <= Len(T)
  <2>1. CASE j = 0
    BY <1>2, <2>1
  <2>2. CASE j # 0
    <3>1. j \in 1..j
      BY <1>3, <2>2
    <3> QED BY <1>2, <1>3, <3>1
  <2> QED BY <2>1, <2>2
<1>5. /\ \A i \in 1..Len(T) : T[i] \in Commands(sid) /\ T[i] <= high + 1 /\ T[i] \in Nat
      /\ \A a, b \in 1..Len(T) : a < b => T[a] < T[b]
      /\ \A n \in Commands(sid) : n <= high => Stored(sid, n)
  <2>1. TurnsInv(sid)
    BY <1>1 DEF CalmInv
  <2>2. \A i \in 1..Len(T) : T[i] \in Nat
    BY <1>2
  <2> QED BY <1>2, <2>1, <2>2 DEF TurnsInv
<1>6. cursor \in Commands(sid)
  BY <1>1, CommandsAre
<1>a. Stored(sid, cursor) <=> \E i \in 1..Len(T) : T[i] = cursor
  BY <1>2 DEF Stored
<1> HIDE DEF T, j
\* A turn beyond those known is not before the line.
<1>7. ASSUME NEW i \in 1..Len(T), i > j PROVE T[i] >= cursor
  <2> SUFFICES ASSUME T[i] <= cursor - 1 PROVE FALSE
    <3>1. T[i] \in Nat /\ cursor \in Nat
      BY <1>1, <1>5
    <3> QED BY <3>1
  <2>1. PICK a \in 1..j : known[a] = T[i]
    BY <1>3, <1>5
  <2>2. T[a] = T[i] /\ a < i /\ a \in 1..Len(T)
    BY <1>2, <1>3, <1>7, <2>1
  <2> QED BY <1>5, <2>2
<1>8. ASSUME Stored(sid, cursor)
      PROVE  j + 1 <= Len(T) /\ T[j + 1] = cursor
  <2>1. PICK i \in 1..Len(T) : T[i] = cursor
    BY <1>8, <1>a
  <2>2. i > j
    <3> SUFFICES ASSUME i <= j PROVE FALSE
      BY <1>2, <1>3
    <3>1. i \in 1..j
      BY <1>2, <1>3
    <3>2. T[i] <= cursor - 1
      BY <1>3, <3>1
    <3> QED BY <1>1, <2>1, <3>2
  <2>3. j + 1 \in 1..Len(T) /\ j + 1 > j
    BY <1>2, <1>3, <2>2
  <2>4. T[j + 1] >= cursor
    BY <1>7, <2>3
  <2>5. j + 1 < i => T[j + 1] < cursor
    BY <1>5, <2>1, <2>3
  <2>6. j + 1 = i
    BY <1>1, <1>2, <1>3, <1>5, <2>2, <2>3, <2>4, <2>5
  <2> QED BY <1>2, <1>3, <2>1, <2>3, <2>6
<1>9. ASSUME ~Stored(sid, cursor)
      PROVE  j = Len(T) /\ cursor > high
  <2>1. cursor = high + 1
    BY <1>1, <1>5, <1>6, <1>9
  <2> SUFFICES ASSUME j # Len(T) PROVE FALSE
    BY <1>1, <2>1
  <2>2. Len(T) \in 1..Len(T) /\ Len(T) > j
    <3>1. j \in Nat /\ Len(T) \in Nat
      BY <1>2, <1>3
    <3> QED BY <1>4, <3>1
  <2>3. T[Len(T)] >= cursor /\ T[Len(T)] <= high + 1
    BY <1>5, <1>7, <2>2
  <2>4. T[Len(T)] = cursor
    BY <1>1, <1>5, <2>1, <2>2, <2>3
  <2> QED BY <1>9, <1>a, <2>2, <2>4
<1> QED BY <1>2, <1>3, <1>8, <1>9 DEF T, j

LEMMA CommandKeeps ==
    ASSUME Calm, CalmInv, NotAheadInv', HandleCommand
    PROVE  CalmInv'
<1>1. At("command") /\ ~IsReplay /\ pc = "dispatch" /\ cursor <= last /\ line.kind = "command"
  BY DEF HandleCommand, At
<1>2. PICK known : known = Known(sid)
  OBVIOUS
<1> DEFINE j == Len(known)
           k == Len(turns[sid])
           q == Append(known, cursor)
<1>3. UpdateSession(sid, q)
  BY <1>2 DEF HandleCommand
<1>4. /\ cursor \in 1..Len(history) /\ sid \in Session /\ line = history[cursor] /\ sid = history[cursor].sid
      /\ cursor \in Nat /\ Len(history) \in Nat /\ cursor \in Commands(sid)
  <2>1. cursor \in 1..Len(history) /\ sid \in Session /\ line = history[cursor] /\ sid = history[cursor].sid
    BY <1>1, AtCursor
  <2>2. cursor \in Commands(sid)
    BY <1>1, <2>1, CommandsAre
  <2> QED BY <2>1, <2>2, CalmFacts
<1>5. /\ known \in Seq(Nat)
      /\ \A i \in DOMAIN known : /\ i \in DOMAIN turns[sid] /\ known[i] = turns[sid][i]
                                 /\ known[i] \in Commands(sid) /\ known[i] <= cursor - 1
      /\ \A n \in Commands(sid) : n <= cursor - 1 => \E i \in DOMAIN known : known[i] = n
  BY <1>1, <1>2, KnownIs
<1>6. /\ j \in Nat /\ k \in Nat
      /\ Stored(sid, cursor) => j + 1 <= k /\ turns[sid][j + 1] = cursor
      /\ ~Stored(sid, cursor) => j = k /\ cursor > high
  BY <1>1, <1>2, NextTurn
<1>7. /\ q \in Seq(Nat) /\ Len(q) = j + 1 /\ DOMAIN q = 1..j + 1 /\ DOMAIN known = 1..j
      /\ \A i \in 1..j : q[i] = known[i]
      /\ q[j + 1] = cursor
  <2>1. DOMAIN known = 1..j
    BY <1>5
  <2>2. q \in Seq(Nat) /\ Len(q) = j + 1
    BY <1>4, <1>5, AppendProperties
  <2> QED BY <1>4, <1>5, <2>1, <2>2, AppendProperties
<1>8. DOMAIN turns[sid] = 1..k
  BY <1>4 DEF CalmInv, NotAheadInv, TypeOK, StoreTypeOK
<1>9. pending' = IF Stored(sid, cursor) THEN <<>> ELSE <<cursor>>
  <2>1. pending' = SubSeq(q, k + 1, Len(q))
    BY <1>3 DEF UpdateSession
  <2>2. CASE Stored(sid, cursor)
    <3>1. k + 1 \in Int /\ Len(q) \in Int /\ Len(q) < k + 1
      BY <1>6, <1>7, <2>2
    <3> QED BY <2>1, <2>2, <3>1, SubSeqEmpty
  <2>3. CASE ~Stored(sid, cursor)
    <3>1. Len(q) = k + 1 /\ q[k + 1] = cursor /\ k + 1 \in Int
      BY <1>6, <1>7, <2>3
    <3>2. \A i \in k + 1..k + 1 : q[i] \in Nat
      BY <1>4, <1>6, <3>1
    <3>3. /\ SubSeq(q, k + 1, k + 1) \in Seq(Nat)
          /\ Len(SubSeq(q, k + 1, k + 1)) = 1
          /\ \A i \in 1..(k + 1) - (k + 1) + 1 : SubSeq(q, k + 1, k + 1)[i] = q[(k + 1) + i - 1]
      <4>1. Len(SubSeq(q, k + 1, k + 1)) = IF k + 1 <= k + 1 THEN (k + 1) - (k + 1) + 1 ELSE 0
        BY <3>1, <3>2, SubSeqProperties
      <4> QED BY <1>6, <3>1, <3>2, <4>1, SubSeqProperties
    <3>4. SubSeq(q, k + 1, k + 1)[1] = cursor
      BY <1>6, <3>1, <3>3
    <3>5. SubSeq(q, k + 1, k + 1) = <<cursor>>
      <4>1. <<cursor>> \in Seq(Nat) /\ Len(<<cursor>>) = 1 /\ <<cursor>>[1] = cursor
        BY <1>4
      <4>2. PICK z : z = SubSeq(q, k + 1, k + 1)
        OBVIOUS
      <4>3. z \in Seq(Nat) /\ Len(z) = 1 /\ z[1] = cursor
        BY <3>3, <3>4, <4>2
      <4>4. \A i \in 1..Len(z) : z[i] = <<cursor>>[i]
        BY <4>1, <4>3
      <4>5. z = <<cursor>>
        BY <4>1, <4>3, <4>4, SeqEqual
      <4> QED BY <4>2, <4>5
    <3> QED BY <2>1, <2>3, <3>1, <3>5
  <2> QED BY <2>2, <2>3
<1>10. /\ acc'[sid] = q /\ sid' = sid /\ line' = line /\ cursor' = cursor /\ turns' = turns /\ high' = high
       /\ held' = held \union {sid} /\ pc' = "upsert" /\ history' = history
  <2>1. acc \in [Session -> Seq(Nat)]
    BY DEF CalmInv, NotAheadInv, TypeOK, ProcTypeOK
  <2> QED BY <1>3, <1>4, <2>1 DEF UpdateSession, sid, line, trailVars, storeVars
<1> HIDE DEF q, j, k
<1>11. Stored(sid, cursor)' = Stored(sid, cursor)
  BY <1>10 DEF Stored
<1>12. HandlerInv'
  <2>1. Len(turns'[sid']) = k /\ Len(acc'[sid']) = j + 1 /\ acc'[sid'][j + 1] = cursor
    BY <1>7, <1>10 DEF k
  <2> QED BY <1>1, <1>6, <1>9, <1>10, <1>11, <2>1 DEF HandlerInv, Handling, Fresh
<1>13. AccInv(sid)'
  <2>1. Commands(sid)' = Commands(sid)
    BY <1>10 DEF Commands, IsCommand
  <2>2. Reach' = cursor
    BY <1>10 DEF Reach, Handling
  <2>3. Fresh' <=> ~Stored(sid, cursor)
    BY <1>9, <1>10 DEF Fresh
  <2>4. \A n \in Commands(sid) : n <= cursor => n <= cursor - 1 \/ n = cursor
    BY <1>4, CommandsAre
  <2>5. ASSUME NEW i \in 1..j + 1
        PROVE  /\ q[i] \in Commands(sid) /\ q[i] <= cursor
               /\ \/ i \in DOMAIN turns[sid] /\ q[i] = turns[sid][i]
                  \/ ~Stored(sid, cursor) /\ i = j + 1
    <3>1. CASE i \in 1..j
      <4>1. q[i] = known[i] /\ q[i] \in Commands(sid) /\ q[i] <= cursor - 1 /\ i \in DOMAIN turns[sid] /\ q[i] = turns[sid][i]
        BY <1>5, <1>7, <3>1
      <4>2. q[i] \in Nat
        BY <1>7, <2>5
      <4> QED BY <1>4, <4>1, <4>2
    <3>2. CASE i = j + 1
      <4>1. q[i] = cursor
        BY <1>7, <3>2
      <4>2. Stored(sid, cursor) => i \in DOMAIN turns[sid] /\ q[i] = turns[sid][i]
        BY <1>6, <1>8, <3>2, <4>1
      <4> QED BY <1>4, <3>2, <4>1, <4>2
    <3> QED BY <1>6, <3>1, <3>2
  <2>6. ASSUME NEW n \in Commands(sid), n <= cursor
        PROVE  \E i \in 1..j + 1 : q[i] = n
    <3>1. CASE n = cursor
      <4>1. j + 1 \in 1..j + 1
        BY <1>6
      <4> QED BY <1>7, <3>1, <4>1
    <3>2. CASE n <= cursor - 1
      <4>1. PICK i \in 1..j : known[i] = n
        BY <1>5, <1>7, <3>2
      <4>2. i \in 1..j + 1 /\ q[i] = n
        BY <1>6, <1>7, <4>1
      <4> QED BY <4>2
    <3> QED BY <2>4, <2>6, <3>1, <3>2
  <2>7. ASSUME NEW m \in 1..cursor
        PROVE  \E n \in Commands(sid) : n <= cursor /\ m <= n
    BY <1>4
  <2> QED BY <1>7, <1>10, <2>1, <2>2, <2>3, <2>5, <2>6, <2>7 DEF AccInv
<1> QED BY <1>1, <1>3, <1>12, <1>13, EnterKeeps

\* The statements of update_session: the row, then a turn and its count.
LEMMA StoreSteps ==
    ASSUME Calm, CalmInv, NotAheadInv', Upsert \/ RecordTurn \/ CountTurn
    PROVE  CalmInv'
<1>1. /\ UNCHANGED <<history, base, phase, rotations, offset, span, cursor, last, held, acc, high, restarts, ended>>
      /\ pc \in {"upsert", "turn", "count"} /\ pc' \in {"turn", "count"} /\ rows \subseteq rows'
  BY DEF Upsert, RecordTurn, CountTurn, UpsertSession, InsertTurn, BumpCount, trailVars
<1>2. /\ cursor \in 1..Len(history) /\ sid \in Session /\ cursor \in Nat /\ Len(history) \in Nat /\ pc \in InBatch
      /\ line = history[cursor] /\ sid = history[cursor].sid /\ cursor <= high + 1 /\ high \in Nat /\ restarts \in Nat
  BY <1>1, AtCursor, CalmFacts DEF InHandler
<1>3. /\ turns \in [Session -> Seq(Nat)] /\ count \in [Session -> Nat] /\ rows \subseteq Session
      /\ acc \in [Session -> Seq(Nat)]
  BY DEF CalmInv, NotAheadInv, TypeOK, StoreTypeOK, ProcTypeOK
<1>4. line' = line /\ sid' = sid /\ Reach' = Reach /\ Reach = cursor /\ Handling /\ Handling'
  BY <1>1 DEF line, sid, Reach, Handling
<1>5. FirstInv' /\ PassInv'
  BY <1>1 DEF CalmInv, FirstInv, HasLine, PassInv, InBatch, InHandler
<1>6. RowsInv'
  BY <1>1 DEF CalmInv, RowsInv
<1>7. HandlerInv /\ sid \in held /\ TurnsInv(sid) /\ AccInv(sid) /\ CountInv(sid)
  BY <1>2, <1>4 DEF CalmInv, HandlerInv
<1>8. \A t : Commands(t)' = Commands(t)
  BY <1>1 DEF Commands, IsCommand
\* Sessions other than the line's.
<1>9. ASSUME NEW t \in Session, t # sid, turns'[t] = turns[t], count'[t] = count[t], t \in rows' => t \in rows
      PROVE  TurnsInv(t)' /\ AccInv(t)' /\ CountInv(t)'
  <2>1. TurnsInv(t) /\ AccInv(t) /\ CountInv(t)
    BY DEF CalmInv
  <2>2. Uncounted(t)' = Uncounted(t)
    BY <1>4, <1>9 DEF Uncounted
  <2>3. TurnsInv(t)'
    BY <1>1, <1>8, <1>9, <2>1 DEF TurnsInv, Stored
  <2>4. AccInv(t)'
    BY <1>1, <1>4, <1>8, <1>9, <2>1 DEF AccInv
  <2>5. CountInv(t)'
    BY <1>1, <1>9, <2>1, <2>2 DEF CountInv
  <2> QED BY <2>3, <2>4, <2>5
<1>10. CASE Upsert
  <2>1. /\ pc = "upsert" /\ pc' = "turn" /\ turns' = turns /\ pending' = pending /\ rows' = rows \union {sid}
        /\ count' = IF sid \in rows THEN count ELSE [count EXCEPT ![sid] = Len(acc[sid])]
    BY <1>10 DEF Upsert, UpsertSession
  <2>2. Fresh' = Fresh /\ Stored(sid, cursor)' = Stored(sid, cursor)
    BY <1>1, <1>4, <2>1 DEF Fresh, Stored
  <2>3. HandlerInv'
    BY <1>1, <1>4, <1>7, <2>1, <2>2 DEF HandlerInv
  <2>4. TurnsInv(sid)'
    BY <1>1, <1>4, <1>7, <1>8, <2>1 DEF TurnsInv, Stored
  <2>5. AccInv(sid)'
    BY <1>1, <1>4, <1>7, <1>8, <2>1, <2>2 DEF AccInv
  \* A row is made by the opened line: there is no turn yet.
  <2>6. ASSUME sid \notin rows
        PROVE  Len(acc[sid]) = 0 /\ Len(turns[sid]) = 0
    <3>1. turns[sid] = <<>>
      BY <1>7, <2>6 DEF TurnsInv
    <3>2. line.kind # "command"
      <4> SUFFICES ASSUME line.kind = "command" PROVE FALSE
        OBVIOUS
      <4>1. PICK m \in 1..cursor - 1 : history[m].sid = sid
        BY <1>2, OpenedFirst
      <4>2. m \in 1..high
        BY <1>2, <4>1
      <4> QED BY <2>6, <4>1, <4>2 DEF CalmInv, RowsInv
    <3>3. ~Fresh
      BY <1>7, <3>2 DEF HandlerInv
    <3>4. \A i \in DOMAIN acc[sid] : i \in DOMAIN turns[sid]
      BY <1>7, <3>3 DEF AccInv
    <3>5. acc[sid] \in Seq(Nat) /\ DOMAIN turns[sid] = {} /\ Len(turns[sid]) = 0
      BY <1>2, <1>3, <3>1
    <3>6. Len(acc[sid]) \in Nat /\ DOMAIN acc[sid] = 1..Len(acc[sid])
      BY <3>5
    <3>7. \A i \in 1..Len(acc[sid]) : FALSE
      BY <3>4, <3>5, <3>6
    <3> QED BY <3>5, <3>6, <3>7
  <2>7. CountInv(sid)'
    <3>1. Uncounted(sid)' = 0 /\ Uncounted(sid) = 0
      BY <1>4, <2>1 DEF Uncounted
    <3>2. count'[sid] = IF sid \in rows THEN count[sid] ELSE Len(acc[sid])
      BY <1>2, <1>3, <2>1
    <3>3. sid \in rows'
      BY <2>1
    <3>4. count'[sid] + 0 <= Len(turns'[sid]) /\ Len(turns'[sid]) <= count'[sid] + 0 + restarts
      <4>1. CASE sid \in rows
        BY <1>7, <2>1, <3>1, <3>2, <4>1 DEF CountInv
      <4>2. CASE sid \notin rows
        BY <1>2, <2>1, <2>6, <3>2, <4>2
      <4> QED BY <4>1, <4>2
    <3> QED BY <1>1, <1>4, <3>1, <3>3, <3>4 DEF CountInv
  <2>8. ASSUME NEW t \in Session PROVE TurnsInv(t)' /\ AccInv(t)' /\ CountInv(t)'
    <3>1. CASE t = sid
      BY <1>4, <2>4, <2>5, <2>7, <3>1
    <3>2. CASE t # sid
      <4>1. turns'[t] = turns[t] /\ count'[t] = count[t] /\ (t \in rows' => t \in rows)
        BY <1>2, <1>3, <2>1, <3>2
      <4> QED BY <1>9, <3>2, <4>1
    <3> QED BY <3>1, <3>2
  <2> QED BY <1>5, <1>6, <2>3, <2>8 DEF CalmInv
<1>11. CASE RecordTurn
  <2>1. /\ pc = "turn" /\ pc' = "count" /\ pending # <<>> /\ pending' = pending /\ rows' = rows /\ count' = count
        /\ turns' = [turns EXCEPT ![sid] = Append(turns[sid], Head(pending))]
    BY <1>11 DEF RecordTurn, InsertTurn
  <2>2. /\ Fresh /\ pending = <<cursor>> /\ line.kind = "command" /\ ~Stored(sid, cursor) /\ cursor > high
        /\ Len(acc[sid]) = Len(turns[sid]) + 1 /\ acc[sid][Len(acc[sid])] = cursor /\ sid \in rows
    BY <1>7, <2>1 DEF Fresh, HandlerInv
  <2>3. ~Fresh'
    BY <2>1 DEF Fresh
  <2> DEFINE k == Len(turns[sid])
             T == turns'[sid]
  <2>4. /\ k \in Nat /\ DOMAIN turns[sid] = 1..k /\ DOMAIN T = 1..k + 1 /\ Len(T) = k + 1
        /\ \A i \in 1..k : T[i] = turns[sid][i]
        /\ T[k + 1] = cursor
    <3>1. T = Append(turns[sid], cursor) /\ turns[sid] \in Seq(Nat)
      BY <1>2, <1>3, <2>1, <2>2
    <3>2. T \in Seq(Nat) /\ Len(T) = k + 1
      BY <1>2, <3>1, AppendProperties
    <3> QED BY <1>2, <3>1, <3>2, AppendProperties
  <2> HIDE DEF k, T
  <2>5. cursor \in Commands(sid)
    BY <1>2, <2>2, CommandsAre
  <2>6. Stored(sid, cursor)'
    <3>1. k + 1 \in DOMAIN T /\ T[k + 1] = cursor
      BY <2>4
    <3> QED BY <1>1, <1>4, <3>1 DEF Stored, T
  <2>7. HandlerInv'
    BY <1>1, <1>4, <1>7, <2>1, <2>2, <2>3, <2>6 DEF HandlerInv
  <2>8. TurnsInv(sid)'
    <3>1. ASSUME NEW i \in 1..k + 1
          PROVE  T[i] \in Commands(sid) /\ T[i] <= high + 1 /\ (i <= k => T[i] < cursor)
      <4>1. CASE i \in 1..k
        <5>1. turns[sid][i] \in Commands(sid) /\ turns[sid][i] <= high + 1 /\ turns[sid][i] \in Nat
          <6>1. turns[sid][i] \in Nat
            BY <1>2, <1>3, <2>4, <4>1
          <6> QED BY <1>7, <2>4, <4>1, <6>1 DEF TurnsInv
        <5>2. turns[sid][i] # cursor
          BY <2>2, <2>4, <4>1 DEF Stored
        <5> QED BY <1>2, <2>2, <2>4, <4>1, <5>1, <5>2
      <4>2. CASE i = k + 1
        BY <1>2, <2>4, <2>5, <4>2
      <4> QED BY <2>4, <4>1, <4>2
    <3>2. ASSUME NEW i \in 1..k + 1, NEW j \in 1..k + 1, i < j
          PROVE  T[i] < T[j]
      <4>1. i \in 1..k
        BY <2>4, <3>2
      <4>2. CASE j \in 1..k
        BY <1>7, <2>4, <3>2, <4>1, <4>2 DEF TurnsInv
      <4>3. CASE j = k + 1
        BY <2>4, <3>1, <4>1, <4>3
      <4> QED BY <2>4, <4>2, <4>3
    <3>3. ASSUME NEW n \in Commands(sid), n <= high
          PROVE  \E i \in 1..k + 1 : T[i] = n
      <4>1. PICK i \in 1..k : turns[sid][i] = n
        BY <1>7, <2>4, <3>3 DEF TurnsInv, Stored
      <4>2. i \in 1..k + 1 /\ T[i] = n
        BY <2>4, <4>1
      <4> QED BY <4>2
    <3>4. DOMAIN T = 1..k + 1
      BY <2>4
    <3> QED BY <1>1, <1>4, <1>8, <2>1, <2>2, <3>1, <3>2, <3>3, <3>4 DEF TurnsInv, Stored, T
  <2>9. AccInv(sid)'
    <3>1. ASSUME NEW i \in DOMAIN acc[sid]
          PROVE  i \in 1..k + 1 /\ acc[sid][i] = T[i]
      <4>1. CASE i \in DOMAIN turns[sid] /\ acc[sid][i] = turns[sid][i]
        BY <2>4, <4>1
      <4>2. CASE i = Len(acc[sid])
        BY <2>2, <2>4, <4>2 DEF k
      <4> QED BY <1>7, <3>1, <4>1, <4>2 DEF AccInv
    <3>2. DOMAIN T = 1..k + 1
      BY <2>4
    <3> QED BY <1>1, <1>4, <1>7, <1>8, <3>1, <3>2 DEF AccInv, T
  <2>10. CountInv(sid)'
    <3>1. Uncounted(sid)' = 1 /\ Uncounted(sid) = 0
      BY <1>4, <2>1 DEF Uncounted
    <3>2. count[sid] \in Nat /\ Len(T) = Len(turns[sid]) + 1
      BY <1>2, <1>3, <2>4 DEF k
    <3>3. count[sid] + 0 <= Len(turns[sid]) /\ Len(turns[sid]) <= count[sid] + 0 + restarts
      BY <1>7, <3>1 DEF CountInv
    <3>4. count[sid] + 1 <= Len(T) /\ Len(T) <= count[sid] + 1 + restarts
      BY <1>2, <2>4, <3>2, <3>3 DEF k
    <3> QED BY <1>1, <1>4, <2>1, <2>2, <3>1, <3>4 DEF CountInv, T
  <2>11. ASSUME NEW t \in Session PROVE TurnsInv(t)' /\ AccInv(t)' /\ CountInv(t)'
    <3>1. CASE t = sid
      BY <1>4, <2>8, <2>9, <2>10, <3>1
    <3>2. CASE t # sid
      <4>1. turns'[t] = turns[t]
        BY <1>3, <2>1, <3>2
      <4> QED BY <1>9, <2>1, <3>2, <4>1
    <3> QED BY <3>1, <3>2
  <2> QED BY <1>5, <1>6, <2>7, <2>11 DEF CalmInv
<1>12. CASE CountTurn
  <2>1. /\ pc = "count" /\ pc' = "turn" /\ pending' = Tail(pending) /\ rows' = rows /\ turns' = turns
        /\ count' = [count EXCEPT ![sid] = @ + 1]
    BY <1>12 DEF CountTurn, BumpCount
  <2>2. pending = <<cursor>> /\ line.kind = "command" /\ Stored(sid, cursor) /\ sid \in rows
    BY <1>7, <2>1 DEF HandlerInv
  <2>3. pending' = <<>>
    BY <2>1, <2>2
  <2>4. ~Fresh /\ ~Fresh' /\ Stored(sid, cursor)'
    BY <1>1, <1>4, <2>1, <2>2, <2>3 DEF Fresh, Stored
  <2>5. HandlerInv'
    BY <1>1, <1>4, <1>7, <2>1, <2>2, <2>4 DEF HandlerInv
  <2>6. TurnsInv(sid)'
    BY <1>1, <1>4, <1>7, <1>8, <2>1 DEF TurnsInv, Stored
  <2>7. AccInv(sid)'
    BY <1>1, <1>4, <1>7, <1>8, <2>1, <2>4 DEF AccInv
  <2>8. CountInv(sid)'
    <3>1. Uncounted(sid)' = 0 /\ Uncounted(sid) = 1
      BY <1>4, <2>1 DEF Uncounted
    <3>2. count'[sid] = count[sid] + 1 /\ count[sid] \in Nat
      BY <1>2, <1>3, <2>1
    <3> QED BY <1>1, <1>4, <1>7, <2>1, <2>2, <3>1, <3>2 DEF CountInv
  <2>9. ASSUME NEW t \in Session PROVE TurnsInv(t)' /\ AccInv(t)' /\ CountInv(t)'
    <3>1. CASE t = sid
      BY <1>4, <2>6, <2>7, <2>8, <3>1
    <3>2. CASE t # sid
      <4>1. count'[t] = count[t]
        BY <1>3, <2>1, <3>2
      <4> QED BY <1>9, <2>1, <3>2, <4>1
    <3> QED BY <3>1, <3>2
  <2> QED BY <1>5, <1>6, <2>5, <2>9 DEF CalmInv
<1> QED BY <1>10, <1>11, <1>12

\* A handler that returns: the line at the cursor was dispatched.
LEMMA DoneKeeps ==
    ASSUME Calm, CalmInv, NotAheadInv', pc \in InBatch, cursor \in 1..last, LineDone,
           UNCHANGED <<trailVars, rows, turns, count, held, acc, pending>>,
           ~Fresh, pc # "count", sid \in rows,
           Reach = cursor \/ (Reach = cursor - 1 /\ (sid \notin held \/ line.kind = "intent")),
           line.kind = "command" => Stored(sid, cursor),
           ended \subseteq ended', line.kind = "closed" => sid \in ended',
           \A s \in ended' : s \in ended \/ (s = sid /\ line.kind = "closed")
    PROVE  CalmInv'
<1> USE DEF trailVars
<1>1. /\ history' = history /\ phase' = phase /\ rows' = rows /\ turns' = turns /\ count' = count /\ held' = held
      /\ acc' = acc /\ pc' = "dispatch" /\ cursor' = cursor + 1 /\ last' = last /\ restarts' = restarts
      /\ high' = IF cursor > high THEN cursor ELSE high
  BY DEF LineDone
<1>2. /\ cursor \in Nat /\ high \in Nat /\ cursor <= high + 1 /\ Len(history) \in Nat /\ last <= Len(history)
      /\ last \in Nat /\ high <= Len(history) /\ cursor \in 1..Len(history)
  BY CalmFacts
<1>3. /\ line = history[cursor] /\ sid = history[cursor].sid /\ line \in Line /\ sid \in Session
  BY <1>2, CalmFacts, LineAtCursor DEF line, sid, CalmInv, NotAheadInv
<1>4. /\ high' \in Nat /\ high <= high' /\ cursor <= high' /\ high' <= Len(history)
      /\ \A n \in 1..high' : n \in 1..high \/ n = cursor
  BY <1>1, <1>2
<1>5. /\ ~Handling' /\ ~Fresh' /\ Reach' = cursor /\ \A t : Uncounted(t)' = 0 /\ Uncounted(t) = 0
  <2>1. pc' = "dispatch" /\ cursor' - 1 = cursor
    BY <1>1, <1>2
  <2> QED BY <2>1 DEF Handling, Fresh, Reach, InBatch, InHandler, Uncounted
<1>6. FirstInv' /\ HandlerInv'
  <2>1. FirstInv'
    BY DEF CalmInv, FirstInv, HasLine
  <2>2. HandlerInv'
    BY <1>1, <1>5 DEF HandlerInv
  <2> QED BY <2>1, <2>2
<1>7. PassInv'
  <2>1. last >= high /\ cursor <= last
    BY <1>2 DEF CalmInv, PassInv
  <2> QED BY <1>1, <1>2, <2>1 DEF PassInv
<1>8. RowsInv'
  <2>1. RowsInv
    BY DEF CalmInv
  <2>2. ASSUME NEW s \in ended'
        PROVE  \E n \in 1..high' : history[n] = [kind |-> "closed", sid |-> s]
    <3>1. CASE s \in ended
      <4>1. PICK n \in 1..high : history[n] = [kind |-> "closed", sid |-> s]
        BY <2>1, <3>1 DEF RowsInv
      <4>2. n \in 1..high'
        BY <1>2, <1>4, <4>1
      <4> QED BY <4>1, <4>2
    <3>2. CASE s = sid /\ line.kind = "closed"
      <4>1. history[cursor] = [kind |-> "closed", sid |-> s]
        BY <1>3, <3>2 DEF Line, sid
      <4>2. cursor \in 1..high'
        BY <1>2, <1>4
      <4> QED BY <4>1, <4>2
    <3> QED BY <2>2, <3>1, <3>2
  <2> QED BY <1>1, <1>3, <1>4, <2>1, <2>2 DEF RowsInv
<1>9. ASSUME NEW t \in Session PROVE TurnsInv(t)' /\ AccInv(t)' /\ CountInv(t)'
  <2>1. TurnsInv(t) /\ AccInv(t) /\ CountInv(t)
    BY DEF CalmInv
  <2>2. Commands(t)' = Commands(t) /\ Commands(t) \subseteq 1..Len(history)
    BY CommandsAre DEF Commands, IsCommand
  <2>3. turns[t] \in Seq(Nat)
    BY DEF CalmInv, NotAheadInv, TypeOK, StoreTypeOK
  <2>4. TurnsInv(t)'
    <3>1. ASSUME NEW i \in DOMAIN turns[t]
          PROVE  turns[t][i] \in Commands(t) /\ turns[t][i] <= high' + 1
      <4>1. turns[t][i] \in Nat
        BY <2>3
      <4> QED BY <1>2, <1>4, <2>1, <4>1 DEF TurnsInv
    <3>2. ASSUME NEW n \in Commands(t), n <= high'
          PROVE  \E i \in DOMAIN turns[t] : turns[t][i] = n
      <4>1. n \in 1..high'
        BY <1>4, <2>2, <3>2
      <4>2. CASE n \in 1..high
        BY <1>2, <2>1, <4>2 DEF TurnsInv, Stored
      <4>3. CASE n = cursor
        <5>1. line.kind = "command" /\ sid = t
          BY <1>2, <1>3, <4>3, CommandsAre
        <5>2. Stored(t, cursor)
          BY <5>1
        <5> QED BY <4>3, <5>2 DEF Stored
      <4> QED BY <1>4, <4>1, <4>2, <4>3
    <3> QED BY <1>1, <2>1, <2>2, <3>1, <3>2 DEF TurnsInv, Stored
  <2>5. AccInv(t)'
    <3> SUFFICES ASSUME t \in held PROVE AccInv(t)'
      BY <1>1 DEF AccInv
    <3>1. ASSUME NEW n \in Commands(t), n <= cursor PROVE n <= Reach
      <4>1. CASE Reach = cursor
        BY <3>1, <4>1
      <4>2. CASE Reach = cursor - 1 /\ (sid \notin held \/ line.kind = "intent")
        <5>1. n # cursor
          BY <1>2, <1>3, <4>2, CommandsAre
        <5> QED BY <1>2, <2>2, <3>1, <4>2, <5>1
      <4> QED BY <4>1, <4>2
    <3>2. ASSUME NEW m \in 1..cursor, history[m] = [kind |-> "closed", sid |-> t]
          PROVE  m \in 1..Reach
      <4>1. CASE Reach = cursor
        BY <3>2, <4>1
      <4>2. CASE Reach = cursor - 1 /\ (sid \notin held \/ line.kind = "intent")
        <5>1. history[m].sid = t /\ history[m].kind = "closed"
          BY <3>2
        <5>2. m # cursor
          BY <1>3, <4>2, <5>1
        <5> QED BY <1>2, <3>2, <4>2, <5>2
      <4> QED BY <4>1, <4>2
    <3>3. Reach <= cursor /\ Reach \in Int
      BY <1>2
    <3>4. ASSUME NEW i \in DOMAIN acc[t]
          PROVE  acc[t][i] \in Commands(t) /\ acc[t][i] <= cursor
      <4>1. acc[t][i] \in Commands(t) /\ acc[t][i] <= Reach
        BY <2>1 DEF AccInv
      <4> QED BY <1>2, <2>2, <3>3, <4>1
    <3>5. \A n \in Commands(t) : n <= Reach => n <= cursor
      BY <1>2, <2>2, <3>3
    <3> QED BY <1>1, <1>5, <2>1, <2>2, <3>1, <3>2, <3>4, <3>5 DEF AccInv
  <2>6. CountInv(t)'
    BY <1>1, <1>5, <2>1 DEF CountInv
  <2> QED BY <2>4, <2>5, <2>6
<1> QED BY <1>6, <1>7, <1>8, <1>9 DEF CalmInv

LEMMA LineKeeps ==
    ASSUME Calm, CalmInv, NotAheadInv', SkipReplay \/ Updated \/ End \/ HandleIntent
    PROVE  CalmInv'
<1> USE DEF InBatch, InHandler, storeVars
<1>1. cursor \in 1..last /\ pc \in InBatch /\ cursor \in 1..Len(history) /\ sid = history[cursor].sid
      /\ line = history[cursor] /\ cursor \in Nat /\ high \in Nat /\ cursor <= high + 1
  <2>1. pc \in InHandler \/ (pc = "dispatch" /\ cursor <= last)
    BY DEF SkipReplay, Updated, End, HandleIntent, At
  <2>2. cursor \in 1..last /\ pc \in InBatch /\ cursor \in 1..Len(history) /\ sid = history[cursor].sid
        /\ line = history[cursor]
    BY <2>1, AtCursor
  <2> QED BY <2>2, CalmFacts
<1>2. HandlerInv
  BY DEF CalmInv
<1>3. CASE SkipReplay
  <2>1. /\ pc = "dispatch" /\ line.kind = "command" /\ LineDone /\ UNCHANGED <<trailVars, storeVars, held, acc, pending>>
        /\ sid \notin held /\ sid \in rows /\ Stored(sid, cursor)
    BY <1>3 DEF SkipReplay, At, IsReplay
  <2>2. ~Fresh /\ Reach = cursor - 1
    BY <2>1 DEF Fresh, Reach, Handling
  <2> QED BY <1>1, <2>1, <2>2, DoneKeeps
<1>4. CASE Updated
  <2>1. pc = "turn" /\ pending = <<>> /\ LineDone /\ UNCHANGED <<trailVars, storeVars, held, acc, pending>>
    BY <1>4 DEF Updated
  <2>2. ~Fresh /\ Reach = cursor /\ Handling
    BY <2>1 DEF Fresh, Reach, Handling
  <2>3. sid \in rows /\ line.kind \in {"opened", "command"} /\ (line.kind = "command" => Stored(sid, cursor))
    BY <1>2, <2>1, <2>2 DEF HandlerInv
  <2> QED BY <1>1, <2>1, <2>2, <2>3, DoneKeeps
<1>5. CASE End
  <2>1. /\ pc = "end" /\ LineDone /\ UNCHANGED <<trailVars, rows, turns, count, held, acc, pending>>
        /\ ended' = IF sid \in rows THEN ended \union {sid} ELSE ended
    BY <1>5 DEF End, EndSession
  <2>2. ~Fresh /\ Reach = cursor - 1
    BY <2>1 DEF Fresh, Reach, Handling
  <2>3. line.kind = "closed" /\ sid \notin held
    BY <1>2, <2>1 DEF HandlerInv
  <2>4. sid \in rows
    <3>1. PICK m \in 1..cursor - 1 : history[m].sid = sid
      BY <1>1, <2>3, OpenedFirst
    <3>2. m \in 1..high
      BY <1>1, <3>1
    <3> QED BY <3>1, <3>2 DEF CalmInv, RowsInv
  <2>5. ended' = ended \union {sid}
    BY <2>1, <2>4
  <2> QED BY <1>1, <2>1, <2>2, <2>3, <2>4, <2>5, DoneKeeps
<1>6. CASE HandleIntent
  <2>1. /\ pc = "dispatch" /\ line.kind = "intent" /\ LineDone /\ sid \in rows
        /\ UNCHANGED <<trailVars, rows, turns, count, ended, held, acc, pending>>
    BY <1>6 DEF HandleIntent, UpsertIntent, At
  <2>2. ~Fresh /\ Reach = cursor - 1
    BY <2>1 DEF Fresh, Reach, Handling
  <2> QED BY <1>1, <2>1, <2>2, DoneKeeps
<1> QED BY <1>3, <1>4, <1>5, <1>6

LEMMA ClosedKeeps ==
    ASSUME Calm, CalmInv, NotAheadInv', HandleClosed
    PROVE  CalmInv'
<1> USE DEF trailVars, storeVars
<1>1. /\ pc = "dispatch" /\ cursor <= last /\ line.kind = "closed" /\ pc' = "end"
      /\ held' = held \ {sid} /\ acc' = [acc EXCEPT ![sid] = <<>>]
      /\ UNCHANGED <<offset, span, cursor, last, trailVars, storeVars, high, restarts>>
  BY DEF HandleClosed, At
<1>2. line' = line /\ sid' = sid /\ Reach' = Reach /\ ~Fresh /\ ~Fresh' /\ ~Handling'
  BY <1>1 DEF line, sid, Reach, Fresh, Handling, InBatch, InHandler
<1>3. FirstInv' /\ RowsInv' /\ PassInv'
  BY <1>1 DEF CalmInv, FirstInv, HasLine, RowsInv, PassInv, InBatch, InHandler
<1>4. HandlerInv'
  BY <1>1, <1>2 DEF HandlerInv, Handling
<1>5. ASSUME NEW t \in Session PROVE TurnsInv(t)' /\ AccInv(t)' /\ CountInv(t)'
  <2>1. TurnsInv(t) /\ AccInv(t) /\ CountInv(t)
    BY DEF CalmInv
  <2>2. Commands(t)' = Commands(t)
    BY <1>1 DEF Commands, IsCommand
  <2>3. t \in held' => t \in held /\ acc'[t] = acc[t]
    BY <1>1 DEF CalmInv, NotAheadInv, TypeOK, ProcTypeOK
  <2>4. TurnsInv(t)' /\ CountInv(t)'
    BY <1>1, <2>1, <2>2 DEF TurnsInv, Stored, CountInv, Uncounted
  <2>5. AccInv(t)'
    BY <1>1, <1>2, <2>1, <2>2, <2>3 DEF AccInv
  <2> QED BY <2>4, <2>5
<1> QED BY <1>3, <1>4, <1>5 DEF CalmInv

LEMMA CalmNext ==
    ASSUME Calm, CalmInv, [Next]_vars
    PROVE  CalmInv'
<1>1. NotAheadInv'
  BY NotAhead_Next DEF CalmInv
<1>2. CASE Next
  BY <1>1, <1>2, TrailKeeps, PassKeeps, NothingFails, OpenedKeeps, CommandKeeps, StoreSteps, LineKeeps, ClosedKeeps
  DEF Next, Work
<1>3. CASE UNCHANGED vars
  <2> USE <1>3 DEF vars, trailVars, storeVars, tailerVars, procVars, failVars
  <2>1. line' = line /\ sid' = sid
    BY DEF line, sid
  <2>2. FirstInv' /\ RowsInv' /\ PassInv' /\ HandlerInv'
    BY <2>1 DEF CalmInv, FirstInv, HasLine, RowsInv, PassInv, HandlerInv, InBatch, InHandler, Handling, Fresh, Stored
  <2>3. ASSUME NEW t \in Session PROVE TurnsInv(t)' /\ AccInv(t)' /\ CountInv(t)'
    <3>1. TurnsInv(t) /\ AccInv(t) /\ CountInv(t)
      BY DEF CalmInv
    <3>2. Commands(t)' = Commands(t) /\ Reach' = Reach /\ Fresh' = Fresh
      BY DEF Commands, IsCommand, Reach, Fresh, Handling, InBatch, InHandler
    <3>3. TurnsInv(t)' /\ CountInv(t)'
      BY <2>1, <3>1, <3>2 DEF TurnsInv, Stored, CountInv, Uncounted
    <3>4. AccInv(t)'
      BY <2>1, <3>1, <3>2 DEF AccInv
    <3> QED BY <3>3, <3>4
  <2> QED BY <1>1, <2>2, <2>3 DEF CalmInv
<1> QED BY <1>2, <1>3

LEMMA CalmInit ==
    ASSUME Init
    PROVE  CalmInv
<1> USE DEF Init, TrailInit, StoreInit, InBatch, InHandler
<1>1. NotAheadInv
  BY InitTypeOK DEF NotAheadInv
<1>2. FirstInv /\ PassInv /\ RowsInv
  BY DEF FirstInv, PassInv, RowsInv
<1>3. HandlerInv
  BY DEF HandlerInv, Handling, Fresh
<1>4. ASSUME NEW s \in Session PROVE TurnsInv(s) /\ AccInv(s) /\ CountInv(s)
  <2>1. Commands(s) = {} /\ turns[s] = <<>> /\ count[s] = 0 /\ restarts = 0 /\ Len(turns[s]) = 0 /\ DOMAIN turns[s] = {}
    BY DEF Commands
  <2>2. TurnsInv(s) /\ AccInv(s)
    BY <2>1 DEF TurnsInv, AccInv
  <2>3. Uncounted(s) = 0
    BY DEF Uncounted
  <2>4. CountInv(s)
    BY <2>1, <2>3 DEF CountInv
  <2> QED BY <2>2, <2>4
<1> QED BY <1>1, <1>2, <1>3, <1>4 DEF CalmInv

\* A session's turns are its commands, in their order and each once, however often
\* the dashboard dies between a statement and the offset's save, stops within a
\* batch and repeats lines (audit_tailer.py _handle_command, state.py
\* update_session, store.py record_turn); as long as nothing is rotated, no
\* statement fails and a session's opened line comes first.
THEOREM TurnsKept ==
    ASSUME Calm
    PROVE  Spec => []TurnsExactlyOnce
<1>1. Init => CalmInv
  BY CalmInit
<1>2. CalmInv /\ [Next]_vars => CalmInv'
  BY CalmNext
<1>3. CalmInv => TurnsExactlyOnce
  BY DEF CalmInv, TurnsInv, TurnsExactlyOnce
<1> QED BY <1>1, <1>2, <1>3, PTL DEF Spec

LEMMA CalmAgrees ==
    ASSUME Calm, CalmInv
    PROVE  RowsAgree
<1> USE CalmFacts DEF CalmInv
<1>1. NoTurnLost
  <2> SUFFICES ASSUME NEW n \in 1..high, NEW s \in Session, IsCommand(n, s) PROVE Stored(s, n)
    BY DEF NoTurnLost
  <2>1. n \in Commands(s) /\ n <= high
    BY DEF Commands
  <2> QED BY <2>1 DEF TurnsInv
<1>2. ClosedStaysEnded
  BY DEF ClosedStaysEnded, RowsInv
<1>3. CountNearTurns
  <2>1. rows \subseteq Session /\ count \in [Session -> Nat]
    BY DEF NotAheadInv, TypeOK, StoreTypeOK
  <2> SUFFICES ASSUME NEW s \in rows, pc # "count"
               PROVE  count[s] <= Len(turns[s]) /\ Len(turns[s]) <= count[s] + restarts
    BY DEF CountNearTurns
  <2>2. CountInv(s) /\ Uncounted(s) = 0 /\ count[s] \in Nat
    BY <2>1 DEF Uncounted
  <2> QED BY <2>2 DEF CountInv
<1>4. AccumulatorIsPrefix
  <2>1. held \subseteq Session
    BY DEF NotAheadInv, TypeOK, ProcTypeOK
  <2> QED BY <2>1 DEF AccumulatorIsPrefix, AccInv, Fresh
<1>5. AccumulatorDropped
  <2> SUFFICES ASSUME pc = "idle", NEW s \in held \intersect ended
               PROVE  \E n \in Commands(s) : \E m \in 1..n : history[m] = [kind |-> "closed", sid |-> s]
    BY DEF AccumulatorDropped
  <2>1. s \in Session /\ AccInv(s)
    BY DEF NotAheadInv, TypeOK, ProcTypeOK
  <2>2. offset = high /\ Reach = offset
    BY DEF PassInv, Reach, Handling, InBatch, InHandler
  <2>3. PICK m \in 1..high : history[m] = [kind |-> "closed", sid |-> s]
    BY DEF RowsInv
  <2>4. PICK n \in Commands(s) : m <= n
    BY <2>1, <2>2, <2>3 DEF AccInv
  <2>5. n \in Nat
    BY CommandsAre
  <2> QED BY <2>3, <2>4, <2>5
<1> QED BY <1>1, <1>2, <1>3, <1>4, <1>5 DEF RowsAgree

\* No dispatched command is missing, a closed session stays ended, the count is
\* behind by no more than the crashes there were, and an accumulator is a prefix of
\* the stored turns that a closed session leaves none of, under the same condition
\* (state.py update_session and end_session, audit_tailer.py _handle_closed).
THEOREM RowsKept ==
    ASSUME Calm
    PROVE  Spec => []RowsAgree
<1>1. Init => CalmInv
  BY CalmInit
<1>2. CalmInv /\ [Next]_vars => CalmInv'
  BY CalmNext
<1>3. CalmInv => RowsAgree
  BY CalmAgrees
<1> QED BY <1>1, <1>2, <1>3, PTL DEF Spec

-----------------------------------------------------------------------------
(* The tailer and the store implement the ledger, step by step.            *)

LEMMA LedgerInit == Init => Ledger!Init
BY DEF Init, TrailInit, StoreInit, Ledger!Init

LEMMA LedgerStep ==
    ASSUME Calm, CalmInv, [Next]_vars
    PROVE  [Ledger!Next]_<<history, turns, ended>>
<1>1. CASE Trail
  <2>1. PICK k \in Kind, s \in Session : history' = Append(history, [kind |-> k, sid |-> s])
    BY <1>1, Grown DEF Trail
  <2>2. UNCHANGED <<turns, ended>>
    BY <1>1 DEF Trail, storeVars
  <2> QED BY <2>1, <2>2 DEF Ledger!Next, Ledger!Write
\* The insertion takes the command in: those before it are dispatched, so they are stored.
<1>2. CASE RecordTurn
  <2>1. /\ pc = "turn" /\ pending # <<>> /\ UNCHANGED <<history, ended>>
        /\ turns' = [turns EXCEPT ![sid] = Append(@, Head(pending))]
    BY <1>2 DEF RecordTurn, InsertTurn, trailVars
  <2>2. pending = <<cursor>> /\ line.kind = "command" /\ ~Stored(sid, cursor) /\ cursor > high
    BY <2>1 DEF CalmInv, HandlerInv, Fresh
  <2>3. /\ cursor \in 1..Len(history) /\ sid \in Session /\ line = history[cursor] /\ sid = history[cursor].sid
        /\ line \in Line /\ cursor \in Nat /\ cursor <= high + 1 /\ DOMAIN history = 1..Len(history)
    BY <2>1, AtCursor, CalmFacts DEF InHandler
  <2>4. Ledger!Is(cursor, "command", sid)
    BY <2>2, <2>3 DEF Ledger!Is, Line
  <2>5. ~Ledger!Taken(sid, cursor)
    BY <2>2 DEF Ledger!Taken, Stored
  <2>6. Ledger!CaughtUp(sid, cursor)
    <3> SUFFICES ASSUME NEW m \in DOMAIN history, m < cursor, Ledger!Is(m, "command", sid)
                 PROVE  Ledger!Taken(sid, m)
      BY DEF Ledger!CaughtUp
    <3>1. m \in Commands(sid) /\ m <= high
      BY <2>2, <2>3, CalmFacts DEF Ledger!Is, Commands, IsCommand
    <3>2. Stored(sid, m)
      BY <2>3, <3>1 DEF CalmInv, TurnsInv
    <3> QED BY <3>2 DEF Ledger!Taken, Stored
  <2>7. turns' = [turns EXCEPT ![sid] = Append(@, cursor)]
    BY <2>1, <2>2
  <2>8. cursor \in DOMAIN history
    BY <2>3
  <2>9. Ledger!TakeIn(sid)
    BY <2>1, <2>4, <2>5, <2>6, <2>7, <2>8 DEF Ledger!TakeIn
  <2> QED BY <2>3, <2>9 DEF Ledger!Next
\* A session is ended at its closed line, which everything before it precedes.
<1>3. CASE End
  <2>1. /\ pc = "end" /\ UNCHANGED <<history, turns>>
        /\ ended' = IF sid \in rows THEN ended \union {sid} ELSE ended
    BY <1>3 DEF End, EndSession, trailVars
  <2>2. line.kind = "closed"
    BY <2>1 DEF CalmInv, HandlerInv
  <2>3. /\ cursor \in 1..Len(history) /\ sid \in Session /\ line = history[cursor] /\ sid = history[cursor].sid
        /\ line \in Line /\ cursor \in Nat /\ high \in Nat /\ cursor <= high + 1 /\ DOMAIN history = 1..Len(history)
    BY <2>1, AtCursor, CalmFacts DEF InHandler
  <2>4. CASE sid \in rows /\ sid \notin ended
    <3>1. Ledger!Is(cursor, "closed", sid)
      BY <2>2, <2>3 DEF Ledger!Is, Line
    <3>2. Ledger!CaughtUp(sid, cursor)
      <4> SUFFICES ASSUME NEW m \in DOMAIN history, m < cursor, Ledger!Is(m, "command", sid)
                   PROVE  Ledger!Taken(sid, m)
        BY DEF Ledger!CaughtUp
      <4>1. m \in Commands(sid) /\ m <= high
        BY <2>3 DEF Ledger!Is, Commands, IsCommand
      <4>2. Stored(sid, m)
        BY <2>3, <4>1 DEF CalmInv, TurnsInv
      <4> QED BY <4>2 DEF Ledger!Taken, Stored
    <3>3. cursor \in DOMAIN history
      BY <2>3
    <3>4. ended' = ended \union {sid}
      BY <2>1, <2>4
    <3>5. Ledger!Close(sid)
      BY <2>1, <2>4, <3>1, <3>2, <3>3, <3>4 DEF Ledger!Close
    <3> QED BY <2>3, <3>5 DEF Ledger!Next
  <2>5. CASE sid \notin rows \/ sid \in ended
    BY <2>1, <2>5
  <2> QED BY <2>4, <2>5
\* The other steps stutter.
<1>4. CASE \/ Start \/ Crash \/ Stop \/ Poll \/ Read \/ Commit \/ Save \/ HandleOpened \/ HandleCommand
           \/ SkipReplay \/ Updated \/ HandleClosed
  BY <1>4 DEF Start, Crash, Stop, Poll, Read, Commit, Save, HandleOpened, HandleCommand, UpdateSession, SkipReplay,
     Updated, HandleClosed, trailVars, storeVars
<1>5. CASE Upsert \/ CountTurn \/ HandleIntent
  BY <1>5 DEF Upsert, UpsertSession, CountTurn, BumpCount, HandleIntent, UpsertIntent, trailVars
<1>6. CASE UNCHANGED vars
  BY <1>6 DEF vars, trailVars, storeVars
<1> QED BY <1>1, <1>2, <1>3, <1>4, <1>5, <1>6, NothingFails DEF Next, Work

\* The safety part of the ledger: what the turns table and ended_at show is what
\* taking in each command once and then closing would give, whatever crashes in
\* between (audit_tailer.py, state.py and store.py together).
THEOREM LedgerImplemented ==
    ASSUME Calm
    PROVE  Spec => Ledger!Safety
<1>1. Init => CalmInv /\ Ledger!Init
  BY CalmInit, LedgerInit
<1>2. CalmInv /\ [Next]_vars => CalmInv'
  BY CalmNext
<1>3. CalmInv /\ [Next]_vars => [Ledger!Next]_(Ledger!ledgerVars)
  BY LedgerStep DEF Ledger!ledgerVars
<1> QED BY <1>1, <1>2, <1>3, PTL DEF Spec, Ledger!Safety

-----------------------------------------------------------------------------
(* What is left under rotations, late opened lines, failed batches and one *)
(* restart: for any sessions, any trail and any number of faults.          *)

\* A closed line is its session's last but for a command that waited and the intent.
Over(s) == phase[s] \in {"draining", "closed"}

TrailOrder ==
    \A s \in Session : \A m \in DOMAIN history : history[m] = [kind |-> "closed", sid |-> s] =>
        /\ Over(s)
        /\ \A n \in DOMAIN history : history[n] = [kind |-> "opened", sid |-> s] => n < m

\* Where the tailer is in the log, and what it holds in a handler.
SceneInv ==
    /\ NotAheadInv /\ TrailOrder
    /\ \A s \in Session : turns[s] # <<>> => s \in rows
    /\ pc = "end" => line.kind = "closed" /\ sid \notin held
    /\ Handling => line.kind \in {"opened", "command"} /\ sid \in held
    /\ pc \in InBatch => base + offset + span = last \/ last <= base

\* What a writer does to the log and to the sessions that are over.
LEMMA Written ==
    ASSUME TypeOK, TrailNext
    PROVE  /\ \A t \in Session : Over(t) => Over(t)'
           /\ \/ /\ base' = Len(history) /\ history' = history /\ rotations' = rotations + 1
                 /\ base < Len(history) /\ phase' = phase
              \/ base' = base /\ history' = history /\ rotations' = rotations
              \/ /\ base' = base /\ rotations' = rotations
                 /\ \E k \in Kind, s \in Session :
                        /\ history' = Append(history, [kind |-> k, sid |-> s])
                        /\ k = "opened" => ~Over(s)
                        /\ k = "closed" => Over(s)'
<1>1. phase \in [Session -> Phase]
  BY DEF TypeOK, TrailTypeOK
<1>2. {"opened", "command", "closed", "intent"} = Kind
  BY DEF Kind
<1>3. CASE Rotate
  BY <1>3 DEF Rotate, Over
<1>4. ASSUME NEW s \in Session, LureOpened(s)
      PROVE  /\ \A t \in Session : Over(t) => Over(t)'
             /\ base' = base /\ rotations' = rotations
             /\ ~Over(s) /\ (history' = history \/ history' = Append(history, [kind |-> "opened", sid |-> s]))
  BY <1>1, <1>4 DEF LureOpened, Record, Over
<1>5. ASSUME NEW s \in Session, LureOpenedLate(s)
      PROVE  /\ \A t \in Session : Over(t) => Over(t)'
             /\ base' = base /\ rotations' = rotations
             /\ ~Over(s) /\ history' = Append(history, [kind |-> "opened", sid |-> s])
  BY <1>1, <1>5 DEF LureOpenedLate, Record, Over
<1>6. ASSUME NEW s \in Session, LureCommand(s)
      PROVE  /\ \A t \in Session : Over(t) => Over(t)'
             /\ base' = base /\ rotations' = rotations
             /\ history' = Append(history, [kind |-> "command", sid |-> s])
  BY <1>1, <1>6 DEF LureCommand, Record, Over
<1>7. ASSUME NEW s \in Session, LureClosed(s)
      PROVE  /\ \A t \in Session : Over(t) => Over(t)'
             /\ base' = base /\ rotations' = rotations /\ Over(s)'
             /\ history' = Append(history, [kind |-> "closed", sid |-> s])
  BY <1>1, <1>7 DEF LureClosed, Record, Over
<1>8. ASSUME NEW s \in Session, BridgeIntent(s)
      PROVE  /\ \A t \in Session : Over(t) => Over(t)'
             /\ base' = base /\ rotations' = rotations
             /\ history' = Append(history, [kind |-> "intent", sid |-> s])
  BY <1>8 DEF BridgeIntent, Record, Over
<1>9. CASE \E s \in Session : LureOpened(s) \/ LureOpenedLate(s) \/ LureCommand(s) \/ LureClosed(s) \/ BridgeIntent(s)
  <2>1. PICK s \in Session : LureOpened(s) \/ LureOpenedLate(s) \/ LureCommand(s) \/ LureClosed(s) \/ BridgeIntent(s)
    BY <1>9
  <2>2. CASE LureOpened(s)
    BY <1>2, <1>4, <2>2
  <2>3. CASE LureOpenedLate(s)
    BY <1>2, <1>5, <2>3
  <2>4. CASE LureCommand(s)
    BY <1>2, <1>6, <2>4
  <2>5. CASE LureClosed(s)
    BY <1>2, <1>7, <2>5
  <2>6. CASE BridgeIntent(s)
    BY <1>2, <1>8, <2>6
  <2> QED BY <2>1, <2>2, <2>3, <2>4, <2>5, <2>6
<1> QED BY <1>3, <1>9 DEF TrailNext

\* The lines that are there stay where they are.
LEMMA LinesStay ==
    ASSUME TypeOK, TrailNext
    PROVE  /\ Len(history) \in Nat /\ Len(history') \in Nat /\ Len(history) <= Len(history')
           /\ DOMAIN history = 1..Len(history) /\ DOMAIN history' = 1..Len(history')
           /\ \A n \in 1..Len(history) : history'[n] = history[n]
           /\ \/ base' = base /\ rotations' = rotations
              \/ /\ base' = Len(history) /\ base < Len(history)
                 /\ history' = history /\ rotations' = rotations + 1
<1>1. history \in Seq(Line)
  BY DEF TypeOK, TrailTypeOK
<1>2. CASE history' = history
  BY <1>1, <1>2, Written
<1>3. CASE \E k \in Kind, s \in Session : history' = Append(history, [kind |-> k, sid |-> s])
  <2>1. PICK k \in Kind, s \in Session : history' = Append(history, [kind |-> k, sid |-> s])
    BY <1>3
  <2>2. PICK x \in Line : x = [kind |-> k, sid |-> s]
    BY DEF Line
  <2>3. history' = Append(history, x)
    BY <2>1, <2>2
  <2>4. /\ Append(history, x) \in Seq(Line) /\ Len(Append(history, x)) = Len(history) + 1
        /\ \A n \in 1..Len(history) : Append(history, x)[n] = history[n]
    BY <1>1, AppendProperties
  <2>5. base' = base /\ rotations' = rotations
    <3>1. history' # history
      BY <1>1, <2>3, <2>4
    <3> QED BY <3>1, Written
  <2> QED BY <1>1, <2>3, <2>4, <2>5
<1> QED BY <1>2, <1>3, Written

LEMMA OrderKept ==
    ASSUME TypeOK, TrailOrder, TrailNext
    PROVE  TrailOrder'
<1> SUFFICES ASSUME NEW s \in Session, NEW m \in DOMAIN history', history'[m] = [kind |-> "closed", sid |-> s]
             PROVE  /\ Over(s)'
                    /\ \A n \in DOMAIN history' : history'[n] = [kind |-> "opened", sid |-> s] => n < m
  BY DEF TrailOrder
<1>1. history \in Seq(Line) /\ DOMAIN history = 1..Len(history) /\ Len(history) \in Nat
  BY DEF TypeOK, TrailTypeOK
<1>2. CASE history' = history
  BY <1>2, Written DEF TrailOrder
<1>3. CASE history' # history
  <2>1. PICK k \in Kind, t \in Session :
            /\ history' = Append(history, [kind |-> k, sid |-> t])
            /\ k = "opened" => ~Over(t)
            /\ k = "closed" => Over(t)'
    BY <1>3, Written
  <2>2. PICK x \in Line : x = [kind |-> k, sid |-> t]
    BY DEF Line
  <2>3. history' = Append(history, x)
    BY <2>1, <2>2
  <2>4. /\ Len(history') = Len(history) + 1 /\ DOMAIN history' = 1..Len(history) + 1
        /\ history'[Len(history) + 1] = x /\ \A n \in 1..Len(history) : history'[n] = history[n]
    BY <1>1, <2>3, AppendProperties
  <2>5. CASE m \in 1..Len(history)
    <3>1. history[m] = [kind |-> "closed", sid |-> s] /\ Over(s)
      BY <1>1, <2>4, <2>5 DEF TrailOrder
    <3>2. Over(s)'
      BY <3>1, Written
    <3>3. ASSUME NEW n \in DOMAIN history', history'[n] = [kind |-> "opened", sid |-> s]
          PROVE  n < m
      <4>1. CASE n \in 1..Len(history)
        BY <1>1, <2>4, <3>1, <3>3, <4>1 DEF TrailOrder
      <4>2. CASE n = Len(history) + 1
        <5>1. k = "opened" /\ t = s
          BY <2>2, <2>4, <3>3, <4>2
        <5> QED BY <2>1, <3>1, <5>1
      <4> QED BY <1>1, <2>4, <4>1, <4>2
    <3> QED BY <3>2, <3>3
  <2>6. CASE m = Len(history) + 1
    <3>1. k = "closed" /\ t = s
      BY <2>2, <2>4, <2>6
    <3>2. ASSUME NEW n \in DOMAIN history', history'[n] = [kind |-> "opened", sid |-> s]
          PROVE  n < m
      <4>1. n # m
        BY <3>2
      <4> QED BY <1>1, <2>4, <2>6, <4>1
    <3> QED BY <2>1, <3>1, <3>2
  <2> QED BY <1>1, <2>4, <2>5, <2>6
<1> QED BY <1>2, <1>3

LEMMA SceneFacts ==
    ASSUME SceneInv
    PROVE  /\ TypeOK /\ history \in Seq(Line) /\ Len(history) \in Nat /\ DOMAIN history = 1..Len(history)
           /\ base \in Nat /\ base <= Len(history) /\ FileSize \in Nat /\ base + FileSize = Len(history)
           /\ offset \in Nat /\ cache \in Nat /\ high \in Nat /\ cursor \in Nat /\ span \in Nat /\ last \in Nat
           /\ high <= Len(history) /\ rotations \in Nat /\ restarts \in Nat
           /\ turns \in [Session -> Seq(Nat)] /\ acc \in [Session -> Seq(Nat)] /\ pending \in Seq(Nat)
           /\ held \subseteq Session /\ rows \subseteq Session
           /\ pc \in InBatch => last <= Len(history) /\ 1 <= cursor /\ cursor <= last + 1
<1>1. TypeOK
  BY DEF SceneInv, NotAheadInv
<1>2. restarts \in Nat /\ rotations \in Nat
  BY <1>1, TailerAssumption, BoundsAssumption DEF TypeOK, TrailTypeOK
<1>3. history \in Seq(Line) /\ Len(history) \in Nat /\ DOMAIN history = 1..Len(history) /\ base \in 0..Len(history)
  BY <1>1 DEF TypeOK, TrailTypeOK
<1>4. FileSize \in Nat /\ base + FileSize = Len(history) /\ base \in Nat /\ base <= Len(history)
  BY <1>3 DEF FileSize
<1>5. /\ offset \in Nat /\ cache \in Nat /\ cursor \in Nat /\ span \in Nat /\ last \in Nat
      /\ acc \in [Session -> Seq(Nat)] /\ pending \in Seq(Nat) /\ held \subseteq Session
  BY <1>1 DEF TypeOK, ProcTypeOK
<1>6. turns \in [Session -> Seq(Nat)] /\ rows \subseteq Session
  BY <1>1 DEF TypeOK, StoreTypeOK
<1>7. pc \in InBatch => last <= Len(history) /\ 1 <= cursor /\ cursor <= last + 1
  BY <1>1, <1>3, <1>5 DEF TypeOK, BatchOK
<1>8. high \in Nat /\ high <= Len(history)
  BY <1>1, <1>3 DEF TypeOK
<1> QED BY <1>1, <1>2, <1>3, <1>4, <1>5, <1>6, <1>7, <1>8

LEMMA SceneLine ==
    ASSUME SceneInv, pc \in InHandler \/ (pc = "dispatch" /\ cursor <= last)
    PROVE  /\ pc \in InBatch /\ cursor \in 1..last /\ cursor \in 1..Len(history) /\ cursor \in DOMAIN history
           /\ line \in Line /\ line = history[cursor] /\ sid = history[cursor].sid /\ sid = line.sid /\ sid \in Session
           /\ history[cursor] = [kind |-> line.kind, sid |-> sid]
<1>1. pc \in InBatch /\ cursor <= last
  BY SceneFacts DEF InBatch, TypeOK, BatchOK
<1>2. cursor \in 1..last /\ cursor \in 1..Len(history)
  BY <1>1, SceneFacts
<1>3. line \in Line /\ sid \in Session
  BY <1>1, SceneFacts, LineAtCursor
<1> QED BY <1>1, <1>2, <1>3, SceneFacts DEF line, sid, Line

\* What the writers leave alone: all that the tailer and the store have, and the line at hand.
LEMMA TrailLeaves ==
    ASSUME SceneInv, Trail
    PROVE  /\ UNCHANGED <<rows, turns, count, ended, intents, cache, pc, offset, span, cursor, last, held, acc>>
           /\ UNCHANGED <<pending, high, restarts, faults, retried>>
           /\ pc \in InHandler => line' = line /\ sid' = sid
           /\ \A s, n : n \in 1..Len(history) => (IsCommand(n, s)' <=> IsCommand(n, s))
           /\ \A s : Commands(s) \subseteq 1..Len(history) /\ Commands(s)' \cap (1..Len(history)) = Commands(s)
<1>1. /\ UNCHANGED <<rows, turns, count, ended, intents, cache, pc, offset, span, cursor, last, held, acc>>
      /\ UNCHANGED <<pending, high, restarts, faults, retried>> /\ TrailNext
  BY DEF Trail, storeVars, tailerVars, procVars, failVars
<1>2. /\ DOMAIN history' = 1..Len(history') /\ Len(history) <= Len(history') /\ Len(history') \in Nat
      /\ \A n \in 1..Len(history) : history'[n] = history[n]
  BY <1>1, SceneFacts, LinesStay
<1>3. pc \in InHandler => line' = line /\ sid' = sid
  BY <1>1, <1>2, SceneLine DEF line, sid
<1>4. \A s, n : n \in 1..Len(history) => (IsCommand(n, s)' <=> IsCommand(n, s))
  BY <1>2 DEF IsCommand
<1>5. \A s : Commands(s) \subseteq 1..Len(history) /\ Commands(s)' \cap (1..Len(history)) = Commands(s)
  BY <1>2, <1>4, SceneFacts DEF Commands
<1> QED BY <1>1, <1>3, <1>4, <1>5

LEMMA SceneInit == Init => SceneInv
<1> SUFFICES ASSUME Init PROVE SceneInv
  OBVIOUS
<1>1. NotAheadInv
  <2>1. TypeOK
    BY InitTypeOK
  <2> QED BY <2>1 DEF Init, TrailInit, NotAheadInv, InBatch, InHandler
<1>2. history = <<>> /\ DOMAIN history = {} /\ pc = "down" /\ turns = [s \in Session |-> <<>>]
  BY DEF Init, TrailInit, StoreInit
<1> QED BY <1>1, <1>2 DEF SceneInv, TrailOrder, InBatch, InHandler, Handling

LEMMA SceneNext == ASSUME SceneInv, [Next]_vars PROVE SceneInv'
<1>1. NotAheadInv'
  BY NotAhead_Next DEF SceneInv
<1>2. TypeOK'
  BY <1>1 DEF NotAheadInv
<1>3. TrailOrder'
  <2>1. CASE Trail
    BY <2>1, OrderKept, SceneFacts DEF Trail, SceneInv
  <2>2. CASE UNCHANGED trailVars
    BY <2>2 DEF trailVars, TrailOrder, Over, SceneInv
  <2>3. Trail \/ UNCHANGED trailVars
    BY DEF Next, Start, Crash, Stop, Work, StoreFault, Poll, Read, Commit, Save, HandleOpened, HandleCommand,
           SkipReplay, UpdateSession, Upsert, RecordTurn, CountTurn, Updated, HandleClosed, End, HandleIntent,
           IntentRefused, vars
  <2> QED BY <2>1, <2>2, <2>3
<1>4. \A s \in Session : turns'[s] # <<>> => s \in rows'
  <2>1. CASE turns' = turns /\ rows \subseteq rows'
    BY <2>1 DEF SceneInv
  <2>2. CASE RecordTurn
    <3>1. sid \in rows /\ rows' = rows /\ turns' = [turns EXCEPT ![sid] = Append(@, Head(pending))]
      BY <2>2 DEF RecordTurn, InsertTurn
    <3> QED BY <3>1, SceneFacts DEF SceneInv
  <2>3. CASE Upsert
    BY <2>1, <2>3 DEF Upsert, UpsertSession
  <2>4. CASE CountTurn \/ End \/ HandleIntent
    BY <2>1, <2>4 DEF CountTurn, BumpCount, End, EndSession, HandleIntent, UpsertIntent
  <2>5. RecordTurn \/ Upsert \/ CountTurn \/ End \/ HandleIntent \/ UNCHANGED storeVars
    BY DEF Next, Trail, Start, Crash, Stop, Work, StoreFault, Poll, Read, Commit, Save, HandleOpened, HandleCommand,
           SkipReplay, UpdateSession, Updated, HandleClosed, IntentRefused, vars
  <2>6. CASE UNCHANGED storeVars
    BY <2>1, <2>6 DEF storeVars
  <2> QED BY <2>2, <2>3, <2>4, <2>5, <2>6
<1>5. CASE Trail
  <2>1. UNCHANGED <<pc, offset, span, last, held>> /\ (pc \in InHandler => line' = line /\ sid' = sid)
    BY <1>5, TrailLeaves
  <2>2. pc \in InBatch => base' + offset + span = last \/ last <= base'
    <3>1. base' = base \/ base' = Len(history)
      BY <1>5, SceneFacts, LinesStay DEF Trail
    <3> QED BY <3>1, SceneFacts DEF SceneInv
  <2> QED BY <1>1, <1>3, <1>4, <2>1, <2>2 DEF SceneInv, Handling, InHandler
<1>6. CASE pc' \notin InBatch
  BY <1>1, <1>3, <1>4, <1>6 DEF SceneInv, Handling, InBatch, InHandler
<1>7. CASE Read /\ pc' \in InBatch
  <2>1. pc' = "dispatch" /\ last' = base + offset + span' /\ base' = base /\ offset' = offset
    BY <1>7 DEF Read, InBatch, InHandler, trailVars
  <2> QED BY <1>1, <1>3, <1>4, <2>1 DEF SceneInv, Handling, InBatch, InHandler
<1>8. CASE HandleOpened \/ HandleCommand
  <2>1. /\ pc = "dispatch" /\ cursor <= last /\ line.kind \in {"opened", "command"} /\ held' = held \union {sid}
        /\ UNCHANGED <<history, base, offset, span, last, cursor>> /\ pc' = "upsert"
    BY <1>8 DEF HandleOpened, HandleCommand, At, UpdateSession, trailVars
  <2>2. line' = line /\ sid' = sid
    BY <2>1 DEF line, sid
  <2> QED BY <1>1, <1>3, <1>4, <2>1, <2>2 DEF SceneInv, Handling, InBatch, InHandler
<1>9. CASE Upsert \/ RecordTurn \/ CountTurn
  <2>1. /\ Handling /\ Handling' /\ pc' # "end" /\ UNCHANGED <<history, base, offset, span, last, cursor, held>>
    BY <1>9 DEF Upsert, RecordTurn, CountTurn, Handling, trailVars
  <2>2. line' = line /\ sid' = sid
    BY <2>1 DEF line, sid
  <2> QED BY <1>1, <1>3, <1>4, <2>1, <2>2 DEF SceneInv, Handling, InBatch, InHandler
<1>10. CASE SkipReplay \/ Updated \/ End \/ HandleIntent
  <2>1. /\ pc \in InBatch /\ pc' = "dispatch" /\ UNCHANGED <<base, offset, span, last>>
    BY <1>10 DEF SkipReplay, Updated, End, HandleIntent, LineDone, At, trailVars, InBatch, InHandler
  <2> QED BY <1>1, <1>3, <1>4, <2>1 DEF SceneInv, Handling, InBatch, InHandler
<1>11. CASE HandleClosed
  <2>1. /\ pc = "dispatch" /\ line.kind = "closed" /\ held' = held \ {sid}
        /\ UNCHANGED <<history, base, offset, span, last, cursor>> /\ pc' = "end"
    BY <1>11 DEF HandleClosed, At, trailVars
  <2>2. line' = line /\ sid' = sid
    BY <2>1 DEF line, sid
  <2> QED BY <1>1, <1>3, <1>4, <2>1, <2>2 DEF SceneInv, Handling, InBatch, InHandler
<1>12. CASE UNCHANGED vars
  <2>1. UNCHANGED <<history, base, offset, span, last, cursor, held, pc>>
    BY <1>12 DEF vars, trailVars, tailerVars, procVars
  <2>2. line' = line /\ sid' = sid
    BY <2>1 DEF line, sid
  <2> QED BY <1>1, <1>3, <1>4, <2>1, <2>2 DEF SceneInv, Handling, InBatch, InHandler
<1>13. \/ Trail \/ pc' \notin InBatch \/ (Read /\ pc' \in InBatch) \/ HandleOpened \/ HandleCommand \/ Upsert \/ RecordTurn
       \/ CountTurn \/ SkipReplay \/ Updated \/ End \/ HandleIntent \/ HandleClosed \/ UNCHANGED vars
  BY DEF Next, Work, Start, Crash, Stop, Lose, Poll, Commit, Save, IntentRefused, StoreFault, FailBatch, InBatch, InHandler
<1> QED BY <1>5, <1>6, <1>7, <1>8, <1>9, <1>10, <1>11, <1>12, <1>13

\* The accumulator of s goes on with what is stored.
Extends(s) == Len(turns[s]) <= Len(acc[s]) /\ \A i \in 1..Len(turns[s]) : acc[s][i] = turns[s][i]

\* Where the process goes on in its file.
NextLine == IF pc \in InBatch THEN cursor ELSE offset + 1

\* The closed line of s, and before it no command that is not stored.
ClosedAt(s, m) ==
    /\ history[m] = [kind |-> "closed", sid |-> s]
    /\ \A n \in 1..m : IsCommand(n, s) => Stored(s, n)

\* update_session has the accumulator: the turns stored and counted, and what it has yet
\* to record.
Recorded(s) == IF pc = "count" THEN Len(turns[s]) - 1 ELSE Len(turns[s])
Owed(s) ==
    /\ Len(acc[s]) = Recorded(s) + Len(pending)
    /\ \A i \in 1..Len(pending) : pending[i] = acc[s][Recorded(s) + i]

\* Within one process and one file: an accumulator goes on with the stored turns, or
\* its session's closed line is ahead for the second time.
KeptParts ==
    /\ NoTurnLost
    /\ pc = "down" => high = 0
    /\ pc \in InBatch => offset + 1 <= cursor
    /\ \A s \in held : Extends(s) \/ \E m \in DOMAIN history : ClosedAt(s, m) /\ NextLine <= m
    /\ \A s \in Session \ held : turns[s] # <<>> => \E m \in DOMAIN history : ClosedAt(s, m)
    /\ \A s \in held : Handling /\ s = sid =>
           /\ Extends(s) => Owed(s)
           /\ line.kind = "command" => acc[s] # <<>> /\ acc[s][Len(acc[s])] = cursor

KeptInv == restarts = 0 /\ rotations = 0 => KeptParts

\* The store forgets no turn.
LEMMA StoredStays ==
    ASSUME SceneInv, \/ turns' = turns
                     \/ \E x \in Nat : turns' = [turns EXCEPT ![sid] = Append(@, x)] /\ sid \in Session
    PROVE  \A s \in Session : \A n : Stored(s, n) => Stored(s, n)'
<1> SUFFICES ASSUME NEW s \in Session, NEW n, Stored(s, n) PROVE Stored(s, n)'
  OBVIOUS
<1>1. turns[s] \in Seq(Nat)
  BY SceneFacts
<1>2. PICK i \in DOMAIN turns[s] : turns[s][i] = n
  BY DEF Stored
<1>3. CASE turns'[s] = turns[s]
  BY <1>2, <1>3 DEF Stored
<1>4. CASE \E x \in Nat : turns'[s] = Append(turns[s], x)
  <2>1. PICK x \in Nat : turns'[s] = Append(turns[s], x)
    BY <1>4
  <2>2. i \in DOMAIN Append(turns[s], x) /\ Append(turns[s], x)[i] = turns[s][i]
    BY <1>1, <1>2
  <2> QED BY <1>2, <2>1, <2>2 DEF Stored
<1> QED BY <1>3, <1>4, SceneFacts

LEMMA SuccNat == \A n \in Nat : n + 1 \in Nat
OBVIOUS

LEMMA RestOf ==
    ASSUME NEW q \in Seq(Nat), NEW k \in Nat, k <= Len(q)
    PROVE  /\ Len(q) = k + Len(SubSeq(q, k + 1, Len(q)))
           /\ \A i \in 1..Len(SubSeq(q, k + 1, Len(q))) : SubSeq(q, k + 1, Len(q))[i] = q[k + i]
OBVIOUS

LEMMA TurnsLen ==
    ASSUME SceneInv, NEW s \in Session
    PROVE  /\ turns[s] \in Seq(Nat) /\ Len(turns[s]) \in Nat /\ DOMAIN turns[s] = 1..Len(turns[s])
           /\ acc[s] \in Seq(Nat) /\ Len(acc[s]) \in Nat /\ DOMAIN acc[s] = 1..Len(acc[s])
<1>1. turns[s] \in Seq(Nat) /\ acc[s] \in Seq(Nat)
  BY SceneFacts
<1> QED BY <1>1

LEMMA NextLineNat == ASSUME offset' \in Nat, cursor' \in Nat PROVE NextLine' \in Nat
<1>1. offset' + 1 \in Nat
  BY SuccNat
<1>2. CASE pc' \in InBatch
  BY <1>2 DEF NextLine
<1>3. CASE pc' \notin InBatch
  BY <1>1, <1>3 DEF NextLine
<1> QED BY <1>2, <1>3

\* Where turns, accumulators and what was dispatched stay, and the process is not further.
LEMMA KeptFrame ==
    ASSUME SceneInv, SceneInv', KeptParts,
           Len(history) <= Len(history'), \A n \in 1..Len(history) : history'[n] = history[n],
           UNCHANGED <<turns, acc, held, high>>, pc' = "down" => high = 0,
           pc' \in InBatch => offset' + 1 <= cursor', NextLine' <= NextLine,
           Handling' => /\ Handling /\ line' = line /\ sid' = sid /\ cursor' = cursor
                        /\ \A s \in held : s = sid /\ Extends(s) /\ Owed(s) => Owed(s)'
    PROVE  KeptParts'
<1>1. DOMAIN history = 1..Len(history) /\ DOMAIN history' = 1..Len(history') /\ Len(history) \in Nat /\ Len(history') \in Nat
      /\ high \in Nat /\ high <= Len(history)
  BY SceneFacts
<1>2. \A s, n : n \in 1..Len(history) => (IsCommand(n, s)' <=> IsCommand(n, s))
  BY DEF IsCommand
<1>3. \A s, n : Stored(s, n)' <=> Stored(s, n)
  BY DEF Stored
<1>4. ASSUME NEW s, NEW m \in DOMAIN history, ClosedAt(s, m) PROVE ClosedAt(s, m)' /\ m \in DOMAIN history'
  <2>1. \A n \in 1..m : n \in 1..Len(history)
    BY <1>1
  <2> QED BY <1>1, <1>2, <1>3, <1>4, <2>1 DEF ClosedAt
<1>5. NoTurnLost'
  <2>1. \A n \in 1..high : n \in 1..Len(history)
    BY <1>1
  <2> QED BY <1>2, <1>3, <2>1 DEF NoTurnLost, KeptParts
<1>6. \A s : Extends(s)' <=> Extends(s)
  BY DEF Extends
<1>7. ASSUME NEW s \in held, ~Extends(s)
      PROVE  \E m \in DOMAIN history' : ClosedAt(s, m)' /\ NextLine' <= m
  <2>1. PICK m \in DOMAIN history : ClosedAt(s, m) /\ NextLine <= m
    BY <1>7 DEF KeptParts
  <2>2. m \in Nat /\ NextLine \in Nat /\ NextLine' \in Nat
    <3>1. offset' \in Nat /\ cursor' \in Nat
      BY DEF SceneInv, NotAheadInv, TypeOK, ProcTypeOK
    <3>2. offset \in Nat /\ cursor \in Nat
      BY SceneFacts
    <3>3. NextLine \in Nat
      BY <3>2 DEF NextLine
    <3>4. NextLine' \in Nat
      BY <3>1, NextLineNat
    <3> QED BY <1>1, <3>3, <3>4
  <2> QED BY <1>4, <2>1, <2>2
<1>8. ASSUME NEW s \in Session \ held, turns[s] # <<>>
      PROVE  \E m \in DOMAIN history' : ClosedAt(s, m)'
  <2>1. PICK m \in DOMAIN history : ClosedAt(s, m)
    BY <1>8 DEF KeptParts
  <2> QED BY <1>4, <2>1
<1>9. ASSUME NEW s \in held, Handling', s = sid'
      PROVE  /\ Extends(s)' => Owed(s)'
             /\ line'.kind = "command" => acc'[s] # <<>> /\ acc'[s][Len(acc'[s])] = cursor'
  BY <1>6, <1>9 DEF KeptParts
<1> QED BY <1>5, <1>6, <1>7, <1>8, <1>9 DEF KeptParts

LEMMA ClosedStays ==
    ASSUME SceneInv, history' = history, \A s \in Session : \A n : Stored(s, n) => Stored(s, n)',
           NEW s \in Session, NEW m, ClosedAt(s, m)
    PROVE  ClosedAt(s, m)'
  BY DEF ClosedAt, IsCommand

\* record_turn inserts the next of the turns that are owed.
LEMMA KeptRecord ==
    ASSUME SceneInv, SceneInv', KeptParts, RecordTurn
    PROVE  KeptParts'
<1>1. /\ pc = "turn" /\ pending # <<>> /\ turns' = [turns EXCEPT ![sid] = Append(@, Head(pending))] /\ pc' = "count"
      /\ UNCHANGED <<history, offset, cursor, held, acc, pending, high>>
  BY DEF RecordTurn, InsertTurn, trailVars
<1>2. PICK r \in held : r = sid /\ r = sid' /\ line' = line /\ Handling /\ r \in Session
  <2>1. pc \in InHandler /\ Handling
    BY <1>1 DEF InHandler, Handling
  <2> QED BY <1>1, <2>1, SceneLine DEF sid, line, SceneInv
<1>3. PICK x \in Nat : x = Head(pending) /\ x = pending[1] /\ 1 \in 1..Len(pending)
  BY <1>1, SceneFacts
<1>4. \A s \in Session : \A n : Stored(s, n) => Stored(s, n)'
  BY <1>1, <1>2, <1>3, StoredStays
<1>5. PICK T \in Seq(Nat), A \in Seq(Nat) : T = turns[r] /\ A = acc[r]
  BY <1>2, SceneFacts
<1>6. /\ Len(Append(T, x)) = Len(T) + 1 /\ Append(T, x)[Len(T) + 1] = x
      /\ \A i \in 1..Len(T) : Append(T, x)[i] = T[i]
  BY AppendProperties
<1>a. turns'[r] = Append(T, x) /\ \A s \in Session : s # r => turns'[s] = turns[s]
  BY <1>1, <1>2, <1>3, <1>5, SceneFacts
<1>b. Len(T) \in Nat /\ Len(A) \in Nat
  OBVIOUS
<1>7. ASSUME Extends(r)' PROVE Extends(r)
  <2>1. Len(T) + 1 <= Len(A) /\ \A i \in 1..Len(T) + 1 : A[i] = Append(T, x)[i]
    BY <1>1, <1>5, <1>6, <1>7, <1>a DEF Extends
  <2>2. \A i \in 1..Len(T) : i \in 1..Len(T) + 1
    BY <1>b
  <2>3. Len(T) <= Len(A) /\ \A i \in 1..Len(T) : A[i] = T[i]
    BY <1>6, <1>b, <2>1, <2>2
  <2> QED BY <1>5, <2>3 DEF Extends
<1>8. ASSUME Extends(r) PROVE Extends(r)' /\ Owed(r)'
  <2>1. Len(A) = Len(T) + Len(pending) /\ \A i \in 1..Len(pending) : pending[i] = A[Len(T) + i]
    BY <1>1, <1>2, <1>5, <1>8 DEF KeptParts, Owed, Recorded
  <2>2. Len(pending) \in Nat
    BY SceneFacts
  <2>3. A[Len(T) + 1] = x /\ Len(T) + 1 <= Len(A)
    BY <1>3, <1>b, <2>1, <2>2
  <2>4. \A i \in 1..Len(T) : A[i] = T[i]
    BY <1>5, <1>8 DEF Extends
  <2>5. \A i \in 1..Len(T) + 1 : A[i] = Append(T, x)[i]
    BY <1>6, <1>b, <2>3, <2>4
  <2>6. Extends(r)'
    BY <1>1, <1>5, <1>6, <1>a, <2>3, <2>5 DEF Extends
  <2>7. Recorded(r)' = Len(T)
    BY <1>1, <1>6, <1>a, <1>b DEF Recorded
  <2> QED BY <1>1, <1>5, <2>1, <2>6, <2>7 DEF Owed
<1>9. NoTurnLost'
  BY <1>1, <1>4 DEF NoTurnLost, KeptParts, IsCommand
<1>10. NextLine' = NextLine /\ Handling' /\ pc' \in InBatch /\ pc \in InBatch
  BY <1>1 DEF NextLine, Handling, InBatch, InHandler
<1>11. ASSUME NEW s \in held
       PROVE  Extends(s)' \/ \E m \in DOMAIN history' : ClosedAt(s, m)' /\ NextLine' <= m
  <2>1. s \in Session
    BY SceneFacts
  <2>2. CASE Extends(s)
    <3>1. CASE s = r
      BY <1>8, <2>2, <3>1
    <3>2. CASE s # r
      <4>1. Extends(s)'
        BY <1>1, <1>a, <2>1, <2>2, <3>2 DEF Extends
      <4> QED BY <4>1
    <3> QED BY <3>1, <3>2
  <2>3. CASE ~Extends(s)
    <3>1. PICK m \in DOMAIN history : ClosedAt(s, m) /\ NextLine <= m
      BY <2>3 DEF KeptParts
    <3>2. ClosedAt(s, m)'
      BY <1>1, <1>4, <2>1, <3>1, ClosedStays
    <3> QED BY <1>1, <1>10, <3>1, <3>2
  <2> QED BY <2>2, <2>3
<1>12. ASSUME NEW s \in Session \ held, turns'[s] # <<>>
       PROVE  \E m \in DOMAIN history' : ClosedAt(s, m)'
  <2>1. turns[s] # <<>>
    BY <1>2, <1>12, <1>a
  <2>2. PICK m \in DOMAIN history : ClosedAt(s, m)
    BY <2>1 DEF KeptParts
  <2>3. ClosedAt(s, m)'
    BY <1>1, <1>4, <2>2, ClosedStays
  <2> QED BY <1>1, <2>2, <2>3
<1>13. Extends(r)' => Owed(r)'
  BY <1>7, <1>8
<1>14. line.kind = "command" => acc'[r] # <<>> /\ acc'[r][Len(acc'[r])] = cursor'
  BY <1>1, <1>2 DEF KeptParts
<1>15. offset + 1 <= cursor
  BY <1>10 DEF KeptParts
<1> QED BY <1>1, <1>2, <1>9, <1>10, <1>11, <1>12, <1>13, <1>14, <1>15 DEF KeptParts

\* update_session is entered with what the accumulator comes to.
LEMMA KeptEnter ==
    ASSUME SceneInv, SceneInv', KeptParts, pc = "dispatch", cursor <= last, NEW q \in Seq(Nat), UpdateSession(sid, q),
           \/ Len(turns[sid]) <= Len(q) /\ \A i \in 1..Len(turns[sid]) : q[i] = turns[sid][i]
           \/ \E m \in DOMAIN history : ClosedAt(sid, m) /\ cursor <= m,
           line.kind = "command" => q # <<>> /\ q[Len(q)] = cursor
    PROVE  KeptParts'
<1>1. /\ pc' = "upsert" /\ UNCHANGED <<history, offset, cursor, turns, high>>
      /\ held' = held \union {sid} /\ acc' = [acc EXCEPT ![sid] = q]
      /\ pending' = SubSeq(q, Len(turns[sid]) + 1, Len(q))
  BY DEF UpdateSession, trailVars, storeVars
<1>2. PICK r \in Session : r = sid /\ r = sid' /\ line' = line
  BY <1>1, SceneLine DEF sid, line
<1>3. acc'[r] = q /\ \A s \in Session : s # r => acc'[s] = acc[s]
  BY <1>1, <1>2, SceneFacts
<1>4. \A s, n : Stored(s, n)' <=> Stored(s, n)
  BY <1>1 DEF Stored
<1>5. \A s, m : ClosedAt(s, m)' <=> ClosedAt(s, m)
  BY <1>1, <1>4 DEF ClosedAt, IsCommand
<1>6. NextLine' = cursor /\ NextLine = cursor /\ Handling' /\ pc' \in InBatch /\ pc \in InBatch
  BY <1>1 DEF NextLine, Handling, InBatch, InHandler
<1>7. NoTurnLost'
  BY <1>1, <1>4 DEF NoTurnLost, KeptParts, IsCommand
<1>8. Extends(r)' <=> Len(turns[r]) <= Len(q) /\ \A i \in 1..Len(turns[r]) : q[i] = turns[r][i]
  BY <1>1, <1>3 DEF Extends
<1>9. ASSUME NEW s \in held'
      PROVE  Extends(s)' \/ \E m \in DOMAIN history' : ClosedAt(s, m)' /\ NextLine' <= m
  <2>1. CASE s = r
    <3>1. Extends(r)' \/ \E m \in DOMAIN history : ClosedAt(r, m) /\ cursor <= m
      BY <1>2, <1>8
    <3> QED BY <1>1, <1>5, <1>6, <2>1, <3>1
  <2>2. CASE s # r
    <3>1. s \in held /\ s \in Session
      BY <1>1, <1>2, <2>2, SceneFacts
    <3>2. Extends(s)' <=> Extends(s)
      BY <1>1, <1>3, <2>2, <3>1 DEF Extends
    <3> QED BY <1>1, <1>5, <1>6, <3>1, <3>2 DEF KeptParts
  <2> QED BY <2>1, <2>2
<1>10. \A s \in Session \ held' : turns'[s] # <<>> => \E m \in DOMAIN history' : ClosedAt(s, m)'
  BY <1>1, <1>5 DEF KeptParts
<1>11. ASSUME Extends(r)' PROVE Owed(r)'
  <2>1. PICK k \in Nat : k = Len(turns[r])
    BY TurnsLen
  <2>2. k <= Len(q)
    BY <1>8, <1>11, <2>1
  <2>3. pending' = SubSeq(q, k + 1, Len(q))
    BY <1>1, <1>2, <2>1
  <2>4. Len(q) = k + Len(pending') /\ \A i \in 1..Len(pending') : pending'[i] = q[k + i]
    BY <2>2, <2>3, RestOf
  <2>5. Recorded(r)' = k
    BY <1>1, <2>1 DEF Recorded
  <2> QED BY <1>1, <1>3, <2>4, <2>5 DEF Owed
<1>12. offset + 1 <= cursor
  BY <1>6 DEF KeptParts
<1> QED BY <1>1, <1>2, <1>3, <1>6, <1>7, <1>9, <1>10, <1>11, <1>12 DEF KeptParts


LEMMA KeptOpened ==
    ASSUME SceneInv, SceneInv', KeptParts, HandleOpened
    PROVE  KeptParts'
<1>1. pc = "dispatch" /\ cursor <= last /\ line.kind = "opened" /\ UpdateSession(sid, IF sid \in held THEN acc[sid] ELSE <<>>)
  BY DEF HandleOpened, At
<1>2. PICK r \in Session : r = sid
  BY <1>1, SceneLine
<1>3. PICK q \in Seq(Nat) : q = IF r \in held THEN acc[r] ELSE <<>>
  <2>1. acc[r] \in Seq(Nat) /\ <<>> \in Seq(Nat)
    BY TurnsLen
  <2> QED BY <2>1
<1>4. UpdateSession(sid, q)
  BY <1>1, <1>2, <1>3
<1>5. NextLine = cursor
  BY <1>1 DEF NextLine, InBatch
<1>6. \/ Len(turns[r]) <= Len(q) /\ \A i \in 1..Len(turns[r]) : q[i] = turns[r][i]
      \/ \E m \in DOMAIN history : ClosedAt(r, m) /\ cursor <= m
  <2>1. CASE r \in held
    BY <1>3, <1>5, <2>1 DEF KeptParts, Extends
  <2>2. CASE r \notin held /\ turns[r] = <<>>
    <3>1. q = <<>> /\ Len(turns[r]) = 0 /\ Len(q) = 0
      BY <1>3, <2>2
    <3> QED BY <3>1
  <2>3. CASE r \notin held /\ turns[r] # <<>>
    <3>1. PICK m \in DOMAIN history : ClosedAt(r, m)
      BY <2>3 DEF KeptParts
    <3>2. history[m] = [kind |-> "closed", sid |-> r] /\ history[cursor] = [kind |-> "opened", sid |-> r] /\ cursor \in DOMAIN history
      BY <1>1, <1>2, <3>1, SceneLine DEF ClosedAt
    <3>3. cursor < m
      BY <3>2 DEF SceneInv, TrailOrder
    <3>4. m \in Nat /\ cursor \in Nat
      BY SceneFacts
    <3> QED BY <3>1, <3>3, <3>4
  <2> QED BY <2>1, <2>2, <2>3
<1> QED BY <1>1, <1>2, <1>4, <1>6, KeptEnter

\* A turn more than what an accumulator goes on with.
LEMMA OneMore ==
    ASSUME NEW q \in Seq(Nat), NEW t \in Seq(Nat), NEW x \in Nat
    PROVE  /\ Len(q) \in Nat /\ Len(Append(q, x)) = Len(q) + 1 /\ Append(q, x)[Len(q) + 1] = x /\ Append(q, x) # <<>>
           /\ \A i \in 1..Len(q) : Append(q, x)[i] = q[i]
           /\ Len(t) <= Len(q) /\ (\A i \in 1..Len(t) : q[i] = t[i]) =>
                Len(t) <= Len(Append(q, x)) /\ \A i \in 1..Len(t) : Append(q, x)[i] = t[i]
<1>1. /\ Len(q) \in Nat /\ Len(t) \in Nat /\ Len(Append(q, x)) = Len(q) + 1 /\ Append(q, x)[Len(q) + 1] = x
      /\ \A i \in 1..Len(q) : Append(q, x)[i] = q[i]
  BY AppendProperties
<1>2. Append(q, x) # <<>>
  BY <1>1
<1>3. ASSUME Len(t) <= Len(q), \A i \in 1..Len(t) : q[i] = t[i]
      PROVE  Len(t) <= Len(Append(q, x)) /\ \A i \in 1..Len(t) : Append(q, x)[i] = t[i]
  <2>1. \A i \in 1..Len(t) : i \in 1..Len(q)
    BY <1>1, <1>3
  <2> QED BY <1>1, <1>3, <2>1
<1> QED BY <1>1, <1>2, <1>3

LEMMA KeptCommand ==
    ASSUME SceneInv, SceneInv', KeptParts, HandleCommand
    PROVE  KeptParts'
<1>1. pc = "dispatch" /\ cursor <= last /\ line.kind = "command" /\ UpdateSession(sid, Append(Known(sid), cursor))
  BY DEF HandleCommand, At
<1>2. PICK r \in Session : r = sid
  BY <1>1, SceneLine
<1>3. PICK k \in Seq(Nat) : k = Known(r)
  <2>1. acc[r] \in Seq(Nat) /\ turns[r] \in Seq(Nat) /\ <<>> \in Seq(Nat)
    BY TurnsLen
  <2> QED BY <2>1 DEF Known
<1>4. PICK t \in Seq(Nat) : t = turns[r]
  BY TurnsLen
<1>5. NextLine = cursor /\ cursor \in Nat
  BY <1>1, SceneFacts DEF NextLine, InBatch
<1>6. PICK q \in Seq(Nat) : q = Append(k, cursor)
  <2>1. Append(k, cursor) \in Seq(Nat)
    BY <1>5, AppendProperties
  <2> QED BY <2>1
<1>7. q # <<>> /\ q[Len(q)] = cursor
  BY <1>5, <1>6, OneMore
<1>8. \/ Len(t) <= Len(q) /\ \A i \in 1..Len(t) : q[i] = t[i]
      \/ \E m \in DOMAIN history : ClosedAt(r, m) /\ cursor <= m
  <2>1. \/ Len(t) <= Len(k) /\ \A i \in 1..Len(t) : k[i] = t[i]
        \/ \E m \in DOMAIN history : ClosedAt(r, m) /\ cursor <= m
    <3>1. CASE r \in held
      BY <1>3, <1>4, <1>5, <3>1 DEF KeptParts, Extends, Known
    <3>2. CASE r \notin held
      <4>1. k = t
        <5>1. r \notin rows => t = <<>>
          BY <1>4 DEF SceneInv
        <5> QED BY <1>3, <1>4, <3>2, <5>1 DEF Known
      <4> QED BY <4>1
    <3> QED BY <3>1, <3>2
  <2> QED BY <1>5, <1>6, <2>1, OneMore
<1>9. UpdateSession(sid, q)
  BY <1>1, <1>2, <1>3, <1>6
<1> QED BY <1>1, <1>2, <1>4, <1>7, <1>8, <1>9, KeptEnter

\* The closed line drops the accumulator when every command before it is stored.
LEMMA KeptClosed ==
    ASSUME SceneInv, SceneInv', KeptParts, rotations = 0, HandleClosed
    PROVE  KeptParts'
<1>1. /\ pc = "dispatch" /\ cursor <= last /\ line.kind = "closed" /\ pc' = "end" /\ held' = held \ {sid}
      /\ acc' = [acc EXCEPT ![sid] = <<>>] /\ UNCHANGED <<history, offset, cursor, turns, high>>
  BY DEF HandleClosed, At, trailVars, storeVars
<1>2. PICK r \in Session : r = sid /\ cursor \in DOMAIN history /\ history[cursor] = [kind |-> "closed", sid |-> r]
  BY <1>1, SceneLine
<1>3. \A s \in Session : s # r => acc'[s] = acc[s]
  BY <1>1, <1>2, SceneFacts
<1>4. \A s, n : Stored(s, n)' <=> Stored(s, n)
  BY <1>1 DEF Stored
<1>5. \A s, m : ClosedAt(s, m)' <=> ClosedAt(s, m)
  BY <1>1, <1>4 DEF ClosedAt, IsCommand
<1>6. NextLine' = NextLine /\ ~Handling' /\ pc' \in InBatch /\ pc \in InBatch
  BY <1>1 DEF NextLine, Handling, InBatch, InHandler
<1>7. NoTurnLost'
  BY <1>1, <1>4 DEF NoTurnLost, KeptParts, IsCommand
<1>8. ClosedAt(r, cursor)
  <2>1. cursor <= high + 1 /\ cursor \in Nat /\ high \in Nat
    BY <1>6, SceneFacts DEF SceneInv, NotAheadInv
  <2>2. ASSUME NEW n \in 1..cursor, IsCommand(n, r) PROVE Stored(r, n)
    <3>1. n # cursor
      BY <1>2, <2>2 DEF IsCommand
    <3>2. n \in 1..high
      BY <2>1, <3>1
    <3> QED BY <2>2, <3>2 DEF KeptParts, NoTurnLost
  <2> QED BY <1>2, <2>2 DEF ClosedAt
<1>9. ASSUME NEW s \in held'
      PROVE  Extends(s)' \/ \E m \in DOMAIN history' : ClosedAt(s, m)' /\ NextLine' <= m
  <2>1. s \in held /\ s \in Session /\ s # r
    BY <1>1, <1>2, <1>9, SceneFacts
  <2>2. Extends(s)' <=> Extends(s)
    BY <1>1, <1>3, <2>1 DEF Extends
  <2> QED BY <1>1, <1>5, <1>6, <2>1, <2>2 DEF KeptParts
<1>10. ASSUME NEW s \in Session \ held', turns'[s] # <<>>
       PROVE  \E m \in DOMAIN history' : ClosedAt(s, m)'
  <2>1. CASE s = r
    BY <1>1, <1>2, <1>5, <1>8, <2>1
  <2>2. CASE s # r
    BY <1>1, <1>2, <1>5, <1>10, <2>2 DEF KeptParts
  <2> QED BY <2>1, <2>2
<1>11. offset + 1 <= cursor
  BY <1>6 DEF KeptParts
<1> QED BY <1>1, <1>6, <1>7, <1>9, <1>10, <1>11 DEF KeptParts

\* A line is done: its command is stored, and the process is at the next one.
LEMMA KeptLine ==
    ASSUME SceneInv, SceneInv', KeptParts, rotations = 0, LineDone, UNCHANGED <<history, turns, held, acc>>,
           pc \in InHandler \/ (pc = "dispatch" /\ cursor <= last),
           line.kind # "closed" \/ sid \notin held,
           line.kind = "command" => Stored(sid, cursor)
    PROVE  KeptParts'
<1>1. pc' = "dispatch" /\ cursor' = cursor + 1 /\ high' = (IF cursor > high THEN cursor ELSE high) /\ offset' = offset
  BY DEF LineDone
<1>2. PICK r \in Session : /\ r = sid /\ cursor \in DOMAIN history /\ history[cursor] = [kind |-> line.kind, sid |-> r]
                           /\ pc \in InBatch
  BY SceneLine
<1>3. cursor \in Nat /\ high \in Nat /\ offset \in Nat
  BY SceneFacts
<1>4. \A s, n : Stored(s, n)' <=> Stored(s, n)
  BY DEF Stored
<1>5. \A s, m : ClosedAt(s, m)' <=> ClosedAt(s, m)
  BY <1>4 DEF ClosedAt, IsCommand
<1>6. NextLine' = cursor + 1 /\ NextLine = cursor /\ ~Handling'
  BY <1>1, <1>2 DEF NextLine, Handling, InBatch
<1>7. ASSUME NEW n \in 1..high', NEW s \in Session, IsCommand(n, s) PROVE Stored(s, n)
  <2>1. CASE n \in 1..high
    BY <1>7, <2>1 DEF KeptParts, NoTurnLost
  <2>2. CASE n \notin 1..high
    <3>1. cursor <= high + 1
      BY <1>2 DEF SceneInv, NotAheadInv
    <3>2. n = cursor
      BY <1>1, <1>3, <2>2, <3>1
    <3>3. line.kind = "command" /\ s = r
      BY <1>2, <1>7, <3>2 DEF IsCommand
    <3> QED BY <1>2, <3>2, <3>3
  <2> QED BY <2>1, <2>2
<1>8. ASSUME NEW s \in held, ~Extends(s)
      PROVE  \E m \in DOMAIN history' : ClosedAt(s, m)' /\ NextLine' <= m
  <2>1. PICK m \in DOMAIN history : ClosedAt(s, m) /\ cursor <= m
    BY <1>6, <1>8 DEF KeptParts
  <2>2. m # cursor
    BY <1>2, <1>8, <2>1 DEF ClosedAt
  <2>3. m \in Nat
    BY SceneFacts
  <2>4. cursor + 1 <= m
    BY <1>3, <2>1, <2>2, <2>3
  <2> QED BY <1>5, <1>6, <2>1, <2>4
<1>9. \A s : Extends(s)' <=> Extends(s)
  BY DEF Extends
<1>10. NoTurnLost'
  BY <1>4, <1>7 DEF NoTurnLost, IsCommand
<1>11. offset' + 1 <= cursor'
  <2>1. offset + 1 <= cursor
    BY <1>2 DEF KeptParts
  <2> QED BY <1>1, <1>3, <2>1
<1>12. \A s \in Session \ held' : turns'[s] # <<>> => \E m \in DOMAIN history' : ClosedAt(s, m)'
  BY <1>5 DEF KeptParts
<1> QED BY <1>1, <1>6, <1>8, <1>9, <1>10, <1>11, <1>12 DEF KeptParts

\* Restarts and rotations are never undone.
LEMMA CountedOnce ==
    ASSUME SceneInv, [Next]_vars
    PROVE  /\ ((Crash \/ Stop) /\ restarts' = restarts + 1) \/ (~Crash /\ ~Stop /\ restarts' = restarts)
           /\ (rotations' = rotations + 1 /\ Trail) \/ rotations' = rotations
<1>1. CASE Crash \/ Stop
  BY <1>1 DEF Crash, Stop, trailVars
<1>2. CASE Trail
  <2>1. rotations' = rotations + 1 \/ rotations' = rotations
    BY <1>2, Written DEF Trail, SceneInv, NotAheadInv
  <2>2. restarts' = restarts
    BY <1>2, TrailLeaves
  <2> QED BY <1>1, <1>2, <2>1, <2>2
<1>3. CASE ~(Crash \/ Stop \/ Trail)
  BY <1>3 DEF Next, Start, Work, StoreFault, Poll, Read, Commit, Save, HandleOpened, HandleCommand,
         SkipReplay, UpdateSession, Upsert, RecordTurn, CountTurn, Updated, HandleClosed, End, HandleIntent,
         IntentRefused, LineDone, FailBatch, vars, trailVars, tailerVars
<1> QED BY <1>1, <1>2, <1>3

\* The task polls, reads, saves or gives a batch up: nothing that was dispatched changes.
LEMMA KeptPass ==
    ASSUME SceneInv, SceneInv', KeptParts, rotations = 0,
           Start \/ Poll \/ Read \/ Commit \/ Save \/ IntentRefused \/ StoreFault
    PROVE  KeptParts'
<1>1. history' = history /\ UNCHANGED <<turns, acc, held, high>> /\ ~Handling' /\ pc' # "down"
  BY DEF Start, Poll, Read, Commit, Save, IntentRefused, StoreFault, FailBatch, trailVars, storeVars, Handling
<1>2. /\ offset \in Nat /\ cursor \in Nat /\ last \in Nat /\ span \in Nat /\ high \in Nat /\ Len(history) \in Nat /\ cache \in Nat
      /\ base = 0 /\ offset <= high /\ cache <= high /\ (pc \in InBatch => offset + span = last /\ cursor <= last + 1)
      /\ FileSize \in Nat
  BY SceneFacts DEF SceneInv, NotAheadInv
<1>3. pc \in InBatch => offset + 1 <= cursor
  BY DEF KeptParts
<1>4. NextLine' <= NextLine /\ (pc' \in InBatch => offset' + 1 <= cursor')
  <2>1. CASE Start
    <3>1. pc = "down" /\ pc' = "idle" /\ offset' \in {cache, 0}
      BY <2>1 DEF Start
    <3>2. high = 0
      BY <3>1 DEF KeptParts
    <3>3. offset' = 0 /\ offset = 0
      BY <1>2, <3>1, <3>2
    <3> QED BY <3>1, <3>3 DEF NextLine, InBatch, InHandler
  <2>2. CASE Poll
    <3>1. pc = "idle" /\ pc' \in {"idle", "read"} /\ offset' \in {offset, 0}
      BY <2>2 DEF Poll
    <3> QED BY <1>2, <3>1 DEF NextLine, InBatch, InHandler
  <2>3. CASE Read
    <3>1. pc = "read" /\ offset' = offset /\ (pc' = "idle" \/ (pc' = "dispatch" /\ cursor' = base + offset + 1))
      BY <2>3 DEF Read
    <3>2. pc' = "dispatch" => cursor' = offset + 1
      BY <1>2, <3>1
    <3> QED BY <1>2, <3>1, <3>2 DEF NextLine, InBatch, InHandler
  <2>4. CASE Commit
    <3>1. pc = "dispatch" /\ pc' = "save" /\ cursor > last /\ offset' = offset + span
      BY <2>4 DEF Commit
    <3>2. cursor = offset' + 1
      BY <1>2, <3>1 DEF InBatch
    <3> QED BY <1>2, <3>1, <3>2 DEF NextLine, InBatch, InHandler
  <2>5. CASE Save
    <3>1. pc = "save" /\ pc' = "idle" /\ offset' = offset
      BY <2>5 DEF Save
    <3> QED BY <1>2, <3>1 DEF NextLine, InBatch, InHandler
  <2>6. CASE IntentRefused \/ StoreFault
    <3>1. pc \in InBatch /\ pc' = "idle" /\ offset' = offset
      BY <2>6 DEF IntentRefused, StoreFault, FailBatch, At, InBatch, InHandler
    <3> QED BY <1>2, <1>3, <3>1 DEF NextLine, InBatch, InHandler
  <2> QED BY <2>1, <2>2, <2>3, <2>4, <2>5, <2>6
<1>5. Len(history) <= Len(history') /\ \A n \in 1..Len(history) : history'[n] = history[n]
  BY <1>1, <1>2
<1> QED BY <1>1, <1>4, <1>5, KeptFrame

\* The other steps of update_session.
LEMMA KeptRow ==
    ASSUME SceneInv, SceneInv', KeptParts, Upsert \/ CountTurn
    PROVE  KeptParts'
<1>1. /\ pc \in {"upsert", "count"} /\ pc' = "turn" /\ UNCHANGED <<history, turns, acc, held, high, offset, cursor>>
  BY DEF Upsert, CountTurn, UpsertSession, BumpCount, trailVars
<1>2. /\ line' = line /\ sid' = sid /\ Handling /\ Handling' /\ pc' \in InBatch /\ pc \in InBatch
      /\ NextLine' = cursor /\ NextLine = cursor
  BY <1>1 DEF line, sid, Handling, InBatch, InHandler, NextLine
<1>3. ASSUME NEW s \in held, Owed(s) PROVE Owed(s)'
  <2>1. CASE Upsert
    <3>1. pc = "upsert" /\ pending' = pending
      BY <2>1 DEF Upsert
    <3> QED BY <1>1, <1>3, <3>1 DEF Owed, Recorded
  <2>2. CASE CountTurn
    <3>1. pc = "count" /\ pending' = Tail(pending)
      BY <2>2 DEF CountTurn
    <3>2. PICK t \in Nat, q \in Seq(Nat), p \in Seq(Nat) : t = Len(turns[s]) /\ q = acc[s] /\ p = pending /\ p # <<>>
      <4>1. s \in Session /\ pending \in Seq(Nat) /\ pending # <<>>
        BY <3>1, SceneFacts DEF TypeOK, BatchOK
      <4>2. Len(turns[s]) \in Nat /\ acc[s] \in Seq(Nat)
        BY <4>1, TurnsLen
      <4> QED BY <4>1, <4>2
    <3>3. Len(q) = t - 1 + Len(p) /\ \A i \in 1..Len(p) : p[i] = q[t - 1 + i]
      BY <1>3, <3>1, <3>2 DEF Owed, Recorded
    <3>4. Len(Tail(p)) = Len(p) - 1 /\ \A i \in 1..Len(Tail(p)) : Tail(p)[i] = p[i + 1]
      BY <3>2
    <3>5. Len(p) \in Nat /\ Len(p) >= 1
      BY <3>2
    <3>6. Len(q) = t + Len(Tail(p))
      BY <3>3, <3>4, <3>5
    <3>7. ASSUME NEW i \in 1..Len(Tail(p)) PROVE Tail(p)[i] = q[t + i]
      <4>1. i + 1 \in 1..Len(p) /\ t - 1 + (i + 1) = t + i
        BY <3>4, <3>5
      <4> QED BY <3>3, <3>4, <4>1
    <3>8. Recorded(s)' = t
      BY <1>1, <3>2 DEF Recorded
    <3>9. pending' = Tail(p) /\ acc'[s] = q
      BY <1>1, <3>1, <3>2
    <3> QED BY <3>6, <3>7, <3>8, <3>9 DEF Owed
  <2> QED BY <2>1, <2>2
<1>4. offset + 1 <= cursor
  BY <1>2 DEF KeptParts
<1>5. /\ Len(history) <= Len(history') /\ \A n \in 1..Len(history) : history'[n] = history[n]
      /\ pc' \in InBatch => offset' + 1 <= cursor'
  BY <1>1, <1>4, SceneFacts
<1>6. NextLine' <= NextLine
  BY <1>2, SceneFacts
<1> QED BY <1>1, <1>2, <1>3, <1>5, <1>6, KeptFrame

LEMMA KeptTrail ==
    ASSUME SceneInv, SceneInv', KeptParts, rotations' = 0, Trail
    PROVE  KeptParts'
<1>1. /\ UNCHANGED <<rows, turns, pc, offset, cursor, held, acc, pending, high>>
      /\ pc \in InHandler => line' = line /\ sid' = sid
  BY TrailLeaves
<1>2. Len(history) <= Len(history') /\ \A n \in 1..Len(history) : history'[n] = history[n]
  BY SceneFacts, LinesStay DEF Trail
<1>3. NextLine' = NextLine
  BY <1>1 DEF NextLine
<1>4. NextLine' <= NextLine
  <2>1. offset + 1 \in Nat /\ cursor \in Nat
    BY SceneFacts
  <2>2. NextLine \in Nat
    BY <2>1 DEF NextLine
  <2> QED BY <1>3, <2>2
<1>5. Handling' => Handling /\ line' = line /\ sid' = sid /\ cursor' = cursor
  BY <1>1 DEF Handling, InHandler
<1>6. \A s : Owed(s)' <=> Owed(s)
  BY <1>1 DEF Owed, Recorded
<1>7. (pc' \in InBatch => offset' + 1 <= cursor') /\ (pc' = "down" => high = 0)
  BY <1>1 DEF KeptParts
<1> QED BY <1>1, <1>2, <1>4, <1>5, <1>6, <1>7, KeptFrame

LEMMA KeptNext == ASSUME SceneInv, SceneInv', KeptInv, [Next]_vars PROVE KeptInv'
<1> SUFFICES ASSUME restarts' = 0, rotations' = 0 PROVE KeptParts'
  BY DEF KeptInv
<1>1. restarts = 0 /\ rotations = 0 /\ ~Crash /\ ~Stop
  <2>1. restarts \in Nat /\ rotations \in Nat
    BY SceneFacts
  <2> QED BY <2>1, CountedOnce
<1>2. KeptParts
  BY <1>1 DEF KeptInv
<1>3. CASE Trail
  BY <1>2, <1>3, KeptTrail
<1>4. CASE Start \/ Poll \/ Read \/ Commit \/ Save \/ IntentRefused \/ StoreFault
  BY <1>1, <1>2, <1>4, KeptPass
<1>5. CASE HandleOpened
  BY <1>2, <1>5, KeptOpened
<1>6. CASE HandleCommand
  BY <1>2, <1>6, KeptCommand
<1>7. CASE HandleClosed
  BY <1>1, <1>2, <1>7, KeptClosed
<1>8. CASE RecordTurn
  BY <1>2, <1>8, KeptRecord
<1>9. CASE Upsert \/ CountTurn
  BY <1>2, <1>9, KeptRow
<1>10. CASE SkipReplay
  <2>1. /\ LineDone /\ UNCHANGED <<history, turns, held, acc>> /\ pc = "dispatch" /\ cursor <= last
        /\ line.kind = "command" /\ Stored(sid, cursor)
    BY <1>10 DEF SkipReplay, At, IsReplay, trailVars, storeVars
  <2> QED BY <1>1, <1>2, <2>1, KeptLine
<1>11. CASE HandleIntent
  <2>1. /\ LineDone /\ UNCHANGED <<history, turns, held, acc>> /\ pc = "dispatch" /\ cursor <= last
        /\ line.kind = "intent"
    BY <1>11 DEF HandleIntent, At, UpsertIntent, trailVars
  <2> QED BY <1>1, <1>2, <2>1, KeptLine
<1>12. CASE End
  <2>1. LineDone /\ UNCHANGED <<history, turns, held, acc>> /\ pc = "end"
    BY <1>12 DEF End, EndSession, trailVars
  <2>2. pc \in InHandler /\ line.kind = "closed" /\ sid \notin held
    BY <2>1 DEF SceneInv, InHandler
  <2> QED BY <1>1, <1>2, <2>1, <2>2, KeptLine
<1>13. CASE Updated
  <2>1. LineDone /\ UNCHANGED <<history, turns, held, acc>> /\ pc = "turn" /\ pending = <<>>
    BY <1>13 DEF Updated, trailVars, storeVars
  <2>2. pc \in InHandler /\ Handling /\ line.kind \in {"opened", "command"} /\ sid \in held
    BY <2>1 DEF SceneInv, InHandler, Handling
  <2>3. line.kind = "command" => Stored(sid, cursor)
    <3>1. SUFFICES ASSUME line.kind = "command" PROVE Stored(sid, cursor)
      OBVIOUS
    <3>2. PICK r \in held : /\ r = sid /\ r \in Session /\ cursor \in DOMAIN history
                            /\ history[cursor] = [kind |-> "command", sid |-> r]
      BY <2>2, <3>1, SceneLine
    <3>3. acc[r] # <<>> /\ acc[r][Len(acc[r])] = cursor /\ (Extends(r) => Owed(r))
      BY <1>2, <2>2, <3>1, <3>2 DEF KeptParts
    <3>4. CASE Extends(r)
      <4>1. Len(acc[r]) = Len(turns[r]) + 0
        BY <2>1, <3>3, <3>4 DEF Owed, Recorded
      <4>2. acc[r] \in Seq(Nat) /\ turns[r] \in Seq(Nat)
        BY <3>2, TurnsLen
      <4>3. Len(acc[r]) \in 1..Len(turns[r])
        BY <3>3, <4>1, <4>2
      <4>4. turns[r][Len(acc[r])] = cursor
        BY <3>3, <3>4, <4>3 DEF Extends
      <4> QED BY <3>2, <4>2, <4>3, <4>4 DEF Stored
    <3>5. CASE ~Extends(r)
      <4>1. PICK m \in DOMAIN history : ClosedAt(r, m) /\ cursor <= m
        BY <1>2, <2>1, <3>5 DEF KeptParts, NextLine, InBatch, InHandler
      <4>2. cursor \in 1..m /\ IsCommand(cursor, r)
        BY <3>2, <4>1, SceneFacts DEF IsCommand
      <4> QED BY <3>2, <4>1, <4>2 DEF ClosedAt
    <3> QED BY <3>4, <3>5
  <2> QED BY <1>1, <1>2, <2>1, <2>2, <2>3, KeptLine
<1>14. CASE UNCHANGED vars
  <2>1. UNCHANGED <<history, turns, acc, held, pending, high, pc, offset, cursor>>
    BY <1>14 DEF vars, trailVars, storeVars, tailerVars, procVars
  <2>2. line' = line /\ sid' = sid
    BY <2>1 DEF line, sid
  <2>3. \A s : Extends(s)' <=> Extends(s)
    BY <2>1 DEF Extends
  <2>4. \A s : Owed(s)' <=> Owed(s)
    BY <2>1 DEF Owed, Recorded
  <2>5. \A s, n : Stored(s, n)' <=> Stored(s, n)
    BY <2>1 DEF Stored
  <2>6. \A s, m : ClosedAt(s, m)' <=> ClosedAt(s, m)
    BY <2>1, <2>5 DEF ClosedAt, IsCommand
  <2>7. NoTurnLost' /\ NextLine' = NextLine /\ Handling' = Handling
    BY <1>2, <2>1, <2>5 DEF NoTurnLost, KeptParts, IsCommand, NextLine, Handling
  <2> QED BY <1>2, <2>1, <2>2, <2>3, <2>4, <2>6, <2>7 DEF KeptParts
<1> QED BY <1>1, <1>3, <1>4, <1>5, <1>6, <1>7, <1>8, <1>9, <1>10, <1>11, <1>12, <1>13, <1>14 DEF Next, Work

LEMMA KeptInit == Init => KeptInv
<1> SUFFICES ASSUME Init PROVE KeptParts
  BY DEF KeptInv
<1>1. /\ high = 0 /\ pc = "down" /\ held = {} /\ turns = [s \in Session |-> <<>>]
  BY DEF Init, StoreInit
<1>2. NoTurnLost /\ pc \notin InBatch
  BY <1>1 DEF NoTurnLost, InBatch, InHandler
<1> QED BY <1>1, <1>2 DEF KeptParts
-----------------------------------------------------------------------------
\* Where a process that starts at offset x goes on, where the next one may start, and
\* where this one is.
First(x) == IF x > FileSize THEN base + 1 ELSE base + x + 1
StartAt == IF CacheMayFail THEN 0 ELSE cache
Pos == IF pc \in InBatch THEN cursor ELSE IF pc = "down" THEN First(StartAt) ELSE First(offset)

Below(s, n) == \A i \in DOMAIN turns[s] : turns[s][i] < n
Sorted(s) == \A i, j \in DOMAIN turns[s] : i < j => turns[s][i] < turns[s][j]

\* The accumulator of s repeats stored turns, or nothing that is stored is ahead.
Within(s) == \A i \in DOMAIN acc[s] : \E j \in DOMAIN turns[s] : i <= j /\ turns[s][j] = acc[s][i]
Settled(s, n) == Len(acc[s]) <= Len(turns[s]) /\ (Within(s) \/ Below(s, n))

\* The turns of a session are in order, no command ahead falls between them, and between
\* two lines an accumulator is no longer than they are.
OnceSession(s) ==
    /\ Sorted(s)
    /\ \A i \in DOMAIN turns[s] : turns[s][i] \in Commands(s)
    /\ \A n \in Commands(s) : n >= Pos => Stored(s, n) \/ Below(s, n)
    /\ ~(Handling /\ s = sid) /\ s \in held => Settled(s, Pos) /\ \A i \in DOMAIN acc[s] : acc[s][i] < Pos

\* At a line: it adds its own command at the end, or nothing.
OnceHandler(s) ==
    /\ \A i \in DOMAIN acc[s] : acc[s][i] <= cursor
    /\ pc \in {"upsert", "turn"} =>
        \/ pending = <<>> /\ Settled(s, cursor + 1)
        \/ pending = <<cursor>> /\ line.kind = "command" /\ Below(s, cursor) /\ Len(acc[s]) = Len(turns[s]) + 1
    /\ pc = "count" => pending = <<cursor>> /\ Below(s, cursor + 1) /\ Len(acc[s]) = Len(turns[s])

OnceInv ==
    /\ \A s \in Session : OnceSession(s)
    /\ \A s \in held : Handling /\ s = sid => OnceHandler(s)

\* What the first process owes to the second: from where it starts, what was dispatched is
\* stored, and nothing else is but for the line at hand.
BeginPlace ==
    /\ pc = "down" => high = 0 /\ cache = 0 /\ offset = 0
    /\ pc # "save" /\ ~CacheMayFail => offset \in {cache, 0}
    /\ Pos > high
    /\ \A x \in {offset, StartAt} :
        /\ pc \in InBatch => cursor <= high + 1 \/ cursor <= First(x)
        /\ \A n \in First(x)..high : \A s \in Session : IsCommand(n, s) => Stored(s, n)

BeginSession(s) ==
    /\ \A i \in DOMAIN turns[s] : turns[s][i] <= high \/ (Handling /\ s = sid /\ turns[s][i] = cursor)
    /\ ~(Handling /\ s = sid) /\ s \in held => Len(acc[s]) = Len(turns[s])
    /\ s \notin held /\ turns[s] # <<>> =>
        \E m \in DOMAIN history : history[m] = [kind |-> "closed", sid |-> s] /\ m <= Pos

BeginHandler(s) ==
    /\ pc # "count" => Len(acc[s]) = Len(turns[s]) + Len(pending)
    /\ pc = "count" => Stored(s, cursor)
    /\ line.kind = "command" => pending = <<cursor>> \/ Stored(s, cursor)

BeginInv ==
    /\ BeginPlace
    /\ \A s \in Session : BeginSession(s)
    /\ \A s \in held : Handling /\ s = sid => BeginHandler(s)

StormInv ==
    ~retried /\ restarts <= 1 /\ (CacheMayFail => rotations = 0) => OnceInv /\ (restarts = 0 => BeginInv)

-----------------------------------------------------------------------------
LEMMA FirstNat ==
    ASSUME SceneInv, NEW x \in Nat
    PROVE  First(x) \in Nat /\ First(0) = base + 1 /\ First(0) <= First(x) /\ (x <= FileSize => First(x) = base + x + 1)
                 /\ (x > FileSize => First(x) = base + 1)
<1>1. base \in Nat /\ FileSize \in Nat
  BY SceneFacts
<1>2. CASE x > FileSize
  BY <1>1, <1>2 DEF First
<1>3. CASE ~(x > FileSize)
  BY <1>1, <1>3 DEF First
<1> QED BY <1>2, <1>3

LEMMA PosNat == ASSUME SceneInv PROVE Pos \in Nat /\ StartAt \in Nat
<1>1. cursor \in Nat /\ cache \in Nat /\ offset \in Nat
  BY SceneFacts
<1>2. StartAt \in Nat
  BY <1>1 DEF StartAt
<1>3. First(StartAt) \in Nat /\ First(offset) \in Nat
  BY <1>1, <1>2, FirstNat
<1> QED BY <1>1, <1>2, <1>3 DEF Pos

\* The place where a process starts moves on with the log and with its rotations.
LEMMA FirstGrows ==
    ASSUME SceneInv, SceneInv', Trail, NEW x \in Nat
    PROVE  First(x) <= First(x)' /\ First(x)' \in Nat
<1>1. PICK b \in Nat, f \in Nat, n \in Nat : b = base /\ f = FileSize /\ n = Len(history) /\ b + f = n
  BY SceneFacts
<1>2. PICK m \in Nat, c \in Nat : m = Len(history') /\ c = base' /\ c <= m
  <2>1. history' \in Seq(Line) /\ base' \in 0..Len(history')
    BY DEF SceneInv, NotAheadInv, TypeOK, TrailTypeOK
  <2>2. Len(history') \in Nat
    BY <2>1
  <2> QED BY <2>1, <2>2
<1>3. n <= m /\ (c = b \/ c = n)
  BY <1>1, <1>2, SceneFacts, LinesStay DEF Trail
<1>4. First(x) = IF x > f THEN b + 1 ELSE b + x + 1
  BY <1>1 DEF First
<1>5. First(x)' = IF x > m - c THEN c + 1 ELSE c + x + 1
  BY <1>2 DEF First, FileSize
<1>6. f = n - b /\ b <= n
  BY <1>1
<1>7. b <= n /\ c <= m /\ n <= m /\ (c = b \/ c = n)
  BY <1>2, <1>3, <1>6
<1>8. (IF x > n - b THEN b + 1 ELSE b + x + 1) <= (IF x > m - c THEN c + 1 ELSE c + x + 1)
      /\ (IF x > m - c THEN c + 1 ELSE c + x + 1) \in Nat
  BY <1>7
<1> QED BY <1>4, <1>5, <1>6, <1>8

\* What is ahead of the process stays ahead or is dispatched.
LEMMA PosGrows ==
    ASSUME SceneInv, SceneInv', [Next]_vars, ~Crash, ~Stop, ~retried'
    PROVE  Pos <= Pos'
<1>1. Pos \in Nat /\ StartAt \in Nat
  BY PosNat
<1>2. /\ offset \in Nat /\ cursor \in Nat /\ last \in Nat /\ span \in Nat /\ base \in Nat /\ FileSize \in Nat /\ cache \in Nat
      /\ base + FileSize = Len(history) /\ (pc \in InBatch => cursor <= last + 1 /\ last <= Len(history))
  BY SceneFacts
<1>3. CASE Trail
  <2>1. UNCHANGED <<pc, cursor, offset, StartAt>>
    BY <1>3, TrailLeaves DEF StartAt
  <2>2. CASE pc \in InBatch
    BY <1>1, <2>1, <2>2 DEF Pos
  <2>3. CASE pc \notin InBatch
    <3>1. PICK x \in Nat : x = (IF pc = "down" THEN StartAt ELSE offset)
      BY <1>1, <1>2
    <3>2. Pos = First(x) /\ x = (IF pc' = "down" THEN StartAt' ELSE offset')
      BY <2>1, <2>3, <3>1 DEF Pos
    <3>3. Pos' = First(x)'
      BY <2>1, <2>3, <3>1, <3>2 DEF Pos, First
    <3> QED BY <1>3, <3>2, <3>3, FirstGrows
  <2> QED BY <2>2, <2>3
<1>4. CASE base' = base /\ history' = history
  <2>1. \A x : First(x)' = First(x)
    BY <1>4 DEF First, FileSize
  <2>2. First(offset) \in Nat /\ First(StartAt) \in Nat /\ First(0) = base + 1 /\ First(0) <= First(offset) /\ First(0) <= First(StartAt)
    BY <1>1, <1>2, FirstNat
  <2>3. CASE Start
    <3>1. pc = "down" /\ pc' = "idle" /\ (IF CacheMayFail THEN offset' \in {cache, 0} ELSE offset' = cache)
      BY <2>3 DEF Start
    <3>2. Pos = First(StartAt) /\ Pos' = First(offset')
      BY <2>1, <3>1 DEF Pos, First, FileSize, InBatch, InHandler
    <3>3. First(cache) \in Nat /\ First(0) <= First(cache)
      BY <1>2, FirstNat
    <3> QED BY <1>2, <2>2, <3>1, <3>2, <3>3 DEF StartAt
  <2>4. CASE Poll
    <3>1. pc = "idle" /\ pc' \in {"idle", "read"} /\ offset' = IF FileSize < offset THEN 0 ELSE offset
      BY <2>4 DEF Poll
    <3>2. Pos = First(offset) /\ Pos' = First(offset')
      BY <1>4, <3>1 DEF Pos, First, FileSize, InBatch, InHandler
    <3>3. First(offset') = First(offset)
      BY <1>2, <2>2, <3>1 DEF First
    <3> QED BY <2>2, <3>2, <3>3
  <2>5. CASE Read
    <3>1. /\ pc = "read" /\ offset' = offset
          /\ (pc' = "idle" \/ (pc' = "dispatch" /\ cursor' = base + offset + 1 /\ ~(FileSize <= offset)))
      BY <2>5 DEF Read
    <3>2. Pos = First(offset)
      BY <3>1 DEF Pos, InBatch, InHandler
    <3>3. CASE pc' = "idle"
      BY <1>4, <2>2, <3>1, <3>2, <3>3 DEF Pos, First, FileSize, InBatch, InHandler
    <3>4. CASE pc' # "idle"
      <4>1. Pos' = base + offset + 1
        BY <3>1, <3>4 DEF Pos, InBatch
      <4> QED BY <1>2, <3>1, <3>2, <3>4, <4>1, FirstNat
    <3> QED BY <3>3, <3>4
  <2>6. CASE Commit
    <3>1. pc = "dispatch" /\ pc' = "save" /\ cursor > last /\ offset' = offset + span
      BY <2>6 DEF Commit
    <3>2. cursor = last + 1 /\ last <= Len(history) /\ (base + offset + span = last \/ last <= base)
      BY <1>2, <3>1 DEF InBatch, SceneInv
    <3>3. PICK x \in Nat : x = offset + span
      BY <1>2
    <3>4. Pos = last + 1 /\ Pos' = First(x)
      BY <1>4, <3>1, <3>2, <3>3 DEF Pos, First, FileSize, InBatch, InHandler
    <3>5. CASE base + offset + span = last
      <4>1. x <= FileSize
        BY <1>2, <3>2, <3>3, <3>5
      <4>2. First(x) = base + x + 1
        BY <4>1, FirstNat
      <4> QED BY <1>2, <3>3, <3>4, <3>5, <4>2
    <3>6. CASE last <= base
      BY <1>2, <3>4, <3>6, FirstNat
    <3> QED BY <3>2, <3>5, <3>6
  <2>7. CASE Save \/ UNCHANGED vars
    <3>1. CASE Save
      <4>1. pc = "save" /\ pc' = "idle" /\ offset' = offset
        BY <3>1 DEF Save
      <4>2. Pos' = Pos
        BY <1>4, <4>1 DEF Pos, First, FileSize, InBatch, InHandler
      <4> QED BY <1>1, <4>2
    <3>2. CASE UNCHANGED vars
      <4>1. Pos' = Pos
        BY <3>2 DEF Pos, First, FileSize, StartAt, vars, trailVars, tailerVars, procVars
      <4> QED BY <1>1, <4>1
    <3> QED BY <2>7, <3>1, <3>2
  <2>8. CASE pc \in InBatch /\ pc' \in InBatch /\ (cursor' = cursor \/ cursor' = cursor + 1)
    BY <1>2, <2>8 DEF Pos
  <2>9. \/ Start \/ Poll \/ Read \/ Commit \/ Save \/ UNCHANGED vars
        \/ pc \in InBatch /\ pc' \in InBatch /\ (cursor' = cursor \/ cursor' = cursor + 1)
        \/ Trail
    BY DEF Next, Work, HandleOpened, HandleCommand, UpdateSession, SkipReplay, Upsert, RecordTurn, CountTurn, Updated,
           HandleClosed, End, HandleIntent, IntentRefused, StoreFault, FailBatch, LineDone, At, InBatch, InHandler
  <2> QED BY <1>3, <2>3, <2>4, <2>5, <2>6, <2>7, <2>8, <2>9
<1>5. Trail \/ (base' = base /\ history' = history)
  BY DEF Next, Start, Crash, Stop, Work, StoreFault, Poll, Read, Commit, Save, HandleOpened, HandleCommand,
         SkipReplay, UpdateSession, Upsert, RecordTurn, CountTurn, Updated, HandleClosed, End, HandleIntent,
         IntentRefused, vars, trailVars
<1> QED BY <1>3, <1>4, <1>5

LEMMA PosNatNext == ASSUME SceneInv' PROVE Pos' \in Nat /\ StartAt' \in Nat
<1>1. cursor' \in Nat /\ cache' \in Nat /\ offset' \in Nat
  BY DEF SceneInv, NotAheadInv, TypeOK, ProcTypeOK
<1>2. PICK b \in Nat, c \in Nat, o \in Nat, x \in Nat : b = base' /\ c = cursor' /\ o = offset' /\ x = StartAt'
  <2>1. base' \in Nat
    <3>1. base' \in 0..Len(history') /\ history' \in Seq(Line)
      BY DEF SceneInv, NotAheadInv, TypeOK, TrailTypeOK
    <3>2. Len(history') \in Nat
      BY <3>1
    <3> QED BY <3>1, <3>2
  <2>2. StartAt' \in Nat
    BY <1>1 DEF StartAt
  <2> QED BY <1>1, <2>1, <2>2
<1>3. \A y \in Nat : First(y)' = b + 1 \/ First(y)' = b + y + 1
  BY <1>2 DEF First
<1>4. Pos' \in {c, b + 1, b + o + 1, b + x + 1}
  BY <1>2, <1>3 DEF Pos, First
<1>5. b + 1 \in Nat /\ b + o + 1 \in Nat /\ b + x + 1 \in Nat
  OBVIOUS
<1> QED BY <1>2, <1>4, <1>5

\* The commands of a session stay, and new ones are behind all lines.
LEMMA CommandsGrow ==
    ASSUME SceneInv, [Next]_vars, NEW s
    PROVE  /\ Commands(s) \subseteq 1..Len(history) /\ Commands(s) \subseteq Commands(s)'
           /\ \A n \in Commands(s)' : n \in Commands(s) \/ (n \in Nat /\ n > Len(history))
<1>1. CASE Trail
  <2>1. /\ Len(history') \in Nat /\ DOMAIN history' = 1..Len(history') /\ Len(history) <= Len(history')
        /\ Commands(s) \subseteq 1..Len(history) /\ Commands(s)' \cap (1..Len(history)) = Commands(s)
    BY <1>1, TrailLeaves, LinesStay, SceneFacts DEF Trail
  <2>2. Commands(s)' \subseteq DOMAIN history'
    BY DEF Commands
  <2>3. Len(history) \in Nat
    BY SceneFacts
  <2> QED BY <2>1, <2>2, <2>3
<1>2. CASE history' = history
  <2>1. Commands(s)' = Commands(s) /\ Commands(s) \subseteq DOMAIN history
    BY <1>2 DEF Commands, IsCommand
  <2> QED BY <2>1, SceneFacts
<1>3. Trail \/ history' = history
  BY DEF Next, Start, Crash, Stop, Work, StoreFault, Poll, Read, Commit, Save, HandleOpened, HandleCommand,
         SkipReplay, UpdateSession, Upsert, RecordTurn, CountTurn, Updated, HandleClosed, End, HandleIntent,
         IntentRefused, vars, trailVars
<1> QED BY <1>1, <1>2, <1>3

\* The turns of s stay and the process does not go back.
LEMMA OnceStill ==
    ASSUME SceneInv, SceneInv', [Next]_vars, NEW s \in Session, OnceSession(s), turns'[s] = turns[s], Pos <= Pos',
           ~(Handling' /\ s = sid') /\ s \in held' => ~(Handling /\ s = sid) /\ s \in held /\ acc'[s] = acc[s]
    PROVE  OnceSession(s)'
<1>1. PICK t \in Seq(Nat), p \in Nat, p2 \in Nat : t = turns[s] /\ t = turns'[s] /\ p = Pos /\ p2 = Pos' /\ p <= p2
  BY TurnsLen, PosNat, PosNatNext
<1>2. /\ Commands(s) \subseteq 1..Len(history) /\ Commands(s) \subseteq Commands(s)' /\ Len(history) \in Nat
      /\ \A n \in Commands(s)' : n \in Commands(s) \/ (n \in Nat /\ n > Len(history))
  BY CommandsGrow, SceneFacts
<1>3. \A n : (Stored(s, n)' <=> Stored(s, n)) /\ (Below(s, n)' <=> Below(s, n))
  BY <1>1 DEF Stored, Below
<1>4. Sorted(s)' /\ \A i \in DOMAIN turns'[s] : turns'[s][i] \in Commands(s)'
  BY <1>1, <1>2 DEF OnceSession, Sorted
<1>5. ASSUME NEW n \in Commands(s)', n >= p2 PROVE Stored(s, n) \/ Below(s, n)
  <2>1. CASE n \in Commands(s)
    <3>1. n \in Nat
      BY <1>2, <2>1
    <3>2. n >= p
      BY <1>1, <1>5, <3>1
    <3> QED BY <1>1, <2>1, <3>2 DEF OnceSession
  <2>2. CASE n \notin Commands(s)
    <3>1. n \in Nat /\ n > Len(history)
      BY <1>2, <2>2
    <3>2. \A i \in DOMAIN t : t[i] \in 1..Len(history)
      BY <1>1, <1>2 DEF OnceSession
    <3>3. \A i \in DOMAIN t : t[i] < n
      BY <1>2, <3>1, <3>2
    <3> QED BY <1>1, <3>3 DEF Below
  <2> QED BY <2>1, <2>2
<1>6. ASSUME ~(Handling' /\ s = sid'), s \in held'
      PROVE  Settled(s, Pos)' /\ \A i \in DOMAIN acc'[s] : acc'[s][i] < Pos'
  <2>1. PICK a \in Seq(Nat) : a = acc[s] /\ a = acc'[s]
    BY <1>6, TurnsLen
  <2>2. Settled(s, Pos) /\ \A i \in DOMAIN a : a[i] < p
    BY <1>1, <1>6, <2>1 DEF OnceSession
  <2>3. \A i \in DOMAIN a : a[i] < p2
    BY <1>1, <2>2
  <2>4. Below(s, p) => Below(s, p2)
    BY <1>1 DEF Below
  <2>5. Within(s)' <=> Within(s)
    BY <1>1, <2>1 DEF Within
  <2>6. Settled(s, Pos)'
    BY <1>1, <1>3, <2>1, <2>2, <2>4, <2>5 DEF Settled
  <2> QED BY <1>1, <2>1, <2>3, <2>6
<1> QED BY <1>1, <1>3, <1>4, <1>5, <1>6 DEF OnceSession

LEMMA RestNone ==
    ASSUME NEW q \in Seq(Nat), NEW k \in Nat, Len(q) <= k
    PROVE  SubSeq(q, k + 1, Len(q)) = <<>>
OBVIOUS

LEMMA RestLast ==
    ASSUME NEW q \in Seq(Nat), NEW x \in Nat
    PROVE  SubSeq(Append(q, x), Len(q) + 1, Len(Append(q, x))) = <<x>>
<1>1. Append(q, x) \in Seq(Nat) /\ Len(Append(q, x)) = Len(q) + 1 /\ Append(q, x)[Len(q) + 1] = x /\ Len(q) \in Nat
  BY AppendProperties
<1>2. PICK p \in Seq(Nat), k \in Nat : p = Append(q, x) /\ k = Len(q) /\ Len(p) = k + 1 /\ p[k + 1] = x
  BY <1>1
<1>3. SubSeq(p, k + 1, k + 1) \in Seq(Nat) /\ Len(SubSeq(p, k + 1, k + 1)) = 1 /\ SubSeq(p, k + 1, k + 1)[1] = x
  BY <1>2
<1>4. ASSUME NEW s \in Seq(Nat), Len(s) = 1, s[1] = x PROVE s = <<x>>
  <2>1. <<x>> \in Seq(Nat) /\ Len(<<x>>) = 1 /\ <<x>>[1] = x
    OBVIOUS
  <2>2. \A i \in 1..Len(s) : s[i] = <<x>>[i]
    BY <1>4, <2>1
  <2> QED BY <1>4, <2>1, <2>2, SeqEqual
<1> QED BY <1>2, <1>3, <1>4

LEMMA UpTo == \A n \in Nat : \A i \in 1..n : n \in 1..n /\ (i = n \/ i < n)
OBVIOUS

\* An accumulator as long as the stored turns ends with the last of them.
LEMMA AllBelow ==
    ASSUME NEW t \in Seq(Nat), NEW a \in Seq(Nat), NEW x \in Nat, Len(a) = Len(t),
           \A i, j \in DOMAIN t : i < j => t[i] < t[j], \A i \in DOMAIN a : a[i] < x,
           \A i \in DOMAIN a : \E j \in DOMAIN t : i <= j /\ t[j] = a[i]
    PROVE  \A i \in DOMAIN t : t[i] < x
<1> SUFFICES ASSUME NEW i \in DOMAIN t PROVE t[i] < x
  OBVIOUS
<1>1. DOMAIN t = 1..Len(t) /\ DOMAIN a = 1..Len(t) /\ Len(t) \in Nat /\ i \in 1..Len(t)
  OBVIOUS
<1>2. Len(t) \in DOMAIN a /\ Len(t) \in DOMAIN t /\ (i = Len(t) \/ i < Len(t))
  <2>1. Len(t) \in 1..Len(t) /\ (i = Len(t) \/ i < Len(t))
    BY <1>1, UpTo
  <2> QED BY <1>1, <2>1
<1>3. PICK j \in DOMAIN t : Len(t) <= j /\ t[j] = a[Len(t)]
  BY <1>2
<1>4. j = Len(t) /\ t[Len(t)] < x
  BY <1>1, <1>2, <1>3
<1>5. i = Len(t) \/ t[i] < t[Len(t)]
  BY <1>2
<1>6. \A k \in DOMAIN t : t[k] \in Nat
  OBVIOUS
<1>7. t[i] \in Nat /\ t[Len(t)] \in Nat
  BY <1>2, <1>6
<1> QED BY <1>4, <1>5, <1>7

\* A shorter one repeats the stored command after the ones it has.
LEMMA MoreWithin ==
    ASSUME NEW t \in Seq(Nat), NEW a \in Seq(Nat), NEW x \in Nat, NEW p \in DOMAIN t, t[p] = x,
           \A i, j \in DOMAIN t : i < j => t[i] < t[j], \A i \in DOMAIN a : a[i] < x,
           \A i \in DOMAIN a : \E j \in DOMAIN t : i <= j /\ t[j] = a[i],
           NEW i \in 1..Len(a) + 1
    PROVE  \E j \in DOMAIN t : i <= j /\ t[j] = Append(a, x)[i]
<1>1. DOMAIN t = 1..Len(t) /\ DOMAIN a = 1..Len(a) /\ Len(t) \in Nat /\ Len(a) \in Nat
      /\ Append(a, x)[Len(a) + 1] = x /\ \A k \in 1..Len(a) : Append(a, x)[k] = a[k]
  BY AppendProperties
<1>2. CASE i <= Len(a)
  <2>1. i \in DOMAIN a /\ Append(a, x)[i] = a[i]
    BY <1>1, <1>2
  <2> QED BY <2>1
<1>3. CASE i = Len(a) + 1
  <2>1. CASE Len(a) = 0
    BY <1>1, <1>3, <2>1
  <2>2. CASE Len(a) # 0
    <3>1. Len(a) \in DOMAIN a
      BY <1>1, <2>2
    <3>2. PICK j \in DOMAIN t : Len(a) <= j /\ t[j] = a[Len(a)]
      BY <3>1
    <3>a. \A k \in DOMAIN t : t[k] \in Nat /\ k \in Nat
      OBVIOUS
    <3>3. t[j] < t[p] /\ t[j] \in Nat /\ t[p] \in Nat /\ p \in Nat /\ j \in Nat
      <4>1. a[Len(a)] < x
        BY <3>1
      <4> QED BY <3>2, <3>a, <4>1
    <3>4. ~(p = j) /\ ~(p < j)
      <4>1. p < j => t[p] < t[j]
        OBVIOUS
      <4> QED BY <3>3, <4>1
    <3>5. Len(a) + 1 <= p
      BY <1>1, <3>2, <3>3, <3>4
    <3> QED BY <1>1, <1>3, <3>5
  <2> QED BY <2>1, <2>2
<1> QED BY <1>1, <1>2, <1>3

\* update_session is entered with q: what was there, or a turn more.
LEMMA OnceOpened ==
    ASSUME SceneInv, SceneInv', OnceInv, HandleOpened, NEW r \in Session, r = sid
    PROVE  OnceHandler(r)'
<1>1. /\ pc = "dispatch" /\ cursor <= last /\ line.kind = "opened" /\ pc' = "upsert"
      /\ acc' = [acc EXCEPT ![sid] = IF sid \in held THEN acc[sid] ELSE <<>>]
      /\ pending' = SubSeq(acc'[sid], Len(turns[sid]) + 1, Len(acc'[sid]))
      /\ UNCHANGED <<turns, cursor>> /\ sid \in Session
  BY SceneFacts, SceneLine DEF HandleOpened, At, UpdateSession, storeVars
<1>2. PICK t \in Seq(Nat), q \in Seq(Nat), c \in Nat : /\ t = turns[r] /\ t = turns'[r] /\ q = acc'[r] /\ c = cursor /\ c = cursor'
                                                      /\ q = (IF r \in held THEN acc[r] ELSE <<>>)
  <2>1. acc'[r] = (IF r \in held THEN acc[r] ELSE <<>>)
    BY <1>1, SceneFacts
  <2>2. acc[r] \in Seq(Nat) /\ <<>> \in Seq(Nat) /\ turns[r] \in Seq(Nat) /\ cursor \in Nat
    BY TurnsLen, SceneFacts
  <2> QED BY <1>1, <2>1, <2>2
<1>3. Pos = c /\ ~Handling
  BY <1>1, <1>2 DEF Pos, InBatch, Handling
<1>4. r \in held => Settled(r, c) /\ \A i \in DOMAIN acc[r] : acc[r][i] < c
  BY <1>3 DEF OnceInv, OnceSession
<1>5. Len(q) <= Len(t) /\ \A i \in DOMAIN q : q[i] <= c
  <2>1. CASE r \in held
    BY <1>2, <1>4, <2>1 DEF Settled
  <2>2. CASE r \notin held
    BY <1>2, <2>2
  <2> QED BY <2>1, <2>2
<1>6. (\A i \in DOMAIN q : \E j \in DOMAIN t : i <= j /\ t[j] = q[i]) \/ \A i \in DOMAIN t : t[i] < c + 1
  <2>1. CASE r \in held
    <3>1. (\A i \in DOMAIN q : \E j \in DOMAIN t : i <= j /\ t[j] = q[i]) \/ \A i \in DOMAIN t : t[i] < c
      BY <1>2, <1>4, <2>1 DEF Settled, Within, Below
    <3> QED BY <1>2, <3>1
  <2>2. CASE r \notin held
    BY <1>2, <2>2
  <2> QED BY <2>1, <2>2
<1>7. pending' = <<>>
  <2>1. SubSeq(q, Len(t) + 1, Len(q)) = <<>>
    BY <1>5, RestNone
  <2> QED BY <1>1, <1>2, <2>1
<1>8. Settled(r, cursor + 1)'
  BY <1>2, <1>5, <1>6 DEF Settled, Within, Below
<1> QED BY <1>1, <1>2, <1>5, <1>7, <1>8 DEF OnceHandler

LEMMA OnceCommand ==
    ASSUME SceneInv, SceneInv', OnceInv, HandleCommand, NEW r \in Session, r = sid
    PROVE  OnceHandler(r)'
<1>1. /\ pc = "dispatch" /\ cursor <= last /\ line.kind = "command" /\ pc' = "upsert" /\ ~IsReplay
      /\ acc' = [acc EXCEPT ![sid] = Append(Known(sid), cursor)]
      /\ pending' = SubSeq(Append(Known(sid), cursor), Len(turns[sid]) + 1, Len(Append(Known(sid), cursor)))
      /\ UNCHANGED <<turns, cursor, history>>
  BY DEF HandleCommand, At, UpdateSession, storeVars, trailVars
<1>2. PICK t \in Seq(Nat), k \in Seq(Nat), a \in Seq(Nat), c \in Nat :
         /\ t = turns[r] /\ t = turns'[r] /\ k = Known(r) /\ a = acc[r] /\ c = cursor /\ c = cursor'
  <2>1. acc[r] \in Seq(Nat) /\ <<>> \in Seq(Nat) /\ turns[r] \in Seq(Nat) /\ cursor \in Nat
    BY TurnsLen, SceneFacts
  <2>2. Known(r) \in Seq(Nat)
    BY <2>1 DEF Known
  <2> QED BY <1>1, <2>1, <2>2
<1>3. PICK q \in Seq(Nat) : q = Append(k, c) /\ q = acc'[r] /\ pending' = SubSeq(q, Len(t) + 1, Len(q))
  <2>1. Append(k, c) \in Seq(Nat)
    BY AppendProperties
  <2> QED BY <1>1, <1>2, <2>1, SceneFacts
<1>4. Pos = c /\ ~Handling /\ line'.kind = "command" /\ pc' = "upsert"
  BY <1>1, <1>2 DEF Pos, InBatch, Handling, line
<1>5. /\ \A i, j \in DOMAIN t : i < j => t[i] < t[j]
      /\ r \in held => /\ Len(a) <= Len(t) /\ \A i \in DOMAIN a : a[i] < c
                       /\ (\A i \in DOMAIN a : \E j \in DOMAIN t : i <= j /\ t[j] = a[i]) \/ \A i \in DOMAIN t : t[i] < c
  <2>1. OnceSession(r)
    BY DEF OnceInv
  <2>2. \A i, j \in DOMAIN t : i < j => t[i] < t[j]
    BY <1>2, <2>1 DEF OnceSession, Sorted
  <2>3. ASSUME r \in held
        PROVE  /\ Len(a) <= Len(t) /\ \A i \in DOMAIN a : a[i] < c
               /\ Within(r) \/ Below(r, c)
    BY <1>2, <1>4, <2>1, <2>3 DEF OnceSession, Settled
  <2>4. Within(r) => \A i \in DOMAIN a : \E j \in DOMAIN t : i <= j /\ t[j] = a[i]
    BY <1>2 DEF Within
  <2>5. Below(r, c) => \A i \in DOMAIN t : t[i] < c
    BY <1>2 DEF Below
  <2> QED BY <2>2, <2>3, <2>4, <2>5
<1>6. (\E i \in DOMAIN t : t[i] = c) \/ \A i \in DOMAIN t : t[i] < c
  <2>1. c \in Commands(r)
    <3>1. cursor \in DOMAIN history /\ history[cursor] = [kind |-> "command", sid |-> r]
      BY <1>1, SceneLine
    <3> QED BY <1>2, <3>1 DEF Commands, IsCommand
  <2>2. c >= Pos
    BY <1>4
  <2> QED BY <1>2, <2>1, <2>2 DEF OnceInv, OnceSession, Stored, Below
<1>7. r \in held => k = a
  BY <1>2 DEF Known
<1>8. r \notin held => k = t /\ \A i \in DOMAIN t : t[i] < c
  <2>1. SUFFICES ASSUME r \notin held PROVE k = t /\ ~Stored(r, c)
    BY <1>2, <1>6 DEF Stored
  <2>2. CASE r \in rows
    BY <1>1, <1>2, <2>1, <2>2 DEF Known, IsReplay
  <2>3. CASE r \notin rows
    <3>1. t = <<>>
      BY <1>2, <2>3 DEF SceneInv
    <3> QED BY <1>2, <2>1, <2>3, <3>1 DEF Known, Stored
  <2> QED BY <2>2, <2>3
<1>9. Len(k) \in Nat /\ Len(t) \in Nat /\ Len(q) = Len(k) + 1 /\ DOMAIN q = 1..Len(k) + 1 /\ DOMAIN k = 1..Len(k)
      /\ q[Len(k) + 1] = c /\ \A i \in 1..Len(k) : q[i] = k[i]
  <2>1. Len(k) \in Nat /\ Len(t) \in Nat /\ DOMAIN q = 1..Len(q) /\ DOMAIN k = 1..Len(k)
    OBVIOUS
  <2>2. /\ Len(Append(k, c)) = Len(k) + 1 /\ Append(k, c)[Len(k) + 1] = c
        /\ \A i \in 1..Len(k) : Append(k, c)[i] = k[i]
    BY AppendProperties
  <2> QED BY <1>3, <2>1, <2>2
<1>10. \A i \in DOMAIN k : k[i] < c
  BY <1>5, <1>7, <1>8
<1>11. \A i \in DOMAIN q : q[i] <= c
  <2> SUFFICES ASSUME NEW i \in DOMAIN q PROVE q[i] <= c
    OBVIOUS
  <2>1. i \in 1..Len(k) \/ i = Len(k) + 1
    BY <1>9
  <2>2. CASE i \in 1..Len(k)
    <3>1. k[i] < c /\ q[i] = k[i] /\ k[i] \in Nat
      BY <1>9, <1>10, <2>2
    <3> QED BY <3>1
  <2> QED BY <1>9, <2>1, <2>2
<1>12. \/ pending' = <<>> /\ Settled(r, cursor + 1)'
       \/ pending' = <<cursor>>' /\ Below(r, cursor)' /\ Len(acc'[r]) = Len(turns'[r]) + 1
  <2>1. CASE r \in held /\ Len(a) < Len(t)
    <3>1. Len(q) <= Len(t)
      BY <1>7, <1>9, <2>1
    <3>2. pending' = <<>>
      BY <1>3, <1>9, <3>1, RestNone
    <3>3. (\A i \in DOMAIN q : \E j \in DOMAIN t : i <= j /\ t[j] = q[i]) \/ \A i \in DOMAIN t : t[i] < c + 1
      <4>1. CASE \A i \in DOMAIN t : t[i] < c
        <5>1. \A i \in DOMAIN t : t[i] \in Nat
          OBVIOUS
        <5> QED BY <4>1, <5>1
      <4>2. CASE ~\A i \in DOMAIN t : t[i] < c
        <5>1. PICK p \in DOMAIN t : t[p] = c
          BY <1>6, <4>2
        <5>2. /\ \A i \in DOMAIN a : a[i] < c
              /\ \A i \in DOMAIN a : \E j \in DOMAIN t : i <= j /\ t[j] = a[i]
          BY <1>5, <2>1, <4>2
        <5>3. \A i \in 1..Len(a) + 1 : \E j \in DOMAIN t : i <= j /\ t[j] = Append(a, c)[i]
          BY <1>5, <5>1, <5>2, MoreWithin
        <5> QED BY <1>3, <1>7, <1>9, <2>1, <5>3
      <4> QED BY <4>1, <4>2
    <3>4. Settled(r, cursor + 1)'
      BY <1>2, <1>3, <3>1, <3>3 DEF Settled, Within, Below
    <3> QED BY <3>2, <3>4
  <2>2. CASE ~(r \in held /\ Len(a) < Len(t))
    <3>1. Len(k) = Len(t) /\ \A i \in DOMAIN t : t[i] < c
      <4>1. CASE r \in held
        <5>1. Len(a) = Len(t)
          BY <1>5, <1>7, <1>9, <2>2, <4>1
        <5>2. CASE \A i \in DOMAIN a : \E j \in DOMAIN t : i <= j /\ t[j] = a[i]
          BY <1>5, <1>7, <4>1, <5>1, <5>2, AllBelow
        <5> QED BY <1>5, <1>7, <4>1, <5>1, <5>2
      <4>2. CASE r \notin held
        BY <1>8, <4>2
      <4> QED BY <4>1, <4>2
    <3>2. pending' = <<c>>
      BY <1>3, <3>1, RestLast
    <3>3. Below(r, cursor)' /\ Len(acc'[r]) = Len(turns'[r]) + 1
      BY <1>2, <1>3, <1>9, <3>1 DEF Below
    <3> QED BY <1>2, <3>2, <3>3
  <2> QED BY <2>1, <2>2
<1>13. \A i \in DOMAIN acc'[r] : acc'[r][i] <= cursor'
  BY <1>2, <1>3, <1>11
<1> QED BY <1>1, <1>4, <1>12, <1>13 DEF OnceHandler

\* The turn is inserted behind the stored ones.
LEMMA OnceRecord ==
    ASSUME SceneInv, SceneInv', OnceInv, [Next]_vars, RecordTurn, NEW r \in Session, r = sid, Pos <= Pos'
    PROVE  OnceHandler(r)' /\ OnceSession(r)'
<1>1. /\ pc = "turn" /\ pending # <<>> /\ turns' = [turns EXCEPT ![sid] = Append(@, Head(pending))] /\ pc' = "count"
      /\ UNCHANGED <<history, cursor, held, acc, pending>>
  BY DEF RecordTurn, InsertTurn, trailVars
<1>2. /\ Handling /\ Handling' /\ r \in held /\ line' = line /\ sid' = sid /\ Pos' = cursor
      /\ cursor \in DOMAIN history /\ history[cursor] = [kind |-> line.kind, sid |-> r]
  <2>1. pc \in InHandler /\ Handling
    BY <1>1 DEF InHandler, Handling
  <2>2. Pos' = cursor /\ Handling'
    BY <1>1 DEF Pos, InBatch, InHandler, Handling
  <2> QED BY <1>1, <2>1, <2>2, SceneLine DEF sid, line, SceneInv
<1>3. OnceHandler(r)
  BY <1>2 DEF OnceInv
<1>4. pending = <<cursor>> /\ line.kind = "command" /\ Below(r, cursor) /\ Len(acc[r]) = Len(turns[r]) + 1
  BY <1>1, <1>3 DEF OnceHandler
<1>5. PICK t \in Seq(Nat), c \in Nat, a \in Seq(Nat) : t = turns[r] /\ c = cursor /\ a = acc[r] /\ a = acc'[r]
  BY <1>1, TurnsLen, SceneFacts
<1>6. PICK u \in Seq(Nat), n \in Nat : /\ u = turns'[r] /\ u = Append(t, c) /\ n = Len(t) /\ Len(u) = n + 1 /\ u[n + 1] = c
                                       /\ DOMAIN t = 1..n /\ DOMAIN u = 1..n + 1 /\ \A i \in 1..n : u[i] = t[i]
  <2>1. Head(pending) = c
    BY <1>4, <1>5
  <2>2. turns'[r] = Append(t, c)
    BY <1>1, <1>5, <2>1, SceneFacts
  <2>3. Append(t, c) \in Seq(Nat) /\ Len(t) \in Nat /\ DOMAIN t = 1..Len(t)
    BY AppendProperties
  <2>4. Len(Append(t, c)) = Len(t) + 1 /\ Append(t, c)[Len(t) + 1] = c /\ \A i \in 1..Len(t) : Append(t, c)[i] = t[i]
    BY AppendProperties
  <2>5. DOMAIN Append(t, c) = 1..Len(t) + 1
    BY <2>3, <2>4
  <2> QED BY <2>2, <2>3, <2>4, <2>5
<1>7. \A i \in 1..n : t[i] \in Nat /\ t[i] < c /\ u[i] < c
  <2>1. \A i \in DOMAIN t : t[i] \in Nat
    OBVIOUS
  <2>2. \A i \in DOMAIN t : t[i] < c
    BY <1>4, <1>5 DEF Below
  <2> QED BY <1>6, <2>1, <2>2
<1>8. \A i \in 1..n + 1 : u[i] <= c /\ u[i] < c + 1
  <2> SUFFICES ASSUME NEW i \in 1..n + 1 PROVE u[i] <= c /\ u[i] < c + 1
    OBVIOUS
  <2>1. i \in 1..n \/ i = n + 1
    OBVIOUS
  <2>2. CASE i \in 1..n
    <3>1. u[i] \in Nat /\ u[i] < c
      BY <1>6, <1>7, <2>2
    <3> QED BY <3>1
  <2> QED BY <1>6, <2>1, <2>2
<1>9. OnceHandler(r)'
  <2>1. Below(r, cursor + 1)'
    BY <1>1, <1>5, <1>6, <1>8 DEF Below
  <2>2. \A i \in DOMAIN acc'[r] : acc'[r][i] <= cursor'
    BY <1>1, <1>3 DEF OnceHandler
  <2> QED BY <1>1, <1>4, <1>5, <1>6, <2>1, <2>2 DEF OnceHandler
<1>10. Sorted(r)'
  <2>1. \A i, j \in 1..n : i < j => t[i] < t[j]
    BY <1>2, <1>5, <1>6 DEF OnceInv, OnceSession, Sorted
  <2>2. ASSUME NEW i \in 1..n + 1, NEW j \in 1..n + 1, i < j PROVE u[i] < u[j]
    <3>1. i \in 1..n /\ (j \in 1..n \/ j = n + 1)
      BY <2>2
    <3> QED BY <1>6, <1>7, <2>1, <2>2, <3>1
  <2> QED BY <1>6, <2>2 DEF Sorted
<1>11. /\ Commands(r) \subseteq Commands(r)' /\ c \in Commands(r)
       /\ \A i \in DOMAIN u : u[i] \in Commands(r)'
  <2>1. c \in Commands(r)
    BY <1>2, <1>4, <1>5 DEF Commands, IsCommand
  <2>2. Commands(r)' = Commands(r)
    BY <1>1 DEF Commands, IsCommand
  <2>3. \A i \in 1..n : t[i] \in Commands(r)
    BY <1>5, <1>6 DEF OnceInv, OnceSession
  <2>4. \A i \in 1..n + 1 : i \in 1..n \/ i = n + 1
    OBVIOUS
  <2> QED BY <1>6, <2>1, <2>2, <2>3, <2>4
<1>12. ASSUME NEW m \in Commands(r)', m >= Pos' PROVE Stored(r, m)' \/ Below(r, m)'
  <2>1. m \in Nat /\ m >= c
    <3>1. Commands(r)' = Commands(r)
      BY <1>1 DEF Commands, IsCommand
    <3>2. m \in 1..Len(history) /\ Len(history) \in Nat
      BY <1>12, <3>1, CommandsGrow, SceneFacts
    <3>3. m \in Nat
      BY <3>2
    <3> QED BY <1>2, <1>5, <1>12, <3>3
  <2>2. CASE m = c
    <3>1. n + 1 \in DOMAIN u /\ u[n + 1] = m
      BY <1>6, <2>2
    <3> QED BY <1>6, <3>1 DEF Stored
  <2>3. CASE m > c
    <3>1. \A i \in DOMAIN u : u[i] < m
      <4>1. \A i \in 1..n + 1 : u[i] \in Nat
        BY <1>6
      <4> QED BY <1>6, <1>8, <2>1, <2>3, <4>1
    <3> QED BY <1>6, <3>1 DEF Below
  <2> QED BY <2>1, <2>2, <2>3
<1>13. OnceSession(r)'
  BY <1>2, <1>6, <1>10, <1>11, <1>12 DEF OnceSession
<1> QED BY <1>9, <1>13

LEMMA OnceCount ==
    ASSUME SceneInv, SceneInv', OnceInv, CountTurn, NEW r \in Session, r = sid
    PROVE  OnceHandler(r)'
<1>1. /\ pc = "count" /\ pc' = "turn" /\ pending' = Tail(pending) /\ UNCHANGED <<turns, acc, cursor, history>>
  BY DEF CountTurn, BumpCount, trailVars
<1>2. OnceHandler(r) /\ pc \in InHandler
  <2>1. Handling /\ r \in held
    BY <1>1 DEF Handling, SceneInv
  <2> QED BY <1>1, <2>1 DEF OnceInv, InHandler
<1>3. /\ pending = <<cursor>> /\ Below(r, cursor + 1) /\ Len(acc[r]) = Len(turns[r])
      /\ \A i \in DOMAIN acc[r] : acc[r][i] <= cursor
  BY <1>1, <1>2 DEF OnceHandler
<1>4. pending' = <<>>
  <2>1. \A x : Tail(<<x>>) = <<>>
    OBVIOUS
  <2> QED BY <1>1, <1>3, <2>1
<1>5. Settled(r, cursor + 1)'
  <2>1. Len(acc[r]) <= Len(turns[r])
    BY <1>3, TurnsLen
  <2> QED BY <1>1, <1>3, <2>1 DEF Settled, Below
<1> QED BY <1>1, <1>3, <1>4, <1>5 DEF OnceHandler

\* The line is done: what its handler left is in order between two lines.
LEMMA OnceUpdated ==
    ASSUME SceneInv, SceneInv', OnceInv, [Next]_vars, Updated, NEW r \in Session, r = sid, Pos <= Pos'
    PROVE  OnceSession(r)'
<1>1. pc = "turn" /\ pending = <<>> /\ pc' = "dispatch" /\ cursor' = cursor + 1 /\ UNCHANGED <<turns, acc, held, history>>
  BY DEF Updated, LineDone, trailVars, storeVars
<1>2. /\ OnceHandler(r) /\ OnceSession(r) /\ Pos' = cursor + 1 /\ Pos = cursor /\ cursor \in Nat
  <2>1. Handling /\ r \in held
    BY <1>1 DEF Handling, SceneInv
  <2> QED BY <1>1, <2>1, SceneFacts DEF OnceInv, Pos, InBatch, InHandler
<1>3. Settled(r, cursor + 1) /\ \A i \in DOMAIN acc[r] : acc[r][i] <= cursor
  BY <1>1, <1>2 DEF OnceHandler
<1>4. PICK t \in Seq(Nat), a \in Seq(Nat), c \in Nat : /\ t = turns[r] /\ t = turns'[r] /\ a = acc[r] /\ a = acc'[r]
                                                      /\ c = cursor /\ Pos' = c + 1 /\ Pos = c
  BY <1>1, <1>2, TurnsLen
<1>5. Settled(r, Pos)'
  BY <1>3, <1>4 DEF Settled, Within, Below
<1>6. \A i \in DOMAIN a : a[i] < c + 1
  <2>1. \A i \in DOMAIN a : a[i] \in Nat
    OBVIOUS
  <2>2. \A i \in DOMAIN a : a[i] <= c
    BY <1>3, <1>4
  <2> QED BY <2>1, <2>2
<1>7. Commands(r)' = Commands(r) /\ Commands(r) \subseteq Nat
  <2>1. Commands(r) \subseteq 1..Len(history) /\ Len(history) \in Nat
    BY CommandsGrow, SceneFacts
  <2> QED BY <1>1, <2>1 DEF Commands, IsCommand
<1>8. Sorted(r)' /\ \A i \in DOMAIN turns'[r] : turns'[r][i] \in Commands(r)'
  BY <1>2, <1>4, <1>7 DEF OnceSession, Sorted
<1>9. ASSUME NEW n \in Commands(r)', n >= c + 1 PROVE Stored(r, n)' \/ Below(r, n)'
  <2>1. n \in Nat /\ n >= c /\ n \in Commands(r)
    BY <1>7, <1>9
  <2>2. Stored(r, n) \/ Below(r, n)
    BY <1>2, <1>4, <2>1 DEF OnceSession
  <2> QED BY <1>4, <2>2 DEF Stored, Below
<1> QED BY <1>4, <1>5, <1>6, <1>8, <1>9 DEF OnceSession

LEMMA OnceNext ==
    ASSUME SceneInv, SceneInv', OnceInv, [Next]_vars, ~Crash, ~Stop, ~retried'
    PROVE  OnceInv'
<1>1. Pos <= Pos'
  BY PosGrows
<1>2. ASSUME NEW s \in Session PROVE OnceSession(s)'
  <2>1. OnceSession(s)
    BY DEF OnceInv
  <2>2. CASE turns' = turns /\ (~(Handling' /\ s = sid') /\ s \in held' => ~(Handling /\ s = sid) /\ s \in held /\ acc'[s] = acc[s])
    BY <1>1, <2>1, <2>2, OnceStill
  <2>3. CASE Trail
    <3>1. /\ UNCHANGED <<turns, held, acc, pc>> /\ (pc \in InHandler => sid' = sid)
      BY <2>3, TrailLeaves
    <3> QED BY <2>2, <3>1 DEF Handling, InHandler
  <2>4. CASE Start \/ Poll \/ Read \/ Commit \/ Save \/ SkipReplay \/ HandleIntent
    <3>1. UNCHANGED <<turns, held, acc>> /\ ~Handling
      BY <2>4 DEF Start, Poll, Read, Commit, Save, SkipReplay, HandleIntent, UpsertIntent, At, storeVars, Handling
    <3> QED BY <2>2, <3>1
  <2>5. CASE End
    <3>1. UNCHANGED <<turns, held, acc>> /\ ~Handling
      BY <2>5 DEF End, EndSession, Handling
    <3> QED BY <2>2, <3>1
  <2>6. CASE HandleOpened \/ HandleCommand
    <3>1. PICK q : UpdateSession(sid, q) /\ pc = "dispatch" /\ cursor <= last
      BY <2>6 DEF HandleOpened, HandleCommand, At
    <3>2. /\ held' = held \union {sid} /\ acc' = [acc EXCEPT ![sid] = q] /\ turns' = turns /\ ~Handling /\ Handling' /\ sid' = sid
      BY <3>1 DEF UpdateSession, storeVars, trailVars, Handling, sid, line
    <3>3. s # sid => acc'[s] = acc[s]
      BY <3>2, SceneFacts
    <3> QED BY <2>2, <3>2, <3>3
  <2>7. CASE HandleClosed
    <3>1. /\ held' = held \ {sid} /\ acc' = [acc EXCEPT ![sid] = <<>>] /\ turns' = turns /\ ~Handling
      BY <2>7 DEF HandleClosed, At, storeVars, Handling
    <3>2. s # sid => acc'[s] = acc[s]
      BY <3>1, SceneFacts
    <3> QED BY <2>2, <3>1, <3>2
  <2>8. CASE Upsert \/ CountTurn
    <3>1. UNCHANGED <<turns, held, acc, cursor, history>> /\ Handling /\ Handling'
      BY <2>8 DEF Upsert, UpsertSession, CountTurn, BumpCount, trailVars, Handling
    <3>2. sid' = sid
      BY <3>1 DEF sid, line
    <3> QED BY <2>2, <3>1, <3>2
  <2>9. CASE RecordTurn
    <3>1. CASE s = sid
      BY <1>1, <2>9, <3>1, OnceRecord
    <3>2. CASE s # sid
      <4>1. turns' = [turns EXCEPT ![sid] = Append(@, Head(pending))] /\ UNCHANGED <<held, acc>>
        BY <2>9 DEF RecordTurn, InsertTurn
      <4>2. turns'[s] = turns[s]
        BY <3>2, <4>1, SceneFacts
      <4> QED BY <1>1, <2>1, <3>2, <4>1, <4>2, OnceStill
    <3> QED BY <3>1, <3>2
  <2>10. CASE Updated
    <3>1. CASE s = sid
      BY <1>1, <2>10, <3>1, OnceUpdated
    <3>2. CASE s # sid
      <4>1. UNCHANGED <<turns, held, acc>>
        BY <2>10 DEF Updated, storeVars
      <4> QED BY <2>2, <3>2, <4>1
    <3> QED BY <3>1, <3>2
  <2>11. CASE UNCHANGED vars
    <3>1. UNCHANGED <<turns, held, acc, pc, cursor, history>>
      BY <2>11 DEF vars, trailVars, storeVars, tailerVars, procVars
    <3>2. sid' = sid /\ Handling' = Handling
      BY <3>1 DEF sid, line, Handling
    <3> QED BY <2>2, <3>1, <3>2
  <2>12. ~IntentRefused /\ ~StoreFault
    BY DEF IntentRefused, StoreFault, FailBatch
  <2> QED BY <2>3, <2>4, <2>5, <2>6, <2>7, <2>8, <2>9, <2>10, <2>11, <2>12 DEF Next, Work
<1>3. ASSUME NEW s \in held', Handling', s = sid' PROVE OnceHandler(s)'
  <2>1. CASE Handling /\ UNCHANGED <<turns, acc, cursor, pending, held>> /\ line' = line /\ sid' = sid
             /\ (pc' = pc \/ (pc = "upsert" /\ pc' = "turn"))
    <3>1. OnceHandler(s)
      BY <1>3, <2>1 DEF OnceInv
    <3>2. Settled(s, cursor + 1)' <=> Settled(s, cursor + 1)
      BY <2>1 DEF Settled, Within, Below
    <3>3. (Below(s, cursor)' <=> Below(s, cursor)) /\ (Below(s, cursor + 1)' <=> Below(s, cursor + 1))
      BY <2>1 DEF Below
    <3> QED BY <2>1, <3>1, <3>2, <3>3 DEF OnceHandler
  <2>2. CASE Trail
    <3>1. /\ UNCHANGED <<turns, held, acc, pc, cursor, pending>> /\ (pc \in InHandler => sid' = sid /\ line' = line)
      BY <2>2, TrailLeaves
    <3> QED BY <1>3, <2>1, <3>1 DEF Handling, InHandler
  <2>3. CASE Upsert \/ UNCHANGED vars
    <3>1. /\ UNCHANGED <<turns, held, acc, cursor, pending, history>> /\ Handling /\ (pc' = pc \/ (pc = "upsert" /\ pc' = "turn"))
      BY <1>3, <2>3 DEF Upsert, UpsertSession, trailVars, Handling, vars, storeVars, tailerVars, procVars
    <3>2. line' = line /\ sid' = sid
      BY <3>1 DEF line, sid
    <3> QED BY <2>1, <3>1, <3>2
  <2>4. CASE HandleOpened \/ HandleCommand \/ RecordTurn \/ CountTurn
    <3>1. UNCHANGED <<cursor, history>> /\ (pc \in InHandler \/ (pc = "dispatch" /\ cursor <= last))
      BY <2>4 DEF HandleOpened, HandleCommand, UpdateSession, At, RecordTurn, CountTurn, trailVars, InHandler
    <3>2. PICK r \in Session : r = sid /\ r = s
      BY <1>3, <3>1, SceneLine DEF sid, line
    <3> QED BY <1>1, <2>4, <3>2, OnceOpened, OnceCommand, OnceRecord, OnceCount
  <2>5. ~IntentRefused /\ ~StoreFault
    BY DEF IntentRefused, StoreFault, FailBatch
  <2>6. ~Start /\ ~Poll /\ ~Read /\ ~Commit /\ ~Save /\ ~SkipReplay /\ ~Updated /\ ~HandleClosed /\ ~End /\ ~HandleIntent
    BY <1>3 DEF Start, Poll, Read, Commit, Save, SkipReplay, Updated, HandleClosed, End, HandleIntent, LineDone, Handling
  <2> QED BY <2>2, <2>3, <2>4, <2>5, <2>6 DEF Next, Work
<1> QED BY <1>2, <1>3 DEF OnceInv

-----------------------------------------------------------------------------
\* A step within the batch, at most over one line.
LEMMA BeginBatch ==
    ASSUME SceneInv, SceneInv', BeginPlace, pc \in InBatch, pc' \in InBatch,
           UNCHANGED <<history, base, offset, cache>>, \A s \in Session : \A n : Stored(s, n) => Stored(s, n)',
           \/ cursor' = cursor /\ high' = high
           \/ /\ cursor' = cursor + 1 /\ high' = (IF cursor > high THEN cursor ELSE high)
              /\ \A s \in Session : IsCommand(cursor, s) => Stored(s, cursor)
    PROVE  BeginPlace'
<1>1. PICK c \in Nat, h \in Nat : c = cursor /\ h = high /\ h < c /\ Pos = c
  <2>1. Pos = cursor
    BY DEF Pos
  <2> QED BY <2>1, SceneFacts DEF BeginPlace
<1>2. (cursor' = c /\ high' = h) \/ (cursor' = c + 1 /\ high' = c /\ \A s \in Session : IsCommand(c, s) => Stored(s, c))
  BY <1>1
<1>3. Pos' = cursor' /\ offset \in Nat /\ StartAt \in Nat /\ StartAt' = StartAt /\ pc # "down" /\ pc' # "down" /\ pc # "save"
  BY PosNat, SceneFacts DEF Pos, InBatch, InHandler, StartAt
<1>4. Pos' > high'
  BY <1>1, <1>2, <1>3
<1>5. ASSUME NEW x \in {offset, StartAt}
      PROVE  /\ cursor' <= high' + 1 \/ cursor' <= First(x)'
             /\ \A n \in First(x)'..high' : \A s \in Session : IsCommand(n, s)' => Stored(s, n)'
  <2>1. PICK f \in Nat : f = First(x) /\ f = First(x)'
    <3>1. First(x)' = First(x)
      BY DEF First, FileSize
    <3>2. First(x) \in Nat
      BY <1>3, FirstNat
    <3> QED BY <3>1, <3>2
  <2>2. (c <= h + 1 \/ c <= f) /\ \A n \in f..h : \A s \in Session : IsCommand(n, s) => Stored(s, n)
    BY <1>1, <2>1 DEF BeginPlace
  <2>3. \A n, s : IsCommand(n, s)' <=> IsCommand(n, s)
    BY DEF IsCommand
  <2>4. CASE cursor' = c /\ high' = h
    BY <2>1, <2>2, <2>3, <2>4
  <2>5. CASE cursor' = c + 1 /\ high' = c /\ \A s \in Session : IsCommand(c, s) => Stored(s, c)
    <3>1. \A n \in f..c : n \in f..h \/ n = c
      BY <1>1, <2>2
    <3> QED BY <2>1, <2>2, <2>3, <2>5, <3>1
  <2> QED BY <1>2, <2>4, <2>5
<1> QED BY <1>3, <1>4, <1>5 DEF BeginPlace

\* What the tailer does between two batches.
LEMMA BeginPass ==
    ASSUME SceneInv, SceneInv', BeginPlace, Pos <= Pos', CacheMayFail => rotations = 0,
           Start \/ Poll \/ Read \/ Commit \/ Save
    PROVE  BeginPlace'
<1>1. UNCHANGED <<history, base, high, turns>> /\ (Save \/ cache' = cache)
  BY DEF Start, Poll, Read, Commit, Save, trailVars, storeVars
<1>2. PICK o \in Nat, h \in Nat, k \in Nat, b \in Nat : o = offset /\ h = high /\ k = StartAt /\ b = base
  BY PosNat, SceneFacts
<1>3. Pos' > high' /\ Pos' > h
  <2>1. Pos \in Nat /\ Pos' \in Nat /\ Pos > h
    BY <1>2, PosNat, PosNatNext DEF BeginPlace
  <2> QED BY <1>1, <1>2, <2>1
<1>4. \A x : First(x)' = First(x)
  BY <1>1 DEF First, FileSize
<1>5. \A n, s : (IsCommand(n, s)' <=> IsCommand(n, s)) /\ (Stored(s, n)' <=> Stored(s, n))
  BY <1>1 DEF IsCommand, Stored
<1>6. \A x \in {o, k} : \A n \in First(x)..h : \A s \in Session : IsCommand(n, s) => Stored(s, n)
  BY <1>2 DEF BeginPlace
<1>7. CASE Start
  <2>1. pc = "down" /\ pc' = "idle" /\ offset' \in {cache, 0} /\ cache' = cache
    BY <1>7 DEF Start
  <2>2. h = 0 /\ cache = 0 /\ offset' = 0 /\ k = 0 /\ StartAt' = 0
    BY <1>2, <2>1 DEF BeginPlace, StartAt
  <2>3. First(0) = b + 1
    BY <1>2, FirstNat
  <2>4. \A n : ~(n \in First(0)..h)
    BY <2>2, <2>3
  <2> QED BY <1>1, <1>2, <1>3, <1>4, <2>1, <2>2, <2>4 DEF BeginPlace, InBatch, InHandler
<1>8. CASE Poll
  <2>1. pc = "idle" /\ pc' \in {"idle", "read"} /\ offset' = (IF FileSize < offset THEN 0 ELSE offset) /\ cache' = cache
    BY <1>8 DEF Poll
  <2>2. StartAt' = k /\ First(offset') = First(o)
    <3>1. FileSize < o => First(0) = First(o)
      BY <1>2, SceneFacts, FirstNat
    <3> QED BY <1>2, <2>1, <3>1 DEF StartAt
  <2>3. ~CacheMayFail => offset' \in {cache', 0}
    BY <2>1 DEF BeginPlace
  <2> QED BY <1>1, <1>2, <1>3, <1>4, <1>5, <1>6, <2>1, <2>2, <2>3 DEF BeginPlace, InBatch, InHandler
<1>9. CASE Read
  <2>1. /\ pc = "read" /\ offset' = offset /\ cache' = cache
        /\ (pc' = "idle" \/ (pc' = "dispatch" /\ cursor' = base + offset + 1 /\ ~(FileSize <= offset)))
    BY <1>9 DEF Read
  <2>2. StartAt' = k /\ (~CacheMayFail => offset' \in {cache', 0})
    BY <1>2, <2>1 DEF StartAt, BeginPlace
  <2>3. ASSUME pc' \in InBatch, NEW x \in {o, k} PROVE cursor' <= high' + 1 \/ cursor' <= First(x)
    <3>1. cursor' = b + o + 1 /\ ~(FileSize <= o) /\ FileSize \in Nat
      BY <1>2, <2>1, <2>3, SceneFacts DEF InBatch, InHandler
    <3>2. First(o) = b + o + 1
      BY <1>2, <3>1, FirstNat
    <3>3. First(x) \in Nat /\ First(0) <= First(x)
      BY <1>2, FirstNat
    <3>4. CASE CacheMayFail
      <4>1. b = 0 /\ o <= h
        BY <1>2, <3>4 DEF SceneInv, NotAheadInv
      <4> QED BY <1>1, <1>2, <3>1, <4>1
    <3>5. CASE ~CacheMayFail
      <4>1. o = k \/ o = 0
        BY <1>2, <2>1, <3>5 DEF BeginPlace, StartAt
      <4> QED BY <3>1, <3>2, <3>3, <4>1
    <3> QED BY <3>4, <3>5
  <2> QED BY <1>1, <1>2, <1>3, <1>4, <1>5, <1>6, <2>1, <2>2, <2>3 DEF BeginPlace
<1>10. CASE Commit
  <2>1. pc' = "save" /\ offset' = offset + span /\ cache' = cache
    BY <1>10 DEF Commit
  <2>2. PICK w \in Nat : w = offset'
    BY <1>2, <2>1, SceneFacts
  <2>3. StartAt' = k /\ First(w) = Pos' /\ pc' \notin InBatch /\ pc' # "down"
    BY <1>1, <1>2, <1>4, <2>1, <2>2 DEF StartAt, Pos, InBatch, InHandler, First, FileSize
  <2>4. \A n : ~(n \in First(w)..h)
    <3>1. Pos' \in Nat
      BY PosNatNext
    <3> QED BY <1>2, <1>3, <2>3, <3>1
  <2>5. \A x \in {offset', StartAt'} : \A n \in First(x)..h : \A s \in Session : IsCommand(n, s) => Stored(s, n)
    BY <1>6, <2>2, <2>3, <2>4
  <2> QED BY <1>1, <1>2, <1>3, <1>4, <1>5, <2>1, <2>3, <2>5 DEF BeginPlace
<1>11. CASE Save
  <2>1. pc' = "idle" /\ offset' = offset /\ (IF CacheMayFail THEN cache' \in {offset, cache} ELSE cache' = offset)
    BY <1>11 DEF Save
  <2>2. StartAt' \in {o, k} /\ (~CacheMayFail => offset' \in {cache', 0}) /\ pc' \notin InBatch
    BY <1>2, <2>1 DEF StartAt, InBatch, InHandler
  <2> QED BY <1>1, <1>2, <1>3, <1>4, <1>5, <1>6, <2>1, <2>2 DEF BeginPlace
<1> QED BY <1>7, <1>8, <1>9, <1>10, <1>11

LEMMA BeginTrail ==
    ASSUME SceneInv, SceneInv', BeginPlace, Pos <= Pos', Trail
    PROVE  BeginPlace'
<1>1. UNCHANGED <<pc, offset, cache, cursor, high, turns>>
  BY TrailLeaves
<1>2. PICK o \in Nat, h \in Nat, k \in Nat, c \in Nat :
         /\ o = offset /\ h = high /\ k = StartAt /\ k = StartAt' /\ c = cursor /\ h <= Len(history) /\ Len(history) \in Nat
  <2>1. StartAt' = StartAt
    BY <1>1 DEF StartAt
  <2> QED BY <2>1, PosNat, SceneFacts
<1>3. Pos' > h
  <2>1. Pos \in Nat /\ Pos' \in Nat /\ Pos > h
    BY <1>2, PosNat, PosNatNext DEF BeginPlace
  <2> QED BY <1>2, <2>1
<1>4. ASSUME NEW x \in {o, k}
      PROVE  /\ pc \in InBatch => c <= h + 1 \/ c <= First(x)'
             /\ \A n \in First(x)'..h : \A s \in Session : IsCommand(n, s)' => Stored(s, n)'
  <2>1. PICK f \in Nat, g \in Nat : f = First(x) /\ g = First(x)' /\ f <= g /\ 1 <= f
    <3>1. x \in Nat /\ First(x) \in Nat /\ First(x) <= First(x)' /\ First(x)' \in Nat
      BY FirstNat, FirstGrows
    <3>2. 1 <= First(x)
      <4>1. base \in Nat /\ base + 1 <= First(x)
        BY <3>1, FirstNat, SceneFacts
      <4> QED BY <3>1, <4>1
    <3> QED BY <3>1, <3>2
  <2>2. (pc \in InBatch => c <= h + 1 \/ c <= f) /\ \A n \in f..h : \A s \in Session : IsCommand(n, s) => Stored(s, n)
    BY <1>2, <2>1 DEF BeginPlace
  <2>3. \A n \in g..h : n \in f..h /\ n \in 1..Len(history)
    BY <1>2, <2>1
  <2>4. \A s, n : n \in 1..Len(history) => (IsCommand(n, s)' <=> IsCommand(n, s))
    BY TrailLeaves
  <2>5. \A s, n : Stored(s, n)' <=> Stored(s, n)
    BY <1>1 DEF Stored
  <2> QED BY <1>2, <2>1, <2>2, <2>3, <2>4, <2>5
<1>5. (pc = "down" => h = 0 /\ cache = 0 /\ o = 0) /\ (pc # "save" /\ ~CacheMayFail => o \in {cache, 0})
  BY <1>2 DEF BeginPlace
<1> QED BY <1>1, <1>2, <1>3, <1>4, <1>5 DEF BeginPlace

LEMMA HighNat == ASSUME SceneInv' PROVE high' \in Nat
<1>1. high' \in 0..Len(history') /\ history' \in Seq(Line)
  BY DEF SceneInv, NotAheadInv, TypeOK, TrailTypeOK
<1>2. Len(history') \in Nat
  BY <1>1
<1> QED BY <1>1, <1>2

LEMMA LinesGrow ==
    ASSUME SceneInv, [Next]_vars
    PROVE  \A m \in DOMAIN history : m \in DOMAIN history' /\ history'[m] = history[m]
<1>1. CASE Trail
  <2>1. /\ Len(history') \in Nat /\ DOMAIN history' = 1..Len(history') /\ Len(history) <= Len(history')
        /\ \A m \in 1..Len(history) : history'[m] = history[m]
    BY <1>1, LinesStay, SceneFacts DEF Trail
  <2>2. Len(history) \in Nat /\ DOMAIN history = 1..Len(history)
    BY SceneFacts
  <2> QED BY <2>1, <2>2
<1>2. Trail \/ history' = history
  BY DEF Next, Start, Crash, Stop, Work, StoreFault, Poll, Read, Commit, Save, HandleOpened, HandleCommand,
         SkipReplay, UpdateSession, Upsert, RecordTurn, CountTurn, Updated, HandleClosed, End, HandleIntent,
         IntentRefused, vars, trailVars
<1> QED BY <1>1, <1>2

\* The turns of s stay, and its accumulator is as long as they are.
LEMMA BeginStill ==
    ASSUME SceneInv, SceneInv', [Next]_vars, NEW s \in Session, BeginSession(s), turns'[s] = turns[s],
           Pos <= Pos', high <= high',
           Handling /\ s = sid => (Handling' /\ s = sid' /\ cursor' = cursor) \/ cursor <= high',
           ~(Handling' /\ s = sid') /\ s \in held' =>
                (s \in held /\ acc'[s] = acc[s] /\ ~(Handling /\ s = sid)) \/ Len(acc'[s]) = Len(turns[s]),
           s \notin held' =>
                s \notin held \/ (cursor \in DOMAIN history /\ history[cursor] = [kind |-> "closed", sid |-> s] /\ cursor <= Pos')
    PROVE  BeginSession(s)'
<1>1. PICK t \in Seq(Nat), p \in Nat, p2 \in Nat, h \in Nat, h2 \in Nat :
         /\ t = turns[s] /\ t = turns'[s] /\ p = Pos /\ p2 = Pos' /\ p <= p2 /\ h = high /\ h2 = high' /\ h <= h2
  BY TurnsLen, PosNat, PosNatNext, HighNat, SceneFacts
<1>2. ASSUME NEW i \in DOMAIN t PROVE t[i] <= h2 \/ (Handling' /\ s = sid' /\ t[i] = cursor')
  <2>1. t[i] \in Nat
    OBVIOUS
  <2>2. t[i] <= h \/ (Handling /\ s = sid /\ t[i] = cursor)
    BY <1>1 DEF BeginSession
  <2> QED BY <1>1, <2>1, <2>2
<1>3. ~(Handling' /\ s = sid') /\ s \in held' => Len(acc'[s]) = Len(t)
  BY <1>1 DEF BeginSession
<1>4. ASSUME s \notin held', t # <<>>
      PROVE  \E m \in DOMAIN history' : history'[m] = [kind |-> "closed", sid |-> s] /\ m <= p2
  <2>1. PICK m \in DOMAIN history : history[m] = [kind |-> "closed", sid |-> s] /\ (m <= p \/ m <= p2)
    BY <1>1, <1>4 DEF BeginSession
  <2>2. m \in Nat
    BY SceneFacts
  <2>3. m <= p2
    BY <1>1, <2>1, <2>2
  <2> QED BY <2>1, <2>3, LinesGrow
<1> QED BY <1>1, <1>2, <1>3, <1>4 DEF BeginSession

\* update_session is entered by the first process: at its own turn, or at none.
LEMMA BeginEnter ==
    ASSUME SceneInv, SceneInv', OnceInv, BeginInv, HandleOpened \/ HandleCommand, NEW r \in Session, r = sid
    PROVE  BeginHandler(r)'
<1>1. /\ pc = "dispatch" /\ cursor <= last /\ pc' = "upsert" /\ UNCHANGED <<turns, cursor, history>>
      /\ ~Handling /\ Pos = cursor
  BY DEF HandleOpened, HandleCommand, At, UpdateSession, storeVars, trailVars, Handling, Pos, InBatch
<1>2. OnceHandler(r)' /\ line' = line
  BY <1>1, OnceOpened, OnceCommand DEF line
<1>3. PICK t \in Seq(Nat), a \in Seq(Nat) : t = turns[r] /\ t = turns'[r] /\ a = acc[r] /\ (r \in held => Len(a) = Len(t))
  BY <1>1, TurnsLen DEF BeginInv, BeginSession
<1>4. Len(t) \in Nat /\ Len(a) \in Nat
  OBVIOUS
<1>5. CASE HandleOpened
  <2>1. line.kind = "opened" /\ acc'[r] = (IF r \in held THEN a ELSE <<>>)
    BY <1>3, <1>5, SceneFacts DEF HandleOpened, At, UpdateSession
  <2>2. pending' = <<>>
    BY <1>1, <1>2, <2>1 DEF OnceHandler
  <2>3. r \notin held => t = <<>>
    <3>1. SUFFICES ASSUME r \notin held, t # <<>> PROVE FALSE
      OBVIOUS
    <3>2. PICK m \in DOMAIN history : history[m] = [kind |-> "closed", sid |-> r] /\ m <= cursor
      BY <1>1, <1>3, <3>1 DEF BeginInv, BeginSession
    <3>3. cursor \in DOMAIN history /\ history[cursor] = [kind |-> "opened", sid |-> r]
      BY <1>1, <2>1, SceneLine
    <3>4. cursor < m
      BY <3>2, <3>3 DEF SceneInv, TrailOrder
    <3>5. m \in Nat /\ cursor \in Nat
      BY SceneFacts
    <3> QED BY <3>2, <3>4, <3>5
  <2>4. Len(acc'[r]) = Len(t) + 0
    <3>1. Len(<<>>) = 0
      OBVIOUS
    <3> QED BY <1>3, <1>4, <2>1, <2>3, <3>1
  <2> QED BY <1>1, <1>2, <1>3, <2>1, <2>2, <2>4 DEF BeginHandler
<1>6. CASE HandleCommand
  <2>1. PICK k \in Seq(Nat) : acc'[r] = Append(k, cursor) /\ Len(k) = Len(t)
    <3>1. acc'[r] = Append(Known(r), cursor)
      BY <1>6, SceneFacts DEF HandleCommand, UpdateSession
    <3>2. CASE r \in held
      BY <1>3, <3>1, <3>2 DEF Known
    <3>3. CASE r \notin held
      <4>1. r \notin rows => t = <<>>
        BY <1>3 DEF SceneInv
      <4>2. Known(r) = t
        BY <1>3, <3>3, <4>1 DEF Known
      <4> QED BY <3>1, <4>2
    <3> QED BY <3>2, <3>3
  <2>2. Len(acc'[r]) = Len(t) + 1
    <3>1. cursor \in Nat
      BY SceneFacts
    <3>2. Len(Append(k, cursor)) = Len(k) + 1
      BY <3>1, AppendProperties
    <3> QED BY <2>1, <3>2
  <2>3. pending' = <<cursor>>'
    <3>1. ~(Len(acc'[r]) <= Len(turns'[r]))
      BY <1>3, <1>4, <2>2
    <3> QED BY <1>1, <1>2, <3>1 DEF OnceHandler, Settled
  <2>4. Len(pending') = 1
    BY <2>3
  <2> QED BY <1>1, <1>2, <1>3, <2>2, <2>3, <2>4 DEF BeginHandler
<1> QED BY <1>5, <1>6

LEMMA BeginRecord ==
    ASSUME SceneInv, SceneInv', OnceInv, BeginInv, RecordTurn, NEW r \in Session, r = sid
    PROVE  BeginHandler(r)' /\ BeginSession(r)'
<1>1. /\ pc = "turn" /\ pending # <<>> /\ turns' = [turns EXCEPT ![sid] = Append(@, Head(pending))] /\ pc' = "count"
      /\ UNCHANGED <<history, cursor, held, acc, pending, high>>
  BY DEF RecordTurn, InsertTurn, trailVars
<1>2. /\ Handling /\ Handling' /\ r \in held /\ line' = line /\ r = sid'
  <2>1. Handling /\ Handling'
    BY <1>1 DEF Handling
  <2> QED BY <1>1, <2>1 DEF sid, line, SceneInv
<1>3. pending = <<cursor>>
  BY <1>1, <1>2 DEF OnceInv, OnceHandler
<1>4. PICK t \in Seq(Nat), c \in Nat : t = turns[r] /\ c = cursor /\ turns'[r] = Append(t, c)
  <2>1. turns[r] \in Seq(Nat) /\ cursor \in Nat
    BY TurnsLen, SceneFacts
  <2>2. Head(pending) = cursor
    BY <1>3
  <2> QED BY <1>1, <2>1, <2>2, SceneFacts
<1>5. PICK n \in Nat : /\ n = Len(t) /\ DOMAIN t = 1..n /\ DOMAIN Append(t, c) = 1..n + 1 /\ Append(t, c)[n + 1] = c
                       /\ \A i \in 1..n : Append(t, c)[i] = t[i]
  <2>1. Len(t) \in Nat /\ DOMAIN t = 1..Len(t) /\ Append(t, c) \in Seq(Nat)
    BY AppendProperties
  <2>2. Len(Append(t, c)) = Len(t) + 1 /\ Append(t, c)[Len(t) + 1] = c /\ \A i \in 1..Len(t) : Append(t, c)[i] = t[i]
    BY AppendProperties
  <2>3. DOMAIN Append(t, c) = 1..Len(t) + 1
    BY <2>1, <2>2
  <2> QED BY <2>1, <2>2, <2>3
<1>6. Stored(r, cursor)'
  <2>1. n + 1 \in 1..n + 1
    OBVIOUS
  <2> QED BY <1>1, <1>4, <1>5, <2>1 DEF Stored
<1>7. \A i \in DOMAIN turns'[r] : turns'[r][i] <= high' \/ (Handling' /\ r = sid' /\ turns'[r][i] = cursor')
  <2>1. \A i \in 1..n : t[i] <= high \/ t[i] = cursor
    BY <1>4, <1>5 DEF BeginInv, BeginSession
  <2>2. \A i \in 1..n + 1 : i \in 1..n \/ i = n + 1
    OBVIOUS
  <2> QED BY <1>1, <1>2, <1>4, <1>5, <2>1, <2>2
<1> QED BY <1>1, <1>2, <1>3, <1>6, <1>7 DEF BeginHandler, BeginSession

LEMMA BeginCount ==
    ASSUME SceneInv, SceneInv', OnceInv, BeginInv, CountTurn, NEW r \in Session, r = sid
    PROVE  BeginHandler(r)'
<1>1. /\ pc = "count" /\ pc' = "turn" /\ pending' = Tail(pending) /\ UNCHANGED <<turns, acc, cursor, history>>
  BY DEF CountTurn, BumpCount, trailVars
<1>2. Handling /\ r \in held
  BY <1>1 DEF Handling, SceneInv
<1>3. pending = <<cursor>> /\ Len(acc[r]) = Len(turns[r]) /\ Stored(r, cursor)
  BY <1>1, <1>2 DEF OnceInv, OnceHandler, BeginInv, BeginHandler
<1>4. pending' = <<>>
  <2>1. \A x : Tail(<<x>>) = <<>>
    OBVIOUS
  <2> QED BY <1>1, <1>3, <2>1
<1>5. Len(acc[r]) = Len(turns[r]) + Len(<<>>)
  <2>1. Len(<<>>) = 0 /\ Len(turns[r]) \in Nat
    BY TurnsLen
  <2> QED BY <1>3, <2>1
<1> QED BY <1>1, <1>3, <1>4, <1>5 DEF BeginHandler, Stored

LEMMA BeginNext ==
    ASSUME SceneInv, SceneInv', OnceInv, BeginInv, [Next]_vars, ~Crash, ~Stop, ~retried', CacheMayFail => rotations = 0
    PROVE  BeginInv'
<1>1. Pos <= Pos' /\ Pos \in Nat /\ Pos' \in Nat /\ cursor \in Nat /\ high \in Nat /\ high' \in Nat
  BY PosGrows, PosNat, PosNatNext, SceneFacts, HighNat
<1>2. ~IntentRefused /\ ~StoreFault
  BY DEF IntentRefused, StoreFault, FailBatch
<1>3. CASE Trail \/ UNCHANGED vars
  <2>1. UNCHANGED <<pc, cursor, turns, held, acc, pending, high>> /\ (pc \in InHandler => line' = line /\ sid' = sid)
    <3>1. CASE Trail
      BY <3>1, TrailLeaves
    <3>2. CASE UNCHANGED vars
      BY <3>2 DEF vars, trailVars, storeVars, tailerVars, procVars, line, sid
    <3> QED BY <1>3, <3>1, <3>2
  <2>2. Handling' = Handling /\ (Handling => line' = line /\ sid' = sid)
    BY <2>1 DEF Handling, InHandler
  <2>3. ASSUME NEW s \in Session PROVE BeginSession(s)'
    <3>1. BeginSession(s) /\ high <= high'
      BY <1>1, <2>1 DEF BeginInv
    <3> QED BY <1>1, <2>1, <2>2, <3>1, BeginStill
  <2>4. ASSUME NEW s \in held', Handling', s = sid' PROVE BeginHandler(s)'
    <3>1. BeginHandler(s)
      BY <2>1, <2>2, <2>4 DEF BeginInv
    <3> QED BY <2>1, <2>2, <2>4, <3>1 DEF BeginHandler, Stored
  <2>5. BeginPlace'
    <3>1. CASE Trail
      BY <1>1, <3>1, BeginTrail DEF BeginInv
    <3>2. CASE UNCHANGED vars
      <4>1. BeginPlace
        BY DEF BeginInv
      <4>2. UNCHANGED <<history, base, pc, offset, cache, cursor, turns, high, Pos, StartAt>>
        BY <3>2 DEF vars, trailVars, storeVars, tailerVars, procVars, Pos, StartAt, First, FileSize
      <4>3. \A x : First(x)' = First(x)
        BY <4>2 DEF First, FileSize
      <4>4. \A n, s : (IsCommand(n, s)' <=> IsCommand(n, s)) /\ (Stored(s, n)' <=> Stored(s, n))
        BY <4>2 DEF IsCommand, Stored
      <4> QED BY <4>1, <4>2, <4>3, <4>4 DEF BeginPlace
    <3> QED BY <1>3, <3>1, <3>2
  <2> QED BY <2>3, <2>4, <2>5 DEF BeginInv
<1>4. CASE Start \/ Poll \/ Read \/ Commit \/ Save
  <2>1. UNCHANGED <<turns, held, acc, high>> /\ ~Handling /\ ~Handling'
    BY <1>4 DEF Start, Poll, Read, Commit, Save, storeVars, Handling
  <2>2. ASSUME NEW s \in Session PROVE BeginSession(s)'
    <3>1. BeginSession(s) /\ high <= high'
      BY <1>1, <2>1 DEF BeginInv
    <3> QED BY <1>1, <2>1, <3>1, BeginStill
  <2>3. BeginPlace'
    BY <1>1, <1>4, BeginPass DEF BeginInv
  <2> QED BY <2>1, <2>2, <2>3 DEF BeginInv
<1>5. ASSUME ~Handling', LineDone, UNCHANGED <<history, base, turns, held, acc>>,
             pc \in InHandler \/ (pc = "dispatch" /\ cursor <= last),
             line.kind = "command" => Stored(sid, cursor), Handling => Len(acc[sid]) = Len(turns[sid])
      PROVE  BeginInv'
  <2>1. /\ pc' = "dispatch" /\ cursor' = cursor + 1 /\ high' = (IF cursor > high THEN cursor ELSE high)
        /\ UNCHANGED <<offset, cache>>
    BY <1>5 DEF LineDone
  <2>2. high <= high' /\ cursor <= high'
    BY <1>1, <2>1
  <2>3. ASSUME NEW s \in Session PROVE BeginSession(s)'
    <3>1. BeginSession(s)
      BY DEF BeginInv
    <3> QED BY <1>1, <1>5, <2>2, <3>1, BeginStill
  <2>4. pc \in InBatch /\ pc' \in InBatch
    BY <1>5, <2>1, SceneLine DEF InBatch
  <2>5. \A s \in Session : IsCommand(cursor, s) => Stored(s, cursor)
    BY <1>5, SceneLine DEF IsCommand
  <2>6. \A s \in Session : \A n : Stored(s, n) => Stored(s, n)'
    BY <1>5 DEF Stored
  <2>7. BeginPlace'
    BY <1>5, <2>1, <2>4, <2>5, <2>6, BeginBatch DEF BeginInv
  <2> QED BY <1>5, <2>3, <2>7 DEF BeginInv
<1>6. CASE SkipReplay
  <2>1. /\ ~Handling' /\ ~Handling /\ LineDone /\ UNCHANGED <<history, base, turns, held, acc>> /\ pc = "dispatch" /\ cursor <= last
        /\ Stored(sid, cursor)
    BY <1>6 DEF SkipReplay, At, IsReplay, trailVars, storeVars, LineDone, Handling
  <2> QED BY <1>5, <2>1
<1>7. CASE HandleIntent
  <2>1. /\ ~Handling' /\ ~Handling /\ LineDone /\ UNCHANGED <<history, base, turns, held, acc>> /\ pc = "dispatch" /\ cursor <= last
        /\ line.kind = "intent"
    BY <1>7 DEF HandleIntent, At, UpsertIntent, trailVars, LineDone, Handling
  <2> QED BY <1>5, <2>1
<1>8. CASE End
  <2>1. /\ ~Handling' /\ ~Handling /\ LineDone /\ UNCHANGED <<history, base, turns, held, acc>> /\ pc = "end"
    BY <1>8 DEF End, EndSession, trailVars, LineDone, Handling
  <2>2. pc \in InHandler /\ line.kind = "closed"
    BY <2>1 DEF SceneInv, InHandler
  <2> QED BY <1>5, <2>1, <2>2
<1>9. CASE Updated
  <2>1. /\ ~Handling' /\ Handling /\ LineDone /\ UNCHANGED <<history, base, turns, held, acc>> /\ pc = "turn" /\ pending = <<>>
    BY <1>9 DEF Updated, trailVars, storeVars, LineDone, Handling
  <2>2. PICK r \in held : r = sid /\ r \in Session
    BY <2>1, SceneFacts DEF SceneInv
  <2>3. BeginHandler(r)
    BY <2>1, <2>2 DEF BeginInv
  <2>4. Len(acc[r]) = Len(turns[r]) + Len(<<>>)
    BY <2>1, <2>3 DEF BeginHandler
  <2>5. Len(acc[r]) = Len(turns[r])
    <3>1. Len(<<>>) = 0 /\ Len(turns[r]) \in Nat
      BY <2>2, TurnsLen
    <3> QED BY <2>4, <3>1
  <2>6. line.kind = "command" => Stored(sid, cursor)
    <3>1. pending # <<cursor>>
      <4>1. <<>> # <<cursor>>
        OBVIOUS
      <4> QED BY <2>1, <4>1
    <3> QED BY <2>2, <2>3, <3>1 DEF BeginHandler
  <2>7. pc \in InHandler
    BY <2>1 DEF InHandler
  <2> QED BY <1>5, <2>1, <2>2, <2>5, <2>6, <2>7
<1>10. ASSUME UNCHANGED <<history, base, cursor, high>>,
              \A s \in Session : \A n : Stored(s, n) => Stored(s, n)',
              UNCHANGED <<offset, cache>>, pc \in InBatch, pc' \in InBatch
       PROVE  BeginPlace'
  BY <1>10, BeginBatch DEF BeginInv
<1>11. CASE HandleOpened \/ HandleCommand
  <2>1. PICK q : UpdateSession(sid, q) /\ pc = "dispatch" /\ cursor <= last
    BY <1>11 DEF HandleOpened, HandleCommand, At
  <2>2. /\ UNCHANGED <<history, base, cursor, high, offset, cache, turns>> /\ pc' = "upsert"
        /\ held' = held \union {sid} /\ acc' = [acc EXCEPT ![sid] = q]
    BY <2>1 DEF UpdateSession, storeVars, trailVars
  <2>3. pc \in InBatch /\ pc' \in InBatch /\ ~Handling /\ Handling' /\ sid' = sid
    BY <2>1, <2>2 DEF InBatch, InHandler, Handling, sid, line
  <2>4. BeginPlace'
    BY <1>10, <2>2, <2>3 DEF Stored
  <2>5. ASSUME NEW s \in Session PROVE BeginSession(s)'
    <3>1. BeginSession(s) /\ high <= high'
      BY <1>1, <2>2 DEF BeginInv
    <3>2. s # sid => acc'[s] = acc[s]
      BY <2>2, SceneFacts
    <3> QED BY <1>1, <2>2, <2>3, <3>1, <3>2, BeginStill
  <2>6. PICK r \in Session : r = sid
    BY <2>1, SceneLine
  <2>7. BeginHandler(r)'
    BY <1>11, <2>6, BeginEnter
  <2> QED BY <2>3, <2>4, <2>5, <2>6, <2>7 DEF BeginInv
<1>12. CASE HandleClosed
  <2>1. /\ UNCHANGED <<history, base, cursor, high, offset, cache, turns>> /\ pc' = "end" /\ pc = "dispatch" /\ cursor <= last
        /\ line.kind = "closed" /\ held' = held \ {sid} /\ acc' = [acc EXCEPT ![sid] = <<>>]
    BY <1>12 DEF HandleClosed, At, storeVars, trailVars
  <2>2. pc \in InBatch /\ pc' \in InBatch /\ ~Handling /\ ~Handling' /\ Pos' = cursor
    BY <2>1 DEF InBatch, InHandler, Handling, Pos
  <2>3. BeginPlace'
    BY <1>10, <2>1, <2>2 DEF Stored
  <2>4. ASSUME NEW s \in Session PROVE BeginSession(s)'
    <3>1. BeginSession(s) /\ high <= high' /\ cursor <= Pos'
      BY <1>1, <2>1, <2>2 DEF BeginInv
    <3>2. s # sid => acc'[s] = acc[s]
      BY <2>1, SceneFacts
    <3>3. s = sid => cursor \in DOMAIN history /\ history[cursor] = [kind |-> "closed", sid |-> s]
      BY <2>1, SceneLine
    <3> QED BY <1>1, <2>1, <2>2, <3>1, <3>2, <3>3, BeginStill
  <2> QED BY <2>2, <2>3, <2>4 DEF BeginInv
<1>13. CASE Upsert \/ CountTurn \/ RecordTurn
  <2>1. /\ UNCHANGED <<history, base, cursor, high, offset, cache, held, acc>> /\ Handling /\ Handling'
        /\ pc \in InHandler /\ pc' \in InHandler
    BY <1>13 DEF Upsert, CountTurn, RecordTurn, trailVars, Handling, InHandler
  <2>2. PICK r \in held : r = sid /\ r = sid' /\ r \in Session /\ line' = line
    BY <2>1, SceneFacts DEF SceneInv, sid, line
  <2>3. turns' = turns \/ (RecordTurn /\ turns' = [turns EXCEPT ![sid] = Append(@, Head(pending))])
    BY <1>13 DEF Upsert, UpsertSession, CountTurn, BumpCount, RecordTurn, InsertTurn
  <2>4. \A s \in Session : \A n : Stored(s, n) => Stored(s, n)'
    <3>1. CASE turns' = turns
      BY <3>1 DEF Stored
    <3>2. CASE RecordTurn /\ turns' = [turns EXCEPT ![sid] = Append(@, Head(pending))]
      <4>1. pending # <<>> /\ pending \in Seq(Nat)
        BY <3>2, SceneFacts DEF RecordTurn
      <4>2. Head(pending) \in Nat
        BY <4>1
      <4> QED BY <2>2, <3>2, <4>2, StoredStays
    <3> QED BY <2>3, <3>1, <3>2
  <2>5. BeginPlace'
    BY <1>10, <2>1, <2>4 DEF InBatch
  <2>6. ASSUME NEW s \in Session PROVE BeginSession(s)'
    <3>1. CASE RecordTurn /\ s = r
      BY <2>2, <3>1, BeginRecord
    <3>2. CASE ~(RecordTurn /\ s = r)
      <4>1. turns'[s] = turns[s]
        BY <2>2, <2>3, <3>2, SceneFacts
      <4>2. BeginSession(s) /\ high <= high'
        BY <1>1, <2>1 DEF BeginInv
      <4> QED BY <1>1, <2>1, <2>2, <4>1, <4>2, BeginStill
    <3> QED BY <3>1, <3>2
  <2>7. BeginHandler(r)'
    <3>1. CASE Upsert
      <4>1. pc = "upsert" /\ pc' = "turn" /\ UNCHANGED <<turns, pending>>
        BY <3>1 DEF Upsert, UpsertSession
      <4>2. BeginHandler(r)
        BY <2>1, <2>2 DEF BeginInv
      <4> QED BY <2>1, <2>2, <4>1, <4>2 DEF BeginHandler, Stored
    <3> QED BY <1>13, <2>2, <3>1, BeginRecord, BeginCount
  <2> QED BY <2>1, <2>2, <2>5, <2>6, <2>7 DEF BeginInv
<1> QED BY <1>2, <1>3, <1>4, <1>6, <1>7, <1>8, <1>9, <1>11, <1>12, <1>13 DEF Next, Work

\* The second process starts where what is ahead is stored or new.
LEMMA OnceLost ==
    ASSUME SceneInv, SceneInv', OnceInv, BeginInv, Crash \/ Stop
    PROVE  OnceInv'
<1>1. /\ pc' = "down" /\ held' = {} /\ UNCHANGED <<history, base, turns>>
      /\ cache' = cache \/ (Stop /\ (IF CacheMayFail THEN cache' \in {offset, cache} ELSE cache' = offset))
  BY DEF Crash, Stop, Lose, trailVars, storeVars
<1>2. ~Handling' /\ pc' \notin InBatch
  BY <1>1 DEF Handling, InBatch, InHandler
<1>3. PICK x \in {offset, StartAt} : Pos' = First(x)
  <2>1. StartAt' \in {offset, StartAt}
    BY <1>1 DEF StartAt
  <2>2. Pos' = First(StartAt')
    BY <1>1, <1>2 DEF Pos, First, FileSize
  <2> QED BY <2>1, <2>2
<1>4. PICK f \in Nat, h \in Nat, c \in Nat : f = First(x) /\ f = Pos' /\ h = high /\ c = cursor
  BY <1>3, PosNatNext, SceneFacts
<1>5. ASSUME NEW s \in Session PROVE OnceSession(s)'
  <2>1. OnceSession(s) /\ BeginSession(s) /\ BeginPlace
    BY DEF OnceInv, BeginInv
  <2>2. Commands(s)' = Commands(s) /\ Commands(s) \subseteq 1..Len(history) /\ Len(history) \in Nat
    BY <1>1, SceneFacts DEF Commands, IsCommand
  <2>3. PICK t \in Seq(Nat) : t = turns[s] /\ t = turns'[s]
    BY <1>1, TurnsLen
  <2>4. Sorted(s)' /\ \A i \in DOMAIN turns'[s] : turns'[s][i] \in Commands(s)'
    BY <2>1, <2>2, <2>3 DEF OnceSession, Sorted
  <2>5. ASSUME NEW n \in Commands(s)', n >= f PROVE Stored(s, n)' \/ Below(s, n)'
    <3>1. n \in Nat /\ IsCommand(n, s)
      BY <2>2 DEF Commands
    <3>2. CASE n <= h
      <4>1. n \in f..h
        BY <2>5, <3>1, <3>2
      <4>2. Stored(s, n)
        BY <1>4, <2>1, <3>1, <4>1 DEF BeginPlace
      <4> QED BY <2>3, <4>2 DEF Stored
    <3>3. CASE n > h /\ ~\E i \in DOMAIN t : t[i] = n
      <4> SUFFICES ASSUME NEW i \in DOMAIN t PROVE t[i] < n
        BY <2>3 DEF Below
      <4>1. t[i] \in Nat /\ t[i] # n
        BY <3>3
      <4>2. t[i] <= h \/ (Handling /\ t[i] = c)
        BY <1>4, <2>1, <2>3 DEF BeginSession
      <4>3. Handling => c <= h + 1 \/ c <= f
        BY <1>4, <2>1 DEF BeginPlace, Handling, InBatch, InHandler
      <4> QED BY <2>5, <3>1, <3>3, <4>1, <4>2, <4>3
    <3>4. CASE \E i \in DOMAIN t : t[i] = n
      BY <2>3, <3>4 DEF Stored
    <3> QED BY <3>1, <3>2, <3>3, <3>4
  <2> QED BY <1>1, <1>4, <2>4, <2>5 DEF OnceSession
<1> QED BY <1>1, <1>5 DEF OnceInv

LEMMA StormNext == ASSUME SceneInv, SceneInv', StormInv, [Next]_vars PROVE StormInv'
<1> SUFFICES ASSUME ~retried', restarts' <= 1, CacheMayFail => rotations' = 0
             PROVE  OnceInv' /\ (restarts' = 0 => BeginInv')
  BY DEF StormInv
<1>1. restarts \in Nat /\ rotations \in Nat
  BY SceneFacts
<1>2. ~retried
  <2>1. CASE Trail
    BY <2>1, TrailLeaves
  <2>2. CASE ~Trail
    BY <2>2 DEF Next, Start, Crash, Stop, Work, StoreFault, Poll, Read, Commit, Save, HandleOpened, HandleCommand,
           SkipReplay, UpdateSession, Upsert, RecordTurn, CountTurn, Updated, HandleClosed, End, HandleIntent,
           IntentRefused, LineDone, FailBatch, vars, tailerVars, failVars
  <2> QED BY <2>1, <2>2
<1>3. restarts <= 1 /\ (CacheMayFail => rotations = 0)
  BY <1>1, CountedOnce
<1>4. OnceInv /\ (restarts = 0 => BeginInv)
  BY <1>2, <1>3 DEF StormInv
<1>5. CASE Crash \/ Stop
  <2>1. restarts = 0 /\ restarts' # 0
    BY <1>1, <1>5, CountedOnce
  <2> QED BY <1>4, <1>5, <2>1, OnceLost
<1>6. CASE ~Crash /\ ~Stop
  <2>1. restarts' = restarts
    BY <1>6, CountedOnce
  <2>2. OnceInv'
    BY <1>4, <1>6, OnceNext
  <2>3. restarts' = 0 => BeginInv'
    BY <1>3, <1>4, <1>6, <2>1, BeginNext
  <2> QED BY <2>2, <2>3
<1> QED BY <1>5, <1>6

LEMMA StormInit == Init => StormInv
<1> SUFFICES ASSUME Init PROVE OnceInv /\ BeginInv
  BY DEF StormInv
<1>1. /\ high = 0 /\ pc = "down" /\ held = {} /\ turns = [s \in Session |-> <<>>] /\ cache = 0 /\ offset = 0
      /\ history = <<>> /\ base = 0
  BY DEF Init, TrailInit, StoreInit
<1>2. ~Handling /\ pc \notin InBatch /\ FileSize = 0 /\ StartAt = 0
  BY <1>1 DEF Handling, InBatch, InHandler, FileSize, StartAt
<1>3. First(0) = 1 /\ Pos = 1
  BY <1>1, <1>2 DEF First, Pos
<1>4. \A s \in Session : turns[s] = <<>> /\ Commands(s) = {}
  <2>1. DOMAIN history = {}
    BY <1>1
  <2> QED BY <1>1, <2>1 DEF Commands
<1>5. \A s \in Session : OnceSession(s) /\ BeginSession(s)
  <2> SUFFICES ASSUME NEW s \in Session PROVE OnceSession(s) /\ BeginSession(s)
    OBVIOUS
  <2>1. turns[s] = <<>> /\ Commands(s) = {} /\ s \notin held /\ \A i : ~(i \in DOMAIN turns[s])
    BY <1>1, <1>4
  <2>2. OnceSession(s)
    BY <2>1 DEF OnceSession, Sorted
  <2> QED BY <2>1, <2>2 DEF BeginSession
<1>6. \A n : ~(n \in 1..0)
  OBVIOUS
<1>7. BeginPlace
  BY <1>1, <1>2, <1>3, <1>6 DEF BeginPlace
<1> QED BY <1>1, <1>5, <1>7 DEF OnceInv, BeginInv

\* A line is dispatched twice when the offset fell behind, and a turn is recorded by its
\* position: after one restart, in a rotated file and with opened lines that come late
\* the turns of a session still are its commands, in order and each once, as long as no
\* batch failed; and one process that goes on over failed batches, in one file, loses no
\* command it dispatched (_poll_once, _on_command and update_session).
THEOREM StormKept == Spec => []TurnsUnderStorm
<1>1. Init => SceneInv /\ KeptInv /\ StormInv
  BY SceneInit, KeptInit, StormInit
<1>2. SceneInv /\ KeptInv /\ StormInv /\ [Next]_vars => (SceneInv /\ KeptInv /\ StormInv)'
  <2> SUFFICES ASSUME SceneInv, KeptInv, StormInv, [Next]_vars PROVE SceneInv' /\ KeptInv' /\ StormInv'
    OBVIOUS
  <2>1. SceneInv'
    BY SceneNext
  <2> QED BY <2>1, KeptNext, StormNext
<1>3. SceneInv /\ KeptInv /\ StormInv => TurnsUnderStorm
  <2> SUFFICES ASSUME SceneInv, KeptInv, StormInv PROVE OnceUnlessRetried /\ KeptWithinProcess
    BY DEF TurnsUnderStorm
  <2>1. KeptWithinProcess
    BY DEF KeptWithinProcess, KeptInv, KeptParts
  <2>2. OnceUnlessRetried
    BY DEF OnceUnlessRetried, StormInv, OnceInv, OnceSession, Sorted, TurnsExactlyOnce
  <2> QED BY <2>1, <2>2
<1> QED BY <1>1, <1>2, <1>3, PTL DEF Spec

=============================================================================
