----------------------------- MODULE SdkProofs ------------------------------
(***************************************************************************)
(* Proofs, for every set of threads, contexts and calls, of what TLC       *)
(* checks on small instances of the SDK.                                   *)
(***************************************************************************)
EXTENDS SdkProperties, TLAPS

-----------------------------------------------------------------------------
(* The lock.                                                               *)

(* What the lock proof needs to know of types.                             *)
LockTypes ==
  /\ lock \in [Contexts -> BOOLEAN]
  /\ pc \in [Threads -> ControlPoint]
  /\ call \in [Threads -> CallRecord]

LockInv == LockTypes /\ MutualExclusion

(* Steps that neither begin nor end a call keep the lock, the calls, and   *)
(* which threads are inside: the invariant survives them whatever else     *)
(* they do.                                                                *)
LEMMA InsideStepKeepsLock ==
  ASSUME LockInv, NEW t \in Threads, Inside(t),
         NEW l \in ControlPoint, l \notin {"idle", "returned"},
         pc' = [pc EXCEPT ![t] = l], UNCHANGED <<lock, call>>
  PROVE  LockInv'
  BY DEF LockInv, LockTypes, MutualExclusion, Inside, Ctx

LEMMA OutsideStepKeepsLock ==
  ASSUME LockInv, UNCHANGED <<lock, pc, call>>
  PROVE  LockInv'
  BY DEF LockInv, LockTypes, MutualExclusion, Inside, Ctx

-----------------------------------------------------------------------------
(* Every step of a thread between taking the lock and releasing it is of   *)
(* the kind of InsideStepKeepsLock.                                        *)
InnerStep(t) ==
  \/ RejectArguments(t) \/ RejectNoSession(t)
  \/ InitializeTooSmall(t) \/ InitializeBusy(t) \/ InitializeStarts(t)
  \/ Finish(t) \/ CreateRequest(t) \/ Forward(t) \/ Bail(t)
  \/ DrawNonce(t) \/ RandomFails(t) \/ Seal(t)
  \/ Send(t) \/ Deliver(t) \/ SendFails(t)
  \/ OpenHeader(t) \/ NotAMessage(t) \/ Open(t)
  \/ ParseError(t) \/ ParseSimple(t) \/ ParseChunk(t)
  \/ CommitMismatch(t) \/ CommitSimple(t) \/ CommitChunk(t)
  \/ Leave(t)

InnerPoint == ControlPoint \ {"idle", "returned"}

LEMMA InnerStepMoves ==
  ASSUME NEW t \in Threads, InnerStep(t)
  PROVE  /\ Inside(t)
         /\ UNCHANGED <<lock, call, ready>>
         /\ \E l \in InnerPoint : pc' = [pc EXCEPT ![t] = l]
<1> USE DEF InnerPoint, ControlPoint, Inside, Goto, Return, Proceeds, CheckPoint,
            callVars, ctxVars, SetRet
<1>1. CASE RejectArguments(t)
  BY <1>1 DEF RejectArguments
<1>2. CASE RejectNoSession(t)
  BY <1>2 DEF RejectNoSession
<1>3. CASE InitializeTooSmall(t)
  BY <1>3 DEF InitializeTooSmall, InitializeCall
<1>4. CASE InitializeBusy(t)
  BY <1>4 DEF InitializeBusy, InitializeCall
<1>5. CASE InitializeStarts(t)
  BY <1>5 DEF InitializeStarts, InitializeCall
<1>6. CASE Finish(t)
  BY <1>6 DEF Finish
<1>7. CASE CreateRequest(t)
  BY <1>7 DEF CreateRequest
<1>8. CASE Forward(t)
  BY <1>8 DEF Forward, Posted
<1>9. CASE Bail(t)
  BY <1>9 DEF Bail
<1>10. CASE DrawNonce(t)
  BY <1>10 DEF DrawNonce
<1>11. CASE RandomFails(t)
  BY <1>11 DEF RandomFails
<1>12. CASE Seal(t)
  BY <1>12 DEF Seal
<1>13. CASE Send(t)
  BY <1>13 DEF Send, Posted
<1>14. CASE Deliver(t)
  BY <1>14 DEF Deliver, AfterSend
<1>15. CASE SendFails(t)
  BY <1>15 DEF SendFails, AfterSend
<1>16. CASE OpenHeader(t)
  BY <1>16 DEF OpenHeader
<1>17. CASE NotAMessage(t)
  BY <1>17 DEF NotAMessage
<1>18. CASE Open(t)
  BY <1>18 DEF Open
<1>19. CASE ParseError(t)
  BY <1>19 DEF ParseError
<1>20. CASE ParseSimple(t)
  BY <1>20 DEF ParseSimple
<1>21. CASE ParseChunk(t)
  BY <1>21 DEF ParseChunk
<1>22. CASE CommitMismatch(t)
  BY <1>22 DEF CommitMismatch
<1>23. CASE CommitSimple(t)
  BY <1>23 DEF CommitSimple
<1>24. CASE CommitChunk(t)
  BY <1>24 DEF CommitChunk
<1>25. CASE Leave(t)
  BY <1>25 DEF Leave
<1> QED
  BY <1>1, <1>2, <1>3, <1>4, <1>5, <1>6, <1>7, <1>8, <1>9, <1>10, <1>11, <1>12, <1>13, <1>14, <1>15, <1>16, <1>17, <1>18, <1>19, <1>20, <1>21, <1>22, <1>23, <1>24, <1>25 DEF InnerStep

(* The lock invariant holds initially and every step keeps it.             *)
LEMMA NoCallIsCall == NoCall \in CallRecord
  BY SdkAssumption DEF NoCall, CallRecord, Op, MessageOps

LEMMA LockInvInit == Init => LockInv
<1> SUFFICES ASSUME Init PROVE LockInv
  OBVIOUS
<1>1. LockTypes
  BY NoCallIsCall DEF Init, LockTypes, ControlPoint
<1>2. MutualExclusion
  BY DEF Init, MutualExclusion, Inside
<1> QED
  BY <1>1, <1>2 DEF LockInv

LEMMA LockInvStep == LockInv /\ [Next]_vars => LockInv'
<1> SUFFICES ASSUME LockInv, [Next]_vars PROVE LockInv'
  OBVIOUS
<1> USE DEF LockInv
<1>1. ASSUME NEW c \in Contexts, NEW w \in WorkBuffers, SdkInitialize(c, w)
      PROVE  LockInv'
  <2>1. UNCHANGED <<pc, call>> /\ lock' = [lock EXCEPT ![c] = FALSE]
    BY <1>1 DEF SdkInitialize, callVars
  <2>2. \A t \in Threads : Inside(t) => Ctx(t) # c
    BY <1>1 DEF SdkInitialize, Uses, Inside
  <2> QED
    BY <2>1, <2>2 DEF LockTypes, MutualExclusion, Inside, Ctx
<1>2. ASSUME NEW t \in Threads, NEW k \in CallsOf[t], CallRejected(t, k) \/ CallRefused(t, k)
      PROVE  LockInv'
  <2>1. /\ pc[t] = "idle" /\ UNCHANGED lock
        /\ pc' = [pc EXCEPT ![t] = "returned"] /\ call' = [call EXCEPT ![t] = k]
    BY <1>2 DEF CallRejected, CallRefused, Calls, Refuse, Goto, ctxVars
  <2>2. k \in CallRecord
    BY SdkAssumption
  <2> QED
    BY <2>1, <2>2 DEF LockTypes, MutualExclusion, Inside, Ctx, ControlPoint
<1>3. ASSUME NEW t \in Threads, NEW k \in CallsOf[t], CallLocks(t, k)
      PROVE  LockInv'
  <2>1. /\ pc[t] = "idle" /\ ~lock[k.ctx]
        /\ lock' = [lock EXCEPT ![k.ctx] = TRUE]
        /\ pc' = [pc EXCEPT ![t] = "body"] /\ call' = [call EXCEPT ![t] = k]
    BY <1>3 DEF CallLocks, LockFree, Calls, Goto
  <2>2. k \in CallRecord /\ k.ctx \in Contexts
    BY SdkAssumption DEF CallRecord
  <2>3. \A u \in Threads : Inside(u) => Ctx(u) # k.ctx
    BY <2>1, <2>2 DEF MutualExclusion
  <2> QED
    BY <2>1, <2>2, <2>3 DEF LockTypes, MutualExclusion, Inside, Ctx, ControlPoint
<1>4. ASSUME NEW t \in Threads, InnerStep(t)
      PROVE  LockInv'
  <2>1. PICK l \in InnerPoint : pc' = [pc EXCEPT ![t] = l]
    BY <1>4, InnerStepMoves
  <2> QED
    BY <1>4, <2>1, InnerStepMoves, InsideStepKeepsLock DEF InnerPoint
<1>5. ASSUME NEW t \in Threads, Unlock(t)
      PROVE  LockInv'
  <2>1. /\ pc[t] = "unlock" /\ UNCHANGED call
        /\ lock' = [lock EXCEPT ![Ctx(t)] = FALSE]
        /\ pc' = [pc EXCEPT ![t] = "returned"]
    BY <1>5 DEF Unlock, Goto, callVars
  <2>2. Inside(t) /\ Ctx(t) \in Contexts
    BY <2>1 DEF Inside, LockTypes, Ctx, CallRecord
  <2>3. \A u \in Threads : Inside(u) /\ u # t => Ctx(u) # Ctx(t)
    BY <2>2 DEF MutualExclusion
  <2> QED
    BY <2>1, <2>2, <2>3 DEF LockTypes, MutualExclusion, Inside, Ctx, ControlPoint
<1>6. ASSUME NEW t \in Threads, Consume(t)
      PROVE  LockInv'
  <2>1. /\ pc[t] = "returned" /\ UNCHANGED lock
        /\ pc' = [pc EXCEPT ![t] = "idle"] /\ call' = [call EXCEPT ![t] = NoCall]
    BY <1>6 DEF Consume, Goto, ctxVars
  <2> QED
    BY <2>1, NoCallIsCall DEF LockTypes, MutualExclusion, Inside, Ctx, ControlPoint
<1>7. CASE ServeNew \/ ServeAgain
  BY <1>7, OutsideStepKeepsLock DEF ServeNew, ServeAgain, Serve, ctxVars, callVars
<1>8. CASE UNCHANGED vars
  BY <1>8, OutsideStepKeepsLock DEF vars
<1> QED
  BY <1>1, <1>2, <1>3, <1>4, <1>5, <1>6, <1>7, <1>8 DEF Next, Begin, Step, InnerStep

(* Every reachable state: a context is locked exactly while one thread, on *)
(* whatever path, is between LOCK_CONTEXT and UNLOCK_CONTEXT of it.        *)
THEOREM ContextLockExact == Spec => []MutualExclusion
<1>1. Spec => []LockInv
  BY LockInvInit, LockInvStep, PTL DEF Spec
<1> QED
  BY <1>1, PTL DEF LockInv
=============================================================================
