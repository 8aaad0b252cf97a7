----------------------------- MODULE UpdateProofs ---------------------------
(***************************************************************************)
(* The device that keeps its firmware up to date, reset at any moment: what*)
(* holds of the functions of the SDK in use is carried across the resets,  *)
(* and what the device comes to run is an image it has received whole.     *)
(***************************************************************************)
EXTENDS UpdateAgent, SdkDownloadProofs, SdkResultProofs

-----------------------------------------------------------------------------
(* The calls of the updater.                                               *)
Calling == {"check_in", "look", "open", "fetch", "close"}

LEMMA OwnCalls ==
  /\ Updater \in Threads /\ \A t \in Threads : t = Updater /\ CallsOf[t] = AgentCalls
  /\ Device_ \in Contexts /\ Dev \in Nat
  /\ \A k \in AgentCalls :
       /\ k.ctx = Device_ /\ k.op # "gateway" /\ k.type = 0
       /\ k.op = "download_initialize" => k.size = DownloadBuffer
       /\ k.op = "set_device_info" => k.id \in Firmwares
<1>1. /\ Updater \in Threads /\ \A t \in Threads : t = Updater /\ CallsOf[t] = AgentCalls
      /\ Device_ \in Contexts /\ Dev \in Nat
  <2>1. /\ Threads = {Updater} /\ Device_ \in Contexts
        /\ CallsOf = [t \in Threads |-> AgentCalls]
    BY AgentAssumption
  <2>2. Dev \in Nat
    BY <2>1, SdkAssumption DEF Dev
  <2> QED
    BY <2>1, <2>2
<1>2. ASSUME NEW op, NEW id, NEW n
      PROVE  LET k == OwnCall(op, id, n)
             IN  k.ctx = Device_ /\ k.op = op /\ k.type = 0 /\ k.id = id /\ k.size = n
  BY DEF OwnCall
<1>3. ASSUME NEW k \in AgentCalls
      PROVE  /\ k.ctx = Device_ /\ k.op # "gateway" /\ k.type = 0
             /\ k.op = "download_initialize" => k.size = DownloadBuffer
             /\ k.op = "set_device_info" => k.id \in Firmwares
  <2>1. CASE \E op \in {"get_device_info", "get_chunk", "finish"} : k = OwnCall(op, 0, 0)
    BY <1>2, <2>1
  <2>2. CASE \E f \in Firmwares : k = OwnCall("set_device_info", f, 0)
    BY <1>2, <2>2
  <2>3. CASE \E f \in Firmwares : k = OwnCall("download_initialize", f, DownloadBuffer)
    BY <1>2, <2>3
  <2> QED
    BY <1>3, <2>1, <2>2, <2>3 DEF AgentCalls
<1> QED
  BY <1>1, <1>3

(* What the theorems about the SDK ask of an application, this one keeps.  *)
LEMMA UpdaterObserves == OneDownloadContext /\ OneDownloader /\ OneBufferSize /\ NoGateways
<1>1. OneDownloadContext /\ OneDownloader
  BY OwnCalls DEF OneDownloadContext, OneDownloader
<1>2. OneBufferSize
  BY OwnCalls DEF OneBufferSize, Opening, AllCalls
<1>3. NoGateways
  BY OwnCalls DEF NoGateways
<1> QED
  BY <1>1, <1>2, <1>3

LEMMA UpdaterFits ==
  ASSUME DesiredFit, Factory < UINT32
  PROVE  UpdatesFit
<1>1. \A f \in Firmwares : f < UINT32
  BY DEF Firmwares, DesiredFit
<1> QED
  BY <1>1, OwnCalls DEF UpdatesFit, UINT8

LEMMA CallOfIsOwn ==
  ASSUME phase \in Calling, running \in Firmwares, wanted \in Firmwares
  PROVE  /\ CallOf \in CallsOf[Updater]
         /\ CallOf.op = "get_device_info" <=> phase = "look"
         /\ CallOf.op = "get_chunk" <=> phase = "fetch"
         /\ CallOf.op = "download_initialize" <=> phase = "open"
         /\ phase = "open" => CallOf.id = wanted
<1>1. /\ phase = "check_in" => CallOf = OwnCall("set_device_info", running, 0)
      /\ phase = "look" => CallOf = OwnCall("get_device_info", 0, 0)
      /\ phase = "open" => CallOf = OwnCall("download_initialize", wanted, DownloadBuffer)
      /\ phase = "fetch" => CallOf = OwnCall("get_chunk", 0, 0)
      /\ phase = "close" => CallOf = OwnCall("finish", 0, 0)
  BY DEF CallOf
<1>2. CallOf \in AgentCalls
  BY <1>1 DEF Calling, AgentCalls
<1> QED
  BY <1>1, <1>2, OwnCalls DEF Calling, OwnCall

-----------------------------------------------------------------------------
(* The invariant.                                                          *)
Phase == Calling \cup {"start", "install", "current"}

(* The firmware the server wants on the device, and the phases of getting  *)
(* it.                                                                     *)
Target == Desired[Dev].val
Updating == {"open", "fetch", "close", "install"}

Whole(f) == f \in DOMAIN Images /\ flash[Device_] = BytesOf(Bytes(f, 0, Images[f]))

PhaseInv ==
  /\ phase \in Phase /\ running \in Firmwares /\ wanted \in Firmwares
  /\ pc[Updater] # "idle" => phase \in Calling /\ call[Updater] = CallOf
  /\ phase \in Updating => wanted = Target /\ running # Target

(* The image is in the flash from the last chunk on, and it stays there:   *)
(* what the device runs is downloaded once only.                           *)
FlashInv ==
  /\ phase \in {"close", "install"} => Whole(Target)
  /\ running # Factory => Whole(running)

(* No session is opened for anything else, also none that a reset leaves;  *)
(* a chunk the updater holds is one of the open session.                   *)
TargetInv ==
  /\ dl[Device_].valid => dl[Device_].firmware_id = Target
  /\ out[Updater].output => dl[Device_].valid

OthersIdle == \A c \in Contexts : c # Device_ => ~lock[c] /\ ~dl[c].valid

(* What a reset leaves true of the SDK ...                                 *)
Lasting ==
  /\ LockTypes /\ DataTypes /\ ExchangeInv /\ ReplyInv /\ RequestInv
  /\ SessionLock /\ OpenWhileFetching /\ OffsetsFit /\ WholeInv /\ SizesInv
  /\ OthersIdle

(* ... and what firmups_sdk_initialize has to make true again.             *)
InUse == MutualExclusion /\ ImageIntact

Reinitialized == IF phase = "start" THEN pc[Updater] = "idle" ELSE InUse

AgentInv == Lasting /\ Reinitialized /\ PhaseInv /\ FlashInv /\ TargetInv

LEMMA InUseMeans ==
  Lasting /\ InUse <=> ResultsInv /\ ImagesInv /\ RequestInv /\ OthersIdle
  BY DEF Lasting, InUse, ResultsInv, ImagesInv, LockInv, DownloadInv

-----------------------------------------------------------------------------
(* The steps of the agent.                                                 *)
Resets == Install \/ ResetStrikes
Operates == Call \/ TakeResult \/ Work \/ Server \/ UNCHANGED allVars

LEMMA AgentSteps ==
  ASSUME [AgentNext]_allVars
  PROVE  Start \/ Resets \/ Operates
  BY DEF AgentNext, UpdaterStep, Resets, Operates

(* All but the resets are steps the SDK allows any application.            *)
LEMMA UpdaterUsesSdk ==
  ASSUME PhaseInv, Start \/ Operates
  PROVE  [Next]_vars
<1>1. CASE Start
  BY <1>1, OwnCalls DEF Start, Next
<1>2. CASE Call
  <2>1. CallOf \in CallsOf[Updater]
    BY <1>2, CallOfIsOwn DEF Call, Calling, PhaseInv
  <2> QED
    BY <1>2, <2>1, OwnCalls DEF Call, Begin, Next
<1>3. CASE TakeResult
  BY <1>3, OwnCalls DEF TakeResult, Step, Next
<1>4. CASE Work
  BY <1>4, OwnCalls DEF Work, Next
<1>5. CASE Server
  BY <1>5 DEF Server, Next
<1>6. CASE UNCHANGED allVars
  BY <1>6 DEF allVars
<1> QED
  BY <1>1, <1>2, <1>3, <1>4, <1>5, <1>6 DEF Operates

-----------------------------------------------------------------------------
(* What a reset leaves true.                                               *)

(* While no call runs nothing is being prepared, asked or followed.        *)
LEMMA RestingKeeps ==
  ASSUME Lasting, LockTypes', DataTypes', RepliesAnswer',
         pc'[Updater] = "idle", ~out'[Updater].output, UNCHANGED <<drawn, reqs>>
  PROVE  (ExchangeInv /\ ReplyInv /\ RequestInv /\ OpenWhileFetching /\ WholeInv)'
<1>1. \A t \in Threads : pc'[t] = "idle" /\ ~out'[t].output
  BY OwnCalls
<1>2. ExchangeInv'
  <2>1. CallsChosen'
    BY <1>1 DEF CallsChosen
  <2> QED
    BY <1>1, <2>1, StillStepKeeps DEF Lasting, Preparing
<1>3. ReplyInv'
  <2>1. CodeInvariant'
    BY <1>1 DEF CodeInvariant, OwnCode, HandedOut, Working, Finishing
  <2>2. ASSUME NEW t \in Threads PROVE Following(t)'
    BY <1>1, <2>2, NothingFollowed DEF Handling, Finishing
  <2> QED
    BY <2>1, <2>2 DEF ReplyInv
<1>4. RequestInv'
  BY DEF Lasting, RequestInv, OwnRequest
<1>5. OpenWhileFetching'
  BY <1>1 DEF OpenWhileFetching, Fetching, Handling
<1>6. WholeInv'
  <2>1. ASSUME NEW t \in Threads PROVE AskingInv(t)' /\ LastInv(t)'
    BY <1>1, <2>1, NothingAsked DEF Fetching, Handling, LastInv
  <2> QED
    BY <2>1 DEF WholeInv
<1> QED
  BY <1>2, <1>3, <1>4, <1>5, <1>6

LEMMA SessionsKept ==
  ASSUME Lasting, UNCHANGED <<dl, reqs>>
  PROVE  (SessionLock /\ OffsetsFit /\ SizesInv)'
  BY DEF Lasting, SessionLock, OffsetsFit, OffsetFits, SizesInv, SessionSizes, RequestSizes,
         ChunkAsked

LEMMA ResetKeepsTypes ==
  ASSUME LockTypes, DataTypes, Reset
  PROVE  LockTypes' /\ DataTypes'
<1>1. LockTypes'
  BY NoCallIsCall DEF Reset, LockTypes, ControlPoint
<1>2. MemTypes'
  BY OwnCalls DEF Reset, DataTypes, MemTypes
<1>3. RetTypes'
  BY DEF Reset, DataTypes, RetTypes, ReturnValue, ErrorCode
<1>4. LocTypes'
  <2>1. NoLoc \in [opcode : Nat, tok : Nat] /\ NoOut \in Outcome
    BY ConstantItems DEF NoLoc, NoOut, Outcome
  <2> QED
    BY <2>1 DEF Reset, DataTypes, LocTypes
<1>5. NetTypes'
  BY NetKept DEF Reset, DataTypes
<1>6. AppTypes'
  <2>1. Garbage \in Frame
    BY ConstantFrames
  <2> QED
    BY <2>1 DEF Reset, DataTypes, AppTypes
<1> QED
  BY <1>1, <1>2, <1>3, <1>4, <1>5, <1>6 DEF DataTypes

LEMMA ResetKeeps ==
  ASSUME Lasting, Reset
  PROVE  Lasting' /\ pc'[Updater] = "idle" /\ ~out'[Updater].output
<1>1. LockTypes' /\ DataTypes'
  BY ResetKeepsTypes DEF Lasting
<1>2. pc'[Updater] = "idle" /\ ~out'[Updater].output
  BY OwnCalls DEF Lasting, LockTypes, DataTypes, LocTypes, Reset, NoOut
<1>3. UNCHANGED <<lock, dl, drawn, reqs, served, reps>>
  BY DEF Reset, netVars
<1>4. RepliesAnswer'
  BY <1>3 DEF Lasting, ReplyInv, RepliesAnswer
<1>5. OthersIdle'
  BY <1>3 DEF Lasting, OthersIdle
<1> QED
  BY <1>1, <1>2, <1>3, <1>4, <1>5, RestingKeeps, SessionsKept DEF Lasting

(* Between a reset and firmups_sdk_initialize only the server moves.       *)
LEMMA ServerKeeps ==
  ASSUME Lasting, Server \/ UNCHANGED allVars, pc[Updater] = "idle"
  PROVE  Lasting' /\ pc'[Updater] = "idle"
<1>1. UNCHANGED <<lock, dl, pc, call, out, drawn, reqs>>
  BY DEF Server, ServeNew, Serve, ctxVars, callVars, allVars, vars
<1>2. [Next]_vars
  BY DEF Server, Next, allVars
<1>3. LockTypes' /\ DataTypes' /\ RepliesAnswer'
  BY <1>1, <1>2, StepKeepsTypes, RepliesAnswerStep DEF Lasting, LockTypes, ReplyInv
<1>4. ~out'[Updater].output
  BY <1>1, OwnCalls DEF Lasting, ReplyInv, CodeInvariant, HandedOut, Finishing
<1>5. OthersIdle'
  BY <1>1 DEF Lasting, OthersIdle
<1> QED
  BY <1>1, <1>3, <1>4, <1>5, RestingKeeps, SessionsKept DEF Lasting

(* firmups_sdk_initialize unlocks the context and closes its session.      *)
LEMMA StartRestores ==
  ASSUME Lasting, Start, pc[Updater] = "idle"
  PROVE  /\ Lasting' /\ InUse' /\ pc'[Updater] = "idle" /\ UNCHANGED <<out, flash>>
         /\ ~dl'[Device_].valid /\ ~out'[Updater].output
<1>1. PICK w \in WorkBuffers : SdkInitialize(Device_, w)
  BY DEF Start
<1>2. /\ UNCHANGED <<pc, call, out, flash, drawn, reqs, served, reps>>
      /\ lock' = [lock EXCEPT ![Device_] = FALSE]
      /\ dl' = [dl EXCEPT ![Device_].valid = FALSE, ![Device_].lock = FALSE]
  BY <1>1 DEF SdkInitialize, callVars, netVars, appVars
<1>3. dl \in [Contexts -> Session] /\ lock \in [Contexts -> BOOLEAN]
  BY DEF Lasting, LockTypes, DataTypes, MemTypes
<1>4. /\ dl'[Device_] = [dl[Device_] EXCEPT !.valid = FALSE, !.lock = FALSE]
      /\ \A c \in Contexts : c # Device_ => dl'[c] = dl[c]
  BY <1>2, <1>3, OwnCalls
<1>5. /\ ~dl'[Device_].valid /\ ~dl'[Device_].lock
      /\ dl'[Device_].offset = dl[Device_].offset
  <2>1. dl[Device_] \in Session
    BY <1>3, OwnCalls
  <2> QED
    BY <1>4, <2>1 DEF Session
<1>6. \A c \in Contexts : ~lock'[c] /\ ~dl'[c].valid
  BY <1>2, <1>3, <1>4, <1>5 DEF Lasting, OthersIdle
<1>7. ~out'[Updater].output
  BY <1>2, OwnCalls DEF Lasting, ReplyInv, CodeInvariant, HandedOut, Finishing
<1>8. LockTypes' /\ DataTypes' /\ RepliesAnswer'
  <2>1. [Next]_vars
    BY <1>1, OwnCalls DEF Next
  <2> QED
    BY <1>2, <1>3, <2>1, StepKeepsTypes, RepliesAnswerStep DEF Lasting, LockTypes, ReplyInv
<1>9. (SessionLock /\ OffsetsFit /\ SizesInv /\ OthersIdle)'
  <2>1. SessionLock' /\ OthersIdle'
    BY <1>4, <1>5, <1>6 DEF Lasting, SessionLock, OthersIdle
  <2>2. OffsetsFit'
    BY <1>4, <1>5, <1>6, OwnCalls DEF Lasting, OffsetsFit, OffsetFits
  <2>3. SizesInv'
    BY <1>2, <1>6 DEF Lasting, SizesInv, SessionSizes, RequestSizes, ChunkAsked
  <2> QED
    BY <2>1, <2>2, <2>3
<1>10. InUse'
  <2>1. MutualExclusion'
    BY <1>2, <1>6, OwnCalls DEF MutualExclusion, Inside
  <2>2. ImageIntact'
    BY <1>6 DEF ImageIntact
  <2> QED
    BY <2>1, <2>2 DEF InUse
<1>11. (ExchangeInv /\ ReplyInv /\ RequestInv /\ OpenWhileFetching /\ WholeInv)'
  BY <1>2, <1>7, <1>8, RestingKeeps
<1> QED
  BY <1>2, <1>5, <1>7, <1>8, <1>9, <1>10, <1>11 DEF Lasting

-----------------------------------------------------------------------------
(* What a step makes of the sessions, the flash and the chunk held.        *)

(* A thread at work is at work on the one context.                         *)
LEMMA AtWork ==
  ASSUME Lasting, NEW t \in Threads, pc[t] # "idle"
  PROVE  t = Updater /\ Ctx(t) = Device_
  BY OwnCalls DEF Lasting, ExchangeInv, CallsChosen, Ctx

LEMMA UseKeepsSdk ==
  ASSUME ImagesFit, Lasting, InUse, [Next]_vars
  PROVE  Lasting' /\ InUse'
<1>1. ResultsInv /\ ImagesInv /\ RequestInv /\ OthersIdle
  BY InUseMeans
<1>2. ResultsInv' /\ NetGrows
  BY <1>1, UpdaterObserves, ResultsInvStep
<1>3. ImagesInv' /\ RequestInv'
  BY <1>1, <1>2, UpdaterObserves, ImagesInvStep, RequestInvStep
<1>4. OthersIdle'
  <2> SUFFICES ASSUME NEW c \in Contexts, c # Device_
               PROVE  ~lock'[c] /\ ~dl'[c].valid
    BY DEF OthersIdle
  <2>1. ~lock'[c]
    <3>1. \A t \in Threads : Inside(t)' => Ctx(t)' = Device_
      BY <1>2, OwnCalls DEF ResultsInv, ExchangeInv, CallsChosen, Inside, Ctx
    <3> QED
      BY <1>2, <3>1 DEF ResultsInv, LockInv, MutualExclusion
  <2>2. ~dl'[c].valid
    <3>1. dl[c] \in Session /\ ~dl[c].valid
      BY <1>1 DEF ResultsInv, DataTypes, MemTypes, OthersIdle
    <3>2. ~Opens(c) /\ ~Commits(c)
      <4>1. ASSUME NEW t \in Threads, InitializeStarts(t) \/ CommitChunk(t) PROVE Ctx(t) # c
        <5>1. pc[t] # "idle"
          BY <4>1 DEF InitializeStarts, InitializeCall, CommitChunk, Proceeds
        <5> QED
          BY <5>1, AtWork
      <4> QED
        BY <4>1 DEF Opens, Commits
    <3>3. Quiet(c)
      BY <1>1, <1>2, <3>2, UpdaterObserves, EveryContextMoves DEF Moves, ResultsInv
    <3> QED
      BY <3>1, <3>3 DEF Quiet, Session
  <2> QED
    BY <2>1, <2>2
<1>5. (ResultsInv /\ ImagesInv /\ RequestInv /\ OthersIdle)'
  BY <1>2, <1>3, <1>4
<1> QED
  BY <1>5, InUseMeans DEF Lasting, InUse, ResultsInv, ImagesInv, LockInv, DownloadInv

(* The updater opens a session in one phase only.                          *)
LEMMA WhatOpens ==
  ASSUME Lasting, PhaseInv, NEW t \in Threads, InitializeStarts(t)
  PROVE  phase = "open" /\ call[t].id = Target /\ running = Factory
<1>1. pc[t] = "body" /\ call[t].op = "download_initialize"
  BY DEF InitializeStarts, InitializeCall
<1>2. t = Updater /\ phase \in Calling /\ call[Updater] = CallOf
  BY <1>1, AtWork DEF PhaseInv
<1>3. phase = "open" /\ CallOf.id = wanted
  BY <1>1, <1>2, CallOfIsOwn DEF PhaseInv
<1>4. wanted = Target /\ running # Target
  BY <1>3 DEF PhaseInv, Updating
<1>5. running = Factory
  BY <1>4 DEF PhaseInv, Firmwares, Target
<1> QED
  BY <1>2, <1>3, <1>4, <1>5

(* What the flash holds changes when a session is opened and when a chunk  *)
(* is taken.                                                               *)
LEMMA FlashMoves ==
  ASSUME Lasting, InUse, Operates
  PROVE  \/ UNCHANGED flash
         \/ TakeResult /\ IsChunk(Updater)
         \/ Work /\ InitializeStarts(Updater)
<1>1. CASE Call \/ Server \/ UNCHANGED allVars
  BY <1>1 DEF Call, CallLocks, Server, ServeNew, Serve, allVars, vars
<1>2. CASE TakeResult
  BY <1>2 DEF TakeResult, Consume
<1>3. CASE Work
  <2>1. CASE InnerStep(Updater) /\ ~SessionStep(Updater)
    BY <2>1, OwnCalls, PlainStepTouches DEF Lasting
  <2>2. CASE SessionStep(Updater)
    BY <1>3, <2>2 DEF SessionStep, Finish, CommitChunk, appVars
  <2>3. CASE Unlock(Updater)
    BY <2>3 DEF Unlock, appVars
  <2>4. ~Consume(Updater)
    BY <1>3 DEF Work, At, Consume
  <2> QED
    BY <1>3, <2>1, <2>2, <2>3, <2>4 DEF Work, Step, InnerStep
<1> QED
  BY <1>1, <1>2, <1>3 DEF Operates

(* The session keeps its firmware, or is opened for the one wanted.        *)
LEMMA SessionIsForTarget ==
  ASSUME Lasting, InUse, DataTypes', [Next]_vars, PhaseInv, TargetInv, dl'[Device_].valid
  PROVE  dl'[Device_].firmware_id = Target
<1>1. ResultsInv /\ Device_ \in Contexts
  BY InUseMeans, OwnCalls
<1>2. dl[Device_] \in Session
  BY <1>1 DEF ResultsInv, DataTypes, MemTypes
<1>3. CASE Quiet(Device_)
  BY <1>2, <1>3 DEF Quiet, TargetInv, Session
<1>4. CASE Commits(Device_)
  <2>1. PICK n : dl'[Device_] = [dl[Device_] EXCEPT !.offset = n]
    BY <1>4 DEF Commits
  <2> QED
    BY <1>2, <2>1 DEF TargetInv, Session
<1>5. CASE Opens(Device_)
  BY <1>5, WhatOpens DEF Opens, NewSession
<1> QED
  BY <1>1, <1>3, <1>4, <1>5, UpdaterObserves, EveryContextMoves DEF Moves

(* A chunk that is held is one of the open session.                        *)
LEMMA HeldIsOpen ==
  ASSUME Lasting, InUse, DataTypes', [Next]_vars, TargetInv, out'[Updater].output
  PROVE  dl'[Device_].valid
<1>1. ResultsInv /\ Device_ \in Contexts /\ Updater \in Threads
  BY InUseMeans, OwnCalls
<1>2. dl[Device_] \in Session /\ dl \in [Contexts -> Session]
  BY <1>1 DEF ResultsInv, DataTypes, MemTypes
<1>3. CASE CommitChunk(Updater)
  <2>1. pc[Updater] = "commit" /\ IsChunk(Updater)
    BY <1>3 DEF CommitChunk, Proceeds
  <2>2. dl[Device_].valid /\ Ctx(Updater) = Device_
    BY <1>1, <2>1, AtWork DEF Lasting, OpenWhileFetching, Fetching, Handling
  <2>3. PICK n : dl' = [dl EXCEPT ![Device_] = [dl[Device_] EXCEPT !.offset = n]]
    BY <1>3, <2>2 DEF CommitChunk
  <2> QED
    BY <1>1, <1>2, <2>2, <2>3 DEF Session
<1>4. CASE ~CommitChunk(Updater)
  <2>1. out[Updater].output
    BY <1>1, <1>4, HeldIsKept
  <2>2. pc[Updater] \in Finishing /\ dl[Device_].valid
    BY <1>1, <2>1 DEF ResultsInv, ReplyInv, CodeInvariant, HandedOut, TargetInv
  <2>3. ~SessionStep(Updater)
    BY <1>4, <2>2 DEF SessionStep, InitializeStarts, InitializeCall, Finish, Finishing
  <2>4. dl'[Device_] = dl[Device_]
    <3>1. CASE InnerStep(Updater)
      BY <1>1, <2>3, <3>1, PlainStepTouches DEF Lasting
    <3>2. CASE Begin(Updater)
      BY <3>2 DEF Begin, CallRejected, CallRefused, CallLocks, Refuse, ctxVars
    <3>3. CASE Unlock(Updater) \/ Consume(Updater)
      BY <3>3 DEF Unlock, Consume, ctxVars
    <3>4. ASSUME NEW c \in Contexts, NEW w \in WorkBuffers, SdkInitialize(c, w)
          PROVE  dl'[Device_] = dl[Device_]
      <4>1. Uses(Updater, Device_)
        BY <1>1, <2>2, AtWork DEF Uses, Finishing
      <4>2. c # Device_
        BY <1>1, <3>4, <4>1 DEF SdkInitialize
      <4> QED
        BY <1>1, <1>2, <3>4, <4>2 DEF SdkInitialize
    <3>5. CASE ServeNew \/ ServeAgain \/ UNCHANGED vars
      BY <3>5 DEF ServeNew, ServeAgain, Serve, ctxVars, vars
    <3> QED
      BY <3>1, <3>2, <3>3, <3>4, <3>5, OwnCalls DEF Next, Step, InnerStep
  <2> QED
    BY <2>2, <2>4
<1> QED
  BY <1>3, <1>4

-----------------------------------------------------------------------------
(* The updater goes from phase to phase.                                   *)

(* A result is that of the call of the phase.                              *)
LEMMA ResultOfPhase ==
  ASSUME Lasting, PhaseInv, TakeResult
  PROVE  /\ pc[Updater] = "returned" /\ pc'[Updater] = "idle" /\ UNCHANGED running
         /\ phase \in Calling /\ call[Updater] = CallOf
         /\ \/ UNCHANGED <<phase, wanted>>
            \/ /\ ret[Updater] = "NONE"
               /\ \/ phase = "check_in" /\ phase' = "look" /\ UNCHANGED wanted
                  \/ /\ phase = "look" /\ wanted' = out[Updater].vals[2]
                     /\ phase' = "current" \/ (phase' = "open" /\ wanted' # running)
                  \/ phase = "open" /\ phase' = "fetch" /\ UNCHANGED wanted
                  \/ /\ phase = "fetch" /\ phase' = "close" /\ UNCHANGED wanted
                     /\ out[Updater].complete
                  \/ phase = "close" /\ phase' = "install" /\ UNCHANGED wanted
<1>1. /\ pc[Updater] = "returned" /\ pc'[Updater] = "idle" /\ UNCHANGED running
      /\ phase' = PhaseAfter(ret[Updater], out[Updater])
      /\ wanted' = IF phase = "look" /\ ret[Updater] = "NONE" THEN out[Updater].vals[2]
                   ELSE wanted
  BY OwnCalls DEF TakeResult, Consume, Goto, Desires, Lasting, LockTypes
<1>2. phase \in Calling /\ call[Updater] = CallOf
  BY <1>1 DEF PhaseInv
<1>3. CASE ret[Updater] # "NONE"
  BY <1>1, <1>2, <1>3 DEF PhaseAfter
<1>4. CASE ret[Updater] = "NONE"
  <2>1. PICK code, o : code = ret[Updater] /\ o = out[Updater]
    OBVIOUS
  <2>2. /\ phase = "check_in" => PhaseAfter(code, o) = "look"
        /\ phase = "look" =>
             PhaseAfter(code, o) = IF o.vals[2] = running THEN "current" ELSE "open"
        /\ phase = "open" => PhaseAfter(code, o) = "fetch"
        /\ phase = "fetch" => PhaseAfter(code, o) = IF o.complete THEN "close" ELSE "fetch"
        /\ phase = "close" => PhaseAfter(code, o) = "install"
    BY <1>4, <2>1 DEF PhaseAfter, Desires
  <2> QED
    BY <1>1, <1>2, <1>4, <2>1, <2>2 DEF Calling
<1> QED
  BY <1>1, <1>2, <1>3, <1>4

(* A call that runs, runs on as the call it is.                            *)
LEMMA WorkGoesOn ==
  ASSUME Work
  PROVE  pc[Updater] # "idle" /\ call'[Updater] = call[Updater]
<1>1. CASE InnerStep(Updater)
  BY <1>1, OwnCalls, InnerStepMoves DEF Inside
<1>2. CASE Unlock(Updater)
  BY <1>2 DEF Unlock, callVars
<1>3. ~Consume(Updater)
  BY DEF Work, At, Consume
<1> QED
  BY <1>1, <1>2, <1>3 DEF Work, Step, InnerStep

LEMMA OperatesKeepsPhase ==
  ASSUME DesiredFit, Lasting, InUse, PhaseInv, Operates
  PROVE  PhaseInv'
<1>1. ASSUME UNCHANGED <<phase, running, wanted>>,
             pc'[Updater] # "idle" => phase \in Calling /\ call'[Updater] = CallOf
      PROVE  PhaseInv'
  <2>1. CallOf' = CallOf
    BY <1>1 DEF CallOf
  <2> QED
    BY <1>1, <2>1 DEF PhaseInv
<1>2. CASE Call
  <2>1. call'[Updater] = CallOf /\ phase \in Calling
    BY <1>2, OwnCalls DEF Call, CallLocks, Calls, Calling, Lasting, LockTypes
  <2> QED
    BY <1>1, <1>2, <2>1 DEF Call, agentVars
<1>3. CASE Work
  BY <1>1, <1>3, WorkGoesOn DEF Work, PhaseInv
<1>4. CASE Server \/ UNCHANGED allVars
  <2>1. UNCHANGED <<pc, call, phase, running, wanted>>
    BY <1>4 DEF Server, ServeNew, Serve, callVars, allVars, vars, agentVars
  <2> QED
    BY <1>1, <2>1 DEF PhaseInv
<1>5. CASE TakeResult
  <2>1. /\ pc[Updater] = "returned" /\ pc'[Updater] = "idle" /\ UNCHANGED running
        /\ phase \in Calling /\ call[Updater] = CallOf
    BY <1>5, ResultOfPhase
  <2>2. CASE UNCHANGED <<phase, wanted>>
    BY <1>1, <2>1, <2>2
  <2>3. CASE phase = "look" /\ ret[Updater] = "NONE" /\ wanted' = out[Updater].vals[2]
    <3>1. wanted' = Target /\ Dev \in ServerDevices
      <4>1. call[Updater].op = "get_device_info"
        BY <2>1, <2>3, CallOfIsOwn DEF PhaseInv
      <4>2. Succeeded(Updater, "get_device_info") /\ Ctx(Updater) = Device_
        BY <2>1, <2>3, <4>1, OwnCalls, AtWork DEF Succeeded, Returned
      <4> QED
        BY <2>3, <4>2, OwnCalls, UpdaterObserves, InUseMeans, DesiredIsLearned DEF Target, Dev
    <3>2. wanted' \in Firmwares
      BY <3>1 DEF Firmwares, Target
    <3>3. phase' = "current" \/ (phase' = "open" /\ wanted' # running) \/ phase' = phase
      BY <1>5, <2>3, ResultOfPhase
    <3> QED
      BY <2>1, <2>3, <3>1, <3>2, <3>3 DEF PhaseInv, Phase, Calling, Updating, Target, Dev
  <2>4. CASE /\ UNCHANGED wanted
             /\ \/ phase = "check_in" /\ phase' = "look"
                \/ phase = "open" /\ phase' = "fetch"
                \/ phase = "fetch" /\ phase' = "close"
                \/ phase = "close" /\ phase' = "install"
    BY <2>1, <2>4 DEF PhaseInv, Phase, Calling, Updating, Target, Dev
  <2> QED
    BY <1>5, <2>2, <2>3, <2>4, ResultOfPhase
<1> QED
  BY <1>2, <1>3, <1>4, <1>5 DEF Operates

(* The last chunk makes the image whole.                                   *)
LEMMA LastChunkCompletes ==
  ASSUME Lasting, InUse, PhaseInv, TargetInv, TakeResult,
         phase = "fetch", ret[Updater] = "NONE", out[Updater].complete
  PROVE  Whole(Target)'
<1>1. /\ pc[Updater] = "returned" /\ call[Updater] = CallOf /\ Updater \in Threads
  BY ResultOfPhase, OwnCalls
<1>2. IsChunk(Updater) /\ Ctx(Updater) = Device_ /\ Device_ \in Contexts
  BY <1>1, CallOfIsOwn, AtWork, OwnCalls DEF PhaseInv, IsChunk, Calling
<1>3. out[Updater].output
  BY <1>1, <1>2 DEF Lasting, ReplyInv, CodeInvariant, HandedOut, Finishing
<1>4. dl[Device_].valid /\ dl[Device_].firmware_id = Target
  BY <1>3 DEF TargetInv
<1>5. Target \in DOMAIN Images /\ dl[Device_].offset = Images[Target]
  BY <1>1, <1>2, <1>3, <1>4 DEF Lasting, WholeInv, LastInv
<1>6. ImageOf(Device_) = BytesOf(Bytes(Target, 0, Images[Target]))
  BY <1>2, <1>4, <1>5 DEF InUse, ImageIntact
<1>7. flash'[Device_] = flash[Device_] \o ChunkBytes(Device_)
  BY <1>2, <1>3 DEF TakeResult, Consume, Lasting, DataTypes, AppTypes
<1>8. Pending(Device_) = ChunkBytes(Device_)
  BY <1>1, <1>2, <1>3 DEF Pending
<1>9. flash'[Device_] = BytesOf(Bytes(Target, 0, Images[Target]))
  BY <1>6, <1>7, <1>8 DEF ImageOf
<1> QED
  BY <1>5, <1>9 DEF Whole, Target, Dev

LEMMA OperatesKeepsFlash ==
  ASSUME Lasting, InUse, PhaseInv, FlashInv, TargetInv, Operates
  PROVE  FlashInv'
<1>1. UNCHANGED running
  BY DEF Operates, Call, TakeResult, Work, Server, allVars, agentVars
<1>2. CASE UNCHANGED flash
  <2>1. \A f : Whole(f)' <=> Whole(f)
    BY <1>2 DEF Whole
  <2>2. phase' \in {"close", "install"} => Whole(Target)'
    <3>1. CASE TakeResult /\ phase' # phase
      <4>1. CASE phase' = "close"
        <5>1. phase = "fetch" /\ ret[Updater] = "NONE" /\ out[Updater].complete
          BY <3>1, <4>1, ResultOfPhase
        <5> QED
          BY <3>1, <5>1, LastChunkCompletes
      <4>2. CASE phase' = "install"
        <5>1. phase = "close"
          BY <3>1, <4>2, ResultOfPhase
        <5> QED
          BY <2>1, <5>1 DEF FlashInv, Target, Dev
      <4> QED
        BY <4>1, <4>2
    <3>2. CASE phase' = phase
      BY <2>1, <3>2 DEF FlashInv, Target, Dev
    <3>3. TakeResult \/ phase' = phase
      BY DEF Operates, Call, Work, Server, allVars, agentVars
    <3> QED
      BY <3>1, <3>2, <3>3
  <2>3. running' # Factory => Whole(running)'
    BY <1>1, <2>1 DEF FlashInv
  <2> QED
    BY <2>2, <2>3 DEF FlashInv
<1>3. CASE TakeResult /\ IsChunk(Updater)
  <2>1. phase = "fetch"
    <3>1. call[Updater] = CallOf /\ phase \in Calling
      BY <1>3, ResultOfPhase
    <3> QED
      BY <1>3, <3>1, CallOfIsOwn DEF IsChunk, PhaseInv
  <2>2. running = Factory
    BY <2>1 DEF PhaseInv, Updating, Firmwares, Target
  <2>3. phase' \in {"close", "install"} => Whole(Target)'
    <3>1. ASSUME phase' \in {"close", "install"} PROVE Whole(Target)'
      <4>1. ret[Updater] = "NONE" /\ out[Updater].complete
        BY <1>3, <2>1, <3>1, ResultOfPhase
      <4> QED
        BY <1>3, <2>1, <4>1, LastChunkCompletes
    <3> QED
      BY <3>1
  <2> QED
    BY <1>1, <2>2, <2>3 DEF FlashInv
<1>4. CASE Work /\ InitializeStarts(Updater)
  <2>1. phase = "open" /\ running = Factory
    BY <1>4, OwnCalls, WhatOpens
  <2>2. UNCHANGED phase
    BY <1>4 DEF Work
  <2> QED
    BY <1>1, <2>1, <2>2 DEF FlashInv
<1> QED
  BY <1>2, <1>3, <1>4, FlashMoves

LEMMA OperatesKeepsTarget ==
  ASSUME Lasting, InUse, DataTypes', PhaseInv, TargetInv, Operates
  PROVE  TargetInv'
<1>1. [Next]_vars
  BY UpdaterUsesSdk
<1> QED
  BY <1>1, SessionIsForTarget, HeldIsOpen DEF TargetInv, Target, Dev

-----------------------------------------------------------------------------
(* The invariant is kept, across the resets too.                           *)
LEMMA AgentInvInit == AgentInit => AgentInv
<1> SUFFICES ASSUME AgentInit PROVE AgentInv
  OBVIOUS
<1>1. Init /\ phase = "start" /\ running = Factory /\ wanted = Factory
  BY DEF AgentInit
<1>2. ResultsInv /\ ImagesInv /\ RequestInv
  BY <1>1, ResultsInvInit, ImagesInvInit, RequestInvInit
<1>3. OthersIdle
  BY <1>1 DEF Init, OthersIdle, NoSession
<1>4. pc[Updater] = "idle" /\ ~dl[Device_].valid /\ ~out[Updater].output
  BY <1>1, OwnCalls DEF Init, NoSession, NoOut
<1>5. Lasting
  BY <1>2, <1>3, InUseMeans
<1> QED
  BY <1>1, <1>4, <1>5
     DEF AgentInv, Reinitialized, PhaseInv, FlashInv, TargetInv, Phase, Updating, Firmwares

LEMMA StartKeepsAgent ==
  ASSUME AgentInv, Start
  PROVE  AgentInv'
<1>1. Lasting /\ PhaseInv /\ FlashInv /\ pc[Updater] = "idle"
  BY DEF AgentInv, Reinitialized, Start
<1>2. /\ Lasting' /\ InUse' /\ pc'[Updater] = "idle" /\ UNCHANGED flash
      /\ ~dl'[Device_].valid /\ ~out'[Updater].output
  BY <1>1, StartRestores
<1>3. phase' = "check_in" /\ UNCHANGED <<running, wanted>>
  BY DEF Start
<1>4. PhaseInv' /\ TargetInv'
  BY <1>1, <1>2, <1>3 DEF PhaseInv, TargetInv, Phase, Calling, Updating
<1>5. FlashInv'
  BY <1>1, <1>2, <1>3 DEF FlashInv, Whole
<1> QED
  BY <1>2, <1>3, <1>4, <1>5 DEF AgentInv, Reinitialized

LEMMA ResetKeepsAgent ==
  ASSUME AgentInv, Resets
  PROVE  AgentInv'
<1>1. Lasting /\ PhaseInv /\ FlashInv /\ TargetInv
  BY DEF AgentInv
<1>2. Reset /\ phase' = "start" /\ UNCHANGED <<dl, flash, wanted>>
  BY DEF Resets, Install, ResetStrikes, Reset
<1>3. Lasting' /\ pc'[Updater] = "idle" /\ ~out'[Updater].output
  BY <1>1, <1>2, ResetKeeps
<1>4. CASE Install
  <2>1. phase = "install" /\ running' = wanted /\ wanted = Target /\ Whole(Target)
    BY <1>1, <1>4 DEF Install, PhaseInv, FlashInv, Updating
  <2> QED
    BY <1>1, <1>2, <1>3, <2>1
       DEF AgentInv, Reinitialized, PhaseInv, FlashInv, TargetInv, Phase, Updating, Whole, Target,
           Dev
<1>5. CASE ResetStrikes
  <2>1. UNCHANGED running
    BY <1>5 DEF ResetStrikes
  <2> QED
    BY <1>1, <1>2, <1>3, <2>1
       DEF AgentInv, Reinitialized, PhaseInv, FlashInv, TargetInv, Phase, Updating, Whole, Target,
           Dev
<1> QED
  BY <1>4, <1>5 DEF Resets

(* Before firmups_sdk_initialize has returned only the server does         *)
(* anything.                                                               *)
LEMMA ColdStepKeepsAgent ==
  ASSUME AgentInv, phase = "start", Operates
  PROVE  AgentInv'
<1>1. Lasting /\ PhaseInv /\ FlashInv /\ TargetInv /\ pc[Updater] = "idle"
  BY DEF AgentInv, Reinitialized
<1>2. Server \/ UNCHANGED allVars
  <2>1. ~Call
    BY DEF Call
  <2>2. ~TakeResult
    BY <1>1 DEF TakeResult, Consume
  <2>3. ~Work
    BY <1>1, WorkGoesOn
  <2> QED
    BY <2>1, <2>2, <2>3 DEF Operates
<1>3. UNCHANGED <<phase, running, wanted, pc, dl, flash, out>>
  BY <1>2 DEF Server, ServeNew, Serve, ctxVars, callVars, agentVars, allVars, vars
<1>4. Lasting'
  BY <1>1, <1>2, ServerKeeps
<1>5. PhaseInv' /\ FlashInv' /\ TargetInv'
  BY <1>1, <1>3 DEF PhaseInv, FlashInv, TargetInv, Whole, Target, Dev
<1> QED
  BY <1>1, <1>3, <1>4, <1>5 DEF AgentInv, Reinitialized

LEMMA WarmStepKeepsAgent ==
  ASSUME ImagesFit, DesiredFit, AgentInv, phase # "start", Operates
  PROVE  AgentInv'
<1>1. Lasting /\ InUse /\ PhaseInv /\ FlashInv /\ TargetInv
  BY DEF AgentInv, Reinitialized
<1>2. Lasting' /\ InUse'
  BY <1>1, UpdaterUsesSdk, UseKeepsSdk
<1>3. PhaseInv' /\ FlashInv' /\ TargetInv'
  BY <1>1, <1>2, OperatesKeepsPhase, OperatesKeepsFlash, OperatesKeepsTarget DEF Lasting
<1>4. phase' # "start"
  <2>1. CASE TakeResult
    BY <1>1, <2>1, ResultOfPhase
  <2>2. CASE UNCHANGED phase
    BY <2>2
  <2> QED
    BY <2>1, <2>2 DEF Operates, Call, Work, Server, allVars, agentVars
<1> QED
  BY <1>2, <1>3, <1>4 DEF AgentInv, Reinitialized

LEMMA AgentCorrect ==
  ASSUME ImagesFit, DesiredFit
  PROVE  AgentSpec => []AgentInv
<1>1. AgentInv /\ [AgentNext]_allVars => AgentInv'
  <2> SUFFICES ASSUME AgentInv, [AgentNext]_allVars PROVE AgentInv'
    OBVIOUS
  <2>1. CASE Start
    BY <2>1, StartKeepsAgent
  <2>2. CASE Resets
    BY <2>2, ResetKeepsAgent
  <2>3. CASE Operates
    BY <2>3, ColdStepKeepsAgent, WarmStepKeepsAgent
  <2> QED
    BY <2>1, <2>2, <2>3, AgentSteps
<1> QED
  BY <1>1, AgentInvInit, PTL DEF AgentSpec

-----------------------------------------------------------------------------
(* The device is delivered with a firmware the server has no image of.     *)
FactoryIsOwn == Factory \notin DOMAIN Images

(* firmups_sdk_firmware_download_*, used as they are meant to be: whatever *)
(* resets interrupt the calls, whatever callbacks fail and whatever        *)
(* answers arrive late, damaged or not at all, the device never runs a     *)
(* firmware whose image, byte for byte, it has not received whole.         *)
THEOREM InstalledImagesAreWhole ==
  ASSUME ImagesFit, DesiredFit, FactoryIsOwn
  PROVE  AgentSpec => []InstalledWhole
<1>1. AgentInv => InstalledWhole
  BY DEF AgentInv, FlashInv, Whole, InstalledWhole, FactoryIsOwn
<1> QED
  BY <1>1, AgentCorrect, PTL

(* firmups_sdk_set_device_info, for a device that is reset between sending *)
(* and answer: a call that returns NONE means that the server has served a *)
(* request that it opened and that put the very firmware and status of the *)
(* call on the device's record, although answers to the calls of before    *)
(* the reset may still arrive.                                             *)
THEOREM ReportsAreApplied ==
  ASSUME ImagesFit, DesiredFit, Factory < UINT32
  PROVE  AgentSpec => []UpdateApplied
<1>1. AgentInv => UpdateApplied
  <2> SUFFICES ASSUME AgentInv PROVE UpdateApplied
    OBVIOUS
  <2>1. CASE phase = "start"
    BY <2>1, OwnCalls DEF AgentInv, Reinitialized, UpdateApplied, Succeeded, Returned
  <2>2. CASE phase # "start"
    BY <2>2, InUseMeans, UpdaterFits, UpdateIsApplied DEF AgentInv, Reinitialized
  <2> QED
    BY <2>1, <2>2
<1> QED
  BY <1>1, AgentCorrect, PTL

(* firmups_sdk_initialize after a reset, over the memory of a context in   *)
(* which a call was cut off anywhere, its lock taken and a download open:  *)
(* from then on the lock is exact, the session and its lock agree, and     *)
(* what the application has of the image is the prefix the session counts. *)
THEOREM ContextsAreRestored ==
  ASSUME ImagesFit, DesiredFit
  PROVE  AgentSpec => [](phase # "start" => MutualExclusion /\ SessionLock /\ ImageIntact)
<1>1. AgentInv => (phase # "start" => MutualExclusion /\ SessionLock /\ ImageIntact)
  BY DEF AgentInv, Reinitialized, Lasting, InUse
<1> QED
  BY <1>1, AgentCorrect, PTL

(* get_random_bytes: also across resets no two messages of the device      *)
(* leave under one nonce, if the random source never repeats itself.       *)
THEOREM NoncesSurviveResets ==
  ASSUME ImagesFit, DesiredFit
  PROVE  AgentSpec => []NonceUnique
<1>1. AgentInv => NonceUnique
  BY DEF AgentInv, Lasting, ExchangeInv, FreshInv
<1> QED
  BY <1>1, AgentCorrect, PTL
=============================================================================
