-------------------------- MODULE SdkExchangeProofs -------------------------
(***************************************************************************)
(* What leaves through send_data: the call's own operation under a nonce   *)
(* of its own, for any number of threads and contexts.                     *)
(*                                                                         *)
(* Between drawing the nonce and sending, what a call has prepared lies in *)
(* the memory of the context.  The lock keeps other threads away from it;  *)
(* the invariant says what lies there at each control point.               *)
(***************************************************************************)
EXTENDS SdkTypeProofs

(* All downloads go through one context, so that the static ret_code of    *)
(* get_chunk is guarded by that context's lock.                            *)
OneDownloadContext ==
  \A k1, k2 \in UNION {CallsOf[t] : t \in Threads} :
    k1.op = "get_chunk" /\ k2.op = "get_chunk" => k1.ctx = k2.ctx

CallsChosen == \A t \in Threads : pc[t] # "idle" => call[t] \in CallsOf[t]

Preparing == {"header", "seal", "send"}

Sending(t) == pc[t] = "send" /\ ret[t] = "NONE"
Drawn(t) == pc[t] = "seal" \/ Sending(t)
Nonce(t) == cry[Ctx(t)].nonce

Operation(k) == RequestPayload(k, DeviceId[k.ctx], NoSession)

(* The operation has been encoded (its length may depend on the session,   *)
(* if it asks for a chunk).                                                *)
Encoded(t) == ~IsChunk(t) => mem[Ctx(t)]["response_buffer"].body = Operation(call[t])

HeaderInv(t) ==
  pc[t] = "header" =>
    /\ call[t].op \in MessageOps
    /\ loc[t].opcode = RequestOpcode(call[t].op)
    /\ ret[t] = "NONE" => Encoded(t)

DrawnInv(t) ==
  Drawn(t) =>
    /\ call[t].op \in MessageOps
    /\ cry[Ctx(t)].dev = DeviceId[Ctx(t)]
    /\ cry[Ctx(t)].opcode = RequestOpcode(call[t].op)
    /\ Nonce(t) \in 1..drawn

SealInv(t) == pc[t] = "seal" => Encoded(t)

SendInv(t) ==
  Sending(t) =>
    LET m == mem[Ctx(t)][InnerBuffer(t)]
    IN  /\ m.kind = "cose" /\ m.key \in KeyRead(Ctx(t)) /\ m.hdr = cry[Ctx(t)]
        /\ ~IsChunk(t) => m.body = Operation(call[t])

CodeInv(t) == pc[t] = "send" /\ IsChunk(t) => static_ret = ret[t]

Prepared(t) == HeaderInv(t) /\ DrawnInv(t) /\ SealInv(t) /\ SendInv(t) /\ CodeInv(t)

SentInv ==
  \A q \in 1..Len(reqs) :
    OwnRequest(q) =>
      LET k == reqs[q].call
          m == reqs[q].msg
      IN  /\ m.kind = "cose" /\ m.key \in KeyRead(reqs[q].ctx)
          /\ m.hdr.dev = DeviceId[reqs[q].ctx] /\ m.hdr.opcode = RequestOpcode(k.op)
          /\ m.hdr.nonce \in 1..drawn
          /\ k.op # "get_chunk" => m.body = Operation(k)
          /\ k.ctx = reqs[q].ctx

FreshInv ==
  /\ \A t \in Threads, q \in 1..Len(reqs) :
       Drawn(t) /\ OwnRequest(q) => reqs[q].msg.hdr.nonce # Nonce(t)
  /\ \A t, u \in Threads : Drawn(t) /\ Drawn(u) /\ t # u => Nonce(t) # Nonce(u)
  /\ NonceUnique

ExchangeInv == CallsChosen /\ (\A t \in Threads : Prepared(t)) /\ SentInv /\ FreshInv

-----------------------------------------------------------------------------
(* What a step inside a call touches: the control state of its thread, the *)
(* memory of its context, and, if it is a get_chunk, the static code.      *)
LEMMA InnerStepIsLocal ==
  ASSUME LockTypes, DataTypes, NEW t \in Threads, InnerStep(t)
  PROVE  /\ \A u \in Threads : u # t => pc'[u] = pc[u] /\ ret'[u] = ret[u] /\ loc'[u] = loc[u]
         /\ \A c \in Contexts : c # Ctx(t) => cry'[c] = cry[c] /\ mem'[c] = mem[c]
         /\ static_ret' = static_ret \/ IsChunk(t)
<1>0. /\ pc \in [Threads -> ControlPoint] /\ ret \in [Threads -> ReturnValue]
      /\ loc \in [Threads -> [opcode : Nat, tok : Nat]]
      /\ cry \in [Contexts -> Header] /\ mem \in [Contexts -> [Buffer -> Frame]]
  BY DEF LockTypes, DataTypes, MemTypes, RetTypes, LocTypes
<1> USE <1>0 DEF Goto, Return, SetRet, Write, ctxVars, callVars
<1>1. CASE RejectArguments(t)
  BY <1>1 DEF RejectArguments
<1>2. CASE RejectNoSession(t)
  BY <1>2 DEF RejectNoSession
<1>3. CASE InitializeTooSmall(t)
  BY <1>3 DEF InitializeTooSmall
<1>4. CASE InitializeBusy(t)
  BY <1>4 DEF InitializeBusy
<1>5. CASE InitializeStarts(t)
  BY <1>5 DEF InitializeStarts
<1>6. CASE Finish(t)
  BY <1>6 DEF Finish
<1>7. CASE CreateRequest(t)
  BY <1>7 DEF CreateRequest
<1>8. CASE Forward(t)
  BY <1>8 DEF Forward, Posted
<1>9. CASE Bail(t)
  BY <1>9 DEF Bail
<1>10. CASE DrawNonce(t)
  BY <1>10 DEF DrawNonce
<1>11. CASE RandomFails(t)
  BY <1>11 DEF RandomFails
<1>12. CASE Seal(t)
  BY <1>12 DEF Seal
<1>13. CASE Send(t)
  BY <1>13 DEF Send, Posted
<1>14. CASE Deliver(t)
  BY <1>14 DEF Deliver
<1>15. CASE SendFails(t)
  BY <1>15 DEF SendFails
<1>16. CASE OpenHeader(t)
  BY <1>16 DEF OpenHeader
<1>17. CASE NotAMessage(t)
  BY <1>17 DEF NotAMessage
<1>18. CASE Open(t)
  BY <1>18 DEF Open
<1>19. CASE ParseError(t)
  BY <1>19 DEF ParseError
<1>20. CASE ParseSimple(t)
  BY <1>20 DEF ParseSimple
<1>21. CASE ParseChunk(t)
  BY <1>21 DEF ParseChunk
<1>22. CASE CommitMismatch(t)
  BY <1>22 DEF CommitMismatch
<1>23. CASE CommitSimple(t)
  BY <1>23 DEF CommitSimple
<1>24. CASE CommitChunk(t)
  BY <1>24 DEF CommitChunk
<1>25. CASE Leave(t)
  BY <1>25 DEF Leave
<1> QED
  BY <1>1, <1>2, <1>3, <1>4, <1>5, <1>6, <1>7, <1>8, <1>9, <1>10, <1>11, <1>12, <1>13, <1>14, <1>15, <1>16, <1>17, <1>18, <1>19, <1>20, <1>21, <1>22, <1>23, <1>24, <1>25 DEF InnerStep

(* All but four of these steps leave the thread where nothing is prepared; *)
(* the nonces drawn and the messages sent change in two of them each.      *)
PreparingStep(t) == CreateRequest(t) \/ DrawNonce(t) \/ RandomFails(t) \/ Seal(t)
PostingStep(t) == Send(t) \/ Forward(t)

LEMMA OtherStepsPrepareNothing ==
  ASSUME LockTypes, NEW t \in Threads, InnerStep(t), ~PreparingStep(t)
  PROVE  /\ pc'[t] \notin Preparing
         /\ UNCHANGED drawn
         /\ PostingStep(t) \/ UNCHANGED reqs
<1>0. pc \in [Threads -> ControlPoint]
  BY DEF LockTypes
<1> USE <1>0 DEF Goto, Return, netVars, Preparing, PreparingStep, PostingStep
<1>1. CASE \/ RejectArguments(t) \/ RejectNoSession(t) \/ InitializeTooSmall(t)
           \/ InitializeBusy(t) \/ InitializeStarts(t) \/ Finish(t) \/ Bail(t)
  BY <1>1 DEF RejectArguments, RejectNoSession, InitializeTooSmall, InitializeBusy,
              InitializeStarts, Finish, Bail
<1>2. CASE Forward(t) \/ Send(t)
  BY <1>2 DEF Forward, Send, Posted
<1>3. CASE Deliver(t) \/ SendFails(t)
  BY <1>3 DEF Deliver, SendFails, AfterSend
<1>4. CASE OpenHeader(t) \/ NotAMessage(t) \/ Open(t)
  BY <1>4 DEF OpenHeader, NotAMessage, Open
<1>5. CASE ParseError(t) \/ ParseSimple(t) \/ ParseChunk(t)
  BY <1>5 DEF ParseError, ParseSimple, ParseChunk
<1>6. CASE CommitMismatch(t) \/ CommitSimple(t) \/ CommitChunk(t) \/ Leave(t)
  BY <1>6 DEF CommitMismatch, CommitSimple, CommitChunk, Leave
<1> QED
  BY <1>1, <1>2, <1>3, <1>4, <1>5, <1>6 DEF InnerStep

(* A thread outside these control points has nothing prepared; one whose   *)
(* own state and context are left alone keeps what it has.                 *)
LEMMA NothingPrepared ==
  ASSUME NEW t \in Threads, pc'[t] \notin Preparing
  PROVE  Prepared(t)' /\ ~Drawn(t)'
  BY DEF Preparing, Prepared, HeaderInv, DrawnInv, SealInv, SendInv, CodeInv, Drawn, Sending

LEMMA PreparedKept ==
  ASSUME NEW t \in Threads, Prepared(t),
         pc'[t] = pc[t], call'[t] = call[t], ret'[t] = ret[t], loc'[t] = loc[t],
         cry'[Ctx(t)] = cry[Ctx(t)], mem'[Ctx(t)] = mem[Ctx(t)],
         static_ret' = static_ret \/ ~IsChunk(t) \/ pc[t] # "send",
         drawn \in Nat, drawn' \in Nat, drawn <= drawn'
  PROVE  Prepared(t)' /\ Drawn(t)' = Drawn(t) /\ Nonce(t)' = Nonce(t)
<1>1. Ctx(t)' = Ctx(t) /\ IsChunk(t)' = IsChunk(t) /\ InnerBuffer(t)' = InnerBuffer(t)
  BY DEF Ctx, IsChunk, InnerBuffer
<1>2. Encoded(t)' = Encoded(t) /\ Sending(t)' = Sending(t) /\ Drawn(t)' = Drawn(t)
  BY <1>1 DEF Encoded, Sending, Drawn, Operation
<1>3. Nonce(t)' = Nonce(t)
  BY <1>1 DEF Nonce
<1>4. HeaderInv(t)' /\ SealInv(t)'
  BY <1>1, <1>2 DEF Prepared, HeaderInv, SealInv
<1>5. DrawnInv(t)'
  BY <1>1, <1>2, <1>3 DEF Prepared, DrawnInv
<1>6. SendInv(t)'
  BY <1>1, <1>2 DEF Prepared, SendInv, KeyRead, Operation
<1>7. CodeInv(t)'
  BY <1>1 DEF Prepared, CodeInv
<1> QED
  BY <1>2, <1>3, <1>4, <1>5, <1>6, <1>7 DEF Prepared
LEMMA SentKept ==
  ASSUME SentInv, UNCHANGED reqs, drawn \in Nat, drawn' \in Nat, drawn <= drawn'
  PROVE  SentInv'
  BY DEF SentInv, OwnRequest, KeyRead, Operation

LEMMA FreshKept ==
  ASSUME FreshInv, UNCHANGED reqs,
         \A t \in Threads : Drawn(t)' => Drawn(t) /\ Nonce(t)' = Nonce(t)
  PROVE  FreshInv'
<1>1. NonceUnique'
  BY DEF FreshInv, NonceUnique, OwnRequest
<1>2. ASSUME NEW t \in Threads, NEW q \in 1..Len(reqs'), Drawn(t)', OwnRequest(q)'
      PROVE  reqs'[q].msg.hdr.nonce # Nonce(t)'
  BY <1>2 DEF FreshInv, OwnRequest
<1>3. ASSUME NEW t \in Threads, NEW u \in Threads, Drawn(t)', Drawn(u)', t # u
      PROVE  Nonce(t)' # Nonce(u)'
  BY <1>3 DEF FreshInv
<1> QED
  BY <1>1, <1>2, <1>3 DEF FreshInv

-----------------------------------------------------------------------------
(* The lock at work: a step of one thread leaves what the others have      *)
(* prepared as it is.                                                      *)
LEMMA OthersKeepTheirs ==
  ASSUME OneDownloadContext, LockInv, DataTypes, DataTypes', CallsChosen,
         NEW t \in Threads, InnerStep(t), drawn <= drawn',
         NEW u \in Threads, u # t, Prepared(u)
  PROVE  Prepared(u)' /\ (Drawn(u)' => Drawn(u) /\ Nonce(u)' = Nonce(u))
<1>1. /\ pc'[u] = pc[u] /\ ret'[u] = ret[u] /\ loc'[u] = loc[u]
      /\ \A c \in Contexts : c # Ctx(t) => cry'[c] = cry[c] /\ mem'[c] = mem[c]
      /\ static_ret' = static_ret \/ IsChunk(t)
  BY InnerStepIsLocal DEF LockInv
<1>2. Inside(t) /\ UNCHANGED call
  BY InnerStepMoves
<1>3. CASE pc[u] \notin Preparing
  BY <1>1, <1>3, NothingPrepared
<1>4. CASE pc[u] \in Preparing
  <2>1. Inside(u)
    BY <1>4 DEF Preparing, Inside
  <2>2. Ctx(u) # Ctx(t) /\ Ctx(u) \in Contexts
    BY <1>2, <2>1 DEF LockInv, LockTypes, MutualExclusion, Ctx, CallRecord
  <2>3. ~(IsChunk(t) /\ IsChunk(u))
    <3>1. call[t] \in CallsOf[t] /\ call[u] \in CallsOf[u]
      BY <1>2, <2>1 DEF CallsChosen, Inside
    <3> QED
      BY <2>2, <3>1 DEF OneDownloadContext, IsChunk, Ctx
  <2>4. drawn \in Nat /\ drawn' \in Nat
    BY DEF DataTypes, NetTypes
  <2> QED
    BY <1>1, <1>2, <2>2, <2>3, <2>4, PreparedKept
<1> QED
  BY <1>3, <1>4

(* A step that keeps the chosen calls.                                     *)
LEMMA InnerStepKeepsCalls ==
  ASSUME LockInv, CallsChosen, NEW t \in Threads, InnerStep(t)
  PROVE  CallsChosen'
<1>1. PICK l \in InnerPoint : pc' = [pc EXCEPT ![t] = l]
  BY InnerStepMoves
<1>2. Inside(t) /\ UNCHANGED call
  BY InnerStepMoves
<1> QED
  BY <1>1, <1>2 DEF LockInv, LockTypes, CallsChosen, Inside

-----------------------------------------------------------------------------
(* The steps that prepare a message.                                       *)
LEMMA CreateRequestPrepares ==
  ASSUME LockInv, DataTypes, NEW t \in Threads, CreateRequest(t)
  PROVE  Prepared(t)' /\ ~Drawn(t)' /\ UNCHANGED <<reqs, drawn>>
<1> DEFINE c == Ctx(t)
           p == RequestPayload(call[t], DeviceId[c], dl[c])
           fits == PayloadSize(p) <= Capacity(c, OuterBuffer(t))
<1>1. c \in Contexts /\ call[t] \in CallRecord
  BY ContextOf DEF LockInv
<1>2. /\ pc[t] = "body" /\ pc'[t] = "header" /\ UNCHANGED <<call, reqs, drawn>>
      /\ call[t].op \in MessageOps
      /\ loc'[t].opcode = RequestOpcode(call[t].op)
      /\ mem'[c][OuterBuffer(t)] = IF fits THEN Plain(p) ELSE Garbage
      /\ ret'[t] = IF fits THEN "NONE" ELSE "OPERATION_ENCODING"
  <2>1. OuterBuffer(t) \in Buffer
    BY DEF OuterBuffer, Buffer
  <2>2. /\ pc \in [Threads -> ControlPoint] /\ ret \in [Threads -> ReturnValue]
        /\ loc \in [Threads -> [opcode : Nat, tok : Nat]]
        /\ mem \in [Contexts -> [Buffer -> Frame]]
    BY DEF LockInv, LockTypes, DataTypes, MemTypes, RetTypes, LocTypes
  <2> QED
    BY <1>1, <2>1, <2>2 DEF CreateRequest, Goto, SetRet, Write, netVars
<1>3. Ctx(t)' = c /\ IsChunk(t)' = IsChunk(t)
  BY <1>2 DEF Ctx, IsChunk
<1>4. ASSUME ret'[t] = "NONE", ~IsChunk(t)
      PROVE  mem'[c]["response_buffer"].body = Operation(call[t])
  <2>1. mem'[c]["response_buffer"] = Plain(p)
    BY <1>2, <1>4 DEF OuterBuffer
  <2>2. p = Operation(call[t])
    BY <1>2, <1>4 DEF Operation, RequestPayload, IsChunk, Ctx, MessageOps
  <2> QED
    BY <2>1, <2>2 DEF Plain
<1>5. HeaderInv(t)'
  BY <1>2, <1>3, <1>4 DEF HeaderInv, Encoded, Operation
<1> QED
  BY <1>2, <1>5 DEF Prepared, DrawnInv, SealInv, SendInv, CodeInv, Drawn, Sending

LEMMA RandomFailsPreparesNothing ==
  ASSUME LockInv, DataTypes, NEW t \in Threads, RandomFails(t)
  PROVE  Prepared(t)' /\ ~Drawn(t)' /\ UNCHANGED <<reqs, drawn>>
<1>1. /\ pc'[t] = "send" /\ ret'[t] = "CRYPTOGRAPHIC_FAILURE"
      /\ UNCHANGED <<call, reqs, drawn>>
      /\ IsChunk(t) => static_ret' = ret'[t]
  BY DEF RandomFails, Goto, SetRet, LockInv, LockTypes, DataTypes, RetTypes, callVars, netVars
<1>2. IsChunk(t)' = IsChunk(t)
  BY <1>1 DEF IsChunk
<1> QED
  BY <1>1, <1>2 DEF Prepared, HeaderInv, DrawnInv, SealInv, SendInv, CodeInv, Drawn, Sending

LEMMA DrawNoncePrepares ==
  ASSUME LockInv, DataTypes, NEW t \in Threads, DrawNonce(t), Prepared(t)
  PROVE  /\ Prepared(t)' /\ Nonce(t)' = drawn'
         /\ drawn' = drawn + 1 /\ UNCHANGED reqs
<1>1. Ctx(t) \in Contexts /\ call[t] \in CallRecord
  BY ContextOf DEF LockInv
<1>2. /\ pc[t] = "header" /\ pc'[t] = "seal" /\ "NONE" \in RetRead(t)
      /\ drawn' = drawn + 1 /\ UNCHANGED <<mem, ret, call, loc, reqs>>
      /\ cry'[Ctx(t)] = [dev |-> DeviceId[Ctx(t)], opcode |-> loc[t].opcode, nonce |-> drawn']
  BY <1>1 DEF DrawNonce, Proceeds, Goto, LockInv, LockTypes, DataTypes, MemTypes, callVars
<1>3. Ctx(t)' = Ctx(t) /\ IsChunk(t)' = IsChunk(t)
  BY <1>2 DEF Ctx, IsChunk
<1>4. /\ call[t].op \in MessageOps
      /\ loc[t].opcode = RequestOpcode(call[t].op)
      /\ Encoded(t)
  BY <1>2 DEF Prepared, HeaderInv, RetRead, Encoded
<1>5. Encoded(t)'
  BY <1>2, <1>3, <1>4 DEF Encoded, Operation
<1>6. drawn \in Nat /\ drawn' \in 1..drawn'
  BY <1>2 DEF DataTypes, NetTypes
<1>7. Nonce(t)' = drawn'
  BY <1>2, <1>3 DEF Nonce
<1>8. DrawnInv(t)'
  BY <1>2, <1>3, <1>4, <1>6, <1>7 DEF DrawnInv
<1> QED
  BY <1>2, <1>5, <1>7, <1>8 DEF Prepared, HeaderInv, SealInv, SendInv, CodeInv, Sending

LEMMA SealPrepares ==
  ASSUME LockInv, DataTypes, NEW t \in Threads, Seal(t), Prepared(t)
  PROVE  /\ Prepared(t)' /\ Drawn(t) /\ Nonce(t)' = Nonce(t)
         /\ UNCHANGED <<reqs, drawn>>
<1> DEFINE c == Ctx(t)
           p == mem[c][OuterBuffer(t)].body
<1>1. c \in Contexts /\ call[t] \in CallRecord
  BY ContextOf DEF LockInv
<1>2. PICK key \in KeyRead(c) :
        Write(c, InnerBuffer(t), IF Sealable(t) THEN Cose(cry[c], key, p) ELSE Garbage)
  BY DEF Seal
<1>3. /\ pc[t] = "seal" /\ pc'[t] = "send" /\ UNCHANGED <<cry, call, loc, reqs, drawn>>
      /\ ret'[t] = IF Sealable(t) THEN "NONE" ELSE "BUFFER_TOO_SMALL"
      /\ IsChunk(t) => static_ret' = ret'[t]
  BY DEF Seal, Goto, SetRet, LockInv, LockTypes, DataTypes, RetTypes, callVars, netVars
<1>4. mem'[c][InnerBuffer(t)] = IF Sealable(t) THEN Cose(cry[c], key, p) ELSE Garbage
  <2>1. InnerBuffer(t) \in Buffer
    BY DEF InnerBuffer, Buffer
  <2> QED
    BY <1>1, <1>2, <2>1 DEF Write, DataTypes, MemTypes
<1>5. /\ Ctx(t)' = c /\ IsChunk(t)' = IsChunk(t) /\ InnerBuffer(t)' = InnerBuffer(t)
      /\ Nonce(t)' = Nonce(t)
  BY <1>3 DEF Ctx, IsChunk, InnerBuffer, Nonce
<1>6. Drawn(t) /\ Encoded(t)
  BY <1>3 DEF Drawn, Prepared, SealInv
<1>7. DrawnInv(t)'
  BY <1>3, <1>5, <1>6 DEF Prepared, DrawnInv
<1>8. SendInv(t)'
  <2> SUFFICES ASSUME Sending(t)' PROVE SendInv(t)'
    BY DEF SendInv
  <2>1. mem'[c][InnerBuffer(t)] = Cose(cry[c], key, p)
    BY <1>3, <1>4 DEF Sending
  <2>2. ~IsChunk(t) => p = Operation(call[t])
    BY <1>6 DEF Encoded, OuterBuffer
  <2>3. KeyRead(c)' = KeyRead(c) /\ Operation(call[t])' = Operation(call[t])
    BY <1>3, <1>5 DEF KeyRead, Operation
  <2> QED
    BY <1>3, <1>5, <2>1, <2>2, <2>3 DEF SendInv, Cose
<1>9. CodeInv(t)'
  BY <1>3, <1>5 DEF CodeInv
<1> QED
  BY <1>3, <1>5, <1>6, <1>7, <1>8, <1>9 DEF Prepared, HeaderInv, SealInv
-----------------------------------------------------------------------------
(* The steps that send one.                                                *)
LEMMA SendSendsPrepared ==
  ASSUME ExchangeInv, LockInv, DataTypes, NEW t \in Threads, Send(t)
  PROVE  /\ Drawn(t) /\ Sending(t)
         /\ reqs' = Append(reqs, [ctx |-> Ctx(t), call |-> call[t],
                                 msg |-> mem[Ctx(t)][InnerBuffer(t)]])
         /\ UNCHANGED drawn
<1>1. pc[t] = "send" /\ "NONE" \in RetRead(t)
  BY DEF Send, Proceeds
<1>2. CodeInv(t)
  BY DEF ExchangeInv, Prepared
<1>3. Sending(t)
  BY <1>1, <1>2 DEF CodeInv, RetRead, Sending
<1> QED
  BY <1>3 DEF Drawn, Send, Posted

LEMMA PostingKeeps ==
  ASSUME ExchangeInv, LockInv, DataTypes, NEW t \in Threads, PostingStep(t),
         pc'[t] \notin Preparing, UNCHANGED drawn,
         \A u \in Threads : u # t => (Drawn(u)' => Drawn(u) /\ Nonce(u)' = Nonce(u))
  PROVE  SentInv' /\ FreshInv'
<1> DEFINE n == Len(reqs) + 1
<1>1. reqs \in Seq(Request) /\ drawn \in Nat
  BY DEF DataTypes, NetTypes
<1>2. PICK r : /\ reqs' = Append(reqs, r)
               /\ r.call.op # "gateway" =>
                    /\ Sending(t) /\ r.call = call[t] /\ r.ctx = Ctx(t)
                    /\ r.msg = mem[Ctx(t)][InnerBuffer(t)]
  <2>1. CASE Send(t)
    <3>1. reqs' = Append(reqs, [ctx |-> Ctx(t), call |-> call[t],
                                msg |-> mem[Ctx(t)][InnerBuffer(t)]])
          /\ Sending(t)
      BY <2>1, SendSendsPrepared
    <3> QED
      BY <3>1
  <2>2. CASE Forward(t)
    <3>1. /\ call[t].op = "gateway"
          /\ reqs' = Append(reqs, [ctx |-> Ctx(t), call |-> call[t],
                                  msg |-> ForeignMessage(call[t].id)])
      BY <2>2 DEF Forward, Posted
    <3> QED
      BY <3>1
  <2> QED
    BY <2>1, <2>2 DEF PostingStep
<1>3. /\ Len(reqs') = n /\ reqs'[n] = r
      /\ \A q \in 1..Len(reqs) : reqs'[q] = reqs[q]
  BY <1>1, <1>2
<1>4. ASSUME r.call.op # "gateway"
      PROVE  /\ Drawn(t) /\ r.msg.hdr.nonce = Nonce(t)
             /\ r.msg.kind = "cose" /\ r.msg.key \in KeyRead(r.ctx)
             /\ r.msg.hdr.dev = DeviceId[r.ctx] /\ r.msg.hdr.opcode = RequestOpcode(r.call.op)
             /\ r.msg.hdr.nonce \in 1..drawn
             /\ r.call.op # "get_chunk" => r.msg.body = Operation(r.call)
             /\ r.call.ctx = r.ctx
  <2>1. SendInv(t) /\ DrawnInv(t)
    BY DEF ExchangeInv, Prepared
  <2>2. Drawn(t) /\ Sending(t)
    BY <1>2, <1>4 DEF Drawn
  <2> QED
    BY <1>2, <1>4, <2>1, <2>2 DEF SendInv, DrawnInv, Nonce, IsChunk, Ctx
<1>5. SentInv'
  <2> SUFFICES ASSUME NEW q \in 1..Len(reqs'), OwnRequest(q)'
               PROVE  /\ reqs'[q].msg.kind = "cose"
                      /\ reqs'[q].msg.key \in KeyRead(reqs'[q].ctx)
                      /\ reqs'[q].msg.hdr.dev = DeviceId[reqs'[q].ctx]
                      /\ reqs'[q].msg.hdr.opcode = RequestOpcode(reqs'[q].call.op)
                      /\ reqs'[q].msg.hdr.nonce \in 1..drawn
                      /\ reqs'[q].call.op # "get_chunk"
                           => reqs'[q].msg.body = Operation(reqs'[q].call)
                      /\ reqs'[q].call.ctx = reqs'[q].ctx
    BY DEF SentInv, KeyRead, Operation
  <2>1. CASE q = n
    BY <1>3, <1>4, <2>1 DEF OwnRequest
  <2>2. CASE q \in 1..Len(reqs)
    BY <1>3, <2>2 DEF ExchangeInv, SentInv, OwnRequest
  <2> QED
    BY <1>1, <1>3, <2>1, <2>2
<1>6. ~Drawn(t)'
  BY NothingPrepared
<1>7. NonceUnique'
  <2>1. ASSUME NEW q \in 1..Len(reqs), OwnRequest(q), r.call.op # "gateway"
        PROVE  reqs[q].msg.hdr.nonce # r.msg.hdr.nonce
    BY <1>4, <2>1 DEF ExchangeInv, FreshInv
  <2> SUFFICES ASSUME NEW p \in 1..Len(reqs'), NEW q \in 1..Len(reqs'),
                      OwnRequest(p)', OwnRequest(q)', p # q
               PROVE  reqs'[p].msg.hdr.nonce # reqs'[q].msg.hdr.nonce
    BY DEF NonceUnique
  <2>2. CASE p \in 1..Len(reqs) /\ q \in 1..Len(reqs)
    BY <1>3, <2>2 DEF ExchangeInv, FreshInv, NonceUnique, OwnRequest
  <2>3. CASE p \in 1..Len(reqs) /\ q = n
    BY <1>3, <2>1, <2>3 DEF OwnRequest
  <2>4. CASE p = n /\ q \in 1..Len(reqs)
    BY <1>3, <2>1, <2>4 DEF OwnRequest
  <2> QED
    BY <1>1, <1>3, <2>2, <2>3, <2>4
<1>8. ASSUME NEW u \in Threads, NEW q \in 1..Len(reqs'), Drawn(u)', OwnRequest(q)'
      PROVE  reqs'[q].msg.hdr.nonce # Nonce(u)'
  <2>1. u # t /\ Drawn(u) /\ Nonce(u)' = Nonce(u)
    BY <1>6, <1>8
  <2>2. CASE q \in 1..Len(reqs)
    BY <1>3, <1>8, <2>1, <2>2 DEF ExchangeInv, FreshInv, OwnRequest
  <2>3. CASE q = n
    <3>1. Drawn(t) /\ r.msg.hdr.nonce = Nonce(t)
      BY <1>3, <1>4, <1>8, <2>3 DEF OwnRequest
    <3> QED
      BY <1>3, <2>1, <2>3, <3>1 DEF ExchangeInv, FreshInv
  <2> QED
    BY <1>1, <1>3, <2>2, <2>3
<1>9. ASSUME NEW u \in Threads, NEW v \in Threads, Drawn(u)', Drawn(v)', u # v
      PROVE  Nonce(u)' # Nonce(v)'
  BY <1>6, <1>9 DEF ExchangeInv, FreshInv
<1> QED
  BY <1>5, <1>7, <1>8, <1>9 DEF FreshInv
-----------------------------------------------------------------------------
(* The invariant itself.                                                   *)

LEMMA ExchangeInvInit == Init => ExchangeInv
<1> SUFFICES ASSUME Init PROVE ExchangeInv
  OBVIOUS
<1>1. CallsChosen
  BY DEF Init, CallsChosen
<1>2. ASSUME NEW t \in Threads PROVE Prepared(t) /\ ~Drawn(t)
  BY DEF Init, Prepared, HeaderInv, DrawnInv, SealInv, SendInv, CodeInv, Drawn, Sending
<1>3. Len(reqs) = 0
  BY DEF Init
<1>4. SentInv /\ NonceUnique
  BY <1>3 DEF SentInv, NonceUnique
<1>5. FreshInv
  BY <1>2, <1>4 DEF FreshInv
<1> QED
  BY <1>1, <1>2, <1>4, <1>5 DEF ExchangeInv

(* A step that prepares and sends nothing, and leaves alone what is        *)
(* prepared.                                                               *)
LEMMA StillStepKeeps ==
  ASSUME ExchangeInv, DataTypes, DataTypes', UNCHANGED <<reqs, drawn>>, CallsChosen',
         \A t \in Threads :
           \/ pc'[t] \notin Preparing
           \/ /\ pc'[t] = pc[t] /\ call'[t] = call[t] /\ ret'[t] = ret[t] /\ loc'[t] = loc[t]
              /\ cry'[Ctx(t)] = cry[Ctx(t)] /\ mem'[Ctx(t)] = mem[Ctx(t)]
              /\ static_ret' = static_ret
  PROVE  ExchangeInv'
<1>1. drawn \in Nat /\ drawn' \in Nat /\ drawn <= drawn'
  BY DEF DataTypes, NetTypes
<1>2. ASSUME NEW t \in Threads
      PROVE  Prepared(t)' /\ (Drawn(t)' => Drawn(t) /\ Nonce(t)' = Nonce(t))
  <2>1. Prepared(t)
    BY DEF ExchangeInv
  <2>2. CASE pc'[t] \notin Preparing
    BY <2>2, NothingPrepared
  <2>3. CASE ~(pc'[t] \notin Preparing)
    BY <1>1, <2>1, <2>3, PreparedKept
  <2> QED
    BY <2>2, <2>3
<1>3. SentInv' /\ FreshInv'
  BY <1>1, <1>2, SentKept, FreshKept DEF ExchangeInv
<1> QED
  BY <1>2, <1>3 DEF ExchangeInv

LEMMA InnerStepKeepsExchange ==
  ASSUME OneDownloadContext, ExchangeInv, LockInv, DataTypes, DataTypes',
         NEW t \in Threads, InnerStep(t)
  PROVE  ExchangeInv'
<1>1. CallsChosen' /\ Prepared(t)
  BY InnerStepKeepsCalls DEF ExchangeInv
<1>2. drawn \in Nat /\ drawn' \in Nat
  BY DEF DataTypes, NetTypes
<1>3. ASSUME drawn <= drawn', NEW u \in Threads, u # t
      PROVE  Prepared(u)' /\ (Drawn(u)' => Drawn(u) /\ Nonce(u)' = Nonce(u))
  BY <1>3, OthersKeepTheirs DEF ExchangeInv
<1>4. CASE CreateRequest(t) \/ RandomFails(t)
  <2>1. Prepared(t)' /\ ~Drawn(t)' /\ UNCHANGED <<reqs, drawn>>
    BY <1>4, CreateRequestPrepares, RandomFailsPreparesNothing
  <2>2. drawn <= drawn'
    BY <1>2, <2>1
  <2>3. SentInv' /\ FreshInv'
    BY <1>2, <1>3, <2>1, <2>2, SentKept, FreshKept DEF ExchangeInv
  <2> QED
    BY <1>1, <1>3, <2>1, <2>2, <2>3 DEF ExchangeInv
<1>5. CASE Seal(t)
  <2>1. /\ Prepared(t)' /\ Drawn(t) /\ Nonce(t)' = Nonce(t) /\ UNCHANGED <<reqs, drawn>>
    BY <1>1, <1>5, SealPrepares
  <2>2. drawn <= drawn'
    BY <1>2, <2>1
  <2>3. SentInv' /\ FreshInv'
    BY <1>2, <1>3, <2>1, <2>2, SentKept, FreshKept DEF ExchangeInv
  <2> QED
    BY <1>1, <1>3, <2>1, <2>2, <2>3 DEF ExchangeInv
<1>6. CASE DrawNonce(t)
  <2>1. Prepared(t)' /\ Nonce(t)' = drawn' /\ drawn' = drawn + 1 /\ UNCHANGED reqs
    BY <1>1, <1>6, DrawNoncePrepares
  <2>2. drawn <= drawn' /\ ~(drawn' <= drawn)
    BY <1>2, <2>1
  <2>3. SentInv'
    BY <1>2, <2>1, <2>2, SentKept DEF ExchangeInv
  <2>4. NonceUnique'
    BY <2>1 DEF ExchangeInv, FreshInv, NonceUnique, OwnRequest
  <2>5. ASSUME NEW u \in Threads, NEW q \in 1..Len(reqs'), Drawn(u)', OwnRequest(q)'
        PROVE  reqs'[q].msg.hdr.nonce # Nonce(u)'
    <3>1. reqs'[q] = reqs[q] /\ OwnRequest(q) /\ q \in 1..Len(reqs)
      BY <2>1, <2>5 DEF OwnRequest
    <3>2. CASE u = t
      <4>1. reqs[q].msg.hdr.nonce \in 1..drawn
        BY <3>1 DEF ExchangeInv, SentInv
      <4> QED
        BY <1>2, <2>1, <3>1, <3>2, <4>1
    <3>3. CASE u # t
      BY <1>3, <2>2, <2>5, <3>1, <3>3 DEF ExchangeInv, FreshInv
    <3> QED
      BY <3>2, <3>3
  <2>6. ASSUME NEW u \in Threads, u # t, Drawn(u)' PROVE Nonce(u)' # Nonce(t)'
    <3>1. Drawn(u) /\ Nonce(u)' = Nonce(u)
      BY <1>3, <2>2, <2>6
    <3>2. Nonce(u) \in 1..drawn
      BY <3>1 DEF ExchangeInv, Prepared, DrawnInv
    <3> QED
      BY <1>2, <2>1, <3>1, <3>2
  <2>7. ASSUME NEW u \in Threads, NEW v \in Threads, Drawn(u)', Drawn(v)', u # v
        PROVE  Nonce(u)' # Nonce(v)'
    <3>1. CASE u = t \/ v = t
      BY <2>6, <2>7, <3>1
    <3>2. CASE u # t /\ v # t
      BY <1>3, <2>2, <2>7, <3>2 DEF ExchangeInv, FreshInv
    <3> QED
      BY <3>1, <3>2
  <2> QED
    BY <1>1, <1>3, <2>1, <2>2, <2>3, <2>4, <2>5, <2>7 DEF ExchangeInv, FreshInv
<1>7. CASE ~PreparingStep(t)
  <2>1. /\ pc'[t] \notin Preparing /\ UNCHANGED drawn
        /\ PostingStep(t) \/ UNCHANGED reqs
    BY <1>7, OtherStepsPrepareNothing DEF LockInv
  <2>2. Prepared(t)' /\ ~Drawn(t)'
    BY <2>1, NothingPrepared
  <2>3. drawn <= drawn'
    BY <1>2, <2>1
  <2>4. ASSUME PostingStep(t) PROVE SentInv' /\ FreshInv'
    BY <1>3, <2>1, <2>3, <2>4, PostingKeeps
  <2>5. ASSUME UNCHANGED reqs PROVE SentInv' /\ FreshInv'
    BY <1>2, <1>3, <2>2, <2>3, <2>5, SentKept, FreshKept DEF ExchangeInv
  <2>6. SentInv' /\ FreshInv'
    BY <2>1, <2>4, <2>5
  <2> QED
    BY <1>1, <1>3, <2>2, <2>3, <2>6 DEF ExchangeInv
<1> QED
  BY <1>4, <1>5, <1>6, <1>7 DEF PreparingStep

LEMMA ExchangeInvStep ==
  ASSUME OneDownloadContext, ExchangeInv, LockInv, DataTypes, DataTypes', [Next]_vars
  PROVE  ExchangeInv'
<1>1. /\ pc \in [Threads -> ControlPoint] /\ call \in [Threads -> CallRecord]
      /\ cry \in [Contexts -> Header]
  BY DEF LockInv, LockTypes, DataTypes, MemTypes
<1>2. ASSUME NEW c \in Contexts, NEW w \in WorkBuffers, SdkInitialize(c, w)
      PROVE  ExchangeInv'
  <2>1. /\ UNCHANGED <<mem, static_ret, pc, ret, call, loc, reqs, drawn>>
        /\ cry' = [cry EXCEPT ![c] = NoHeader]
        /\ \A t \in Threads : pc[t] # "idle" => Ctx(t) # c
    BY <1>2 DEF SdkInitialize, Uses, callVars, netVars
  <2>2. CallsChosen'
    BY <2>1 DEF ExchangeInv, CallsChosen
  <2>3. \A t \in Threads : pc'[t] \notin Preparing \/ cry'[Ctx(t)] = cry[Ctx(t)]
    BY <1>1, <2>1 DEF Preparing, Ctx, CallRecord
  <2> QED
    BY <2>1, <2>2, <2>3, StillStepKeeps
<1>3. ASSUME NEW t \in Threads, NEW k \in CallsOf[t],
             CallRejected(t, k) \/ CallRefused(t, k) \/ CallLocks(t, k)
      PROVE  ExchangeInv'
  <2>1. /\ UNCHANGED <<cry, mem, static_ret, loc, reqs, drawn>>
        /\ call' = [call EXCEPT ![t] = k]
        /\ \E l \in {"returned", "body"} : pc' = [pc EXCEPT ![t] = l]
        /\ \A u \in Threads : u # t => ret'[u] = ret[u]
    BY <1>3 DEF CallRejected, CallRefused, CallLocks, Calls, Refuse, Goto, ctxVars, netVars,
                DataTypes, RetTypes
  <2>2. CallsChosen'
    BY <1>1, <2>1 DEF ExchangeInv, CallsChosen
  <2> QED
    BY <1>1, <2>1, <2>2, StillStepKeeps DEF Preparing
<1>4. ASSUME NEW t \in Threads, InnerStep(t)
      PROVE  ExchangeInv'
  BY <1>4, InnerStepKeepsExchange
<1>5. ASSUME NEW t \in Threads, Unlock(t) \/ Consume(t)
      PROVE  ExchangeInv'
  <2>1. /\ UNCHANGED <<cry, mem, static_ret, reqs, drawn>>
        /\ pc[t] # "idle"
        /\ \/ pc' = [pc EXCEPT ![t] = "returned"] /\ call' = call
           \/ pc' = [pc EXCEPT ![t] = "idle"]
        /\ \A u \in Threads : u # t => /\ ret'[u] = ret[u] /\ loc'[u] = loc[u]
                                      /\ call'[u] = call[u]
    BY <1>1, <1>5 DEF Unlock, Consume, Goto, ctxVars, callVars, netVars,
                      DataTypes, RetTypes, LocTypes
  <2>2. CallsChosen'
    BY <1>1, <2>1 DEF ExchangeInv, CallsChosen
  <2> QED
    BY <1>1, <2>1, <2>2, StillStepKeeps DEF Preparing
<1>6. CASE ServeNew \/ ServeAgain \/ UNCHANGED vars
  <2>1. UNCHANGED <<cry, mem, static_ret, pc, call, ret, loc, reqs, drawn>>
    BY <1>6 DEF ServeNew, ServeAgain, Serve, vars, ctxVars, callVars
  <2>2. CallsChosen'
    BY <2>1 DEF ExchangeInv, CallsChosen
  <2> QED
    BY <2>1, <2>2, StillStepKeeps
<1> QED
  BY <1>2, <1>3, <1>4, <1>5, <1>6 DEF Next, Begin, Step, InnerStep

LEMMA ExchangeCorrect ==
  ASSUME OneDownloadContext
  PROVE  Spec => []ExchangeInv
<1>1. Init => LockInv /\ DataTypes /\ ExchangeInv
  BY LockInvInit, InitTypes, ExchangeInvInit
<1>2. (LockInv /\ DataTypes /\ ExchangeInv) /\ [Next]_vars => (LockInv /\ DataTypes /\ ExchangeInv)'
  BY LockInvStep, StepKeepsTypes, ExchangeInvStep DEF LockInv
<1> QED
  BY <1>1, <1>2, PTL DEF Spec

(* cose_encrypt_msg: whatever threads, contexts, failing callbacks and     *)
(* repeated initialisations there are, no two messages of the SDK leave    *)
(* under one nonce.                                                        *)
THEOREM NoncesNeverRepeat ==
  ASSUME OneDownloadContext
  PROVE  Spec => []NonceUnique
<1>1. ExchangeInv => NonceUnique
  BY DEF ExchangeInv, FreshInv
<1> QED
  BY <1>1, ExchangeCorrect, PTL

(* If the key callback does not fail, every message that reaches send_data *)
(* is the operation of the call that sends it, under the id and key of its *)
(* own device.                                                             *)
THEOREM RequestsAreTheCalls ==
  ASSUME OneDownloadContext, "key" \notin Faults
  PROVE  Spec => []RequestFaithful
<1>1. ExchangeInv => RequestFaithful
  <2> SUFFICES ASSUME ExchangeInv, NEW q \in 1..Len(reqs), OwnRequest(q)
               PROVE  LET k == reqs[q].call
                          dev == DeviceId[reqs[q].ctx]
                          m == reqs[q].msg
                      IN  /\ m.kind = "cose" /\ m.key = dev
                          /\ m.hdr.dev = dev /\ m.hdr.opcode = RequestOpcode(k.op)
                          /\ k.op # "get_chunk" => m.body = RequestPayload(k, dev, NoSession)
    BY DEF RequestFaithful
  <2> QED
    BY DEF ExchangeInv, SentInv, KeyRead, Operation
<1> QED
  BY <1>1, ExchangeCorrect, PTL
=============================================================================
