--------------------------- MODULE SdkReplyProofs ---------------------------
(***************************************************************************)
(* What a call makes of what comes back: every result comes from an answer *)
(* the server gave, undamaged, to a request of the same context, and the   *)
(* return code is the one this call stored, for any number of threads,     *)
(* contexts and messages in flight.                                        *)
(*                                                                         *)
(* The invariant follows a reply through the buffers of its context, from  *)
(* send_data to the comparison of the echo.                                *)
(***************************************************************************)
EXTENDS SdkExchangeProofs

-----------------------------------------------------------------------------
(* The return code of get_chunk.  With one download context the lock of    *)
(* that context guards the static ret_code, so a read of it yields what    *)
(* the call stored last.                                                   *)

(* Where a call relies on ret_code.                                        *)
Working ==
  {"header", "seal", "send", "wait", "open_header", "open", "parse_error",
   "parse_response", "commit", "leave"}

Finishing == {"leave", "unlock", "returned"}

OwnCode(t) == pc[t] \in Working /\ IsChunk(t) => static_ret = ret[t]

(* Bytes are handed out by a get_chunk that returns NONE, and by no other. *)
HandedOut(t) ==
  /\ out[t].output => IsChunk(t) /\ pc[t] \in Finishing
  /\ IsChunk(t) /\ pc[t] \in Finishing => (ret[t] = "NONE" <=> out[t].output)

CodeInvariant == \A t \in Threads : OwnCode(t) /\ HandedOut(t)

-----------------------------------------------------------------------------
(* The server: every reply is the answer to a request it has seen.         *)

AnswerTo(m, a) ==
  /\ m.hdr \in Header /\ m.body \in Payload /\ Authentic(m)
  /\ \E rec \in Record :
       LET s == ServerReply(m.hdr, m.body, rec)
       IN  a = Cose([dev |-> m.hdr.dev, opcode |-> s.opcode, nonce |-> 1],
                    m.hdr.dev, s.body)

RepliesAnswer == \A r \in reps : r.tok \in served /\ AnswerTo(reqs[r.tok].msg, r.msg)

(* What an answer may be: an error operation with one code, or the response *)
(* that belongs to a request the server could decode.                      *)
ServerErrors ==
  {InvalidOperation, DecodingError, UnknownParameter, DeviceNotFound, FirmwareNotFound}

ErrorAnswer(s) ==
  /\ s.opcode = OPERATION_ID_ERROR
  /\ \E code \in ServerErrors : s.body = Array(<<Uint(code)>>)

ParameterAnswer(h, p, s) ==
  /\ h.opcode = OPERATION_ID_GET_PARAMETER_REQUEST /\ Decodable(h, p)
  /\ s.opcode = OPERATION_ID_GET_PARAMETER_RESPONSE
  /\ p.items[1].val \in DOMAIN Params
  /\ s.body = Scalar(Params[p.items[1].val])

GetInfoAnswer(h, p, rec, s) ==
  /\ h.opcode = OPERATION_ID_GET_DEVICE_INFO_REQUEST /\ Decodable(h, p)
  /\ s.opcode = OPERATION_ID_GET_DEVICE_INFO_RESPONSE
  /\ s.body = InfoBody(rec, h.dev)

SetInfoAnswer(h, p, rec, s) ==
  /\ h.opcode = OPERATION_ID_SET_DEVICE_INFO_REQUEST /\ Decodable(h, p)
  /\ s.opcode = OPERATION_ID_SET_DEVICE_INFO_RESPONSE
  /\ Desired[h.dev] # NoItem
  /\ s.body = InfoBody(RecordAfter(h, p, rec), h.dev)

FirmwareAnswer(h, p, s) ==
  LET fw == p.items[1].val
      d  == Slice(fw, p.items[2].val, p.items[3].val)
  IN  /\ h.opcode = OPERATION_ID_GET_FIRMWARE_REQUEST /\ Decodable(h, p)
      /\ s.opcode = OPERATION_ID_GET_FIRMWARE_RESPONSE
      /\ fw \in DOMAIN Images
      /\ s.body = Array(<<Uint(fw), Uint(p.items[2].val), Uint(d.len), d>>)

LEMMA AnswerCases ==
  ASSUME NEW h, NEW p, NEW rec
  PROVE  LET s == ServerReply(h, p, rec)
         IN  \/ ErrorAnswer(s) \/ ParameterAnswer(h, p, s) \/ GetInfoAnswer(h, p, rec, s)
             \/ SetInfoAnswer(h, p, rec, s) \/ FirmwareAnswer(h, p, s)
<1> DEFINE s == ServerReply(h, p, rec)
           its == p.items
<1>0. /\ \A code : /\ ErrorReply(code).opcode = OPERATION_ID_ERROR
                   /\ ErrorReply(code).body = Array(<<Uint(code)>>)
      /\ \A opcode, body : /\ Reply(opcode, body).opcode = opcode
                           /\ Reply(opcode, body).body = body
  BY DEF ErrorReply, Reply
<1>1. CASE RequestLength(h.opcode) = 0 \/ ~Decodable(h, p)
  BY <1>0, <1>1 DEF ServerReply, ServerErrors, ErrorAnswer
<1>2. CASE RequestLength(h.opcode) # 0 /\ Decodable(h, p)
  <2> DEFINE parameter == ParameterReply(its[1].val)
             getinfo == InfoReply(OPERATION_ID_GET_DEVICE_INFO_RESPONSE, h.dev, rec)
             setinfo == InfoReply(OPERATION_ID_SET_DEVICE_INFO_RESPONSE, h.dev,
                                  RecordAfter(h, p, rec))
             firmware == FirmwareReply(its[1].val, its[2].val, its[3].val)
  <2>1. h.opcode \in {OPERATION_ID_GET_PARAMETER_REQUEST, OPERATION_ID_GET_DEVICE_INFO_REQUEST,
                      OPERATION_ID_SET_DEVICE_INFO_REQUEST, OPERATION_ID_GET_FIRMWARE_REQUEST}
    BY <1>2 DEF RequestLength
  <2>2. s = CASE h.opcode = OPERATION_ID_GET_PARAMETER_REQUEST -> parameter
              [] h.opcode = OPERATION_ID_GET_DEVICE_INFO_REQUEST -> getinfo
              [] h.opcode = OPERATION_ID_SET_DEVICE_INFO_REQUEST -> setinfo
              [] OTHER -> firmware
    BY <1>2 DEF ServerReply
  <2> HIDE DEF s, parameter, getinfo, setinfo, firmware
  <2>3. /\ h.opcode = OPERATION_ID_GET_PARAMETER_REQUEST => s = parameter
        /\ h.opcode = OPERATION_ID_GET_DEVICE_INFO_REQUEST => s = getinfo
        /\ h.opcode = OPERATION_ID_SET_DEVICE_INFO_REQUEST => s = setinfo
        /\ h.opcode = OPERATION_ID_GET_FIRMWARE_REQUEST => s = firmware
    BY <2>2 DEF OPERATION_ID_GET_PARAMETER_REQUEST, OPERATION_ID_GET_DEVICE_INFO_REQUEST,
                OPERATION_ID_SET_DEVICE_INFO_REQUEST, OPERATION_ID_GET_FIRMWARE_REQUEST
  <2> USE DEF s
  <2>4. CASE h.opcode = OPERATION_ID_GET_PARAMETER_REQUEST
    BY <1>0, <1>2, <2>3, <2>4
       DEF parameter, ParameterReply, ServerErrors, ErrorAnswer, ParameterAnswer
  <2>5. CASE h.opcode = OPERATION_ID_GET_DEVICE_INFO_REQUEST
    BY <1>0, <1>2, <2>3, <2>5
       DEF getinfo, InfoReply, ServerErrors, ErrorAnswer, GetInfoAnswer
  <2>6. CASE h.opcode = OPERATION_ID_SET_DEVICE_INFO_REQUEST
    BY <1>0, <1>2, <2>3, <2>6
       DEF setinfo, InfoReply, ServerErrors, ErrorAnswer, SetInfoAnswer
  <2>7. CASE h.opcode = OPERATION_ID_GET_FIRMWARE_REQUEST
    BY <1>0, <1>2, <2>3, <2>7
       DEF firmware, FirmwareReply, ServerErrors, ErrorAnswer, FirmwareAnswer
  <2> QED
    BY <2>1, <2>4, <2>5, <2>6, <2>7
<1> QED
  BY <1>1, <1>2

(* The opcode of an answer tells what it is.                               *)
LEMMA AnswerByOpcode ==
  ASSUME NEW h, NEW p, NEW rec
  PROVE  LET s == ServerReply(h, p, rec)
         IN  /\ s.opcode = OPERATION_ID_ERROR => ErrorAnswer(s)
             /\ s.opcode = OPERATION_ID_GET_PARAMETER_RESPONSE => ParameterAnswer(h, p, s)
             /\ s.opcode = OPERATION_ID_GET_DEVICE_INFO_RESPONSE => GetInfoAnswer(h, p, rec, s)
             /\ s.opcode = OPERATION_ID_SET_DEVICE_INFO_RESPONSE => SetInfoAnswer(h, p, rec, s)
             /\ s.opcode = OPERATION_ID_GET_FIRMWARE_RESPONSE => FirmwareAnswer(h, p, s)
<1> DEFINE s == ServerReply(h, p, rec)
<1>1. \/ ErrorAnswer(s) \/ ParameterAnswer(h, p, s) \/ GetInfoAnswer(h, p, rec, s)
      \/ SetInfoAnswer(h, p, rec, s) \/ FirmwareAnswer(h, p, s)
  BY AnswerCases
<1> HIDE DEF s
<1>2. /\ ErrorAnswer(s) => s.opcode = 1
      /\ ParameterAnswer(h, p, s) => s.opcode = 3
      /\ GetInfoAnswer(h, p, rec, s) => s.opcode = 7
      /\ SetInfoAnswer(h, p, rec, s) => s.opcode = 9
      /\ FirmwareAnswer(h, p, s) => s.opcode = 11
  BY DEF ErrorAnswer, ParameterAnswer, GetInfoAnswer, SetInfoAnswer, FirmwareAnswer,
         OPERATION_ID_ERROR, OPERATION_ID_GET_PARAMETER_RESPONSE,
         OPERATION_ID_GET_DEVICE_INFO_RESPONSE, OPERATION_ID_SET_DEVICE_INFO_RESPONSE,
         OPERATION_ID_GET_FIRMWARE_RESPONSE
<1>3. /\ s.opcode = OPERATION_ID_ERROR => ErrorAnswer(s)
      /\ s.opcode = OPERATION_ID_GET_PARAMETER_RESPONSE => ParameterAnswer(h, p, s)
      /\ s.opcode = OPERATION_ID_GET_DEVICE_INFO_RESPONSE => GetInfoAnswer(h, p, rec, s)
      /\ s.opcode = OPERATION_ID_SET_DEVICE_INFO_RESPONSE => SetInfoAnswer(h, p, rec, s)
      /\ s.opcode = OPERATION_ID_GET_FIRMWARE_RESPONSE => FirmwareAnswer(h, p, s)
  BY <1>1, <1>2 DEF OPERATION_ID_ERROR, OPERATION_ID_GET_PARAMETER_RESPONSE,
         OPERATION_ID_GET_DEVICE_INFO_RESPONSE, OPERATION_ID_SET_DEVICE_INFO_RESPONSE,
         OPERATION_ID_GET_FIRMWARE_RESPONSE
<1> QED
  BY <1>3 DEF s

-----------------------------------------------------------------------------
(* The way of a reply.                                                     *)

(* The reply may have been given to this call.                             *)
MayReach(t, r) ==
  /\ r \in reps
  /\ reqs[r.tok].ctx = Ctx(t)
  /\ Matching => r.tok = loc[t].tok

Received(t) ==
  \E r \in reps : MayReach(t, r) /\ mem[Ctx(t)][OuterBuffer(t)] \in Arrivals(r.msg)

(* The operation inside the reply is what the parsers work on.             *)
Opened(t) ==
  \E r \in reps :
    /\ MayReach(t, r)
    /\ r.msg.key \in KeyRead(Ctx(t))
    /\ loc[t].opcode = r.msg.hdr.opcode
    /\ mem[Ctx(t)][InnerBuffer(t)] = Plain(r.msg.body)

(* What the call has taken from it: what the parser of its operation       *)
(* yields, without an error.                                               *)
ParsedAs(t, opcode, f) ==
  LET k == call[t]
      p == operation_parse_get_parameter_response(opcode, k.type, f, k.size, 0)
  IN  CASE k.op = "get_parameter" ->
             p.code = "NONE" /\ out[t].item = p.item /\ out[t].size = p.size
        [] k.op = "get_device_info" ->
             \E old \in [1..3 -> Nat] :
               LET i == operation_parse_get_device_info_response(opcode, f, old)
               IN  i.code = "NONE" /\ out[t].vals = i.vals
        [] k.op = "set_device_info" ->
             \E old \in [1..3 -> Nat] :
               LET i == operation_parse_set_device_info_response(opcode, f, old)
               IN  i.code = "NONE" /\ out[t].vals = i.vals
        [] k.op = "get_chunk" ->
             LET g == operation_parse_get_firmware_response(opcode, f, dl[k.ctx].buffer1_size)
             IN  /\ g.code = "NONE" /\ out[t].vals = g.vals /\ out[t].size = g.data.len
                 /\ mem[k.ctx]["buffer1"] = Data(g.data)
        [] OTHER -> FALSE

Parsed(t) ==
  \E r \in reps :
    /\ MayReach(t, r)
    /\ r.msg.key \in KeyRead(Ctx(t))
    /\ ParsedAs(t, r.msg.hdr.opcode, Plain(r.msg.body))

(* The request the call has sent.                                          *)
Asked(t) ==
  /\ loc[t].tok \in 1..Len(reqs)
  /\ reqs[loc[t].tok].call = call[t]
  /\ reqs[loc[t].tok].ctx = Ctx(t)

Handling == {"open_header", "open", "parse_error", "parse_response", "commit"}

HandlingInv(t) ==
  /\ pc[t] \in Handling => call[t].op \in MessageOps
  /\ pc[t] = "wait" => call[t].op \in MessageOps \cup {"gateway"}

AskedInv(t) == pc[t] \in Handling \cup {"wait"} => Asked(t)

ReceivedInv(t) == pc[t] = "open_header" /\ ret[t] = "NONE" => Received(t)

OpenInv(t) ==
  pc[t] = "open" =>
    LET f == mem[Ctx(t)][OuterBuffer(t)]
    IN  /\ Received(t)
        /\ f.kind = "cose" /\ loc[t].opcode = f.hdr.opcode

OpenedInv(t) == pc[t] \in {"parse_error", "parse_response"} /\ ret[t] = "NONE" => Opened(t)

ParsedInv(t) == pc[t] = "commit" /\ ret[t] = "NONE" => Parsed(t)

(* A call other than get_chunk has its result when it leaves.              *)
ResultInv(t) ==
  /\ pc[t] \in Finishing /\ ret[t] = "NONE"
  /\ call[t].op \in MessageOps \ {"get_chunk"}
  => Asked(t) /\ Parsed(t) /\ EchoMatches(t)

Following(t) ==
  /\ HandlingInv(t) /\ AskedInv(t) /\ ReceivedInv(t) /\ OpenInv(t)
  /\ OpenedInv(t) /\ ParsedInv(t) /\ ResultInv(t)

ReplyInv == CodeInvariant /\ RepliesAnswer /\ \A t \in Threads : Following(t)

-----------------------------------------------------------------------------
(* What a step inside a call leaves alone, besides what InnerStepIsLocal   *)
(* says: the results of other threads, the sessions of other contexts.     *)
LEMMA InnerStepTouches ==
  ASSUME LockTypes, DataTypes, NEW t \in Threads, InnerStep(t)
  PROVE  /\ \A u \in Threads : u # t => out'[u] = out[u]
         /\ \A c \in Contexts : c # Ctx(t) => dl'[c] = dl[c]
         /\ UNCHANGED <<served, reps, srv, budget, window>>
<1>0. /\ out \in [Threads -> Outcome] /\ dl \in [Contexts -> Session]
  BY DEF DataTypes, MemTypes, LocTypes
<1> USE <1>0 DEF Goto, Return, ctxVars, callVars, netVars, appVars
<1>1. CASE InitializeStarts(t)
  BY <1>1 DEF InitializeStarts
<1>2. CASE Finish(t)
  BY <1>2 DEF Finish
<1>3. CASE ParseSimple(t)
  BY <1>3 DEF ParseSimple
<1>4. CASE ParseChunk(t)
  BY <1>4 DEF ParseChunk
<1>5. CASE CommitChunk(t)
  BY <1>5 DEF CommitChunk
<1>6. CASE \/ RejectArguments(t) \/ RejectNoSession(t) \/ InitializeTooSmall(t)
           \/ InitializeBusy(t) \/ Bail(t) \/ Leave(t)
  BY <1>6 DEF RejectArguments, RejectNoSession, InitializeTooSmall, InitializeBusy, Bail, Leave
<1>7. CASE CreateRequest(t) \/ DrawNonce(t) \/ RandomFails(t) \/ Seal(t)
  BY <1>7 DEF CreateRequest, DrawNonce, RandomFails, Seal
<1>8. CASE Forward(t) \/ Send(t) \/ Deliver(t) \/ SendFails(t)
  BY <1>8 DEF Forward, Send, Posted, Deliver, SendFails
<1>9. CASE OpenHeader(t) \/ NotAMessage(t) \/ Open(t) \/ ParseError(t)
  BY <1>9 DEF OpenHeader, NotAMessage, Open, ParseError
<1>10. CASE CommitMismatch(t) \/ CommitSimple(t)
  BY <1>10 DEF CommitMismatch, CommitSimple
<1> QED
  BY <1>1, <1>2, <1>3, <1>4, <1>5, <1>6, <1>7, <1>8, <1>9, <1>10 DEF InnerStep

(* ret_code of a call: where the code tests it, it is what was stored.     *)
LEMMA OwnCodeRead ==
  ASSUME NEW t \in Threads, OwnCode(t), pc[t] \in Working
  PROVE  RetRead(t) = {ret[t]}
  BY DEF OwnCode, RetRead

(* A step of the thread itself.                                            *)
LEMMA OwnStepKeepsCode ==
  ASSUME LockTypes, DataTypes, NEW t \in Threads, InnerStep(t), OwnCode(t), HandedOut(t)
  PROVE  OwnCode(t)' /\ HandedOut(t)'
<1>0. /\ pc \in [Threads -> ControlPoint] /\ ret \in [Threads -> ReturnValue]
      /\ out \in [Threads -> Outcome]
  BY DEF LockTypes, DataTypes, RetTypes, LocTypes
<1>1. IsChunk(t)' = IsChunk(t)
  BY InnerStepMoves DEF IsChunk
<1>2. pc[t] \in Working => RetRead(t) = {ret[t]}
  BY OwnCodeRead
<1> USE <1>0, <1>1 DEF OwnCode, HandedOut, Working, Finishing, Goto, Return, SetRet, callVars
<1>3. CASE RejectArguments(t) \/ RejectNoSession(t) \/ InitializeTooSmall(t) \/ InitializeBusy(t)
  BY <1>3 DEF RejectArguments, RejectNoSession, InitializeTooSmall, InitializeBusy, InitializeCall
<1>4. CASE InitializeStarts(t) \/ Finish(t)
  BY <1>4 DEF InitializeStarts, InitializeCall, Finish, IsChunk
<1>5. CASE CreateRequest(t)
  BY <1>5 DEF CreateRequest
<1>6. CASE Forward(t)
  BY <1>6 DEF Forward, Posted, IsChunk
<1>7. CASE Bail(t)
  BY <1>2, <1>7 DEF Bail, CheckPoint
<1>8. CASE DrawNonce(t) \/ RandomFails(t) \/ Seal(t)
  BY <1>8 DEF DrawNonce, RandomFails, Seal, Proceeds
<1>9. CASE Send(t)
  BY <1>9 DEF Send, Posted, Proceeds
<1>10. CASE Deliver(t) \/ SendFails(t)
  BY <1>10 DEF Deliver, SendFails, AfterSend, IsChunk
<1>11. CASE OpenHeader(t) \/ NotAMessage(t) \/ Open(t)
  BY <1>11 DEF OpenHeader, NotAMessage, Open, Proceeds
<1>12. CASE ParseError(t)
  BY <1>12 DEF ParseError, Proceeds
<1>13. CASE ParseSimple(t)
  BY <1>13 DEF ParseSimple, Proceeds, Outcome
<1>14. CASE ParseChunk(t)
  BY <1>14 DEF ParseChunk, Proceeds, Outcome
<1>15. CASE CommitMismatch(t)
  BY <1>15 DEF CommitMismatch, Proceeds
<1>16. CASE CommitSimple(t)
  BY <1>16 DEF CommitSimple, Proceeds
<1>17. CASE CommitChunk(t)
  BY <1>2, <1>17 DEF CommitChunk, Proceeds, Outcome
<1>18. CASE Leave(t)
  BY <1>2, <1>18 DEF Leave
<1> QED
  BY <1>3, <1>4, <1>5, <1>6, <1>7, <1>8, <1>9, <1>10, <1>11, <1>12, <1>13, <1>14, <1>15, <1>16, <1>17, <1>18 DEF InnerStep

(* The steps of others, under the lock.                                    *)
LEMMA OthersKeepCode ==
  ASSUME OneDownloadContext, LockInv, DataTypes, CallsChosen,
         NEW t \in Threads, InnerStep(t),
         NEW u \in Threads, u # t, OwnCode(u), HandedOut(u)
  PROVE  OwnCode(u)' /\ HandedOut(u)'
<1>1. /\ pc'[u] = pc[u] /\ ret'[u] = ret[u] /\ out'[u] = out[u]
      /\ static_ret' = static_ret \/ IsChunk(t)
  BY InnerStepIsLocal, InnerStepTouches DEF LockInv
<1>2. Inside(t) /\ UNCHANGED call /\ IsChunk(u)' = IsChunk(u)
  BY InnerStepMoves DEF IsChunk
<1>3. HandedOut(u)'
  BY <1>1, <1>2 DEF HandedOut
<1>4. CASE pc[u] \in Working /\ IsChunk(u)
  <2>1. Inside(u) /\ call[u] \in CallsOf[u] /\ call[t] \in CallsOf[t]
    BY <1>2, <1>4 DEF Working, Inside, CallsChosen
  <2>2. ~IsChunk(t)
    BY <1>2, <1>4, <2>1 DEF OneDownloadContext, IsChunk, Ctx, LockInv, MutualExclusion
  <2> QED
    BY <1>1, <1>2, <1>3, <2>2 DEF OwnCode
<1> QED
  BY <1>1, <1>2, <1>3, <1>4 DEF OwnCode

LEMMA CodeInvInit == Init => CodeInvariant
  BY DEF Init, CodeInvariant, OwnCode, HandedOut, Working, Finishing, NoOut

LEMMA CodeInvStep ==
  ASSUME OneDownloadContext, LockInv, DataTypes, CallsChosen, CodeInvariant, [Next]_vars
  PROVE  CodeInvariant'
<1>1. /\ pc \in [Threads -> ControlPoint] /\ ret \in [Threads -> ReturnValue]
      /\ call \in [Threads -> CallRecord] /\ out \in [Threads -> Outcome]
  BY DEF LockInv, LockTypes, DataTypes, RetTypes, LocTypes
<1>2. ASSUME NEW t \in Threads, NEW k \in CallsOf[t],
             CallRejected(t, k) \/ CallRefused(t, k) \/ CallLocks(t, k)
      PROVE  CodeInvariant'
  <2>1. /\ UNCHANGED <<static_ret, out>> /\ ~out[t].output
        /\ call' = [call EXCEPT ![t] = k]
        /\ \/ pc' = [pc EXCEPT ![t] = "body"] /\ UNCHANGED ret
           \/ /\ pc' = [pc EXCEPT ![t] = "returned"]
              /\ \E code \in {"INVALID_ARGUMENT", "UNSUPPORTED_CONCURRENCY"} :
                   ret' = [ret EXCEPT ![t] = code]
    BY <1>2 DEF CallRejected, CallRefused, CallLocks, Calls, Refuse, Goto,
                CodeInvariant, HandedOut, Finishing
  <2>2. OwnCode(t)' /\ HandedOut(t)'
    BY <1>1, <2>1 DEF OwnCode, HandedOut, Working, Finishing, IsChunk
  <2>3. ASSUME NEW u \in Threads, u # t PROVE OwnCode(u)' /\ HandedOut(u)'
    BY <1>1, <2>1, <2>3 DEF CodeInvariant, OwnCode, HandedOut, IsChunk
  <2> QED
    BY <2>2, <2>3 DEF CodeInvariant
<1>3. ASSUME NEW t \in Threads, InnerStep(t) PROVE CodeInvariant'
  <2>1. OwnCode(t)' /\ HandedOut(t)'
    BY <1>3, OwnStepKeepsCode DEF LockInv, CodeInvariant
  <2>2. ASSUME NEW u \in Threads, u # t PROVE OwnCode(u)' /\ HandedOut(u)'
    BY <1>3, <2>2, OthersKeepCode DEF CodeInvariant
  <2> QED
    BY <2>1, <2>2 DEF CodeInvariant
<1>4. ASSUME NEW t \in Threads, Unlock(t) PROVE CodeInvariant'
  <2>1. /\ pc[t] = "unlock" /\ pc' = [pc EXCEPT ![t] = "returned"]
        /\ UNCHANGED <<static_ret, ret, call, out>>
    BY <1>4 DEF Unlock, Goto, callVars
  <2> QED
    BY <1>1, <2>1 DEF CodeInvariant, OwnCode, HandedOut, Working, Finishing, IsChunk
<1>5. ASSUME NEW t \in Threads, Consume(t) PROVE CodeInvariant'
  <2>1. /\ pc' = [pc EXCEPT ![t] = "idle"] /\ UNCHANGED static_ret
        /\ call' = [call EXCEPT ![t] = NoCall] /\ ret' = [ret EXCEPT ![t] = "NONE"]
        /\ out' = [out EXCEPT ![t] = NoOut]
    BY <1>5 DEF Consume, Goto
  <2> QED
    BY <1>1, <2>1 DEF CodeInvariant, OwnCode, HandedOut, Working, Finishing, IsChunk, NoOut
<1>6. ASSUME UNCHANGED <<static_ret, pc, ret, call, out>> PROVE CodeInvariant'
  BY <1>6 DEF CodeInvariant, OwnCode, HandedOut, IsChunk
<1>7. ASSUME NEW c \in Contexts, NEW w \in WorkBuffers, SdkInitialize(c, w)
      PROVE  CodeInvariant'
  BY <1>6, <1>7 DEF SdkInitialize, callVars
<1>8. CASE ServeNew \/ ServeAgain \/ UNCHANGED vars
  BY <1>6, <1>8 DEF ServeNew, ServeAgain, Serve, vars, callVars
<1> QED
  BY <1>2, <1>3, <1>4, <1>5, <1>7, <1>8 DEF Next, Begin, Step, InnerStep

-----------------------------------------------------------------------------
(* Nothing is taken back: requests keep their numbers, replies stay.       *)
NetGrows ==
  /\ \A q \in 1..Len(reqs) : q \in 1..Len(reqs') /\ reqs'[q] = reqs[q]
  /\ served \subseteq served' /\ reps \subseteq reps'

LEMMA PostedGrows ==
  ASSUME NetTypes, NEW t \in Threads, NEW m, Posted(t, m)
  PROVE  /\ NetGrows
         /\ Len(reqs') = Len(reqs) + 1
         /\ reqs'[Len(reqs) + 1] = [ctx |-> Ctx(t), call |-> call[t], msg |-> m]
<1>1. reqs \in Seq(Request)
  BY DEF NetTypes
<1>2. /\ reqs' = Append(reqs, [ctx |-> Ctx(t), call |-> call[t], msg |-> m])
      /\ UNCHANGED <<served, reps>>
  BY DEF Posted
<1> QED
  BY <1>1, <1>2 DEF NetGrows

LEMMA NetOnlyGrows == LockTypes /\ DataTypes /\ [Next]_vars => NetGrows
<1> SUFFICES ASSUME LockTypes, DataTypes, [Next]_vars PROVE NetGrows
  OBVIOUS
<1>1. ASSUME UNCHANGED <<reqs, served, reps>> PROVE NetGrows
  BY <1>1 DEF NetGrows
<1>2. ASSUME NEW t \in Threads, InnerStep(t) PROVE NetGrows
  <2>1. CASE PostingStep(t)
    BY <2>1, PostedGrows DEF PostingStep, Send, Forward, DataTypes
  <2>2. CASE PreparingStep(t)
    BY <2>2, <1>1 DEF PreparingStep, CreateRequest, DrawNonce, RandomFails, Seal, netVars
  <2>3. CASE ~PostingStep(t) /\ ~PreparingStep(t)
    BY <1>1, <1>2, <2>3, OtherStepsPrepareNothing, InnerStepTouches
  <2> QED
    BY <2>1, <2>2, <2>3
<1>3. CASE ServeNew \/ ServeAgain
  BY <1>3 DEF ServeNew, ServeAgain, Serve, NetGrows
<1>4. ASSUME NEW t \in Threads, Begin(t) \/ Unlock(t) \/ Consume(t) PROVE NetGrows
  BY <1>1, <1>4 DEF Begin, CallRejected, CallRefused, CallLocks, Refuse, Unlock, Consume, netVars
<1>5. ASSUME NEW c \in Contexts, NEW w \in WorkBuffers, SdkInitialize(c, w) PROVE NetGrows
  BY <1>1, <1>5 DEF SdkInitialize, netVars
<1>6. CASE UNCHANGED vars
  BY <1>1, <1>6 DEF vars
<1> QED
  BY <1>2, <1>3, <1>4, <1>5, <1>6 DEF Next, Step, InnerStep

(* A reply is the answer to a message that was sent.                       *)
LEMMA RepliesAnswerInit == Init => RepliesAnswer
  BY DEF Init, RepliesAnswer

LEMMA RepliesAnswerStep ==
  ASSUME LockTypes, DataTypes, RepliesAnswer, [Next]_vars
  PROVE  RepliesAnswer'
<1>1. NetGrows /\ NetTypes
  BY NetOnlyGrows DEF DataTypes
<1>2. ASSUME NEW r \in reps PROVE r.tok \in served' /\ AnswerTo(reqs'[r.tok].msg, r.msg)
  <2>1. r.tok \in served /\ AnswerTo(reqs[r.tok].msg, r.msg)
    BY DEF RepliesAnswer
  <2>2. r.tok \in 1..Len(reqs)
    BY <1>1, <2>1 DEF NetTypes
  <2> QED
    BY <1>1, <2>1, <2>2 DEF NetGrows
<1>3. ASSUME NEW q \in 1..Len(reqs), Serve(q) PROVE RepliesAnswer'
  <2> DEFINE m == reqs[q].msg
             new == [tok |-> q, msg |-> Answer(m)]
  <2>1. q \in served' /\ UNCHANGED reqs
    BY <1>3 DEF Serve
  <2>2. CASE ~Authentic(m)
    <3>1. UNCHANGED reps
      BY <1>3, <2>2 DEF Serve
    <3> QED
      BY <1>2, <2>1, <3>1 DEF RepliesAnswer, AnswerTo, Authentic
  <2>3. CASE Authentic(m)
    <3>1. reps' = reps \cup {new}
      BY <1>3, <2>3 DEF Serve
    <3>2. m \in Frame
      <4>1. reqs[q] \in Request
        BY <1>1 DEF NetTypes
      <4> QED
        BY <4>1 DEF Request
    <3>3. srv[m.hdr.dev] \in Record
      BY <1>1, <2>3 DEF NetTypes, Authentic
    <3>4. AnswerTo(m, new.msg)
      BY <2>3, <3>2, <3>3 DEF AnswerTo, Answer, Frame
    <3>5. new.tok \in served' /\ AnswerTo(reqs'[new.tok].msg, new.msg)
      BY <2>1, <3>4
    <3> HIDE DEF new
    <3>6. \A r \in reps' : r.tok \in served' /\ AnswerTo(reqs'[r.tok].msg, r.msg)
      BY <1>2, <3>1, <3>5
    <3> QED
      BY <3>6 DEF RepliesAnswer, AnswerTo, Authentic
  <2> QED
    BY <2>2, <2>3
<1>4. ASSUME UNCHANGED reps PROVE RepliesAnswer'
  BY <1>2, <1>4 DEF RepliesAnswer, AnswerTo, Authentic
<1>5. CASE ServeNew \/ ServeAgain
  BY <1>1, <1>3, <1>5 DEF ServeNew, ServeAgain, NetTypes
<1>6. CASE ~(ServeNew \/ ServeAgain)
  <2>1. ASSUME NEW t \in Threads, InnerStep(t) PROVE UNCHANGED reps
    BY <2>1, InnerStepTouches
  <2>2. ASSUME NEW t \in Threads, Begin(t) \/ Unlock(t) \/ Consume(t) PROVE UNCHANGED reps
    BY <2>2 DEF Begin, CallRejected, CallRefused, CallLocks, Refuse, Unlock, Consume, netVars
  <2>3. ASSUME NEW c \in Contexts, NEW w \in WorkBuffers, SdkInitialize(c, w)
        PROVE  UNCHANGED reps
    BY <2>3 DEF SdkInitialize, netVars
  <2>4. UNCHANGED reps
    BY <1>6, <2>1, <2>2, <2>3 DEF Next, Step, InnerStep, vars
  <2> QED
    BY <1>4, <2>4
<1> QED
  BY <1>5, <1>6

-----------------------------------------------------------------------------
(* What a call has received stays what it has received, as long as nobody  *)
(* writes to its state or, while it is at work on it, to its context.      *)
LEMMA MayReachKept ==
  ASSUME NetTypes, RepliesAnswer, NetGrows, NEW t \in Threads, NEW r \in reps, MayReach(t, r),
         call'[t] = call[t], loc'[t].tok = loc[t].tok
  PROVE  r \in reps' /\ MayReach(t, r)'
<1>1. r.tok \in 1..Len(reqs)
  BY DEF RepliesAnswer, NetTypes
<1> QED
  BY <1>1 DEF NetGrows, MayReach, Ctx

LEMMA AskedKept ==
  ASSUME NetGrows, NEW t \in Threads, Asked(t),
         call'[t] = call[t], loc'[t].tok = loc[t].tok
  PROVE  Asked(t)'
  BY DEF NetGrows, Asked, Ctx

LEMMA ParsedKept ==
  ASSUME NetTypes, RepliesAnswer, NetGrows, NEW t \in Threads, Parsed(t),
         call'[t] = call[t], loc'[t].tok = loc[t].tok, out'[t] = out[t],
         IsChunk(t) => mem'[Ctx(t)] = mem[Ctx(t)] /\ dl'[Ctx(t)] = dl[Ctx(t)]
  PROVE  Parsed(t)'
<1>1. PICK r \in reps : /\ MayReach(t, r) /\ r.msg.key \in KeyRead(Ctx(t))
                        /\ ParsedAs(t, r.msg.hdr.opcode, Plain(r.msg.body))
  BY DEF Parsed
<1>2. r \in reps' /\ MayReach(t, r)'
  BY <1>1, MayReachKept
<1>3. r.msg.key \in KeyRead(Ctx(t))'
  BY <1>1 DEF KeyRead, Ctx
<1>4. ParsedAs(t, r.msg.hdr.opcode, Plain(r.msg.body))'
  <2>1. CASE IsChunk(t)
    BY <1>1, <2>1 DEF ParsedAs, IsChunk, Ctx
  <2>2. CASE ~IsChunk(t)
    BY <1>1, <2>2 DEF ParsedAs, IsChunk
  <2> QED
    BY <2>1, <2>2
<1> QED
  BY <1>2, <1>3, <1>4 DEF Parsed

LEMMA FollowingKept ==
  ASSUME NetTypes, RepliesAnswer, NetGrows, NEW t \in Threads, Following(t),
         pc'[t] = pc[t], call'[t] = call[t], ret'[t] = ret[t], loc'[t] = loc[t], out'[t] = out[t],
         pc[t] \in Handling => mem'[Ctx(t)] = mem[Ctx(t)] /\ dl'[Ctx(t)] = dl[Ctx(t)]
  PROVE  Following(t)'
<1>1. /\ Ctx(t)' = Ctx(t) /\ IsChunk(t)' = IsChunk(t)
      /\ InnerBuffer(t)' = InnerBuffer(t) /\ OuterBuffer(t)' = OuterBuffer(t)
  BY DEF Ctx, IsChunk, InnerBuffer, OuterBuffer
<1>2. \A r \in reps : MayReach(t, r) => r \in reps' /\ MayReach(t, r)'
  BY MayReachKept
<1>3. HandlingInv(t)' /\ AskedInv(t)'
  BY AskedKept DEF Following, HandlingInv, AskedInv
<1>4. ASSUME pc[t] \in Handling, Received(t) PROVE Received(t)'
  <2>1. PICK r \in reps : MayReach(t, r) /\ mem[Ctx(t)][OuterBuffer(t)] \in Arrivals(r.msg)
    BY <1>4 DEF Received
  <2>2. r \in reps' /\ MayReach(t, r)'
    BY <1>2, <2>1
  <2> QED
    BY <1>1, <1>4, <2>1, <2>2 DEF Received, Arrivals
<1>5. ReceivedInv(t)' /\ OpenInv(t)'
  BY <1>1, <1>4 DEF Following, ReceivedInv, OpenInv, Handling
<1>6. ASSUME pc[t] \in Handling, Opened(t) PROVE Opened(t)'
  <2>1. PICK r \in reps : /\ MayReach(t, r) /\ r.msg.key \in KeyRead(Ctx(t))
                          /\ loc[t].opcode = r.msg.hdr.opcode
                          /\ mem[Ctx(t)][InnerBuffer(t)] = Plain(r.msg.body)
    BY <1>6 DEF Opened
  <2>2. r \in reps' /\ MayReach(t, r)'
    BY <1>2, <2>1
  <2> QED
    BY <1>1, <1>6, <2>1, <2>2 DEF Opened, KeyRead
<1>7. OpenedInv(t)'
  BY <1>6 DEF Following, OpenedInv, Handling
<1>8. ParsedInv(t)'
  BY ParsedKept DEF Following, ParsedInv, Handling
<1>9. ResultInv(t)'
  <2>1. ASSUME ~IsChunk(t), Parsed(t), Asked(t), EchoMatches(t)
        PROVE  Parsed(t)' /\ Asked(t)' /\ EchoMatches(t)'
    BY <2>1, ParsedKept, AskedKept DEF EchoMatches, IsChunk
  <2> QED
    BY <2>1 DEF Following, ResultInv, IsChunk
<1> QED
  BY <1>3, <1>5, <1>7, <1>8, <1>9 DEF Following

(* A call that is elsewhere has nothing to keep.                           *)
LEMMA NothingFollowed ==
  ASSUME NEW t \in Threads, pc'[t] \notin Handling \cup {"wait"},
         \/ pc'[t] \notin Finishing
         \/ ret'[t] # "NONE"
         \/ call'[t].op \notin MessageOps \ {"get_chunk"}
  PROVE  Following(t)'
  BY DEF Following, HandlingInv, AskedInv, ReceivedInv, OpenInv, OpenedInv, ParsedInv,
         ResultInv, Handling

-----------------------------------------------------------------------------
(* The steps of the exchange itself.                                       *)

FollowContext(t) ==
  /\ LockTypes /\ DataTypes /\ NetGrows /\ RepliesAnswer
  /\ OwnCode(t) /\ Following(t)

(* The parts of the state a call's own step reads and writes.              *)
LEMMA OwnState ==
  ASSUME LockTypes, DataTypes, NEW t \in Threads
  PROVE  /\ Ctx(t) \in Contexts /\ call[t] \in CallRecord
         /\ pc \in [Threads -> ControlPoint] /\ ret \in [Threads -> ReturnValue]
         /\ loc \in [Threads -> [opcode : Nat, tok : Nat]] /\ out \in [Threads -> Outcome]
         /\ mem \in [Contexts -> [Buffer -> Frame]] /\ dl \in [Contexts -> Session]
         /\ OuterBuffer(t) \in Buffer /\ InnerBuffer(t) \in Buffer
         /\ OuterBuffer(t) # InnerBuffer(t)
  BY ContextOf DEF LockTypes, DataTypes, MemTypes, RetTypes, LocTypes, OuterBuffer, InnerBuffer,
                   Buffer

LEMMA CallKept ==
  ASSUME NEW t \in Threads, UNCHANGED call
  PROVE  /\ Ctx(t)' = Ctx(t) /\ IsChunk(t)' = IsChunk(t)
         /\ InnerBuffer(t)' = InnerBuffer(t) /\ OuterBuffer(t)' = OuterBuffer(t)
         /\ KeyRead(Ctx(t))' = KeyRead(Ctx(t))
  BY DEF Ctx, IsChunk, InnerBuffer, OuterBuffer, KeyRead

LEMMA PostFollows ==
  ASSUME NEW t \in Threads, FollowContext(t), NEW m, Posted(t, m),
         call[t].op \in MessageOps \cup {"gateway"}
  PROVE  Following(t)'
<1>1. /\ pc'[t] = "wait" /\ UNCHANGED call /\ loc'[t].tok = Len(reqs) + 1
  BY OwnState DEF FollowContext, Posted, Goto
<1>2. /\ Len(reqs') = Len(reqs) + 1
      /\ reqs'[Len(reqs) + 1] = [ctx |-> Ctx(t), call |-> call[t], msg |-> m]
      /\ Len(reqs) \in Nat
  BY PostedGrows DEF FollowContext, DataTypes, NetTypes
<1>3. Asked(t)'
  BY <1>1, <1>2, CallKept DEF Asked
<1> QED
  BY <1>1, <1>3 DEF Following, HandlingInv, AskedInv, ReceivedInv, OpenInv, OpenedInv,
                    ParsedInv, ResultInv, Handling, Finishing

LEMMA DeliverFollows ==
  ASSUME NEW t \in Threads, FollowContext(t), Deliver(t)
  PROVE  Following(t)'
<1>1. PICK r \in reps : \E m \in Arrivals(r.msg) :
        /\ pc[t] = "wait"
        /\ Deliverable(t, r)
        /\ IF call[t].op = "gateway" THEN UNCHANGED mem ELSE Write(Ctx(t), OuterBuffer(t), m)
        /\ SetRet(t, "NONE")
        /\ Goto(t, AfterSend(t))
        /\ UNCHANGED <<call, loc, out, reqs, reps>>
  BY DEF Deliver, callVars, netVars
<1>2. PICK m \in Arrivals(r.msg) :
        /\ pc[t] = "wait"
        /\ Deliverable(t, r)
        /\ IF call[t].op = "gateway" THEN UNCHANGED mem ELSE Write(Ctx(t), OuterBuffer(t), m)
        /\ SetRet(t, "NONE")
        /\ Goto(t, AfterSend(t))
        /\ UNCHANGED <<call, loc, out, reqs, reps>>
  BY <1>1
<1>3. Asked(t) /\ call[t].op \in MessageOps \cup {"gateway"}
  BY <1>2 DEF FollowContext, Following, AskedInv, HandlingInv
<1>4. CASE call[t].op = "gateway"
  <2>1. pc'[t] = "leave" /\ call'[t].op = "gateway"
    BY <1>2, <1>4, OwnState DEF FollowContext, Goto, AfterSend
  <2> QED
    BY <2>1, NothingFollowed DEF Handling, MessageOps
<1>5. CASE call[t].op # "gateway"
  <2>1. /\ pc'[t] = "open_header" /\ mem'[Ctx(t)][OuterBuffer(t)] = m
        /\ call'[t].op \in MessageOps
    BY <1>2, <1>3, <1>5, OwnState DEF FollowContext, Goto, AfterSend, Write
  <2>2. MayReach(t, r)
    BY <1>2, <1>3 DEF Deliverable, MayReach, Asked
  <2>3. r \in reps' /\ MayReach(t, r)'
    BY <1>2, <2>2, MayReachKept DEF FollowContext, DataTypes
  <2>4. Arrivals(r.msg)' = Arrivals(r.msg)
    BY DEF Arrivals
  <2>5. Received(t)'
    BY <1>2, <2>1, <2>3, <2>4, CallKept DEF Received
  <2>6. Asked(t)'
    BY <1>2, <1>3, AskedKept DEF FollowContext
  <2> QED
    BY <2>1, <2>5, <2>6 DEF Following, HandlingInv, AskedInv, ReceivedInv, OpenInv, OpenedInv,
                            ParsedInv, ResultInv, Finishing
<1> QED
  BY <1>4, <1>5

LEMMA SendFailsFollows ==
  ASSUME NEW t \in Threads, FollowContext(t), SendFails(t)
  PROVE  Following(t)'
<1>1. /\ pc[t] = "wait" /\ pc'[t] = AfterSend(t) /\ ret'[t] # "NONE" /\ UNCHANGED <<call, loc>>
  BY OwnState DEF FollowContext, SendFails, SetRet, Goto, callVars
<1>2. Asked(t) /\ call[t].op \in MessageOps \cup {"gateway"}
  BY <1>1 DEF FollowContext, Following, AskedInv, HandlingInv
<1>3. Asked(t)'
  BY <1>1, <1>2, AskedKept DEF FollowContext
<1> QED
  BY <1>1, <1>2, <1>3
     DEF AfterSend, Following, HandlingInv, AskedInv, ReceivedInv, OpenInv, OpenedInv,
         ParsedInv, ResultInv, Finishing, Handling

LEMMA OpenHeaderFollows ==
  ASSUME NEW t \in Threads, FollowContext(t), OpenHeader(t)
  PROVE  Following(t)'
<1> DEFINE f == mem[Ctx(t)][OuterBuffer(t)]
<1>1. /\ pc[t] = "open_header" /\ "NONE" \in RetRead(t) /\ f.kind = "cose"
      /\ pc'[t] = "open" /\ UNCHANGED <<call, mem>>
      /\ loc'[t].opcode = f.hdr.opcode /\ loc'[t].tok = loc[t].tok
  BY OwnState DEF FollowContext, OpenHeader, Proceeds, Goto
<1>2. ret[t] = "NONE"
  BY <1>1, OwnCodeRead DEF FollowContext, Working
<1>3. Received(t) /\ Asked(t) /\ call[t].op \in MessageOps
  BY <1>1, <1>2 DEF FollowContext, Following, ReceivedInv, AskedInv, HandlingInv, Handling
<1>4. PICK r \in reps : MayReach(t, r) /\ f \in Arrivals(r.msg)
  BY <1>3 DEF Received
<1>5. r \in reps' /\ MayReach(t, r)'
  BY <1>1, <1>4, MayReachKept DEF FollowContext, DataTypes
<1>6. Received(t)' /\ Asked(t)'
  BY <1>1, <1>3, <1>4, <1>5, CallKept, AskedKept DEF FollowContext, Received, Arrivals
<1> QED
  BY <1>1, <1>3, <1>6, CallKept
     DEF Following, HandlingInv, AskedInv, ReceivedInv, OpenInv, OpenedInv, ParsedInv, ResultInv,
         Finishing

LEMMA NotAMessageFollows ==
  ASSUME NEW t \in Threads, FollowContext(t), NotAMessage(t)
  PROVE  Following(t)'
<1>1. /\ pc[t] = "open_header" /\ pc'[t] = "parse_error" /\ ret'[t] = "MESSAGE_PARSING"
      /\ UNCHANGED <<call, loc>>
  BY OwnState DEF FollowContext, NotAMessage, Proceeds, Goto, SetRet, callVars
<1>2. Asked(t) /\ call[t].op \in MessageOps
  BY <1>1 DEF FollowContext, Following, AskedInv, HandlingInv, Handling
<1>3. Asked(t)'
  BY <1>1, <1>2, AskedKept DEF FollowContext
<1> QED
  BY <1>1, <1>2, <1>3
     DEF Following, HandlingInv, AskedInv, ReceivedInv, OpenInv, OpenedInv, ParsedInv, ResultInv,
         Finishing

(* A tag that verifies shows that the message is the one the server sent.  *)
LEMMA GenuineReply ==
  ASSUME NEW c \in Contexts, NEW key \in KeyRead(c), NEW m \in Frame, NEW f \in Arrivals(m),
         f.kind = "cose", f.key = key
  PROVE  f = m
<1>1. key # NoKey
  BY SdkAssumption DEF KeyRead, ZeroKey, NoKey
<1>2. Garbage.kind # "cose"
  BY DEF Garbage
<1>3. [m EXCEPT !.key = NoKey].key = NoKey
  BY DEF Frame
<1> QED
  BY <1>1, <1>2, <1>3 DEF Arrivals

LEMMA OpenFollows ==
  ASSUME NEW t \in Threads, FollowContext(t), Open(t)
  PROVE  Following(t)'
<1> DEFINE c == Ctx(t)
           f == mem[c][OuterBuffer(t)]
<1>1. /\ pc[t] = "open" /\ pc'[t] = "parse_error" /\ UNCHANGED <<call, loc>>
  BY OwnState DEF FollowContext, Open, Goto, callVars
<1>2. /\ Received(t) /\ Asked(t) /\ call[t].op \in MessageOps
      /\ f.kind = "cose" /\ loc[t].opcode = f.hdr.opcode
  BY <1>1 DEF FollowContext, Following, OpenInv, AskedInv, HandlingInv, Handling
<1>3. PICK r \in reps : MayReach(t, r) /\ f \in Arrivals(r.msg)
  BY <1>2 DEF Received
<1>4. r \in reps' /\ MayReach(t, r)'
  BY <1>1, <1>3, MayReachKept DEF FollowContext, DataTypes
<1>5. ASSUME ret'[t] = "NONE" PROVE Opened(t)'
  <2>1. PICK key \in KeyRead(c) :
          /\ TagVerifies(t, key)
          /\ Write(c, InnerBuffer(t), Plain(f.body))
    BY <1>5, OwnState DEF FollowContext, Open, SetRet, MinusOne
  <2>2. r.msg \in Frame
    BY DEF FollowContext, DataTypes, NetTypes, Response
  <2>3. f.key = key /\ f = r.msg
    BY <1>2, <1>3, <2>1, <2>2, OwnState, GenuineReply DEF FollowContext, TagVerifies
  <2>4. mem'[c][InnerBuffer(t)] = Plain(r.msg.body)
    BY <2>1, <2>3, OwnState DEF FollowContext, Write
  <2> QED
    BY <1>1, <1>2, <1>4, <2>1, <2>3, <2>4, CallKept DEF Opened
<1>6. Asked(t)'
  BY <1>1, <1>2, AskedKept DEF FollowContext
<1> QED
  BY <1>1, <1>2, <1>5, <1>6
     DEF Following, HandlingInv, AskedInv, ReceivedInv, OpenInv, OpenedInv, ParsedInv, ResultInv,
         Finishing

LEMMA ParseErrorFollows ==
  ASSUME NEW t \in Threads, FollowContext(t), ParseError(t)
  PROVE  Following(t)'
<1>1. /\ pc[t] = "parse_error" /\ "NONE" \in RetRead(t) /\ pc'[t] = "parse_response"
      /\ UNCHANGED <<call, loc, mem>>
  BY OwnState DEF FollowContext, ParseError, Proceeds, Goto, callVars, ctxVars
<1>2. ret[t] = "NONE"
  BY <1>1, OwnCodeRead DEF FollowContext, Working
<1>3. Opened(t) /\ Asked(t) /\ call[t].op \in MessageOps
  BY <1>1, <1>2 DEF FollowContext, Following, OpenedInv, AskedInv, HandlingInv, Handling
<1>4. PICK r \in reps : /\ MayReach(t, r) /\ r.msg.key \in KeyRead(Ctx(t))
                        /\ loc[t].opcode = r.msg.hdr.opcode
                        /\ mem[Ctx(t)][InnerBuffer(t)] = Plain(r.msg.body)
  BY <1>3 DEF Opened
<1>5. r \in reps' /\ MayReach(t, r)'
  BY <1>1, <1>4, MayReachKept DEF FollowContext, DataTypes
<1>6. Opened(t)' /\ Asked(t)'
  BY <1>1, <1>3, <1>4, <1>5, CallKept, AskedKept DEF FollowContext, Opened
<1> QED
  BY <1>1, <1>3, <1>6
     DEF Following, HandlingInv, AskedInv, ReceivedInv, OpenInv, OpenedInv, ParsedInv, ResultInv,
         Finishing

(* Where the parsers start.                                                *)
LEMMA ParsersStart ==
  ASSUME NEW t \in Threads, FollowContext(t), Proceeds(t, "parse_response")
  PROVE  /\ Opened(t) /\ Asked(t) /\ call[t].op \in MessageOps
<1>1. pc[t] = "parse_response" /\ ret[t] = "NONE"
  BY OwnCodeRead DEF FollowContext, Proceeds, Working
<1> QED
  BY <1>1 DEF FollowContext, Following, OpenedInv, AskedInv, HandlingInv, Handling

LEMMA CommitPointFollows ==
  ASSUME NEW t \in Threads, pc'[t] = "commit", call'[t].op \in MessageOps, Asked(t)',
         ret'[t] = "NONE" => Parsed(t)'
  PROVE  Following(t)'
  BY DEF Following, HandlingInv, AskedInv, ReceivedInv, OpenInv, OpenedInv, ParsedInv, ResultInv,
         Finishing

LEMMA ParseSimpleFollows ==
  ASSUME NEW t \in Threads, FollowContext(t), ParseSimple(t)
  PROVE  Following(t)'
<1> DEFINE f == mem[Ctx(t)][InnerBuffer(t)]
           k == call[t]
           op == loc[t].opcode
           p == operation_parse_get_parameter_response(op, k.type, f, k.size, 0)
           g == operation_parse_get_device_info_response(op, f, out[t].vals)
           s == operation_parse_set_device_info_response(op, f, out[t].vals)
<1>1. Opened(t) /\ Asked(t) /\ k.op \in MessageOps \ {"get_chunk"}
  BY ParsersStart DEF ParseSimple, IsChunk
<1>2. PICK r \in reps : /\ MayReach(t, r) /\ r.msg.key \in KeyRead(Ctx(t))
                        /\ op = r.msg.hdr.opcode /\ f = Plain(r.msg.body)
  BY <1>1 DEF Opened
<1>3. pc'[t] = "commit" /\ UNCHANGED <<call, loc>>
  BY OwnState DEF FollowContext, ParseSimple, Goto
<1>4. r \in reps' /\ MayReach(t, r)' /\ Asked(t)'
  BY <1>1, <1>2, <1>3, MayReachKept, AskedKept DEF FollowContext, DataTypes
<1>5. out[t].vals \in [1..3 -> Nat] /\ out[t] \in Outcome
  BY OwnState DEF FollowContext, Outcome
<1>6. ASSUME ret'[t] = "NONE" PROVE ParsedAs(t, r.msg.hdr.opcode, Plain(r.msg.body))'
  <2> HIDE DEF p, g, s, f, op
  <2>1. CASE k.op = "get_parameter"
    <3>1. /\ ret'[t] = p.code
          /\ out'[t] = [out[t] EXCEPT !.item = p.item, !.size = p.size]
      BY <2>1, OwnState DEF FollowContext, ParseSimple, SetRet, p, f, op
    <3>2. out'[t].item = p.item /\ out'[t].size = p.size /\ p.code = "NONE"
      BY <1>5, <1>6, <3>1 DEF Outcome
    <3> QED
      BY <1>2, <1>3, <2>1, <3>2 DEF ParsedAs, p
  <2>2. CASE k.op = "get_device_info"
    <3>1. ret'[t] = g.code /\ out'[t] = [out[t] EXCEPT !.vals = g.vals]
      BY <2>2, OwnState DEF FollowContext, ParseSimple, SetRet, g, f, op
    <3>2. out'[t].vals = g.vals /\ g.code = "NONE"
      BY <1>5, <1>6, <3>1 DEF Outcome
    <3> QED
      BY <1>2, <1>3, <1>5, <2>2, <3>2 DEF ParsedAs, g
  <2>3. CASE k.op = "set_device_info"
    <3>1. ret'[t] = s.code /\ out'[t] = [out[t] EXCEPT !.vals = s.vals]
      BY <2>3, OwnState DEF FollowContext, ParseSimple, SetRet, s, f, op
    <3>2. out'[t].vals = s.vals /\ s.code = "NONE"
      BY <1>5, <1>6, <3>1 DEF Outcome
    <3> QED
      BY <1>2, <1>3, <1>5, <2>3, <3>2 DEF ParsedAs, s
  <2> QED
    BY <1>1, <2>1, <2>2, <2>3 DEF MessageOps
<1> QED
  BY <1>1, <1>2, <1>3, <1>4, <1>6, CallKept, CommitPointFollows DEF Parsed

(* A chunk that parses carries data.                                       *)
LEMMA ChunkCarriesData ==
  ASSUME NEW opcode, NEW f, NEW size,
         operation_parse_get_firmware_response(opcode, f, size).code = "NONE"
  PROVE  LET g == operation_parse_get_firmware_response(opcode, f, size)
             its == Fields(f)
         IN  /\ opcode = OPERATION_ID_GET_FIRMWARE_RESPONSE
             /\ Reads(its, << {"uint"}, {"uint"}, ItemType >>, 3)
             /\ ~(Len(its) < 4) /\ g.data = its[4]
             /\ g.data.type = "bytes" /\ ~(g.data.len > size) /\ g.data.len = Length(its[3])
             /\ g.data # NoItem
<1> DEFINE its == Fields(f)
           types == << {"uint"}, {"uint"}, ItemType >>
           echo(i) == IF Reads(its, types, i) THEN its[i].val % UINT32 ELSE 0
           g == operation_parse_get_firmware_response(opcode, f, size)
           result(code, d) == [code |-> code, vals |-> <<echo(1), echo(2), 0>>, data |-> d]
<1>1. g = IF opcode # OPERATION_ID_GET_FIRMWARE_RESPONSE
          THEN [code |-> "UNEXPECTED_RESPONSE", vals |-> <<0, 0, 0>>, data |-> NoItem]
          ELSE IF ~Reads(its, types, 3)
          THEN result("OPERATION_PARSING", NoItem)
          ELSE IF Length(its[3]) > size THEN result("BUFFER_TOO_SMALL", NoItem)
          ELSE IF Len(its) < 4 \/ its[4].type # "bytes" \/ its[4].len > size
          THEN result("OPERATION_PARSING", NoItem)
          ELSE IF its[4].len # Length(its[3]) THEN result("OPERATION_PARSING", its[4])
          ELSE result("NONE", its[4])
  BY DEF operation_parse_get_firmware_response
<1>2. g.code = "NONE"
  OBVIOUS
<1> HIDE DEF its, types, echo, g
<1>3. /\ opcode = OPERATION_ID_GET_FIRMWARE_RESPONSE
      /\ Reads(its, types, 3)
      /\ ~(Len(its) < 4) /\ its[4].type = "bytes" /\ ~(its[4].len > size)
      /\ its[4].len = Length(its[3]) /\ g = result("NONE", its[4])
  BY <1>1, <1>2
<1>4. g.data = its[4] /\ its[4] # NoItem
  BY <1>3 DEF NoItem
<1> QED
  BY <1>3, <1>4 DEF its, types, g

LEMMA ParseChunkFollows ==
  ASSUME NEW t \in Threads, FollowContext(t), ParseChunk(t)
  PROVE  Following(t)'
<1> DEFINE c == Ctx(t)
           f == mem[c]["buffer2"]
           op == loc[t].opcode
           g == operation_parse_get_firmware_response(op, f, dl[c].buffer1_size)
<1>1. Opened(t) /\ Asked(t) /\ IsChunk(t)
  BY ParsersStart DEF ParseChunk
<1>2. PICK r \in reps : /\ MayReach(t, r) /\ r.msg.key \in KeyRead(Ctx(t))
                        /\ op = r.msg.hdr.opcode /\ f = Plain(r.msg.body)
  BY <1>1 DEF Opened, InnerBuffer
<1>3. pc'[t] = "commit" /\ UNCHANGED <<call, loc, dl>>
  BY OwnState DEF FollowContext, ParseChunk, Goto
<1>4. r \in reps' /\ MayReach(t, r)' /\ Asked(t)'
  BY <1>1, <1>2, <1>3, MayReachKept, AskedKept DEF FollowContext, DataTypes
<1>5. ASSUME ret'[t] = "NONE" PROVE ParsedAs(t, r.msg.hdr.opcode, Plain(r.msg.body))'
  <2>1. /\ ret'[t] = g.code
        /\ out'[t] = [out[t] EXCEPT !.vals = g.vals,
                                    !.size = IF g.code = "NONE" THEN g.data.len ELSE @]
        /\ g.data # NoItem => mem' = [mem EXCEPT ![c]["buffer1"] = Data(g.data)]
    <3> HIDE DEF g
    <3> QED
      BY OwnState DEF FollowContext, ParseChunk, SetRet, Write, g
  <2>2. g.code = "NONE" /\ g.data # NoItem
    BY <1>5, <2>1, ChunkCarriesData
  <2> HIDE DEF g, op, f
  <2>3. out'[t].vals = g.vals /\ out'[t].size = g.data.len
    BY <2>1, <2>2, OwnState DEF FollowContext, Outcome
  <2>4. mem'[c]["buffer1"] = Data(g.data)
    BY <2>1, <2>2, OwnState DEF FollowContext, Buffer
  <2> QED
    BY <1>1, <1>2, <1>3, <2>2, <2>3, <2>4 DEF ParsedAs, IsChunk, Ctx, g
<1> QED
  BY <1>1, <1>2, <1>3, <1>4, <1>5, CallKept, CommitPointFollows DEF Parsed, IsChunk, MessageOps

LEMMA CommitSimpleFollows ==
  ASSUME NEW t \in Threads, FollowContext(t), CommitSimple(t)
  PROVE  Following(t)'
<1>1. /\ pc[t] = "commit" /\ "NONE" \in RetRead(t) /\ ~IsChunk(t) /\ EchoMatches(t)
      /\ pc'[t] = "leave" /\ UNCHANGED <<call, loc, out>>
  BY OwnState DEF FollowContext, CommitSimple, Proceeds, Goto, callVars
<1>2. ret[t] = "NONE"
  BY <1>1, OwnCodeRead DEF FollowContext, Working
<1>3. Parsed(t) /\ Asked(t)
  BY <1>1, <1>2 DEF FollowContext, Following, ParsedInv, AskedInv, Handling
<1>4. Parsed(t)' /\ Asked(t)'
  BY <1>1, <1>3, ParsedKept, AskedKept DEF FollowContext, DataTypes
<1>5. EchoMatches(t)'
  BY <1>1 DEF EchoMatches, IsChunk
<1> QED
  BY <1>1, <1>4, <1>5
     DEF Following, HandlingInv, AskedInv, ReceivedInv, OpenInv, OpenedInv, ParsedInv, ResultInv,
         Handling

LEMMA LeaveFollows ==
  ASSUME NEW t \in Threads, FollowContext(t), Leave(t)
  PROVE  Following(t)'
<1>1. /\ pc[t] = "leave" /\ pc'[t] = "unlock" /\ UNCHANGED <<call, loc, out>>
      /\ ret'[t] = ret[t]
  BY OwnState, OwnCodeRead DEF FollowContext, Leave, Goto, callVars, Working
<1>2. ASSUME ret[t] = "NONE", call[t].op \in MessageOps \ {"get_chunk"}
      PROVE  Asked(t)' /\ Parsed(t)' /\ EchoMatches(t)'
  <2>1. Asked(t) /\ Parsed(t) /\ EchoMatches(t)
    BY <1>1, <1>2 DEF FollowContext, Following, ResultInv, Finishing
  <2>2. Asked(t)' /\ Parsed(t)'
    BY <1>1, <1>2, <2>1, ParsedKept, AskedKept DEF FollowContext, DataTypes, IsChunk
  <2> QED
    BY <1>1, <1>2, <2>1, <2>2 DEF EchoMatches, IsChunk
<1> QED
  BY <1>1, <1>2
     DEF Following, HandlingInv, AskedInv, ReceivedInv, OpenInv, OpenedInv, ParsedInv, ResultInv,
         Handling

(* Every step of a call keeps track of what it received.                   *)
LEMMA OwnStepFollows ==
  ASSUME NEW t \in Threads, FollowContext(t), ExchangeInv, LockInv, InnerStep(t)
  PROVE  Following(t)'
<1> USE OwnState DEF FollowContext, Goto, Return, SetRet, callVars
<1>1. CASE \/ RejectArguments(t) \/ RejectNoSession(t) \/ InitializeTooSmall(t)
           \/ InitializeBusy(t) \/ CommitMismatch(t)
  <2>1. pc'[t] = "unlock" /\ ret'[t] # "NONE"
    BY <1>1 DEF RejectArguments, RejectNoSession, InitializeTooSmall, InitializeBusy,
                CommitMismatch
  <2> QED
    BY <2>1, NothingFollowed DEF Handling
<1>2. CASE InitializeStarts(t) \/ Finish(t)
  <2>1. pc'[t] = "unlock" /\ call'[t].op \in {"download_initialize", "finish"}
    BY <1>2 DEF InitializeStarts, InitializeCall, Finish
  <2> QED
    BY <2>1, NothingFollowed DEF Handling, MessageOps
<1>3. CASE PreparingStep(t)
  <2>1. pc'[t] \in {"header", "seal", "send"}
    BY <1>3 DEF PreparingStep, CreateRequest, DrawNonce, RandomFails, Seal
  <2> QED
    BY <2>1, NothingFollowed DEF Handling, Finishing
<1>4. CASE Bail(t)
  <2>1. pc'[t] = "leave" /\ ret'[t] # "NONE"
    BY <1>4, OwnCodeRead DEF Bail, CheckPoint, Working
  <2> QED
    BY <2>1, NothingFollowed DEF Handling
<1>5. CASE CommitChunk(t)
  <2>1. pc'[t] = "leave" /\ call'[t].op = "get_chunk"
    BY <1>5 DEF CommitChunk, IsChunk
  <2> QED
    BY <2>1, NothingFollowed DEF Handling
<1>6. CASE Forward(t)
  BY <1>6, PostFollows DEF Forward
<1>7. CASE Send(t)
  <2>1. Drawn(t)
    BY <1>7, SendSendsPrepared
  <2>2. call[t].op \in MessageOps
    BY <2>1 DEF ExchangeInv, Prepared, DrawnInv
  <2> QED
    BY <1>7, <2>2, PostFollows DEF Send
<1> QED
  BY <1>1, <1>2, <1>3, <1>4, <1>5, <1>6, <1>7, DeliverFollows, SendFailsFollows,
     OpenHeaderFollows, NotAMessageFollows, OpenFollows, ParseErrorFollows, ParseSimpleFollows,
     ParseChunkFollows, CommitSimpleFollows, LeaveFollows
     DEF InnerStep, PreparingStep

-----------------------------------------------------------------------------
(* The invariant itself.                                                   *)

LEMMA ReplyInvInit == Init => ReplyInv
<1> SUFFICES ASSUME Init PROVE ReplyInv
  OBVIOUS
<1>1. \A t \in Threads : Following(t)
  BY DEF Init, Following, HandlingInv, AskedInv, ReceivedInv, OpenInv, OpenedInv, ParsedInv,
         ResultInv, Handling, Finishing
<1> QED
  BY <1>1, CodeInvInit, RepliesAnswerInit DEF ReplyInv

LEMMA FollowingStep ==
  ASSUME OneDownloadContext, LockInv, DataTypes, ExchangeInv, ReplyInv, NetGrows, [Next]_vars,
         NEW u \in Threads
  PROVE  Following(u)'
<1>1. /\ pc \in [Threads -> ControlPoint] /\ ret \in [Threads -> ReturnValue]
      /\ call \in [Threads -> CallRecord] /\ out \in [Threads -> Outcome]
      /\ loc \in [Threads -> [opcode : Nat, tok : Nat]]
      /\ dl \in [Contexts -> Session]
      /\ NetTypes /\ RepliesAnswer /\ Following(u) /\ OwnCode(u) /\ LockTypes
  BY DEF LockInv, LockTypes, DataTypes, MemTypes, RetTypes, LocTypes, ReplyInv, CodeInvariant
<1>2. ASSUME pc'[u] = pc[u], call'[u] = call[u], ret'[u] = ret[u], loc'[u] = loc[u],
             out'[u] = out[u],
             pc[u] \in Handling => mem'[Ctx(u)] = mem[Ctx(u)] /\ dl'[Ctx(u)] = dl[Ctx(u)]
      PROVE  Following(u)'
  BY <1>1, <1>2, FollowingKept
<1>3. ASSUME NEW t \in Threads, InnerStep(t) PROVE Following(u)'
  <2>1. CASE u = t
    BY <1>1, <1>3, <2>1, OwnStepFollows DEF FollowContext
  <2>2. CASE u # t
    <3>1. Inside(t) /\ UNCHANGED call
      BY <1>3, InnerStepMoves
    <3>2. pc[u] \in Handling => Ctx(u) # Ctx(t) /\ Ctx(u) \in Contexts
      BY <1>1, <2>2, <3>1 DEF LockInv, MutualExclusion, Inside, Handling, Ctx, CallRecord
    <3> QED
      BY <1>1, <1>2, <1>3, <2>2, <3>1, <3>2, InnerStepIsLocal, InnerStepTouches
  <2> QED
    BY <2>1, <2>2
<1>4. ASSUME NEW t \in Threads, NEW k \in CallsOf[t],
             CallRejected(t, k) \/ CallRefused(t, k) \/ CallLocks(t, k)
      PROVE  Following(u)'
  <2>1. /\ UNCHANGED <<mem, dl, loc, out>>
        /\ call' = [call EXCEPT ![t] = k]
        /\ \/ pc' = [pc EXCEPT ![t] = "body"] /\ UNCHANGED ret
           \/ /\ pc' = [pc EXCEPT ![t] = "returned"]
              /\ \E code \in {"INVALID_ARGUMENT", "UNSUPPORTED_CONCURRENCY"} :
                   ret' = [ret EXCEPT ![t] = code]
    BY <1>4 DEF CallRejected, CallRefused, CallLocks, Calls, Refuse, Goto, ctxVars
  <2>2. CASE u = t
    BY <1>1, <2>1, <2>2, NothingFollowed DEF Handling, Finishing
  <2>3. CASE u # t
    BY <1>1, <1>2, <2>1, <2>3
  <2> QED
    BY <2>2, <2>3
<1>5. ASSUME NEW t \in Threads, Unlock(t) PROVE Following(u)'
  <2>1. /\ pc[t] = "unlock" /\ pc' = [pc EXCEPT ![t] = "returned"]
        /\ UNCHANGED <<dl, mem, ret, call, loc, out>>
    BY <1>5 DEF Unlock, Goto, callVars
  <2>2. CASE u = t
    <3>1. ASSUME ret[t] = "NONE", call[t].op \in MessageOps \ {"get_chunk"}
          PROVE  Asked(t)' /\ Parsed(t)' /\ EchoMatches(t)'
      <4>1. Asked(t) /\ Parsed(t) /\ EchoMatches(t)
        BY <1>1, <2>1, <2>2, <3>1 DEF Following, ResultInv, Finishing
      <4>2. Asked(t)' /\ Parsed(t)'
        BY <1>1, <2>1, <4>1, ParsedKept, AskedKept
      <4> QED
        BY <2>1, <3>1, <4>1, <4>2 DEF EchoMatches, IsChunk
    <3> QED
      BY <1>1, <2>1, <2>2, <3>1
         DEF Following, HandlingInv, AskedInv, ReceivedInv, OpenInv, OpenedInv, ParsedInv,
             ResultInv, Handling
  <2>3. CASE u # t
    BY <1>1, <1>2, <2>1, <2>3
  <2> QED
    BY <2>2, <2>3
<1>6. ASSUME NEW t \in Threads, Consume(t) PROVE Following(u)'
  <2>1. /\ pc' = [pc EXCEPT ![t] = "idle"] /\ UNCHANGED <<dl, mem>>
        /\ call' = [call EXCEPT ![t] = NoCall] /\ ret' = [ret EXCEPT ![t] = "NONE"]
        /\ loc' = [loc EXCEPT ![t] = NoLoc] /\ out' = [out EXCEPT ![t] = NoOut]
    BY <1>6 DEF Consume, Goto, ctxVars
  <2>2. CASE u = t
    BY <1>1, <2>1, <2>2, NothingFollowed DEF Handling, Finishing
  <2>3. CASE u # t
    BY <1>1, <1>2, <2>1, <2>3
  <2> QED
    BY <2>2, <2>3
<1>7. ASSUME NEW c \in Contexts, NEW w \in WorkBuffers, SdkInitialize(c, w) PROVE Following(u)'
  <2>1. /\ UNCHANGED <<mem, pc, ret, call, loc, out>>
        /\ dl' = [dl EXCEPT ![c].valid = FALSE, ![c].lock = FALSE]
        /\ pc[u] # "idle" => Ctx(u) # c
    BY <1>7 DEF SdkInitialize, Uses, callVars
  <2>2. pc[u] \in Handling => dl'[Ctx(u)] = dl[Ctx(u)]
    BY <1>1, <2>1 DEF Handling, Ctx, CallRecord
  <2> QED
    BY <1>2, <2>1, <2>2
<1>8. CASE ServeNew \/ ServeAgain \/ UNCHANGED vars
  BY <1>2, <1>8 DEF ServeNew, ServeAgain, Serve, vars, ctxVars, callVars
<1> QED
  BY <1>3, <1>4, <1>5, <1>6, <1>7, <1>8 DEF Next, Begin, Step, InnerStep

(* The invariant of all the proofs about results.                          *)
ResultsInv == LockInv /\ DataTypes /\ ExchangeInv /\ ReplyInv

LEMMA ResultsInvInit == Init => ResultsInv
  BY LockInvInit, InitTypes, ExchangeInvInit, ReplyInvInit DEF ResultsInv

LEMMA ResultsInvStep ==
  ASSUME OneDownloadContext, ResultsInv, [Next]_vars
  PROVE  ResultsInv' /\ NetGrows
<1> USE DEF ResultsInv
<1>1. LockInv' /\ DataTypes' /\ LockTypes
  BY LockInvStep, StepKeepsTypes DEF LockInv
<1>2. ExchangeInv' /\ NetGrows
  BY <1>1, ExchangeInvStep, NetOnlyGrows
<1>3. CodeInvariant' /\ RepliesAnswer'
  BY <1>1, CodeInvStep, RepliesAnswerStep DEF ExchangeInv, ReplyInv
<1>4. \A u \in Threads : Following(u)'
  BY <1>2, FollowingStep
<1> QED
  BY <1>1, <1>2, <1>3, <1>4 DEF ReplyInv

LEMMA ResultsCorrect ==
  ASSUME OneDownloadContext
  PROVE  Spec => []ResultsInv
<1>1. ResultsInv /\ [Next]_vars => ResultsInv'
  BY ResultsInvStep
<1> QED
  BY <1>1, ResultsInvInit, PTL DEF Spec

-----------------------------------------------------------------------------
(* Where the requests come from.                                           *)
RequestInv ==
  \A q \in 1..Len(reqs) :
    /\ \E t \in Threads : reqs[q].call \in CallsOf[t]
    /\ IF OwnRequest(q) THEN reqs[q].call.op \in MessageOps
       ELSE reqs[q].msg = ForeignMessage(reqs[q].call.id)

LEMMA RequestInvInit == Init => RequestInv
  BY DEF Init, RequestInv

LEMMA OnlyPostingAsks ==
  ASSUME LockTypes, [Next]_vars
  PROVE  UNCHANGED reqs \/ \E t \in Threads : PostingStep(t)
<1>1. ASSUME NEW t \in Threads, InnerStep(t), ~PostingStep(t) PROVE UNCHANGED reqs
  <2>1. CASE PreparingStep(t)
    BY <2>1 DEF PreparingStep, CreateRequest, DrawNonce, RandomFails, Seal, netVars
  <2>2. CASE ~PreparingStep(t)
    BY <1>1, <2>2, OtherStepsPrepareNothing
  <2> QED
    BY <2>1, <2>2
<1>2. ASSUME NEW t \in Threads, Begin(t) \/ Unlock(t) \/ Consume(t) PROVE UNCHANGED reqs
  BY <1>2 DEF Begin, CallRejected, CallRefused, CallLocks, Refuse, Unlock, Consume, netVars
<1>3. ASSUME NEW c \in Contexts, NEW w \in WorkBuffers, SdkInitialize(c, w) PROVE UNCHANGED reqs
  BY <1>3 DEF SdkInitialize, netVars
<1>4. CASE ServeNew \/ ServeAgain \/ UNCHANGED vars
  BY <1>4 DEF ServeNew, ServeAgain, Serve, vars
<1> QED
  BY <1>1, <1>2, <1>3, <1>4 DEF Next, Step, InnerStep

LEMMA RequestInvStep ==
  ASSUME ResultsInv, RequestInv, [Next]_vars
  PROVE  RequestInv'
<1>1. NetTypes /\ DataTypes /\ LockTypes /\ CallsChosen /\ NetGrows
  BY NetOnlyGrows DEF ResultsInv, LockInv, DataTypes, ExchangeInv
<1>2. ASSUME UNCHANGED reqs PROVE RequestInv'
  BY <1>2 DEF RequestInv, OwnRequest
<1>3. ASSUME NEW t \in Threads, Send(t) \/ Forward(t) PROVE RequestInv'
  <2>1. /\ pc[t] # "idle"
        /\ \E m : /\ Posted(t, m)
                  /\ IF call[t].op # "gateway" THEN call[t].op \in MessageOps
                     ELSE m = ForeignMessage(call[t].id)
    <3>1. CASE Send(t)
      <4>1. call[t].op \in MessageOps /\ call[t].op # "gateway"
        BY <1>1, <3>1, SendSendsPrepared
           DEF ResultsInv, ExchangeInv, Prepared, DrawnInv, MessageOps, LockInv
      <4> QED
        BY <3>1, <4>1 DEF Send, Proceeds
    <3>2. CASE Forward(t)
      BY <3>2 DEF Forward
    <3> QED
      BY <1>3, <3>1, <3>2
  <2>2. PICK m : /\ Posted(t, m)
                 /\ IF call[t].op # "gateway" THEN call[t].op \in MessageOps
                    ELSE m = ForeignMessage(call[t].id)
    BY <2>1
  <2>3. /\ Len(reqs') = Len(reqs) + 1 /\ Len(reqs) \in Nat
        /\ reqs'[Len(reqs) + 1] = [ctx |-> Ctx(t), call |-> call[t], msg |-> m]
    BY <1>1, <2>2, PostedGrows DEF NetTypes
  <2>4. call[t] \in CallsOf[t]
    BY <1>1, <2>1 DEF CallsChosen
  <2>5. ASSUME NEW q \in 1..Len(reqs')
        PROVE  /\ \E u \in Threads : reqs'[q].call \in CallsOf[u]
               /\ IF reqs'[q].call.op # "gateway" THEN reqs'[q].call.op \in MessageOps
                  ELSE reqs'[q].msg = ForeignMessage(reqs'[q].call.id)
    <3>1. CASE q \in 1..Len(reqs)
      BY <1>1, <3>1 DEF NetGrows, RequestInv, OwnRequest
    <3>2. CASE q = Len(reqs) + 1
      BY <2>2, <2>3, <2>4, <3>2
    <3> QED
      BY <2>3, <3>1, <3>2
  <2> QED
    BY <2>5 DEF RequestInv, OwnRequest, ForeignMessage
<1> QED
  BY <1>1, <1>2, <1>3, OnlyPostingAsks DEF PostingStep

-----------------------------------------------------------------------------
(* firmups_sdk_firmware_download_get_chunk: although ret_code is static, a *)
(* download through one context always reports on itself.  It returns NONE *)
(* exactly when it has set *output, however many other threads and         *)
(* contexts run other operations, and whatever fails.                      *)
THEOREM ChunkReturnsAreHonest ==
  ASSUME OneDownloadContext
  PROVE  Spec => []ChunkReturnHonest
<1>1. ResultsInv => ChunkReturnHonest
  BY DEF ResultsInv, ReplyInv, CodeInvariant, HandedOut, ChunkReturnHonest, Returned, IsChunk,
         Finishing
<1> QED
  BY <1>1, ResultsCorrect, PTL
=============================================================================
