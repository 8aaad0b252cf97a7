--------------------------- MODULE SdkResultProofs --------------------------
(***************************************************************************)
(* What the results of the operations mean: a value, a record, a status or *)
(* an error that the server had for this call.                             *)
(***************************************************************************)
EXTENDS SdkReplyProofs

(* The application passes what the parameter types hold (sdk.h:66-69):     *)
(* uint32_t firmware, uint8_t status.                                      *)
UpdatesFit ==
  \A t \in Threads : \A k \in CallsOf[t] :
    k.op = "set_device_info" => k.id < UINT32 /\ k.type < UINT8

(* So are the firmwares the server wants installed (sdk.h:61).             *)
DesiredFit == \A d \in ServerDevices : Desired[d].val < UINT32

-----------------------------------------------------------------------------
(* What a parser reads in a device record.                                 *)
ReadAs(it, width) == IF it.type = "null" THEN 0 ELSE it.val % width

LEMMA InfoRead ==
  ASSUME NEW opcode, NEW wanted, NEW f, NEW types, NEW old, NEW a, NEW b, NEW c,
         f = Plain(Array(<<a, b, c>>)),
         InfoFields(opcode, wanted, f, types, old).code = "NONE"
  PROVE  /\ opcode = wanted
         /\ a.type \in types[1] /\ b.type \in types[2] /\ c.type \in types[3]
         /\ InfoFields(opcode, wanted, f, types, old).vals =
              <<ReadAs(a, UINT32), ReadAs(b, UINT32), ReadAs(c, UINT8)>>
<1> DEFINE its == Fields(f)
           info == InfoFields(opcode, wanted, f, types, old)
           read(i) == IF its[i].type = "null" THEN 0
                      ELSE its[i].val % (IF i = 3 THEN UINT8 ELSE UINT32)
<1>1. its = <<a, b, c>>
  <2>1. PICK s : s = <<a, b, c>>
    OBVIOUS
  <2>2. f.kind = "plain" /\ f.body.array /\ f.body.items = s
    BY <2>1 DEF Plain, Array
  <2> QED
    BY <2>1, <2>2 DEF Fields
<1>2. /\ opcode = wanted /\ Reads(its, types, 3)
      /\ info.vals = [i \in 1..3 |-> IF Reads(its, types, i) THEN read(i) ELSE old[i]]
  BY "NONE" # "UNEXPECTED_RESPONSE", "NONE" # "OPERATION_PARSING" DEF InfoFields
<1>3. /\ its[1].type \in types[1] /\ its[2].type \in types[2] /\ its[3].type \in types[3]
      /\ \A i \in 1..3 : Reads(its, types, i)
  BY <1>2 DEF Reads
<1>4. info.vals = [i \in 1..3 |-> read(i)]
  BY <1>2, <1>3
<1>5. /\ read(1) = ReadAs(a, UINT32) /\ read(2) = ReadAs(b, UINT32) /\ read(3) = ReadAs(c, UINT8)
  BY <1>1 DEF ReadAs
<1> HIDE DEF read, its, info
<1>6. info.vals = <<read(1), read(2), read(3)>>
  BY <1>4
<1> QED
  BY <1>1, <1>2, <1>3, <1>5, <1>6 DEF info

(* What a call that succeeds has received.                                 *)
LEMMA SuccessIsParsed ==
  ASSUME ResultsInv, NEW t \in Threads, NEW op \in MessageOps \ {"get_chunk"}, Succeeded(t, op)
  PROVE  /\ Asked(t) /\ EchoMatches(t) /\ loc[t].tok \in 1..Len(reqs)
         /\ call[t].op = op /\ call[t] \in CallsOf[t] /\ call[t] \in CallRecord
         /\ \E r \in reps :
              /\ MayReach(t, r) /\ ParsedAs(t, r.msg.hdr.opcode, Plain(r.msg.body))
              /\ r.tok \in served /\ r.tok \in 1..Len(reqs)
              /\ AnswerTo(reqs[r.tok].msg, r.msg)
<1>1. pc[t] = "returned" /\ call[t].op = op /\ ret[t] = "NONE"
  BY DEF Succeeded, Returned
<1>2. Asked(t) /\ Parsed(t) /\ EchoMatches(t)
  BY <1>1 DEF ResultsInv, ReplyInv, Following, ResultInv, Finishing
<1>3. NetTypes /\ LockTypes /\ RepliesAnswer /\ CallsChosen
  BY DEF ResultsInv, LockInv, DataTypes, ReplyInv, ExchangeInv
<1>4. call[t] \in CallRecord /\ call[t] \in CallsOf[t]
  BY <1>1, <1>3 DEF LockTypes, CallsChosen
<1> QED
  BY <1>1, <1>2, <1>3, <1>4 DEF Asked, Parsed, RepliesAnswer, NetTypes

-----------------------------------------------------------------------------
(* set_device_info.                                                        *)

(* A request for it was sent by such a call, for the device of its         *)
(* context, and carries what the call was given.                           *)
LEMMA UpdateRequest ==
  ASSUME ResultsInv, RequestInv, NEW q \in 1..Len(reqs),
         reqs[q].msg.hdr.opcode = OPERATION_ID_SET_DEVICE_INFO_REQUEST
  PROVE  \E k \in UNION {CallsOf[t] : t \in Threads} :
           /\ k.op = "set_device_info" /\ k \in CallRecord
           /\ reqs[q].msg.body = Array(<<Uint(k.id), Uint(k.type)>>)
           /\ reqs[q].msg.hdr.dev = DeviceId[reqs[q].ctx]
<1>1. PICK m, k : m = reqs[q].msg /\ k = reqs[q].call
  OBVIOUS
<1>2. OwnRequest(q)
  <2>1. ForeignMessage(k.id).hdr.opcode # OPERATION_ID_SET_DEVICE_INFO_REQUEST
    BY DEF ForeignMessage, Cose, OPERATION_ID_GET_DEVICE_INFO_REQUEST,
           OPERATION_ID_SET_DEVICE_INFO_REQUEST
  <2> QED
    BY <1>1, <2>1 DEF RequestInv
<1>3. /\ m.hdr.opcode = RequestOpcode(k.op) /\ (k.op # "get_chunk" => m.body = Operation(k))
      /\ m.hdr.dev = DeviceId[reqs[q].ctx]
  BY <1>1, <1>2 DEF ResultsInv, ExchangeInv, SentInv
<1>4. k.op \in MessageOps /\ k \in CallRecord /\ k \in UNION {CallsOf[t] : t \in Threads}
  <2>1. PICK t \in Threads : k \in CallsOf[t]
    BY <1>1 DEF RequestInv
  <2>2. k \in UNION {CallsOf[u] : u \in Threads} /\ k \in CallRecord
    BY <2>1, SdkAssumption
  <2> QED
    BY <1>1, <1>2, <2>2 DEF RequestInv
<1>5. k.op = "set_device_info"
  BY <1>1, <1>3, <1>4
     DEF MessageOps, RequestOpcode, OPERATION_ID_GET_PARAMETER_REQUEST,
         OPERATION_ID_GET_DEVICE_INFO_REQUEST, OPERATION_ID_SET_DEVICE_INFO_REQUEST,
         OPERATION_ID_GET_FIRMWARE_REQUEST
<1>6. m.body = Array(<<Uint(k.id), Uint(k.type)>>)
  BY <1>3, <1>5 DEF Operation, RequestPayload, operation_create_set_device_info_request
<1> QED
  BY <1>1, <1>3, <1>4, <1>5, <1>6

(* What the server makes of the record then.                               *)
LEMMA RecordApplied ==
  ASSUME NEW h, NEW k, NEW rec, NEW p, p = Array(<<Uint(k.id), Uint(k.type)>>),
         h.opcode = OPERATION_ID_SET_DEVICE_INFO_REQUEST, Decodable(h, p),
         Desired[h.dev] # NoItem
  PROVE  RecordAfter(h, p, rec) = [firmware |-> Uint(k.id), status |-> k.type]
<1>1. p.items = <<Uint(k.id), Uint(k.type)>> /\ Uint(k.type).val = k.type
  BY DEF Array, Uint
<1>2. p.items[1] = Uint(k.id) /\ p.items[2].val = k.type
  BY <1>1
<1> QED
  BY <1>2 DEF RecordAfter

(* A reply that passes for one to set_device_info answers one.             *)
LEMMA UpdateReply ==
  ASSUME ResultsInv, RequestInv, NEW r \in reps, r.tok \in 1..Len(reqs),
         AnswerTo(reqs[r.tok].msg, r.msg),
         r.msg.hdr.opcode = OPERATION_ID_SET_DEVICE_INFO_RESPONSE
  PROVE  \E k \in UNION {CallsOf[t] : t \in Threads} :
           /\ k.op = "set_device_info" /\ k \in CallRecord
           /\ reqs[r.tok].msg.hdr.opcode = OPERATION_ID_SET_DEVICE_INFO_REQUEST
           /\ reqs[r.tok].msg.body = Array(<<Uint(k.id), Uint(k.type)>>)
           /\ reqs[r.tok].msg.hdr.dev = DeviceId[reqs[r.tok].ctx]
           /\ Records(reqs[r.tok].msg, [firmware |-> Uint(k.id), status |-> k.type])
           /\ \E b : r.msg.body = Array(<<Uint(k.id), b, Uint(k.type)>>)
<1>1. PICK q, h, p : q = r.tok /\ h = reqs[q].msg.hdr /\ p = reqs[q].msg.body
  OBVIOUS
<1>2. PICK rec, s :
        /\ s = ServerReply(h, p, rec)
        /\ s.opcode = OPERATION_ID_SET_DEVICE_INFO_RESPONSE /\ r.msg.body = s.body
  BY <1>1 DEF AnswerTo, Cose
<1>3. SetInfoAnswer(h, p, rec, s)
  BY <1>2, AnswerByOpcode
<1>4. PICK k \in UNION {CallsOf[t] : t \in Threads} :
        /\ k.op = "set_device_info" /\ k \in CallRecord
        /\ p = Array(<<Uint(k.id), Uint(k.type)>>)
        /\ h.dev = DeviceId[reqs[q].ctx]
  BY <1>1, <1>3, UpdateRequest DEF SetInfoAnswer
<1>5. \A old : RecordAfter(h, p, old) = [firmware |-> Uint(k.id), status |-> k.type]
  BY <1>3, <1>4, RecordApplied DEF SetInfoAnswer
<1>6. s.body = Array(<<Uint(k.id), Desired[h.dev], Uint(k.type)>>)
  BY <1>3, <1>5 DEF SetInfoAnswer, InfoBody
<1>7. Records(reqs[q].msg, [firmware |-> Uint(k.id), status |-> k.type])
  BY <1>1, <1>5 DEF Records, AnswerTo
<1> QED
  BY <1>1, <1>2, <1>3, <1>4, <1>6, <1>7 DEF SetInfoAnswer

(* What a set_device_info that succeeds has received.                      *)
LEMMA UpdateIsApplied ==
  ASSUME UpdatesFit, ResultsInv, RequestInv
  PROVE  UpdateApplied
<1> SUFFICES ASSUME NEW t \in Threads, Succeeded(t, "set_device_info")
             PROVE  \E q \in served :
                      /\ reqs[q].ctx = Ctx(t)
                      /\ reqs[q].msg.hdr.dev = DeviceId[Ctx(t)]
                      /\ reqs[q].msg.hdr.opcode = OPERATION_ID_SET_DEVICE_INFO_REQUEST
                      /\ Records(reqs[q].msg,
                                 [firmware |-> Uint(call[t].id), status |-> call[t].type])
  BY DEF UpdateApplied
<1>1. /\ EchoMatches(t) /\ call[t].op = "set_device_info"
      /\ call[t] \in CallsOf[t] /\ call[t] \in CallRecord
  BY SuccessIsParsed DEF MessageOps
<1>2. PICK r \in reps :
        /\ MayReach(t, r) /\ ParsedAs(t, r.msg.hdr.opcode, Plain(r.msg.body))
        /\ r.tok \in served /\ r.tok \in 1..Len(reqs) /\ AnswerTo(reqs[r.tok].msg, r.msg)
  BY SuccessIsParsed DEF MessageOps
<1>3. PICK f, op : f = Plain(r.msg.body) /\ op = r.msg.hdr.opcode
  OBVIOUS
<1>4. PICK old \in [1..3 -> Nat] :
        LET i == operation_parse_set_device_info_response(op, f, old)
        IN  i.code = "NONE" /\ out[t].vals = i.vals
  BY <1>1, <1>2, <1>3 DEF ParsedAs
<1>5. op = OPERATION_ID_SET_DEVICE_INFO_RESPONSE
  BY <1>4, "NONE" # "UNEXPECTED_RESPONSE"
     DEF operation_parse_set_device_info_response, InfoFields
<1>6. PICK k \in UNION {CallsOf[u] : u \in Threads} :
        /\ k.op = "set_device_info" /\ k \in CallRecord
        /\ reqs[r.tok].msg.hdr.opcode = OPERATION_ID_SET_DEVICE_INFO_REQUEST
        /\ reqs[r.tok].msg.hdr.dev = DeviceId[reqs[r.tok].ctx]
        /\ Records(reqs[r.tok].msg, [firmware |-> Uint(k.id), status |-> k.type])
        /\ \E b : r.msg.body = Array(<<Uint(k.id), b, Uint(k.type)>>)
  BY <1>2, <1>3, <1>5, UpdateReply
<1>7. PICK b : r.msg.body = Array(<<Uint(k.id), b, Uint(k.type)>>)
  BY <1>6
<1>8. out[t].vals =
        <<ReadAs(Uint(k.id), UINT32), ReadAs(b, UINT32), ReadAs(Uint(k.type), UINT8)>>
  BY <1>3, <1>4, <1>7, InfoRead DEF operation_parse_set_device_info_response
<1>9. /\ k.id \in Nat /\ k.type \in Nat /\ k.id < UINT32 /\ k.type < UINT8
  <2>1. PICK u \in Threads : k \in CallsOf[u]
    BY <1>6
  <2> QED
    BY <1>6, <2>1 DEF UpdatesFit, CallRecord
<1>10. k.id % UINT32 = k.id /\ k.type % UINT8 = k.type
  BY <1>9, UINT32Assumption DEF UINT8
<1>11. out[t].vals[1] = k.id /\ out[t].vals[3] = k.type
  BY <1>8, <1>10 DEF ReadAs, Uint
<1>12. call[t].id = k.id /\ call[t].type = k.type
  BY <1>1, <1>11 DEF EchoMatches, IsChunk
<1>13. reqs[r.tok].ctx = Ctx(t)
  BY <1>2 DEF MayReach
<1> QED
  BY <1>2, <1>6, <1>12, <1>13

(* firmups_sdk_set_device_info: NONE means that the server has served a    *)
(* request that it opened and that put the very firmware and status of the *)
(* call on this device's record, although the reply may answer another     *)
(* request, arrive late, twice or damaged, a failing key callback may have *)
(* sealed requests the server cannot open, and other threads and gateway   *)
(* calls send through the same callbacks.                                  *)
THEOREM UpdatesAreApplied ==
  ASSUME OneDownloadContext, UpdatesFit
  PROVE  Spec => []UpdateApplied
<1>1. ResultsInv /\ RequestInv => UpdateApplied
  BY UpdateIsApplied
<1>2. ResultsInv /\ RequestInv /\ [Next]_vars => ResultsInv' /\ RequestInv'
  BY ResultsInvStep, RequestInvStep
<1> QED
  BY <1>1, <1>2, ResultsInvInit, RequestInvInit, PTL DEF Spec

-----------------------------------------------------------------------------
(* With replies matched to requests, an answer belongs to the call.        *)
LEMMA AnswerToTheCall ==
  ASSUME Matching = TRUE, ResultsInv, NEW t \in Threads, Asked(t),
         call[t].op \in MessageOps \ {"get_chunk"},
         NEW r \in reps, MayReach(t, r), AnswerTo(reqs[r.tok].msg, r.msg)
  PROVE  LET m == reqs[r.tok].msg
         IN  /\ r.tok = loc[t].tok
             /\ m.body = Operation(call[t])
             /\ m.hdr.dev = DeviceId[Ctx(t)] /\ m.hdr.opcode = RequestOpcode(call[t].op)
             /\ \E rec \in Record :
                  LET s == ServerReply(m.hdr, m.body, rec)
                  IN  r.msg.hdr.opcode = s.opcode /\ r.msg.body = s.body
<1>1. r.tok = loc[t].tok /\ r.tok \in 1..Len(reqs) /\ reqs[r.tok].call = call[t]
      /\ reqs[r.tok].ctx = Ctx(t)
  BY DEF MayReach, Asked
<1>2. OwnRequest(r.tok)
  BY <1>1 DEF OwnRequest, MessageOps
<1>3. /\ reqs[r.tok].msg.body = Operation(call[t])
      /\ reqs[r.tok].msg.hdr.dev = DeviceId[Ctx(t)]
      /\ reqs[r.tok].msg.hdr.opcode = RequestOpcode(call[t].op)
  BY <1>1, <1>2 DEF ResultsInv, ExchangeInv, SentInv
<1>4. PICK m : m = reqs[r.tok].msg
  OBVIOUS
<1>5. \E rec \in Record :
        LET s == ServerReply(m.hdr, m.body, rec)
        IN  r.msg.hdr.opcode = s.opcode /\ r.msg.body = s.body
  <2>1. PICK rec, s :
          /\ rec \in Record /\ s = ServerReply(m.hdr, m.body, rec)
          /\ r.msg = Cose([dev |-> m.hdr.dev, opcode |-> s.opcode, nonce |-> 1],
                          m.hdr.dev, s.body)
    BY <1>4 DEF AnswerTo
  <2>2. r.msg.hdr.opcode = s.opcode /\ r.msg.body = s.body
    BY <2>1 DEF Cose
  <2> QED
    BY <2>1, <2>2
<1> QED
  BY <1>1, <1>3, <1>4, <1>5

(* get_parameter.                                                          *)
LEMMA ScalarRead == ASSUME NEW it PROVE FirstItem(Plain(Scalar(it))) = it
<1>1. PICK its : its = <<it>>
  OBVIOUS
<1>2. PICK f : f = Plain(Scalar(it))
  OBVIOUS
<1>3. f.kind = "plain" /\ ~f.body.array /\ f.body.items = its /\ its # <<>> /\ its[1] = it
  BY <1>1, <1>2 DEF Plain, Scalar
<1> QED
  BY <1>2, <1>3 DEF FirstItem

(* firmups_sdk_get_parameter, where send_data returns only a reply to its  *)
(* own request: NONE means that the application's memory holds the value   *)
(* the server keeps under the id it asked for, with its true size and,     *)
(* for a string, with room for the terminator.                             *)
THEOREM ParametersAreIntact ==
  ASSUME OneDownloadContext, Matching = TRUE
  PROVE  Spec => []ParameterIntegrity
<1>1. ASSUME ResultsInv, NEW t \in Threads, Succeeded(t, "get_parameter")
      PROVE  LET k == call[t]
                 v == Params[k.id]
                 o == out[t]
             IN  /\ k.id \in DOMAIN Params
                 /\ IF k.type = BOOLEAN_TYPE
                    THEN o.item.val = 1 <=> v.type = "nint" \/ v.val # 0
                    ELSE o.item = v
                 /\ k.type = STRING_TYPE => o.size = v.len + 1 /\ o.size <= k.size
                 /\ k.type = BINARY => o.size = v.len /\ o.size <= k.size
  <2>1. /\ Asked(t) /\ call[t].op = "get_parameter"
        /\ call[t] \in CallsOf[t] /\ call[t] \in CallRecord
    BY <1>1, SuccessIsParsed DEF MessageOps
  <2>2. PICK r \in reps :
          /\ MayReach(t, r) /\ ParsedAs(t, r.msg.hdr.opcode, Plain(r.msg.body))
          /\ AnswerTo(reqs[r.tok].msg, r.msg)
    BY <1>1, SuccessIsParsed DEF MessageOps
  <2>3. PICK k, f, op, o :
          k = call[t] /\ f = Plain(r.msg.body) /\ op = r.msg.hdr.opcode /\ o = out[t]
    OBVIOUS
  <2> DEFINE p == operation_parse_get_parameter_response(op, k.type, f, k.size, 0)
  <2>4. p.code = "NONE" /\ o.item = p.item /\ o.size = p.size
    BY <2>1, <2>2, <2>3 DEF ParsedAs
  <2>5. PICK h, b, rec : /\ h = reqs[r.tok].msg.hdr /\ b = reqs[r.tok].msg.body
                         /\ b = Operation(k)
                         /\ op = ServerReply(h, b, rec).opcode
                         /\ r.msg.body = ServerReply(h, b, rec).body
    BY <1>1, <2>1, <2>2, <2>3, AnswerToTheCall DEF MessageOps
  <2>6. op = OPERATION_ID_GET_PARAMETER_RESPONSE
    BY <2>4, "NONE" # "UNEXPECTED_RESPONSE" DEF operation_parse_get_parameter_response
  <2>7. ParameterAnswer(h, b, ServerReply(h, b, rec))
    BY <2>5, <2>6, AnswerByOpcode
  <2>8. b.items[1].val = k.id
    <3>1. b = Array(<<Uint(k.id), Uint(k.type)>>)
      BY <2>1, <2>3, <2>5 DEF Operation, RequestPayload, operation_create_get_parameter_request
    <3>2. b.items = <<Uint(k.id), Uint(k.type)>> /\ Uint(k.id).val = k.id
      BY <3>1 DEF Array, Uint
    <3> QED
      BY <3>2
  <2>9. k.id \in DOMAIN Params /\ f = Plain(Scalar(Params[k.id]))
    BY <2>3, <2>5, <2>7, <2>8 DEF ParameterAnswer
  <2>10. PICK v : v = Params[k.id]
    OBVIOUS
  <2>11. FirstItem(f) = v /\ v \in Item
    BY <2>9, <2>10, ScalarRead, SdkAssumption
  <2>12. k.size \in Nat /\ v.len \in Nat /\ v.val \in Nat
    BY <2>1, <2>3, <2>11 DEF CallRecord, Item
  <2>13. /\ k.type = BOOLEAN_TYPE =>
              p.item = Uint(Truth(v)) /\ v.type \in {"uint", "nint"}
         /\ k.type # BOOLEAN_TYPE => p.item = v
         /\ k.type \in {STRING_TYPE, BINARY} =>
              /\ FitsBuffer(v.len, k.size)
              /\ p.size = IF k.type = STRING_TYPE THEN v.len + 1 ELSE v.len
    <3>1. CASE Textual(k.type)
      <4>1. p = [code |-> "NONE", item |-> v,
                 size |-> IF k.type = STRING_TYPE THEN v.len + 1 ELSE v.len]
            /\ FitsBuffer(v.len, k.size)
        BY <2>4, <2>6, <2>11, <3>1, "NONE" # "OPERATION_PARSING",
           "NONE" # "BUFFER_TOO_SMALL", "NONE" # "INVALID_ARGUMENT"
           DEF operation_parse_get_parameter_response
      <4> HIDE DEF p
      <4>2. k.type # BOOLEAN_TYPE
        BY <3>1 DEF Textual, BOOLEAN_TYPE, STRING_TYPE, BINARY
      <4> QED
        BY <4>1, <4>2
    <3>2. CASE ~Textual(k.type)
      <4>1. /\ ~(v.type \notin Scalars(k.type))
            /\ p = [code |-> "NONE",
                    item |-> IF k.type = BOOLEAN_TYPE THEN Uint(Truth(v)) ELSE v, size |-> 0]
        <5> DEFINE result(code, x) == [code |-> code, item |-> x, size |-> 0]
                   unknown == ~Integral(k.type) /\ k.type \notin {FLOAT, DOUBLE}
                   wrong == v.type \notin Scalars(k.type) \/ (Integral(k.type) /\ ~Int64(v.val))
                   small == k.size < ScalarSize(k.type)
                   value == IF k.type = BOOLEAN_TYPE THEN Uint(Truth(v)) ELSE v
        <5>1. p = IF unknown THEN result("INVALID_ARGUMENT", NoItem)
                  ELSE IF wrong THEN result("OPERATION_PARSING", NoItem)
                  ELSE IF small THEN result("BUFFER_TOO_SMALL", NoItem)
                  ELSE result("NONE", value)
          BY <2>6, <2>11, <3>2 DEF operation_parse_get_parameter_response
        <5>2. ~wrong /\ p = result("NONE", value)
          <6> HIDE DEF p, unknown, wrong, small, value
          <6> QED
            BY <2>4, <5>1, "NONE" # "OPERATION_PARSING", "NONE" # "BUFFER_TOO_SMALL",
               "NONE" # "INVALID_ARGUMENT"
        <5>3. ~(v.type \notin Scalars(k.type))
          BY <5>2, Zenon
        <5> HIDE DEF p, wrong
        <5> QED
          BY <5>2, <5>3
      <4> HIDE DEF p
      <4>2. k.type = BOOLEAN_TYPE => Scalars(k.type) = {"uint", "nint"}
        BY DEF Scalars, Integral, Textual, INTEGER, BOOLEAN_TYPE, FLOAT, DOUBLE,
               STRING_TYPE, BINARY
      <4> QED
        BY <3>2, <4>1, <4>2 DEF Textual
    <3> QED
      BY <3>1, <3>2
  <2>14. k.type = BOOLEAN_TYPE => (o.item.val = 1 <=> v.type = "nint" \/ v.val # 0)
    BY <2>4, <2>13 DEF Uint, Truth
  <2>15. k.type # BOOLEAN_TYPE => o.item = v
    BY <2>4, <2>13
  <2>16. /\ k.type = STRING_TYPE => o.size = v.len + 1 /\ v.len < k.size
         /\ k.type = BINARY => o.size = v.len /\ v.len < k.size
    <3> HIDE DEF p
    <3> QED
      BY <2>4, <2>13 DEF FitsBuffer, STRING_TYPE, BINARY
  <2> HIDE DEF p
  <2> QED
    BY <2>3, <2>9, <2>10, <2>12, <2>14, <2>15, <2>16
<1>2. ResultsInv => ParameterIntegrity
  BY <1>1 DEF ParameterIntegrity
<1> QED
  BY <1>2, ResultsCorrect, PTL

-----------------------------------------------------------------------------
(* get_device_info.                                                        *)

(* The firmware the server wants does not depend on the moment: whatever   *)
(* reply a get_device_info takes for its own, it learns that firmware.     *)
NoGateways == \A t \in Threads : \A k \in CallsOf[t] : k.op # "gateway"

LEMMA DesiredIsLearned ==
  ASSUME NoGateways, DesiredFit, ResultsInv, RequestInv,
         NEW t \in Threads, Succeeded(t, "get_device_info")
  PROVE  LET dev == DeviceId[Ctx(t)]
         IN  dev \in ServerDevices /\ out[t].vals[2] = Desired[dev].val
<1> DEFINE dev == DeviceId[Ctx(t)]
<1>1. call[t].op = "get_device_info"
  BY SuccessIsParsed DEF MessageOps
<1>2. PICK r \in reps :
        /\ MayReach(t, r) /\ ParsedAs(t, r.msg.hdr.opcode, Plain(r.msg.body))
        /\ r.tok \in 1..Len(reqs) /\ AnswerTo(reqs[r.tok].msg, r.msg)
  BY SuccessIsParsed DEF MessageOps
<1>3. PICK f, op, q : f = Plain(r.msg.body) /\ op = r.msg.hdr.opcode /\ q = r.tok
  OBVIOUS
<1>4. PICK old \in [1..3 -> Nat] :
        LET i == operation_parse_get_device_info_response(op, f, old)
        IN  i.code = "NONE" /\ out[t].vals = i.vals
  BY <1>1, <1>2, <1>3 DEF ParsedAs
<1>5. op = OPERATION_ID_GET_DEVICE_INFO_RESPONSE
  BY <1>4, "NONE" # "UNEXPECTED_RESPONSE"
     DEF operation_parse_get_device_info_response, InfoFields
<1>6. PICK h, p : h = reqs[q].msg.hdr /\ p = reqs[q].msg.body
  OBVIOUS
<1>7. PICK rec, s :
        /\ s = ServerReply(h, p, rec)
        /\ s.opcode = OPERATION_ID_GET_DEVICE_INFO_RESPONSE /\ r.msg.body = s.body
  <2>1. PICK a : a = r.msg
    OBVIOUS
  <2>2. AnswerTo(reqs[q].msg, a) /\ a.hdr.opcode = OPERATION_ID_GET_DEVICE_INFO_RESPONSE
    BY <1>2, <1>3, <1>5, <2>1
  <2> QED
    BY <1>6, <2>1, <2>2 DEF AnswerTo, Cose
<1>8. s.body = InfoBody(rec, h.dev)
  BY <1>7, AnswerByOpcode DEF GetInfoAnswer
<1>9. h.dev = dev /\ h.dev \in ServerDevices
  <2>1. OwnRequest(q)
    BY <1>2, <1>3 DEF RequestInv, OwnRequest, NoGateways
  <2>2. h.dev = DeviceId[reqs[q].ctx]
    BY <1>2, <1>3, <1>6, <2>1 DEF ResultsInv, ExchangeInv, SentInv
  <2> QED
    BY <1>2, <1>3, <1>6, <2>2 DEF MayReach, AnswerTo, Authentic
<1>10. PICK a, b, c :
         a = rec.firmware /\ b = Desired[dev] /\ c = Uint(rec.status) /\ f = Plain(Array(<<a, b, c>>))
  BY <1>3, <1>7, <1>8, <1>9 DEF InfoBody
<1>11. /\ b.type \in {"uint"}
       /\ out[t].vals = <<ReadAs(a, UINT32), ReadAs(b, UINT32), ReadAs(c, UINT8)>>
  BY <1>4, <1>10, InfoRead DEF operation_parse_get_device_info_response
<1>12. b.val \in Nat /\ b.val < UINT32
  <2>1. b \in Item
    BY <1>9, <1>10, SdkAssumption DEF ServerDevices
  <2> QED
    BY <1>9, <1>10, <2>1 DEF DesiredFit, Item
<1>13. ReadAs(b, UINT32) = b.val
  BY <1>11, <1>12, UINT32Assumption DEF ReadAs
<1> QED
  BY <1>9, <1>10, <1>11, <1>13

(* The records of the server hold what set_device_info can pass.           *)
RecordFits(rec) ==
  /\ rec.firmware = Null \/ \E n \in 0..(UINT32 - 1) : rec.firmware = Uint(n)
  /\ rec.status \in 0..(UINT8 - 1)

RecordsFit ==
  /\ \A d \in ServerDevices : RecordFits(srv[d])
  /\ \A t \in Threads : \A rec \in window[t] : RecordFits(rec)

AskingInfo(t) == call[t].op = "get_device_info" /\ pc[t] \in Handling \cup {"wait"}

(* A record the server sends to a call is one it had during that call.     *)
CurrentReply(t, r) ==
  r.tok = loc[t].tok /\ r.msg.hdr.opcode = OPERATION_ID_GET_DEVICE_INFO_RESPONSE
    => \E rec \in window[t] : r.msg.body = InfoBody(rec, DeviceId[Ctx(t)])

CurrentInv(t) == AskingInfo(t) => \A r \in reps : CurrentReply(t, r)

CurrentInfo(t) ==
  \E rec \in window[t] :
    out[t].vals = <<rec.firmware.val, Desired[DeviceId[Ctx(t)]].val, rec.status>>

InfoInv(t) ==
  pc[t] \in Finishing /\ ret[t] = "NONE" /\ call[t].op = "get_device_info" => CurrentInfo(t)

InfosInv == RecordsFit /\ \A t \in Threads : CurrentInv(t) /\ InfoInv(t)

LEMMA RecordAfterFits ==
  ASSUME UpdatesFit, ResultsInv, RequestInv, NEW q \in 1..Len(reqs),
         NEW rec, RecordFits(rec)
  PROVE  RecordFits(RecordAfter(reqs[q].msg.hdr, reqs[q].msg.body, rec))
<1>1. PICK h, p : h = reqs[q].msg.hdr /\ p = reqs[q].msg.body
  OBVIOUS
<1>2. CASE /\ h.opcode = OPERATION_ID_SET_DEVICE_INFO_REQUEST
           /\ Decodable(h, p) /\ Desired[h.dev] # NoItem
  <2>1. PICK k \in UNION {CallsOf[t] : t \in Threads} :
          /\ k.op = "set_device_info" /\ k \in CallRecord
          /\ p = Array(<<Uint(k.id), Uint(k.type)>>)
    BY <1>1, <1>2, UpdateRequest
  <2>2. RecordAfter(h, p, rec) = [firmware |-> Uint(k.id), status |-> k.type]
    BY <1>2, <2>1, RecordApplied
  <2>3. k.id \in 0..(UINT32 - 1) /\ k.type \in 0..(UINT8 - 1)
    <3>1. PICK t \in Threads : k \in CallsOf[t]
      BY <2>1
    <3>2. k.id < UINT32 /\ k.type < UINT8 /\ k.id \in Nat /\ k.type \in Nat
      BY <2>1, <3>1 DEF UpdatesFit, CallRecord
    <3>3. PICK w, v, id, type : w = UINT32 /\ v = UINT8 /\ id = k.id /\ type = k.type
      OBVIOUS
    <3>4. w \in Nat /\ v \in Nat /\ id \in Nat /\ type \in Nat /\ id < w /\ type < v
      BY <3>2, <3>3, UINT32Assumption DEF UINT8
    <3>5. id \in 0..(w - 1) /\ type \in 0..(v - 1)
      BY <3>4
    <3> QED
      BY <3>3, <3>5
  <2> QED
    BY <1>1, <2>2, <2>3 DEF RecordFits
<1>3. CASE ~(/\ h.opcode = OPERATION_ID_SET_DEVICE_INFO_REQUEST
             /\ Decodable(h, p) /\ Desired[h.dev] # NoItem)
  <2>1. RecordAfter(h, p, rec) = rec
    BY <1>3 DEF RecordAfter
  <2> QED
    BY <1>1, <2>1
<1> QED
  BY <1>2, <1>3

(* Serving a request: the record changes, and shows in every window open   *)
(* on it.                                                                  *)
LEMMA ServeChanges ==
  ASSUME DataTypes, NEW q \in 1..Len(reqs), Serve(q)
  PROVE  LET m   == reqs[q].msg
             rec == srv[m.hdr.dev]
         IN  /\ UNCHANGED <<pc, call, ret, loc, out, reqs>>
             /\ \/ UNCHANGED <<reps, srv, window>>
                \/ /\ Authentic(m) /\ m.hdr.dev \in ServerDevices
                   /\ reps' = reps \cup {[tok |-> q, msg |-> Answer(m)]}
                   /\ srv' = [srv EXCEPT ![m.hdr.dev] = RecordAfter(m.hdr, m.body, rec)]
                   /\ \A t \in Threads :
                        window'[t] = IF Inside(t) /\ DeviceId[Ctx(t)] = m.hdr.dev
                                     THEN window[t] \cup {RecordAfter(m.hdr, m.body, rec)}
                                     ELSE window[t]
<1>1. srv \in [ServerDevices -> Record]
  BY DEF DataTypes, NetTypes
<1>2. UNCHANGED <<pc, call, ret, loc, out, reqs>>
  BY DEF Serve, callVars
<1>3. CASE ~Authentic(reqs[q].msg)
  BY <1>2, <1>3 DEF Serve
<1>4. CASE Authentic(reqs[q].msg)
  <2>1. PICK m : m = reqs[q].msg
    OBVIOUS
  <2>2. /\ reps' = reps \cup {[tok |-> q, msg |-> Answer(m)]}
        /\ srv' = [srv EXCEPT ![m.hdr.dev] = RecordAfter(m.hdr, m.body, @)]
        /\ window' = [t \in Threads |->
                         IF Inside(t) /\ DeviceId[Ctx(t)] = m.hdr.dev
                         THEN window[t] \cup {srv'[m.hdr.dev]} ELSE window[t]]
        /\ m.hdr.dev \in ServerDevices /\ Authentic(m)
    BY <1>4, <2>1 DEF Serve, Authentic
  <2>3. srv'[m.hdr.dev] = RecordAfter(m.hdr, m.body, srv[m.hdr.dev])
    BY <1>1, <2>2
  <2> QED
    BY <1>2, <2>1, <2>2, <2>3
<1> QED
  BY <1>3, <1>4

LEMMA ServeKeepsRecords ==
  ASSUME UpdatesFit, ResultsInv, RequestInv, RecordsFit, NEW q \in 1..Len(reqs), Serve(q)
  PROVE  RecordsFit'
<1>0. srv \in [ServerDevices -> Record] /\ DataTypes
  BY DEF ResultsInv, DataTypes, NetTypes
<1>1. PICK m, new : m = reqs[q].msg /\ new = RecordAfter(m.hdr, m.body, srv[m.hdr.dev])
  OBVIOUS
<1>2. CASE UNCHANGED <<reps, srv, window>>
  BY <1>2 DEF RecordsFit
<1>3. CASE /\ m.hdr.dev \in ServerDevices
           /\ srv' = [srv EXCEPT ![m.hdr.dev] = new]
           /\ \A t \in Threads : window'[t] = window[t] \/ window'[t] = window[t] \cup {new}
  <2>1. RecordFits(srv[m.hdr.dev])
    BY <1>3 DEF RecordsFit
  <2>2. RecordFits(new)
    BY <1>1, <2>1, RecordAfterFits
  <2>3. \A d \in ServerDevices : RecordFits(srv'[d])
    BY <1>0, <1>3, <2>2 DEF RecordsFit
  <2>4. \A t \in Threads : \A rec \in window'[t] : RecordFits(rec)
    BY <1>3, <2>2 DEF RecordsFit
  <2> QED
    BY <2>3, <2>4 DEF RecordsFit
<1> QED
  BY <1>0, <1>1, <1>2, <1>3, ServeChanges

(* The reply to a call that asks for the record carries the record as it   *)
(* is now, and that has shown in the window of the call.                   *)
LEMMA ServeKeepsCurrent ==
  ASSUME ResultsInv, NEW q \in 1..Len(reqs), Serve(q), NEW t \in Threads, CurrentInv(t)
  PROVE  CurrentInv(t)'
<1>1. DataTypes /\ UNCHANGED <<pc, call, loc>> /\ window[t] \subseteq window'[t]
  BY ServeChanges DEF ResultsInv
<1>2. ASSUME AskingInfo(t), NEW r \in reps PROVE CurrentReply(t, r)'
  BY <1>1, <1>2 DEF CurrentInv, CurrentReply, Ctx
<1>3. CASE UNCHANGED reps
  BY <1>1, <1>2, <1>3 DEF CurrentInv, AskingInfo
<1>4. CASE ~UNCHANGED reps /\ AskingInfo(t)
  <2>1. PICK m, rec, new :
          /\ m = reqs[q].msg /\ rec = srv[m.hdr.dev]
          /\ new = [tok |-> q, msg |-> Answer(m)]
    OBVIOUS
  <2>2. /\ reps' = reps \cup {new}
        /\ Inside(t) /\ DeviceId[Ctx(t)] = m.hdr.dev
             => RecordAfter(m.hdr, m.body, rec) \in window'[t]
    BY <1>1, <1>4, <2>1, ServeChanges
  <2>3. CurrentReply(t, new)'
    <3> SUFFICES ASSUME q = loc[t].tok,
                        new.msg.hdr.opcode = OPERATION_ID_GET_DEVICE_INFO_RESPONSE
                 PROVE  \E w \in window'[t] : new.msg.body = InfoBody(w, DeviceId[Ctx(t)])
      BY <1>1, <2>1 DEF CurrentReply, Ctx
    <3>1. reqs[q].call = call[t] /\ reqs[q].ctx = Ctx(t)
      BY <1>4 DEF ResultsInv, ReplyInv, Following, AskedInv, Asked, AskingInfo
    <3>2. OwnRequest(q) /\ call[t].op = "get_device_info" /\ Inside(t)
      BY <1>4, <3>1 DEF OwnRequest, AskingInfo, Inside, Handling
    <3>3. /\ m.hdr.dev = DeviceId[Ctx(t)]
          /\ m.hdr.opcode = RequestOpcode("get_device_info")
      BY <2>1, <3>1, <3>2 DEF ResultsInv, ExchangeInv, SentInv
    <3>4. m.hdr.opcode # OPERATION_ID_SET_DEVICE_INFO_REQUEST
      BY <3>3 DEF RequestOpcode, OPERATION_ID_GET_DEVICE_INFO_REQUEST,
                  OPERATION_ID_SET_DEVICE_INFO_REQUEST
    <3>5. rec \in window'[t]
      BY <2>2, <3>2, <3>3, <3>4 DEF RecordAfter
    <3>6. PICK h, p, s : h = m.hdr /\ p = m.body /\ s = ServerReply(h, p, rec)
      OBVIOUS
    <3>7. new.msg.hdr.opcode = s.opcode /\ new.msg.body = s.body
      BY <2>1, <3>6 DEF Answer, Cose
    <3>8. GetInfoAnswer(h, p, rec, s)
      BY <3>6, <3>7, AnswerByOpcode
    <3>9. new.msg.body = InfoBody(rec, DeviceId[Ctx(t)])
      BY <3>3, <3>6, <3>7, <3>8 DEF GetInfoAnswer
    <3> QED
      BY <3>5, <3>9
  <2> QED
    BY <1>1, <1>2, <1>4, <2>2, <2>3 DEF CurrentInv, AskingInfo
<1> QED
  BY <1>1, <1>3, <1>4 DEF CurrentInv, AskingInfo

(* How a call comes to wait for a reply, and to its result.                *)
LEMMA HandlingGoesOn ==
  ASSUME LockTypes, DataTypes, NEW t \in Threads, InnerStep(t), ~PostingStep(t),
         pc'[t] \in Handling \cup {"wait"}
  PROVE  pc[t] \in Handling \cup {"wait"} /\ loc'[t].tok = loc[t].tok
<1> USE OwnState DEF Goto, Return, callVars, Handling
<1>1. CASE PreparingStep(t)
  BY <1>1 DEF PreparingStep, CreateRequest, DrawNonce, RandomFails, Seal
<1>2. CASE Deliver(t) \/ SendFails(t)
  BY <1>2 DEF Deliver, SendFails
<1>3. CASE OpenHeader(t) \/ NotAMessage(t) \/ Open(t)
  BY <1>3 DEF OpenHeader, NotAMessage, Open, Proceeds
<1>4. CASE ParseError(t) \/ ParseSimple(t) \/ ParseChunk(t)
  BY <1>4 DEF ParseError, ParseSimple, ParseChunk, Proceeds
<1>5. CASE \/ RejectArguments(t) \/ RejectNoSession(t) \/ InitializeTooSmall(t)
           \/ InitializeBusy(t) \/ InitializeStarts(t) \/ Finish(t) \/ Bail(t)
  BY <1>5 DEF RejectArguments, RejectNoSession, InitializeTooSmall, InitializeBusy,
              InitializeStarts, Finish, Bail
<1>6. CASE CommitMismatch(t) \/ CommitSimple(t) \/ CommitChunk(t) \/ Leave(t)
  BY <1>6 DEF CommitMismatch, CommitSimple, CommitChunk, Leave
<1> QED
  BY <1>1, <1>2, <1>3, <1>4, <1>5, <1>6 DEF InnerStep, PreparingStep, PostingStep

LEMMA ResultsComeFromCommit ==
  ASSUME LockTypes, DataTypes, NEW t \in Threads, InnerStep(t),
         call[t].op \in MessageOps \ {"get_chunk"}, pc'[t] \in Finishing, ret'[t] = "NONE"
  PROVE  /\ (CommitSimple(t) /\ pc[t] = "commit") \/ (Leave(t) /\ pc[t] = "leave")
         /\ ret[t] = "NONE" /\ UNCHANGED <<out, loc>>
<1> USE OwnState DEF Goto, Return, SetRet, callVars, Finishing
<1>1. ~IsChunk(t) /\ RetRead(t) = {ret[t]}
  BY DEF IsChunk, RetRead
<1>2. CASE PreparingStep(t) \/ PostingStep(t)
  BY <1>2 DEF PreparingStep, CreateRequest, DrawNonce, RandomFails, Seal, PostingStep, Send,
              Forward, Posted
<1>3. CASE Deliver(t) \/ SendFails(t)
  BY <1>3 DEF Deliver, SendFails, AfterSend, MessageOps
<1>4. CASE OpenHeader(t) \/ NotAMessage(t) \/ Open(t)
  BY <1>4 DEF OpenHeader, NotAMessage, Open
<1>5. CASE ParseError(t) \/ ParseSimple(t) \/ ParseChunk(t)
  BY <1>5 DEF ParseError, ParseSimple, ParseChunk
<1>6. CASE \/ RejectArguments(t) \/ RejectNoSession(t) \/ InitializeTooSmall(t)
           \/ InitializeBusy(t) \/ InitializeStarts(t) \/ Finish(t) \/ CommitMismatch(t)
  BY <1>6 DEF RejectArguments, RejectNoSession, InitializeTooSmall, InitializeBusy,
              InitializeStarts, InitializeCall, Finish, CommitMismatch, MessageOps
<1>7. CASE Bail(t)
  BY <1>1, <1>7 DEF Bail
<1>8. CASE CommitSimple(t)
  <2>1. pc[t] = "commit" /\ UNCHANGED <<ret, out, loc>>
    BY <1>8 DEF CommitSimple, Proceeds
  <2>2. ret[t] = "NONE" /\ UNCHANGED <<out, loc>>
    BY <2>1
  <2> QED
    BY <1>8, <2>1, <2>2
<1>9. CASE CommitChunk(t)
  BY <1>1, <1>9 DEF CommitChunk
<1>10. CASE Leave(t)
  BY <1>1, <1>10 DEF Leave
<1> QED
  BY <1>2, <1>3, <1>4, <1>5, <1>6, <1>7, <1>8, <1>9, <1>10
     DEF InnerStep, PreparingStep, PostingStep

LEMMA OwnStepKeepsCurrent ==
  ASSUME ResultsInv, NEW t \in Threads, InnerStep(t), CurrentInv(t)
  PROVE  CurrentInv(t)'
<1>1. LockTypes /\ DataTypes /\ NetTypes /\ RepliesAnswer
  BY DEF ResultsInv, LockInv, DataTypes, ReplyInv
<1>2. UNCHANGED <<reps, window, call>>
  BY <1>1, InnerStepTouches, InnerStepMoves
<1>3. CASE PostingStep(t)
  <2>1. loc'[t].tok = Len(reqs) + 1
    BY <1>1, <1>3, OwnState DEF PostingStep, Send, Forward, Posted
  <2>2. \A r \in reps : r.tok \in 1..Len(reqs)
    BY <1>1 DEF RepliesAnswer, NetTypes
  <2>3. Len(reqs) \in Nat
    BY <1>1 DEF NetTypes
  <2>4. \A r \in reps : r.tok # loc'[t].tok
    BY <2>1, <2>2, <2>3
  <2> QED
    BY <1>2, <2>4 DEF CurrentInv, CurrentReply
<1>4. CASE ~PostingStep(t) /\ AskingInfo(t)'
  <2>1. AskingInfo(t) /\ loc'[t].tok = loc[t].tok
    BY <1>1, <1>2, <1>4, HandlingGoesOn DEF AskingInfo
  <2> QED
    BY <1>2, <2>1 DEF CurrentInv, CurrentReply, Ctx
<1> QED
  BY <1>3, <1>4 DEF CurrentInv

(* What a call makes of a record.                                          *)
LEMMA ParsedIsCurrent ==
  ASSUME Matching = TRUE, DesiredFit, ResultsInv, RecordsFit, NEW t \in Threads,
         pc[t] = "commit", ret[t] = "NONE", call[t].op = "get_device_info", CurrentInv(t)
  PROVE  CurrentInfo(t)
<1>1. Asked(t) /\ Parsed(t) /\ RepliesAnswer
  BY DEF ResultsInv, ReplyInv, Following, AskedInv, ParsedInv, Handling
<1>2. PICK r \in reps :
        /\ MayReach(t, r) /\ ParsedAs(t, r.msg.hdr.opcode, Plain(r.msg.body))
        /\ AnswerTo(reqs[r.tok].msg, r.msg)
  BY <1>1 DEF Parsed, RepliesAnswer
<1>3. PICK f, op, dev : f = Plain(r.msg.body) /\ op = r.msg.hdr.opcode /\ dev = DeviceId[Ctx(t)]
  OBVIOUS
<1>4. PICK old \in [1..3 -> Nat] :
        LET i == operation_parse_get_device_info_response(op, f, old)
        IN  i.code = "NONE" /\ out[t].vals = i.vals
  BY <1>2, <1>3 DEF ParsedAs
<1>5. op = OPERATION_ID_GET_DEVICE_INFO_RESPONSE
  BY <1>4, "NONE" # "UNEXPECTED_RESPONSE"
     DEF operation_parse_get_device_info_response, InfoFields
<1>6. r.tok = loc[t].tok /\ dev \in ServerDevices
  BY <1>1, <1>2, <1>3, AnswerToTheCall DEF MessageOps, AnswerTo, Authentic
<1>7. PICK rec \in window[t] : r.msg.body = InfoBody(rec, dev)
  BY <1>3, <1>5, <1>6 DEF CurrentInv, AskingInfo, CurrentReply, Handling
<1>8. PICK a, b, c : a = rec.firmware /\ b = Desired[dev] /\ c = Uint(rec.status)
  OBVIOUS
<1>9. f = Plain(Array(<<a, b, c>>))
  BY <1>3, <1>7, <1>8 DEF InfoBody
<1>10. /\ b.type = "uint"
       /\ out[t].vals = <<ReadAs(a, UINT32), ReadAs(b, UINT32), ReadAs(c, UINT8)>>
  BY <1>4, <1>9, InfoRead DEF operation_parse_get_device_info_response
<1>11. ReadAs(a, UINT32) = a.val
  <2>1. a = Null \/ \E n \in 0..(UINT32 - 1) : a = Uint(n)
    BY <1>7, <1>8 DEF RecordsFit, RecordFits
  <2>2. \A n \in 0..(UINT32 - 1) : n % UINT32 = n
    BY UINT32Assumption
  <2> QED
    BY <2>1, <2>2 DEF ReadAs, Null, Uint
<1>12. ReadAs(b, UINT32) = b.val
  <2>1. b \in Item /\ b.val < UINT32
    BY <1>6, <1>8, SdkAssumption DEF DesiredFit, ServerDevices
  <2>2. b.val \in Nat
    BY <2>1 DEF Item
  <2>3. b.val % UINT32 = b.val
    BY <2>1, <2>2, UINT32Assumption
  <2> QED
    BY <1>10, <2>3 DEF ReadAs
<1>13. ReadAs(c, UINT8) = rec.status
  <2>1. rec.status \in 0..255
    BY <1>7 DEF RecordsFit, RecordFits, UINT8
  <2>2. rec.status % 256 = rec.status
    BY <2>1
  <2> QED
    BY <1>8, <2>2 DEF ReadAs, Uint, UINT8
<1>14. out[t].vals = <<rec.firmware.val, Desired[dev].val, rec.status>>
  BY <1>8, <1>10, <1>11, <1>12, <1>13
<1> QED
  BY <1>3, <1>14 DEF CurrentInfo

LEMMA OwnStepKeepsInfo ==
  ASSUME Matching = TRUE, DesiredFit, ResultsInv, RecordsFit, NEW t \in Threads, InnerStep(t),
         CurrentInv(t), InfoInv(t)
  PROVE  InfoInv(t)'
<1>1. LockTypes /\ DataTypes /\ UNCHANGED <<window, call>>
  BY InnerStepTouches, InnerStepMoves DEF ResultsInv, LockInv
<1>2. CASE pc'[t] \in Finishing /\ ret'[t] = "NONE" /\ call[t].op = "get_device_info"
  <2>1. /\ pc[t] \in {"commit", "leave"} /\ ret[t] = "NONE" /\ UNCHANGED out
    BY <1>1, <1>2, ResultsComeFromCommit DEF MessageOps
  <2>2. CurrentInfo(t)
    BY <1>2, <2>1, ParsedIsCurrent DEF InfoInv, Finishing
  <2> QED
    BY <1>1, <2>1, <2>2 DEF InfoInv, CurrentInfo, Ctx
<1> QED
  BY <1>1, <1>2 DEF InfoInv

(* A thread keeps what others leave alone.                                 *)
LEMMA InfoKept ==
  ASSUME NEW t \in Threads, CurrentInv(t), InfoInv(t), UNCHANGED reps,
         pc'[t] = pc[t], call'[t] = call[t], ret'[t] = ret[t], loc'[t] = loc[t],
         out'[t] = out[t], window'[t] = window[t]
  PROVE  CurrentInv(t)' /\ InfoInv(t)'
<1>1. Ctx(t)' = Ctx(t)
  BY DEF Ctx
<1> QED
  BY <1>1 DEF CurrentInv, CurrentReply, AskingInfo, InfoInv, CurrentInfo

LEMMA NothingKnown ==
  ASSUME NEW t \in Threads, pc'[t] \notin Handling \cup {"wait"},
         pc'[t] \notin Finishing \/ ret'[t] # "NONE"
  PROVE  CurrentInv(t)' /\ InfoInv(t)'
  BY DEF CurrentInv, AskingInfo, InfoInv

LEMMA InfosInvInit == Init => InfosInv
<1> SUFFICES ASSUME Init PROVE InfosInv
  OBVIOUS
<1>1. \A t \in Threads : CurrentInv(t) /\ InfoInv(t)
  BY DEF Init, CurrentInv, InfoInv, AskingInfo, Handling, Finishing
<1>2. RecordsFit
  BY DEF Init, RecordsFit, RecordFits, UINT8
<1> QED
  BY <1>1, <1>2 DEF InfosInv

LEMMA InfosInvStep ==
  ASSUME Matching = TRUE, UpdatesFit, DesiredFit, ResultsInv, RequestInv, InfosInv, [Next]_vars
  PROVE  InfosInv'
<1>1. /\ pc \in [Threads -> ControlPoint] /\ ret \in [Threads -> ReturnValue]
      /\ call \in [Threads -> CallRecord] /\ out \in [Threads -> Outcome]
      /\ loc \in [Threads -> [opcode : Nat, tok : Nat]]
      /\ window \in [Threads -> SUBSET Record] /\ srv \in [ServerDevices -> Record]
      /\ LockTypes /\ DataTypes
  BY DEF ResultsInv, LockInv, LockTypes, DataTypes, RetTypes, LocTypes, NetTypes, AppTypes
<1>2. RecordsFit /\ \A t \in Threads : CurrentInv(t) /\ InfoInv(t)
  BY DEF InfosInv
<1>3. ASSUME UNCHANGED <<srv, reps, window, pc, call, ret, loc, out>> PROVE InfosInv'
  BY <1>2, <1>3, InfoKept DEF InfosInv, RecordsFit
<1>4. ASSUME NEW q \in 1..Len(reqs), Serve(q) PROVE InfosInv'
  <2>1. RecordsFit'
    BY <1>2, <1>4, ServeKeepsRecords
  <2>2. ASSUME NEW t \in Threads PROVE CurrentInv(t)' /\ InfoInv(t)'
    <3>1. CurrentInv(t)'
      BY <1>2, <1>4, ServeKeepsCurrent
    <3>2. UNCHANGED <<pc, call, ret, out>> /\ window[t] \subseteq window'[t]
      BY <1>1, <1>4, ServeChanges
    <3>3. InfoInv(t)'
      BY <1>2, <3>2 DEF InfoInv, CurrentInfo, Ctx
    <3> QED
      BY <3>1, <3>3
  <2> QED
    BY <2>1, <2>2 DEF InfosInv
<1>5. ASSUME NEW t \in Threads, InnerStep(t) PROVE InfosInv'
  <2>1. UNCHANGED <<reps, srv, window, call>>
    BY <1>1, <1>5, InnerStepTouches, InnerStepMoves
  <2>2. RecordsFit'
    BY <1>2, <2>1 DEF RecordsFit
  <2>3. CurrentInv(t)' /\ InfoInv(t)'
    BY <1>2, <1>5, OwnStepKeepsCurrent, OwnStepKeepsInfo
  <2>4. ASSUME NEW u \in Threads, u # t PROVE CurrentInv(u)' /\ InfoInv(u)'
    BY <1>1, <1>2, <1>5, <2>1, <2>4, InnerStepIsLocal, InnerStepTouches, InfoKept
  <2> QED
    BY <2>2, <2>3, <2>4 DEF InfosInv
<1>6. ASSUME NEW t \in Threads, NEW k \in CallsOf[t],
             CallRejected(t, k) \/ CallRefused(t, k) \/ CallLocks(t, k)
      PROVE  InfosInv'
  <2>1. /\ UNCHANGED <<srv, reps, loc, out>>
        /\ call' = [call EXCEPT ![t] = k]
        /\ window' = window \/ window' = [window EXCEPT ![t] = RecordsNow(k.ctx)]
        /\ \/ pc' = [pc EXCEPT ![t] = "body"] /\ UNCHANGED ret
           \/ /\ pc' = [pc EXCEPT ![t] = "returned"]
              /\ \E code \in {"INVALID_ARGUMENT", "UNSUPPORTED_CONCURRENCY"} :
                   ret' = [ret EXCEPT ![t] = code]
    BY <1>6 DEF CallRejected, CallRefused, CallLocks, Calls, Refuse, Goto, netVars
  <2>2. RecordsFit'
    <3>1. \A rec \in RecordsNow(k.ctx) : RecordFits(rec)
      BY <1>2 DEF RecordsNow, RecordsFit
    <3>2. \A u \in Threads : \A rec \in window'[u] : rec \in window[u] \/ rec \in RecordsNow(k.ctx)
      BY <1>1, <2>1
    <3> QED
      BY <1>2, <2>1, <3>1, <3>2 DEF RecordsFit
  <2>3. CurrentInv(t)' /\ InfoInv(t)'
    BY <1>1, <2>1, NothingKnown DEF Handling, Finishing
  <2>4. ASSUME NEW u \in Threads, u # t PROVE CurrentInv(u)' /\ InfoInv(u)'
    BY <1>1, <1>2, <2>1, <2>4, InfoKept
  <2> QED
    BY <2>2, <2>3, <2>4 DEF InfosInv
<1>7. ASSUME NEW t \in Threads, Unlock(t) PROVE InfosInv'
  <2>1. /\ pc[t] = "unlock" /\ pc' = [pc EXCEPT ![t] = "returned"]
        /\ UNCHANGED <<srv, reps, window, ret, call, loc, out>>
    BY <1>7 DEF Unlock, Goto, callVars, netVars, appVars
  <2>2. RecordsFit'
    BY <1>2, <2>1 DEF RecordsFit
  <2>3. CurrentInv(t)' /\ InfoInv(t)'
    BY <1>1, <1>2, <2>1 DEF CurrentInv, AskingInfo, InfoInv, CurrentInfo, Ctx, Handling, Finishing
  <2>4. ASSUME NEW u \in Threads, u # t PROVE CurrentInv(u)' /\ InfoInv(u)'
    BY <1>1, <1>2, <2>1, <2>4, InfoKept
  <2> QED
    BY <2>2, <2>3, <2>4 DEF InfosInv
<1>8. ASSUME NEW t \in Threads, Consume(t) PROVE InfosInv'
  <2>1. /\ pc' = [pc EXCEPT ![t] = "idle"] /\ UNCHANGED <<srv, reps>>
        /\ call' = [call EXCEPT ![t] = NoCall] /\ ret' = [ret EXCEPT ![t] = "NONE"]
        /\ loc' = [loc EXCEPT ![t] = NoLoc] /\ out' = [out EXCEPT ![t] = NoOut]
        /\ window' = [window EXCEPT ![t] = {}]
    BY <1>8 DEF Consume, Goto, netVars
  <2>2. RecordsFit'
    BY <1>1, <1>2, <2>1 DEF RecordsFit
  <2>3. CurrentInv(t)' /\ InfoInv(t)'
    BY <1>1, <2>1, NothingKnown DEF Handling, Finishing
  <2>4. ASSUME NEW u \in Threads, u # t PROVE CurrentInv(u)' /\ InfoInv(u)'
    BY <1>1, <1>2, <2>1, <2>4, InfoKept
  <2> QED
    BY <2>2, <2>3, <2>4 DEF InfosInv
<1>9. ASSUME NEW c \in Contexts, NEW w \in WorkBuffers, SdkInitialize(c, w) PROVE InfosInv'
  BY <1>3, <1>9 DEF SdkInitialize, callVars, netVars, appVars
<1>10. CASE UNCHANGED vars
  BY <1>3, <1>10 DEF vars
<1>11. CASE ServeNew \/ ServeAgain
  BY <1>1, <1>4, <1>11 DEF ServeNew, ServeAgain, DataTypes, NetTypes
<1> QED
  BY <1>5, <1>6, <1>7, <1>8, <1>9, <1>10, <1>11 DEF Next, Begin, Step, InnerStep

(* firmups_sdk_get_device_info, where send_data returns only a reply to    *)
(* its own request: NONE means that the three fields are those of one      *)
(* record the server held at some moment of the call, whatever other       *)
(* threads and devices set meanwhile.                                      *)
THEOREM InfosAreCurrent ==
  ASSUME OneDownloadContext, Matching = TRUE, UpdatesFit, DesiredFit
  PROVE  Spec => []InfoIsCurrent
<1>1. InfosInv => InfoIsCurrent
  BY DEF InfosInv, InfoInv, CurrentInfo, InfoIsCurrent, Succeeded, Returned, Finishing
<1>2. /\ ResultsInv /\ RequestInv /\ InfosInv /\ [Next]_vars
           => ResultsInv' /\ RequestInv' /\ InfosInv'
  BY ResultsInvStep, RequestInvStep, InfosInvStep
<1> QED
  BY <1>1, <1>2, ResultsInvInit, RequestInvInit, InfosInvInit, PTL DEF Spec

-----------------------------------------------------------------------------
(* Errors of the server.                                                   *)

(* An array of one item: the fold over it is a sum of two numbers.         *)
LEMMA OneItemSize ==
  ASSUME NEW p, NEW it, p.items = <<it>>, p.array
  PROVE  PayloadSize(p) = 1 + ItemSize(it)
<1> DEFINE S == DOMAIN p.items
           choose(s) == CHOOSE x \in s : TRUE
           Iter(f) == f = [s \in SUBSET S |->
                             IF s = {} THEN IF p.array THEN 1 ELSE 0
                             ELSE f[s \ {choose(s)}] + ItemSize(p.items[choose(s)])]
           iter == CHOOSE f : Iter(f)
<1>1. PayloadSize(p) = iter[S]
  BY DEF PayloadSize, FoldSeq, FoldFunction, FoldFunctionOnSet, MapThenFoldSet
<1>2. S = {1} /\ p.items[1] = it
  OBVIOUS
<1>3. choose({1}) = 1
  OBVIOUS
<1> DEFINE g == [s \in SUBSET S |-> IF s = {} THEN 1 ELSE 1 + ItemSize(it)]
<1>4. Iter(g)
  <2>1. ASSUME NEW s \in SUBSET S
        PROVE g[s] = IF s = {} THEN IF p.array THEN 1 ELSE 0
                             ELSE g[s \ {choose(s)}] + ItemSize(p.items[choose(s)])
    <3>1. CASE s = {}
      BY <3>1
    <3>2. CASE s # {}
      <4>1. s = {1}
        BY <1>2, <3>2
      <4>2. choose(s) = 1 /\ s \ {choose(s)} = {}
        BY <1>3, <4>1
      <4>3. g[{}] = 1 /\ g[s] = 1 + ItemSize(it)
        BY <3>2
      <4> HIDE DEF g, choose
      <4> QED
        BY <1>2, <3>2, <4>2, <4>3
    <3> QED
      BY <3>1, <3>2
  <2> HIDE DEF choose
  <2> QED
    BY <2>1
<1>5. Iter(iter)
  <2> HIDE DEF Iter
  <2> QED
    BY <1>4
<1>6. iter[{}] = 1
  <2> HIDE DEF iter
  <2> QED
    BY <1>5
<1>7. iter[{1}] = iter[{1} \ {choose({1})}] + ItemSize(p.items[choose({1})])
  <2> HIDE DEF iter, choose
  <2> QED
    BY <1>2, <1>5
<1>8. {1} \ {choose({1})} = {}
  BY <1>3
<1> HIDE DEF iter, choose, Iter, S, g
<1> QED
  BY <1>1, <1>2, <1>3, <1>6, <1>7, <1>8

(* What an error operation takes, and what is read from it.                *)
LEMMA ErrorCodeRead ==
  ASSUME NEW code \in ServerErrors, NEW p, p = Array(<<Uint(code)>>)
  PROVE  /\ CipherSize(p) = 18
         /\ operation_parse_error_response(OPERATION_ID_ERROR, Plain(p))
              = {ErrorMeaning(p.items[1].val)}
         /\ ErrorMeaning(p.items[1].val) # "NONE"
<1>1. p.array /\ p.items = <<Uint(code)>>
  BY DEF Array
<1>2. ItemSize(Uint(code)) = 1
  BY DEF ItemSize, Uint, UintSize, ServerErrors, InvalidOperation, DecodingError,
         UnknownParameter, DeviceNotFound, FirmwareNotFound
<1>3. PayloadSize(p) = 2
  BY <1>1, <1>2, OneItemSize
<1>4. p.items[1].val = code /\ p.items[1].type = "uint" /\ Len(p.items) = 1 /\ p.items # <<>>
  <2>1. PICK it : it = Uint(code)
    OBVIOUS
  <2>2. it.val = code /\ it.type = "uint"
    BY <2>1 DEF Uint
  <2>3. p.items = <<it>>
    BY <1>1, <2>1
  <2>4. p.items[1] = it
    BY <2>3
  <2>5. Len(p.items) = 1
    BY <2>3
  <2>6. p.items # <<>>
    BY <2>3
  <2> QED
    BY <2>2, <2>4, <2>5, <2>6
<1>5. Plain(p).kind = "plain" /\ Fields(Plain(p)) = p.items
  BY <1>1 DEF Plain, Fields
<1>6. operation_parse_error_response(OPERATION_ID_ERROR, Plain(p)) = {ErrorMeaning(p.items[1].val)}
  BY <1>4, <1>5 DEF operation_parse_error_response
<1>7. ErrorMeaning(p.items[1].val) # "NONE"
  BY DEF ErrorMeaning
<1> QED
  BY <1>3, <1>6, <1>7 DEF CipherSize, CRYPTO_TAG_SIZE

BeforeReply == {"idle", "body", "header", "seal", "send", "wait"}

(* The call has received an error operation, undamaged.                    *)
ErrorReceived(t) ==
  /\ call[t].op \in MessageOps \ {"get_chunk"}
  /\ got[t].kind = "cose" /\ got[t].key = DeviceId[Ctx(t)]
  /\ got[t].hdr.opcode = OPERATION_ID_ERROR

(* The error on its way from the reply to the return code.                 *)
ErrorHeld(t) ==
  LET b == mem[Ctx(t)]
  IN  /\ pc[t] = "open_header" => ret[t] = "NONE" /\ b["response_buffer"] = got[t]
      /\ pc[t] = "open" =>
           /\ b["response_buffer"] = got[t] /\ cry[Ctx(t)] = got[t].hdr
           /\ loc[t].opcode = OPERATION_ID_ERROR
      /\ pc[t] = "parse_error" =>
           /\ ret[t] = "NONE" /\ b["operation_buffer"] = Plain(got[t].body)
           /\ loc[t].opcode = OPERATION_ID_ERROR
      /\ pc[t] \in {"parse_response"} \cup Finishing =>
           ret[t] = ErrorMeaning(got[t].body.items[1].val)
      /\ pc[t] # "commit"

ErrorCodeGiven(t) == \E code \in ServerErrors : got[t].body = Array(<<Uint(code)>>)

ErrorInv(t) ==
  /\ pc[t] \in BeforeReply => got[t] = Garbage
  /\ ErrorReceived(t) => ErrorCodeGiven(t) /\ ErrorHeld(t)

ErrorsInv == \A t \in Threads : ErrorInv(t)

(* get_key's return code is ignored (crypto.c), so with a key callback     *)
(* that fails an undamaged reply does not open.                            *)
KeysAreRead == "key" \notin Faults

LEMMA DeliverBringsError ==
  ASSUME ResultsInv, NEW t \in Threads, Deliver(t), ErrorReceived(t)'
  PROVE  ErrorCodeGiven(t)' /\ ErrorHeld(t)'
<1>1. LockTypes /\ DataTypes /\ NetTypes /\ RepliesAnswer /\ got \in [Threads -> Frame]
  BY DEF ResultsInv, LockInv, DataTypes, ReplyInv, AppTypes
<1>2. PICK r \in reps : \E m \in Arrivals(r.msg) :
        /\ pc[t] = "wait"
        /\ IF call[t].op = "gateway" THEN UNCHANGED mem ELSE Write(Ctx(t), OuterBuffer(t), m)
        /\ got' = [got EXCEPT ![t] = m]
        /\ SetRet(t, "NONE")
        /\ Goto(t, AfterSend(t))
        /\ UNCHANGED call
  BY DEF Deliver, callVars
<1>3. PICK m \in Arrivals(r.msg) :
        /\ pc[t] = "wait"
        /\ IF call[t].op = "gateway" THEN UNCHANGED mem ELSE Write(Ctx(t), OuterBuffer(t), m)
        /\ got' = [got EXCEPT ![t] = m]
        /\ SetRet(t, "NONE")
        /\ Goto(t, AfterSend(t))
        /\ UNCHANGED call
  BY <1>2
<1>4. /\ got'[t] = m /\ m.kind = "cose" /\ m.key = DeviceId[Ctx(t)]
      /\ m.hdr.opcode = OPERATION_ID_ERROR
      /\ call[t].op \in MessageOps \ {"get_chunk"}
  BY <1>1, <1>3 DEF ErrorReceived, Ctx
<1>5. m = r.msg
  <2>1. r.msg \in Frame
    BY <1>1 DEF NetTypes, Response
  <2>2. Ctx(t) \in Contexts /\ DeviceId[Ctx(t)] \in KeyRead(Ctx(t))
    BY <1>1, OwnState DEF KeyRead
  <2> QED
    BY <1>4, <2>1, <2>2, GenuineReply
<1>6. PICK q, rec, s :
        /\ s = ServerReply(q.hdr, q.body, rec)
        /\ r.msg = Cose([dev |-> q.hdr.dev, opcode |-> s.opcode, nonce |-> 1], q.hdr.dev, s.body)
  <2>1. PICK q : AnswerTo(q, r.msg)
    BY <1>1 DEF RepliesAnswer
  <2> QED
    BY <2>1 DEF AnswerTo
<1>7. s.opcode = OPERATION_ID_ERROR /\ m.body = s.body
  BY <1>4, <1>5, <1>6 DEF Cose
<1>8. ErrorCodeGiven(t)'
  BY <1>4, <1>6, <1>7, AnswerByOpcode DEF ErrorCodeGiven, ErrorAnswer
<1>9. pc'[t] = "open_header" /\ ret'[t] = "NONE" /\ mem'[Ctx(t)]["response_buffer"] = m
  BY <1>1, <1>3, <1>4, OwnState
     DEF Goto, SetRet, AfterSend, Write, OuterBuffer, IsChunk, MessageOps
<1> QED
  BY <1>3, <1>4, <1>8, <1>9 DEF ErrorHeld, Ctx, Finishing

LEMMA OwnStepKeepsOthersReply ==
  ASSUME LockTypes, DataTypes, NEW t \in Threads, InnerStep(t), NEW u \in Threads, u # t
  PROVE  got'[u] = got[u]
<1>1. got \in [Threads -> Frame]
  BY DEF DataTypes, AppTypes
<1>2. CASE Deliver(t)
  BY <1>1, <1>2 DEF Deliver
<1>3. CASE ~Deliver(t)
  <2>1. UNCHANGED got
    BY <1>3 DEF InnerStep, RejectArguments, RejectNoSession, InitializeTooSmall, InitializeBusy,
       InitializeStarts, Finish, CreateRequest, Forward, Bail, DrawNonce, RandomFails, Seal,
       Send, Posted, SendFails, OpenHeader, NotAMessage, Open, ParseError, ParseSimple,
       ParseChunk, CommitMismatch, CommitSimple, CommitChunk, Leave, appVars
  <2> QED
    BY <2>1
<1> QED
  BY <1>2, <1>3

(* The error stays with the call until it returns it.                      *)
LEMMA OwnStepKeepsError ==
  ASSUME KeysAreRead, ResultsInv, NEW t \in Threads, InnerStep(t), ErrorInv(t)
  PROVE  ErrorInv(t)'
<1>1. LockTypes /\ DataTypes /\ got \in [Threads -> Frame] /\ cry \in [Contexts -> Header]
  BY DEF ResultsInv, LockInv, DataTypes, AppTypes, MemTypes
<1>2. UNCHANGED call /\ Ctx(t)' = Ctx(t)
  BY InnerStepMoves DEF Ctx
<1>3. Garbage.kind # "cose"
  BY DEF Garbage
<1> USE OwnState DEF Goto, Return, SetRet, callVars, netVars, appVars, ctxVars, BeforeReply
<1>4. CASE \/ PreparingStep(t) \/ PostingStep(t)
           \/ RejectArguments(t) \/ RejectNoSession(t) \/ InitializeTooSmall(t)
           \/ InitializeBusy(t) \/ InitializeStarts(t) \/ Finish(t)
  <2>1. pc[t] \in BeforeReply /\ UNCHANGED got
    BY <1>4 DEF PreparingStep, CreateRequest, DrawNonce, RandomFails, Seal, Proceeds,
                PostingStep, Send, Forward, Posted, RejectArguments, RejectNoSession,
                InitializeTooSmall, InitializeBusy, InitializeStarts, InitializeCall, Finish
  <2> QED
    BY <1>3, <2>1 DEF ErrorInv, ErrorReceived
<1>5. CASE Deliver(t)
  <2>1. pc'[t] \notin BeforeReply
    BY <1>1, <1>5 DEF Deliver, AfterSend
  <2> QED
    BY <1>5, <2>1, DeliverBringsError DEF ErrorInv
<1>6. CASE SendFails(t)
  <2>1. pc[t] = "wait" /\ pc'[t] \notin BeforeReply /\ UNCHANGED got
    BY <1>1, <1>6 DEF SendFails, AfterSend
  <2> QED
    BY <1>3, <2>1 DEF ErrorInv, ErrorReceived
<1>7. ASSUME pc[t] \notin BeforeReply, pc'[t] \notin BeforeReply, UNCHANGED got,
             ErrorReceived(t) /\ ErrorCodeGiven(t) /\ ErrorHeld(t) => ErrorHeld(t)'
      PROVE  ErrorInv(t)'
  BY <1>2, <1>7 DEF ErrorInv, ErrorReceived, ErrorCodeGiven
<1>8. ASSUME ErrorReceived(t)
      PROVE  ~IsChunk(t) /\ RetRead(t) = {ret[t]} /\ OuterBuffer(t) = "response_buffer"
             /\ InnerBuffer(t) = "operation_buffer" /\ call[t].op # "gateway"
  BY <1>8 DEF ErrorReceived, IsChunk, RetRead, OuterBuffer, InnerBuffer, MessageOps
<1>9. ASSUME ErrorReceived(t), ErrorCodeGiven(t)
      PROVE  /\ CipherSize(got[t].body) = 18
             /\ operation_parse_error_response(OPERATION_ID_ERROR, Plain(got[t].body))
                  = {ErrorMeaning(got[t].body.items[1].val)}
             /\ ErrorMeaning(got[t].body.items[1].val) # "NONE"
  BY <1>9, ErrorCodeRead DEF ErrorCodeGiven
<1>10. CASE OpenHeader(t)
  <2>1. /\ pc[t] = "open_header" /\ pc'[t] = "open" /\ UNCHANGED <<got, mem>>
        /\ cry'[Ctx(t)] = mem[Ctx(t)][OuterBuffer(t)].hdr
        /\ loc'[t].opcode = mem[Ctx(t)][OuterBuffer(t)].hdr.opcode
    BY <1>1, <1>10 DEF OpenHeader, Proceeds
  <2>2. ErrorReceived(t) /\ ErrorHeld(t) => ErrorHeld(t)'
    BY <1>2, <1>8, <2>1 DEF ErrorHeld, ErrorReceived, Finishing
  <2> QED
    BY <1>7, <2>1, <2>2
<1>11. CASE NotAMessage(t)
  <2>1. /\ pc[t] = "open_header" /\ pc'[t] = "parse_error" /\ UNCHANGED got
        /\ mem[Ctx(t)][OuterBuffer(t)].kind # "cose"
    BY <1>1, <1>11 DEF NotAMessage, Proceeds
  <2>2. ErrorReceived(t) => ~ErrorHeld(t)
    BY <1>8, <2>1 DEF ErrorHeld, ErrorReceived
  <2> QED
    BY <1>7, <2>1, <2>2
<1>12. CASE Open(t)
  <2>1. pc[t] = "open" /\ pc'[t] = "parse_error" /\ UNCHANGED <<got, loc>>
    BY <1>1, <1>12 DEF Open
  <2>2. ASSUME ErrorReceived(t), ErrorCodeGiven(t), ErrorHeld(t) PROVE ErrorHeld(t)'
    <3>1. /\ mem[Ctx(t)]["response_buffer"] = got[t] /\ cry[Ctx(t)] = got[t].hdr
          /\ loc[t].opcode = OPERATION_ID_ERROR
      BY <2>1, <2>2 DEF ErrorHeld
    <3>2. PlaintextFits(t)
      BY <1>8, <1>9, <2>2, <3>1
         DEF PlaintextFits, Capacity, OPERATION_BUFFER_SIZE, CRYPTO_TAG_SIZE
    <3>3. TagVerifies(t, DeviceId[Ctx(t)]) /\ KeyRead(Ctx(t)) = {DeviceId[Ctx(t)]}
      BY <1>8, <2>2, <3>1 DEF TagVerifies, ErrorReceived, KeyRead, KeysAreRead
    <3>4. ret'[t] = "NONE" /\ Write(Ctx(t), "operation_buffer", Plain(got[t].body))
      BY <1>1, <1>8, <1>12, <2>2, <3>1, <3>2, <3>3 DEF Open
    <3>5. mem'[Ctx(t)]["operation_buffer"] = Plain(got[t].body)
      BY <1>1, <3>4 DEF Write, Buffer
    <3> QED
      BY <1>2, <2>1, <3>1, <3>4, <3>5 DEF ErrorHeld, Finishing
  <2> QED
    BY <1>7, <2>1, <2>2
<1>13. CASE ParseError(t)
  <2>1. pc[t] = "parse_error" /\ pc'[t] = "parse_response" /\ UNCHANGED got
    BY <1>1, <1>13 DEF ParseError, Proceeds
  <2>2. ASSUME ErrorReceived(t), ErrorCodeGiven(t), ErrorHeld(t) PROVE ErrorHeld(t)'
    <3>1. ErrorSource(t) = Plain(got[t].body) /\ loc[t].opcode = OPERATION_ID_ERROR
      BY <2>1, <2>2 DEF ErrorHeld, ErrorSource
    <3>2. ret'[t] = ErrorMeaning(got[t].body.items[1].val)
      BY <1>1, <1>9, <1>13, <2>2, <3>1 DEF ParseError
    <3> QED
      BY <2>1, <3>2 DEF ErrorHeld, Finishing
  <2> QED
    BY <1>7, <2>1, <2>2
<1>14. CASE Bail(t) \/ Leave(t)
  <2>1. CASE pc[t] \in BeforeReply
    BY <1>3, <1>14, <2>1 DEF Bail, Leave, ErrorInv, ErrorReceived
  <2>2. CASE pc[t] \notin BeforeReply
    <3>1. pc'[t] \in Finishing /\ UNCHANGED got
      BY <1>1, <1>14 DEF Bail, Leave, Finishing
    <3>2. ASSUME ErrorReceived(t), ErrorHeld(t) PROVE ErrorHeld(t)'
      <4>1. ret'[t] = ret[t] /\ pc[t] \in {"parse_response"} \cup Finishing
        BY <1>1, <1>8, <1>14, <3>2, <2>2 DEF Bail, Leave, CheckPoint, ErrorHeld, Finishing
      <4> QED
        BY <1>2, <3>1, <3>2, <4>1 DEF ErrorHeld, Finishing
    <3> QED
      BY <1>7, <2>2, <3>1, <3>2 DEF Finishing
  <2> QED
    BY <2>1, <2>2
<1>15. CASE \/ ParseSimple(t) \/ ParseChunk(t) \/ CommitMismatch(t) \/ CommitSimple(t)
            \/ CommitChunk(t)
  <2>1. /\ pc[t] \in {"parse_response", "commit"} /\ "NONE" \in RetRead(t)
        /\ pc'[t] \notin BeforeReply /\ UNCHANGED got
    BY <1>1, <1>15 DEF ParseSimple, ParseChunk, CommitMismatch, CommitSimple, CommitChunk, Proceeds
  <2>2. ErrorReceived(t) /\ ErrorCodeGiven(t) => ~ErrorHeld(t)
    BY <1>8, <1>9, <2>1 DEF ErrorHeld
  <2> QED
    BY <1>7, <2>1, <2>2
<1> QED
  BY <1>4, <1>5, <1>6, <1>10, <1>11, <1>12, <1>13, <1>14, <1>15
     DEF InnerStep, PreparingStep, PostingStep

(* A thread keeps its error while others move.                             *)
LEMMA ErrorKept ==
  ASSUME NEW t \in Threads, ErrorInv(t),
         pc'[t] = pc[t], call'[t] = call[t], ret'[t] = ret[t], loc'[t] = loc[t],
         got'[t] = got[t],
         Inside(t) => mem'[Ctx(t)] = mem[Ctx(t)] /\ cry'[Ctx(t)] = cry[Ctx(t)]
  PROVE  ErrorInv(t)'
<1>1. Ctx(t)' = Ctx(t)
  BY DEF Ctx
<1>2. ErrorHeld(t) => ErrorHeld(t)'
  BY <1>1 DEF ErrorHeld, Inside
<1> QED
  BY <1>1, <1>2 DEF ErrorInv, ErrorReceived, ErrorCodeGiven

LEMMA ErrorsInvInit == Init => ErrorsInv
  BY DEF Init, ErrorsInv, ErrorInv, ErrorReceived, Garbage

LEMMA ErrorsInvStep ==
  ASSUME KeysAreRead, ResultsInv, ErrorsInv, [Next]_vars
  PROVE  ErrorsInv'
<1>1. /\ pc \in [Threads -> ControlPoint] /\ ret \in [Threads -> ReturnValue]
      /\ call \in [Threads -> CallRecord] /\ loc \in [Threads -> [opcode : Nat, tok : Nat]]
      /\ got \in [Threads -> Frame] /\ cry \in [Contexts -> Header]
      /\ LockTypes /\ DataTypes /\ MutualExclusion
  BY DEF ResultsInv, LockInv, LockTypes, DataTypes, MemTypes, RetTypes, LocTypes, AppTypes
<1>2. \A t \in Threads : ErrorInv(t)
  BY DEF ErrorsInv
<1>3. Garbage.kind # "cose"
  BY DEF Garbage
<1>4. ASSUME UNCHANGED <<pc, call, ret, loc, got, mem, cry>> PROVE ErrorsInv'
  BY <1>2, <1>4, ErrorKept DEF ErrorsInv
<1>5. ASSUME NEW t \in Threads, InnerStep(t) PROVE ErrorsInv'
  <2>1. ASSUME NEW u \in Threads, u # t PROVE ErrorInv(u)'
    <3>1. Inside(t) /\ UNCHANGED call /\ got'[u] = got[u]
      BY <1>1, <1>5, <2>1, InnerStepMoves, OwnStepKeepsOthersReply
    <3>2. Inside(u) => Ctx(u) # Ctx(t) /\ Ctx(u) \in Contexts
      BY <1>1, <2>1, <3>1 DEF MutualExclusion, Ctx, CallRecord
    <3> QED
      BY <1>1, <1>2, <1>5, <2>1, <3>1, <3>2, InnerStepIsLocal, ErrorKept
  <2>2. ErrorInv(t)'
    BY <1>2, <1>5, OwnStepKeepsError
  <2> QED
    BY <2>1, <2>2 DEF ErrorsInv
<1>6. ASSUME NEW t \in Threads, NEW k \in CallsOf[t],
             CallRejected(t, k) \/ CallRefused(t, k) \/ CallLocks(t, k)
      PROVE  ErrorsInv'
  <2>1. /\ pc[t] = "idle" /\ UNCHANGED <<mem, cry, loc, got>>
        /\ call' = [call EXCEPT ![t] = k]
        /\ \/ pc' = [pc EXCEPT ![t] = "body"] /\ UNCHANGED ret
           \/ /\ pc' = [pc EXCEPT ![t] = "returned"]
              /\ \E code \in {"INVALID_ARGUMENT", "UNSUPPORTED_CONCURRENCY"} :
                   ret' = [ret EXCEPT ![t] = code]
    BY <1>6 DEF CallRejected, CallRefused, CallLocks, Calls, Refuse, Goto, ctxVars
  <2>2. ErrorInv(t)'
    BY <1>2, <1>3, <2>1 DEF ErrorInv, ErrorReceived, BeforeReply
  <2>3. ASSUME NEW u \in Threads, u # t PROVE ErrorInv(u)'
    BY <1>1, <1>2, <2>1, <2>3, ErrorKept
  <2> QED
    BY <2>2, <2>3 DEF ErrorsInv
<1>7. ASSUME NEW t \in Threads, Unlock(t) PROVE ErrorsInv'
  <2>1. /\ pc[t] = "unlock" /\ pc' = [pc EXCEPT ![t] = "returned"]
        /\ UNCHANGED <<mem, cry, ret, call, loc, got>>
    BY <1>7 DEF Unlock, Goto, callVars, appVars
  <2>2. ErrorInv(t)'
    BY <1>1, <1>2, <2>1
       DEF ErrorInv, ErrorReceived, ErrorCodeGiven, ErrorHeld, BeforeReply, Finishing, Ctx
  <2>3. ASSUME NEW u \in Threads, u # t PROVE ErrorInv(u)'
    BY <1>1, <1>2, <2>1, <2>3, ErrorKept
  <2> QED
    BY <2>2, <2>3 DEF ErrorsInv
<1>8. ASSUME NEW t \in Threads, Consume(t) PROVE ErrorsInv'
  <2>1. /\ pc' = [pc EXCEPT ![t] = "idle"] /\ UNCHANGED <<mem, cry>>
        /\ call' = [call EXCEPT ![t] = NoCall] /\ ret' = [ret EXCEPT ![t] = "NONE"]
        /\ loc' = [loc EXCEPT ![t] = NoLoc] /\ got' = [got EXCEPT ![t] = Garbage]
    BY <1>8 DEF Consume, Goto, ctxVars
  <2>2. ErrorInv(t)'
    BY <1>1, <1>3, <2>1 DEF ErrorInv, ErrorReceived
  <2>3. ASSUME NEW u \in Threads, u # t PROVE ErrorInv(u)'
    BY <1>1, <1>2, <2>1, <2>3, ErrorKept
  <2> QED
    BY <2>2, <2>3 DEF ErrorsInv
<1>9. ASSUME NEW c \in Contexts, NEW w \in WorkBuffers, SdkInitialize(c, w) PROVE ErrorsInv'
  <2>1. /\ UNCHANGED <<pc, call, ret, loc, got, mem>> /\ cry' = [cry EXCEPT ![c] = NoHeader]
        /\ \A t \in Threads : Inside(t) => Ctx(t) # c
    BY <1>9 DEF SdkInitialize, callVars, appVars, Uses, Inside
  <2>2. \A t \in Threads : Inside(t) => cry'[Ctx(t)] = cry[Ctx(t)]
    BY <1>1, <2>1, ContextOf
  <2> QED
    BY <1>2, <2>1, <2>2, ErrorKept DEF ErrorsInv
<1>10. CASE ServeNew \/ ServeAgain
  BY <1>4, <1>10 DEF ServeNew, ServeAgain, Serve, ctxVars, callVars
<1>11. CASE UNCHANGED vars
  BY <1>4, <1>11 DEF vars
<1> QED
  BY <1>5, <1>6, <1>7, <1>8, <1>9, <1>10, <1>11 DEF Next, Begin, Step, InnerStep

LEMMA ErrorsCorrect ==
  ASSUME OneDownloadContext, KeysAreRead
  PROVE  Spec => []ErrorsInv
<1>1. ResultsInv /\ ErrorsInv /\ [Next]_vars => ResultsInv' /\ ErrorsInv'
  BY ResultsInvStep, ErrorsInvStep
<1> QED
  BY <1>1, ResultsInvInit, ErrorsInvInit, PTL DEF Spec

(* Every call but get_chunk: whatever the transport loses, damages,        *)
(* repeats or mixes up, a call that was handed an undamaged error          *)
(* operation of the server returns the code that error stands for; so an   *)
(* error always fits operation_buffer, opens, and is translated before the *)
(* call's own parser looks at it.                                          *)
THEOREM ErrorsAreReported ==
  ASSUME OneDownloadContext, KeysAreRead
  PROVE  Spec => [](\A t \in Threads :
                      pc[t] = "returned" /\ ErrorReceived(t)
                        => ret[t] = ErrorMeaning(got[t].body.items[1].val))
<1>1. ErrorsInv => \A t \in Threads :
                     pc[t] = "returned" /\ ErrorReceived(t)
                       => ret[t] = ErrorMeaning(got[t].body.items[1].val)
  BY DEF ErrorsInv, ErrorInv, ErrorHeld, Finishing
<1> QED
  BY <1>1, ErrorsCorrect, PTL

(* get_chunk looks for the error in operation_buffer, where its reply is   *)
(* not (sdk.c:491), so ServerErrorReported itself holds of an application  *)
(* that does not download; the run chunk_error_code shows one that does.   *)
NoDownloads == \A t \in Threads : \A k \in CallsOf[t] : k.op # "get_chunk"

(* operation_parse_error_response, for an application that does not        *)
(* download: a call that was given an error operation of the server        *)
(* returns the code that error stands for.                                 *)
THEOREM ServerErrorsAreReported ==
  ASSUME NoDownloads, KeysAreRead
  PROVE  Spec => []ServerErrorReported
<1>1. OneDownloadContext
  BY DEF NoDownloads, OneDownloadContext
<1>2. ErrorsInv /\ ResultsInv => ServerErrorReported
  <2> SUFFICES ASSUME ErrorsInv, ResultsInv,
                      NEW t \in Threads, pc[t] = "returned", call[t].op \in MessageOps,
                      got[t].kind = "cose", got[t].key = DeviceId[Ctx(t)],
                      got[t].hdr.opcode = OPERATION_ID_ERROR
               PROVE  ret[t] = ErrorMeaning(got[t].body.items[1].val)
    BY DEF ServerErrorReported
  <2>1. call[t].op # "get_chunk"
    BY DEF NoDownloads, ResultsInv, ExchangeInv, CallsChosen
  <2> QED
    BY <2>1 DEF ErrorsInv, ErrorInv, ErrorReceived, ErrorHeld, Finishing
<1> QED
  BY <1>1, <1>2, ErrorsCorrect, ResultsCorrect, PTL
=============================================================================
