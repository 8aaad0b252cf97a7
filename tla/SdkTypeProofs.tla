--------------------------- MODULE SdkTypeProofs ----------------------------
(***************************************************************************)
(* Type correctness of the SDK: every buffer, message and return code is   *)
(* one of those the operations of the SDK and the server can produce.      *)
(***************************************************************************)
EXTENDS SdkProofs

-----------------------------------------------------------------------------
(* The values operations are made of.                                      *)

LEMMA UintItem == ASSUME NEW n \in Nat PROVE Uint(n) \in Item
  BY DEF Uint, Item, ItemType

LEMMA ConstantItems == Null \in Item /\ NoItem \in Item
  BY DEF Null, NoItem, Item, ItemType

LEMMA BytesItem ==
  ASSUME NEW v \in Nat, NEW at \in Nat, NEW n \in Nat PROVE Bytes(v, at, n) \in Item
  BY DEF Bytes, Item, ItemType

LEMMA Payloads ==
  /\ \A a \in Item : Scalar(a) \in Payload /\ Array(<<a>>) \in Payload
  /\ \A a, b \in Item : Array(<<a, b>>) \in Payload
  /\ \A a, b, c \in Item : Array(<<a, b, c>>) \in Payload
  /\ \A a, b, c, d \in Item : Array(<<a, b, c, d>>) \in Payload
  /\ NoPayload \in Payload
  BY DEF Scalar, Array, NoPayload, Payload

LEMMA ConstantFrames == NoHeader \in Header /\ Garbage \in Frame
  BY Payloads DEF NoHeader, Header, Garbage, Frame, FrameKind

LEMMA Frames ==
  /\ \A p \in Payload : Plain(p) \in Frame
  /\ \A h \in Header, k \in Nat, p \in Payload : Cose(h, k, p) \in Frame
  /\ \A it \in Item : Data(it) \in Frame
  BY Payloads, ConstantFrames DEF Plain, Cose, Data, Frame, FrameKind

LEMMA BytesOfItem ==
  ASSUME NEW it \in Item PROVE BytesOf(it) \in Seq(Nat \X Nat)
<1>1. /\ it.len \in Nat
      /\ \A i \in 1..it.len : <<it.val, it.pos + i - 1>> \in Nat \X Nat
  BY DEF Item
<1> QED
  BY <1>1 DEF BytesOf

-----------------------------------------------------------------------------
(* What the SDK and the server make of them.                               *)

LEMMA RequestTypes ==
  ASSUME NEW k \in CallRecord, k.op \in MessageOps, NEW dev \in Nat, NEW d \in Session
  PROVE  RequestPayload(k, dev, d) \in Payload /\ RequestOpcode(k.op) \in Nat
<1>1. /\ k.id \in Nat /\ k.type \in Nat
      /\ d.firmware_id \in Nat /\ d.offset \in Nat /\ d.chunk_size \in Nat
  BY DEF CallRecord, Session
<1>2. /\ Uint(k.id) \in Item /\ Uint(k.type) \in Item /\ Uint(dev) \in Item
      /\ Uint(d.firmware_id) \in Item /\ Uint(d.offset) \in Item /\ Uint(d.chunk_size) \in Item
  BY <1>1, UintItem
<1>3. CASE k.op = "get_parameter"
  BY <1>2, <1>3, Payloads
     DEF RequestPayload, RequestOpcode, operation_create_get_parameter_request,
         OPERATION_ID_GET_PARAMETER_REQUEST
<1>4. CASE k.op = "get_device_info"
  BY <1>2, <1>4, Payloads
     DEF RequestPayload, RequestOpcode, operation_create_get_device_info_request,
         OPERATION_ID_GET_DEVICE_INFO_REQUEST
<1>5. CASE k.op = "set_device_info"
  BY <1>2, <1>5, Payloads
     DEF RequestPayload, RequestOpcode, operation_create_set_device_info_request,
         OPERATION_ID_SET_DEVICE_INFO_REQUEST
<1>6. CASE k.op = "get_chunk"
  BY <1>2, <1>6, Payloads
     DEF RequestPayload, RequestOpcode, operation_create_get_firmware_request,
         OPERATION_ID_GET_FIRMWARE_REQUEST
<1> QED
  BY <1>3, <1>4, <1>5, <1>6 DEF MessageOps

LEMMA FieldsType == ASSUME NEW f \in Frame PROVE Fields(f) \in Seq(Item) /\ FirstItem(f) \in Item
<1>1. f.body.items \in Seq(Item)
  BY DEF Frame, Payload
<1>2. f.body.items # <<>> => f.body.items[1] \in Item
  BY <1>1
<1> QED
  BY <1>1, <1>2, ConstantItems DEF Fields, FirstItem

LEMMA ErrorResponseType ==
  ASSUME NEW opcode \in Nat, NEW f \in Frame
  PROVE  operation_parse_error_response(opcode, f) \subseteq ErrorCode
<1>1. \A n : ErrorMeaning(n) \in ErrorCode
  BY DEF ErrorMeaning, ErrorCode
<1> QED
  BY <1>1 DEF operation_parse_error_response, ErrorCode

LEMMA ParameterResponseType ==
  ASSUME NEW opcode \in Nat, NEW type \in Nat, NEW f \in Frame, NEW size \in Nat
  PROVE  LET p == operation_parse_get_parameter_response(opcode, type, f, size, 0)
         IN  p.code \in ErrorCode /\ p.item \in Item /\ p.size \in Nat
<1>1. FirstItem(f) \in Item /\ FirstItem(f).len \in Nat /\ FirstItem(f).len + 1 \in Nat
  BY FieldsType DEF Item
<1>2. NoItem \in Item /\ Uint(0) \in Item /\ Uint(1) \in Item
  BY ConstantItems, UintItem
<1> DEFINE it == FirstItem(f)
<1>3. Uint(Truth(it)) \in Item
  BY <1>2 DEF Truth
<1>4. operation_parse_get_parameter_response(opcode, type, f, size, 0) \in
        [code : ErrorCode, item : {NoItem, it, Uint(Truth(it))}, size : {0, it.len, it.len + 1}]
  BY DEF operation_parse_get_parameter_response, ErrorCode, it
<1> HIDE DEF it
<1> QED
  BY <1>1, <1>2, <1>3, <1>4 DEF it

LEMMA InfoResponseType ==
  ASSUME NEW opcode, NEW wanted, NEW f \in Frame, NEW old \in [1..3 -> Nat],
         NEW types, \A i \in 1..3 : types[i] \subseteq {"uint", "null"}
  PROVE  LET r == InfoFields(opcode, wanted, f, types, old)
         IN  r.code \in ErrorCode /\ r.vals \in [1..3 -> Nat]
<1> DEFINE its == Fields(f)
           read(i) == IF its[i].type = "null" THEN 0
                      ELSE its[i].val % (IF i = 3 THEN UINT8 ELSE UINT32)
           vals == [i \in 1..3 |-> IF Reads(its, types, i) THEN read(i) ELSE old[i]]
<1>1. its \in Seq(Item)
  BY FieldsType
<1>2. \A i \in 1..3 : Reads(its, types, i) => its[i] \in Item
  BY <1>1 DEF Reads
<1>3. \A n \in Nat : n % UINT32 \in Nat /\ n % UINT8 \in Nat
  BY UINT32Assumption DEF UINT8
<1>4. \A i \in 1..3 : Reads(its, types, i) => read(i) \in Nat
  <2> SUFFICES ASSUME NEW i \in 1..3, Reads(its, types, i) PROVE read(i) \in Nat
    OBVIOUS
  <2>1. its[i].val \in Nat
    BY <1>2 DEF Item
  <2> HIDE DEF its
  <2> QED
    BY <2>1, <1>3
<1> HIDE DEF read
<1>5. vals \in [1..3 -> Nat]
  BY <1>4
<1> HIDE DEF vals, its
<1>6. InfoFields(opcode, wanted, f, types, old) =
        IF opcode # wanted THEN [code |-> "UNEXPECTED_RESPONSE", vals |-> old]
        ELSE [code |-> IF Reads(its, types, 3) THEN "NONE" ELSE "OPERATION_PARSING", vals |-> vals]
  BY DEF InfoFields, vals, its, read
<1> QED
  BY <1>5, <1>6 DEF ErrorCode

LEMMA FirmwareResponseType ==
  ASSUME NEW opcode, NEW f \in Frame, NEW size \in Nat
  PROVE  LET r == operation_parse_get_firmware_response(opcode, f, size)
         IN  /\ r.code \in ErrorCode /\ r.vals \in [1..3 -> Nat] /\ r.data \in Item
<1> DEFINE its == Fields(f)
           echo(i) == IF Reads(its, << {"uint"}, {"uint"}, ItemType >>, i)
                      THEN its[i].val % UINT32 ELSE 0
<1>1. its \in Seq(Item)
  BY FieldsType
<1>2. \A i \in 1..2 : Reads(its, << {"uint"}, {"uint"}, ItemType >>, i) => its[i] \in Item
  BY <1>1 DEF Reads
<1>3. \A n \in Nat : n % UINT32 \in Nat
  BY UINT32Assumption
<1>4. echo(1) \in Nat /\ echo(2) \in Nat
  <2> HIDE DEF its
  <2> QED
    BY <1>2, <1>3 DEF Item
<1>5. ~(Len(its) < 4) => its[4] \in Item
  BY <1>1
<1>6. <<echo(1), echo(2), 0>> \in [1..3 -> Nat] /\ <<0, 0, 0>> \in [1..3 -> Nat]
  <2> HIDE DEF echo
  <2> QED
    BY <1>4
<1> DEFINE echoes == <<echo(1), echo(2), 0>>
<1>7. operation_parse_get_firmware_response(opcode, f, size) \in
        [code : ErrorCode, vals : {echoes, <<0, 0, 0>>}, data : {NoItem} \cup
           (IF Len(its) < 4 THEN {} ELSE {its[4]})]
  <2> HIDE DEF its
  <2> QED
    BY DEF operation_parse_get_firmware_response, ErrorCode, its
<1> HIDE DEF its, echo, echoes
<1> QED
  BY <1>5, <1>6, <1>7, ConstantItems DEF echoes
LEMMA ServerTypes ==
  ASSUME NEW h \in Header, h.dev \in ServerDevices, NEW p \in Payload, NEW rec \in Record
  PROVE  /\ RecordAfter(h, p, rec) \in Record
         /\ ServerReply(h, p, rec).opcode \in Nat
         /\ ServerReply(h, p, rec).body \in Payload
<1> DEFINE reply == [opcode : Nat, body : Payload]
<1>1. p.items \in Seq(Item) /\ h.opcode \in Nat /\ h.dev \in Nat
  BY DEF Payload, Header
<1>2. ASSUME Decodable(h, p), NEW i \in 1..RequestLength(h.opcode)
      PROVE  p.items[i] \in Item /\ p.items[i].val \in Nat
  <2>1. p.items[i] \in Item
    BY <1>1, <1>2 DEF Decodable
  <2> QED
    BY <2>1 DEF Item
<1>3. /\ OPERATION_ID_GET_PARAMETER_REQUEST # OPERATION_ID_GET_DEVICE_INFO_REQUEST
      /\ OPERATION_ID_GET_PARAMETER_REQUEST # OPERATION_ID_SET_DEVICE_INFO_REQUEST
      /\ OPERATION_ID_GET_DEVICE_INFO_REQUEST # OPERATION_ID_SET_DEVICE_INFO_REQUEST
      /\ OPERATION_ID_GET_DEVICE_INFO_RESPONSE \in Nat
      /\ OPERATION_ID_SET_DEVICE_INFO_RESPONSE \in Nat
  BY DEF OPERATION_ID_GET_PARAMETER_REQUEST, OPERATION_ID_GET_DEVICE_INFO_REQUEST,
         OPERATION_ID_SET_DEVICE_INFO_REQUEST, OPERATION_ID_GET_DEVICE_INFO_RESPONSE,
         OPERATION_ID_SET_DEVICE_INFO_RESPONSE
<1>4. RecordAfter(h, p, rec) \in Record
  <2>1. CASE /\ h.opcode = OPERATION_ID_SET_DEVICE_INFO_REQUEST
             /\ Decodable(h, p) /\ Desired[h.dev] # NoItem
    <3>1. RequestLength(h.opcode) = 2
      BY <2>1 DEF RequestLength, OPERATION_ID_GET_PARAMETER_REQUEST,
           OPERATION_ID_GET_DEVICE_INFO_REQUEST, OPERATION_ID_SET_DEVICE_INFO_REQUEST,
           OPERATION_ID_GET_FIRMWARE_REQUEST
    <3>2. p.items[1] \in Item /\ p.items[2].val \in Nat
      BY <1>2, <2>1, <3>1
    <3> QED
      BY <2>1, <3>2 DEF RecordAfter, Record
  <2>2. CASE ~(/\ h.opcode = OPERATION_ID_SET_DEVICE_INFO_REQUEST
               /\ Decodable(h, p) /\ Desired[h.dev] # NoItem)
    BY <2>2 DEF RecordAfter
  <2> QED
    BY <2>1, <2>2
<1>5. \A code \in Nat : ErrorReply(code) \in reply
  BY UintItem, Payloads DEF ErrorReply, OPERATION_ID_ERROR
<1>6. \A id : ParameterReply(id) \in reply
  BY <1>5, SdkAssumption, Payloads
     DEF ParameterReply, Reply, UnknownParameter, OPERATION_ID_GET_PARAMETER_RESPONSE
<1>7. \A r \in Record : \A n \in Nat : InfoReply(n, h.dev, r) \in reply
  <2> SUFFICES ASSUME NEW r \in Record, NEW n \in Nat PROVE InfoReply(n, h.dev, r) \in reply
    OBVIOUS
  <2>1. r.firmware \in Item /\ Uint(r.status) \in Item
    BY UintItem DEF Record
  <2>2. Desired[h.dev] \in Item
    BY SdkAssumption DEF ServerDevices
  <2>3. InfoBody(r, h.dev) \in Payload
    BY <2>1, <2>2, Payloads DEF InfoBody
  <2>4. DeviceNotFound \in Nat
    BY DEF DeviceNotFound
  <2> QED
    BY <1>5, <2>3, <2>4 DEF InfoReply, Reply
<1>8. \A fw, offset, len \in Nat : FirmwareReply(fw, offset, len) \in reply
  <2> SUFFICES ASSUME NEW fw \in Nat, NEW offset \in Nat, NEW len \in Nat
               PROVE  FirmwareReply(fw, offset, len) \in reply
    OBVIOUS
  <2>1. CASE fw \notin DOMAIN Images
    BY <1>5, <2>1 DEF FirmwareReply, FirmwareNotFound
  <2>2. CASE fw \in DOMAIN Images
    <3> DEFINE d == Slice(fw, offset, len)
    <3>1. \E n \in Nat : d = Bytes(fw, offset, n)
      <4>1. Images[fw] \in Nat
        BY <2>2, SdkAssumption
      <4> QED
        BY <4>1 DEF Slice
    <3>2. d \in Item /\ d.len \in Nat
      BY <3>1, BytesItem DEF Item
    <3>3. Uint(fw) \in Item /\ Uint(offset) \in Item /\ Uint(d.len) \in Item
      BY <3>2, UintItem
    <3> HIDE DEF d
    <3>4. Array(<<Uint(fw), Uint(offset), Uint(d.len), d>>) \in Payload
      BY <3>2, <3>3, Payloads
    <3> QED
      BY <2>2, <3>4 DEF FirmwareReply, Reply, OPERATION_ID_GET_FIRMWARE_RESPONSE, d
  <2> QED
    BY <2>1, <2>2
<1>9. ServerReply(h, p, rec) \in reply
  <2>1. CASE RequestLength(h.opcode) = 0 \/ ~Decodable(h, p)
    BY <1>5, <2>1 DEF ServerReply, InvalidOperation, DecodingError
  <2>2. CASE RequestLength(h.opcode) # 0 /\ Decodable(h, p)
    <3> HIDE DEF reply
    <3>1. CASE h.opcode = OPERATION_ID_GET_PARAMETER_REQUEST
      <4>1. ServerReply(h, p, rec) = ParameterReply(p.items[1].val)
        BY <2>2, <3>1, <1>3 DEF ServerReply
      <4> QED
        BY <4>1, <1>6
    <3>2. CASE h.opcode = OPERATION_ID_GET_DEVICE_INFO_REQUEST
      <4>1. ServerReply(h, p, rec) = InfoReply(OPERATION_ID_GET_DEVICE_INFO_RESPONSE, h.dev, rec)
        BY <2>2, <3>2, <1>3 DEF ServerReply
      <4> QED
        BY <4>1, <1>3, <1>7
    <3>3. CASE h.opcode = OPERATION_ID_SET_DEVICE_INFO_REQUEST
      <4>1. ServerReply(h, p, rec) =
              InfoReply(OPERATION_ID_SET_DEVICE_INFO_RESPONSE, h.dev, RecordAfter(h, p, rec))
        BY <2>2, <3>3, <1>3 DEF ServerReply
      <4> QED
        BY <4>1, <1>3, <1>4, <1>7
    <3>4. CASE /\ h.opcode # OPERATION_ID_GET_PARAMETER_REQUEST
               /\ h.opcode # OPERATION_ID_GET_DEVICE_INFO_REQUEST
               /\ h.opcode # OPERATION_ID_SET_DEVICE_INFO_REQUEST
      <4>1. RequestLength(h.opcode) = 3
        BY <2>2, <3>4 DEF RequestLength
      <4>2. p.items[1].val \in Nat /\ p.items[2].val \in Nat /\ p.items[3].val \in Nat
        BY <1>2, <2>2, <4>1
      <4> QED
        BY <2>2, <3>4, <4>2, <1>8 DEF ServerReply
    <3> QED
      BY <3>1, <3>2, <3>3, <3>4
  <2> QED
    BY <2>1, <2>2
<1> QED
  BY <1>4, <1>9
-----------------------------------------------------------------------------
(* The invariant, by groups of variables.  LockTypes, the types of lock,   *)
(* pc and call, are part of the lock invariant.                            *)

MemTypes ==
  /\ ready \in [Contexts -> BOOLEAN]
  /\ dl \in [Contexts -> Session]
  /\ cry \in [Contexts -> Header]
  /\ mem \in [Contexts -> [Buffer -> Frame]]

RetTypes == static_ret \in ReturnValue /\ ret \in [Threads -> ReturnValue]

LocTypes ==
  /\ loc \in [Threads -> [opcode : Nat, tok : Nat]]
  /\ out \in [Threads -> Outcome]

DataTypes == MemTypes /\ RetTypes /\ LocTypes /\ NetTypes /\ AppTypes

LEMMA TypeGroups == TypeOK <=> LockTypes /\ DataTypes
  BY DEF TypeOK, CtxTypes, CallTypes, LockTypes, DataTypes, MemTypes, RetTypes, LocTypes

(* The groups a step leaves alone.                                         *)
LEMMA MemKept == MemTypes /\ UNCHANGED <<ready, dl, cry, mem>> => MemTypes'
  BY DEF MemTypes
LEMMA LocKept == LocTypes /\ UNCHANGED <<loc, out>> => LocTypes'
  BY DEF LocTypes
LEMMA NetKept == NetTypes /\ UNCHANGED netVars => NetTypes'
  BY DEF NetTypes, netVars
LEMMA AppKept == AppTypes /\ UNCHANGED appVars => AppTypes'
  BY DEF AppTypes, appVars

LEMMA CodesAreValues == ErrorCode \subseteq ReturnValue /\ MinusOne \in ReturnValue
  BY DEF ReturnValue

LEMMA SetRetTypes ==
  ASSUME RetTypes, NEW t \in Threads, NEW code \in ReturnValue, SetRet(t, code)
  PROVE  RetTypes'
  BY DEF RetTypes, SetRet

LEMMA ReturnTypes ==
  ASSUME RetTypes, NEW t \in Threads, NEW code \in ReturnValue, Return(t, code)
  PROVE  RetTypes'
  BY DEF RetTypes, Return

LEMMA ContextOf ==
  ASSUME LockTypes, NEW t \in Threads
  PROVE  /\ call[t] \in CallRecord /\ Ctx(t) \in Contexts
         /\ DeviceId[Ctx(t)] \in Nat /\ KeyRead(Ctx(t)) \subseteq Nat
         /\ InnerBuffer(t) \in Buffer /\ OuterBuffer(t) \in Buffer
<1>1. call[t] \in CallRecord /\ Ctx(t) \in Contexts
  BY DEF LockTypes, CallRecord, Ctx
<1>2. DeviceId[Ctx(t)] \in Nat
  BY <1>1, SdkAssumption
<1> QED
  BY <1>1, <1>2 DEF KeyRead, ZeroKey, InnerBuffer, OuterBuffer, Buffer

LEMMA WriteTypes ==
  ASSUME MemTypes, NEW c \in Contexts, NEW b \in Buffer, NEW f \in Frame, Write(c, b, f),
         UNCHANGED <<ready, dl, cry>>
  PROVE  MemTypes'
<1>1. mem' = [mem EXCEPT ![c] = [mem[c] EXCEPT ![b] = f]]
  BY DEF Write
<1>2. [mem[c] EXCEPT ![b] = f] \in [Buffer -> Frame]
  BY DEF MemTypes
<1> QED
  BY <1>1, <1>2 DEF MemTypes

LEMMA HeaderTypes ==
  ASSUME MemTypes, NEW c \in Contexts, NEW h \in Header, cry' = [cry EXCEPT ![c] = h],
         UNCHANGED <<ready, dl, mem>>
  PROVE  MemTypes'
  BY DEF MemTypes

LEMMA SessionTypes ==
  ASSUME MemTypes, NEW c \in Contexts, NEW s \in Session, dl' = [dl EXCEPT ![c] = s],
         UNCHANGED <<ready, cry, mem>>
  PROVE  MemTypes'
  BY DEF MemTypes
-----------------------------------------------------------------------------
(* One lemma for each kind of step.                                        *)

(* Beginning and ending a call, and firmups_sdk_initialize.                *)
LEMMA InitializeKeepsTypes ==
  ASSUME DataTypes, NEW c \in Contexts, NEW w, SdkInitialize(c, w)
  PROVE  DataTypes'
<1>1. MemTypes'
  <2>1. dl' = [dl EXCEPT ![c] = [dl[c] EXCEPT !.valid = FALSE, !.lock = FALSE]]
    BY DEF SdkInitialize
  <2>2. [dl[c] EXCEPT !.valid = FALSE, !.lock = FALSE] \in Session
    BY DEF DataTypes, MemTypes, Session
  <2> QED
    BY <2>1, <2>2, ConstantFrames DEF SdkInitialize, DataTypes, MemTypes
<1>2. RetTypes' /\ LocTypes' /\ NetTypes' /\ AppTypes'
  BY LocKept, NetKept, AppKept DEF SdkInitialize, DataTypes, RetTypes, callVars
<1> QED
  BY <1>1, <1>2 DEF DataTypes

LEMMA BeginKeepsTypes ==
  ASSUME LockTypes, DataTypes, NEW t \in Threads, Begin(t)
  PROVE  DataTypes'
<1>1. PICK k \in CallsOf[t] : CallRejected(t, k) \/ CallRefused(t, k) \/ CallLocks(t, k)
  BY DEF Begin
<1>2. k \in CallRecord /\ k.ctx \in Contexts
  BY SdkAssumption DEF CallRecord
<1>3. budget' \in [Threads -> Nat]
  <2>1. budget[t] \in Nat /\ budget[t] > 0 /\ budget' = [budget EXCEPT ![t] = budget[t] - 1]
    BY <1>1 DEF CallRejected, CallRefused, CallLocks, Calls, DataTypes, AppTypes
  <2> QED
    BY <2>1 DEF DataTypes, AppTypes
<1>4. CASE CallRejected(t, k) \/ CallRefused(t, k)
  <2>1. RetTypes'
    BY <1>4 DEF CallRejected, CallRefused, Refuse, DataTypes, RetTypes, ReturnValue, ErrorCode
  <2>2. UNCHANGED <<ready, dl, cry, mem, loc, out, netVars, flash, window, got>>
    BY <1>4 DEF CallRejected, CallRefused, Refuse, ctxVars
  <2>3. MemTypes' /\ LocTypes' /\ NetTypes'
    BY <2>2, MemKept, LocKept, NetKept DEF DataTypes
  <2>4. AppTypes'
    BY <2>2, <1>3 DEF DataTypes, AppTypes
  <2> QED
    BY <2>1, <2>3, <2>4 DEF DataTypes
<1>5. CASE CallLocks(t, k)
  <2>1. /\ UNCHANGED <<ready, dl, cry, mem, static_ret, ret, loc, out, netVars, flash, got>>
        /\ window' = [window EXCEPT ![t] = RecordsNow(k.ctx)]
    BY <1>5 DEF CallLocks
  <2>2. MemTypes' /\ LocTypes' /\ NetTypes' /\ RetTypes'
    BY <2>1, MemKept, LocKept, NetKept DEF DataTypes, RetTypes
  <2>3. RecordsNow(k.ctx) \subseteq Record
    BY DEF RecordsNow, DataTypes, NetTypes
  <2>4. AppTypes'
    BY <2>1, <2>3, <1>3 DEF DataTypes, AppTypes
  <2> QED
    BY <2>2, <2>4 DEF DataTypes
<1> QED
  BY <1>1, <1>4, <1>5

LEMMA ConsumeKeepsTypes ==
  ASSUME LockTypes, DataTypes, NEW t \in Threads, Consume(t)
  PROVE  DataTypes'
<1>1. MemTypes' /\ NetTypes'
  BY MemKept, NetKept DEF Consume, ctxVars, DataTypes
<1>2. RetTypes'
  BY DEF Consume, DataTypes, RetTypes, ReturnValue, ErrorCode
<1>3. NoLoc \in [opcode : Nat, tok : Nat] /\ NoOut \in Outcome
  BY ConstantItems DEF NoLoc, NoOut, Outcome
<1>4. LocTypes'
  BY <1>3 DEF Consume, DataTypes, LocTypes
<1>5. \A c \in Contexts : ChunkBytes(c) \in Seq(Nat \X Nat)
  <2> SUFFICES ASSUME NEW c \in Contexts PROVE ChunkBytes(c) \in Seq(Nat \X Nat)
    OBVIOUS
  <2> DEFINE f == mem[c]["buffer1"]
  <2>1. f.body.items \in Seq(Item)
    BY DEF DataTypes, MemTypes, Buffer, Frame, Payload
  <2>2. f.body.items # <<>> => f.body.items[1] \in Item
    BY <2>1
  <2>3. f.body.items # <<>> => BytesOf(f.body.items[1]) \in Seq(Nat \X Nat)
    BY <2>2, BytesOfItem
  <2>4. <<UnknownByte>> \in Seq(Nat \X Nat)
    BY DEF UnknownByte
  <2> QED
    BY <2>3, <2>4 DEF ChunkBytes
<1>6. flash' \in [Contexts -> Seq(Nat \X Nat)]
  <2>1. Ctx(t) \in Contexts
    BY ContextOf
  <2>2. flash[Ctx(t)] \o ChunkBytes(Ctx(t)) \in Seq(Nat \X Nat)
    BY <2>1, <1>5 DEF DataTypes, AppTypes
  <2> QED
    BY <2>1, <2>2 DEF Consume, DataTypes, AppTypes
<1>7. AppTypes'
  BY <1>6, ConstantFrames DEF Consume, DataTypes, AppTypes
<1> QED
  BY <1>1, <1>2, <1>4, <1>7 DEF DataTypes

(* Steps that set a return code and nothing else.                          *)
LEMMA CodeStepKeepsTypes ==
  ASSUME LockTypes, DataTypes, NEW t \in Threads,
         \/ RejectArguments(t) \/ RejectNoSession(t) \/ InitializeTooSmall(t)
         \/ InitializeBusy(t) \/ CommitMismatch(t) \/ CommitSimple(t) \/ Bail(t)
         \/ SendFails(t) \/ ParseError(t) \/ Leave(t) \/ Unlock(t)
  PROVE  DataTypes'
<1>1. UNCHANGED <<ready, dl, cry, mem, loc, out, netVars, appVars>>
  BY DEF RejectArguments, RejectNoSession, InitializeTooSmall, InitializeBusy, CommitMismatch,
         CommitSimple, Bail, SendFails, ParseError, Leave, Unlock, ctxVars, callVars
<1>2. RetTypes'
  <2> USE DEF DataTypes
  <2>1. CASE Bail(t) \/ CommitSimple(t) \/ Unlock(t)
    BY <2>1 DEF RetTypes, Bail, CommitSimple, Unlock
  <2>2. CASE Leave(t)
    BY <2>2 DEF RetTypes, Leave, RetRead
  <2>3. CASE ParseError(t)
    <3>1. operation_parse_error_response(loc[t].opcode, ErrorSource(t)) \subseteq ErrorCode
      <4>1. loc[t].opcode \in Nat
        BY DEF LocTypes
      <4>2. ErrorSource(t) \in Frame
        BY ContextOf DEF ErrorSource, MemTypes, Buffer
      <4> QED
        BY <4>1, <4>2, ErrorResponseType
    <3> QED
      BY <2>3, <3>1, SetRetTypes, CodesAreValues DEF ParseError
  <2>4. CASE SendFails(t)
    <3>1. {"TIMEOUT", "COMMUNICATION_FAILURE"} \subseteq ReturnValue
      BY DEF ReturnValue, ErrorCode
    <3> QED
      BY <2>4, <3>1, SetRetTypes DEF SendFails
  <2>5. CASE \/ RejectArguments(t) \/ RejectNoSession(t) \/ InitializeTooSmall(t)
             \/ InitializeBusy(t) \/ CommitMismatch(t)
    <3>1. {"INVALID_ARGUMENT", "NOT_INITIALIZED", "BUFFER_TOO_SMALL", "UNSUPPORTED_CONCURRENCY",
           "UNEXPECTED_RESPONSE"} \subseteq ReturnValue
      BY DEF ReturnValue, ErrorCode
    <3> QED
      BY <2>5, <3>1, ReturnTypes
         DEF RejectArguments, RejectNoSession, InitializeTooSmall, InitializeBusy, CommitMismatch
  <2> QED
    BY <2>1, <2>2, <2>3, <2>4, <2>5
<1> QED
  BY <1>1, <1>2, MemKept, LocKept, NetKept, AppKept DEF DataTypes

(* Steps that change the session.                                          *)
LEMMA SessionStepKeepsTypes ==
  ASSUME LockTypes, DataTypes, NEW t \in Threads,
         InitializeStarts(t) \/ Finish(t) \/ CommitChunk(t)
  PROVE  DataTypes'
<1> DEFINE c == Ctx(t)
<1>1. c \in Contexts /\ call[t] \in CallRecord /\ dl[c] \in Session /\ out[t] \in Outcome
  BY ContextOf DEF DataTypes, MemTypes, LocTypes
<1>2. "NONE" \in ReturnValue
  BY DEF ReturnValue, ErrorCode
<1>3. CASE InitializeStarts(t)
  <2>1. NewSession(call[t]) \in Session
    <3> DEFINE b1 == Buffer1Size(call[t].size)
    <3>1. /\ call[t].id \in Nat /\ call[t].size \in Nat /\ b1 \in Nat
          /\ call[t].size - b1 \in Nat
      BY <1>1 DEF CallRecord, Buffer1Size
    <3>2. ChunkSizeLoss(b1) \in Nat /\ b1 - ChunkSizeLoss(b1) \in Nat
      BY <1>3, <3>1 DEF InitializeStarts, TooSmall, ChunkSizeLoss, BstrHeaderSize, UintSize,
           COSE_HEADER_SIZE, COSE_PROTECTED_HEADER_MAX_SIZE, CRYPTO_TAG_SIZE
    <3> HIDE DEF b1
    <3> QED
      BY <3>1, <3>2 DEF NewSession, Session, b1
  <2>2. MemTypes'
    BY <1>1, <1>3, <2>1, SessionTypes DEF InitializeStarts, DataTypes
  <2>3. AppTypes'
    BY <1>1, <1>3 DEF InitializeStarts, DataTypes, AppTypes
  <2> QED
    BY <1>2, <1>3, <2>2, <2>3, ReturnTypes, LocKept, NetKept
       DEF InitializeStarts, DataTypes, callVars
<1>4. CASE Finish(t)
  <2>1. dl' = [dl EXCEPT ![c] = [dl[c] EXCEPT !.valid = FALSE, !.lock = FALSE]]
    BY <1>4 DEF Finish
  <2>2. [dl[c] EXCEPT !.valid = FALSE, !.lock = FALSE] \in Session
    BY <1>1 DEF Session
  <2>3. MemTypes'
    BY <1>1, <1>4, <2>1, <2>2, SessionTypes DEF Finish, DataTypes
  <2> QED
    BY <1>2, <1>4, <2>3, ReturnTypes, LocKept, NetKept, AppKept DEF Finish, DataTypes, callVars
<1>5. CASE CommitChunk(t)
  <2> DEFINE n == (dl[c].offset + out[t].size) % UINT32
  <2>1. n \in Nat
    BY <1>1, UINT32Assumption DEF Session, Outcome
  <2>2. dl' = [dl EXCEPT ![c] = [dl[c] EXCEPT !.offset = n]]
    BY <1>5 DEF CommitChunk
  <2> HIDE DEF n
  <2>3. [dl[c] EXCEPT !.offset = n] \in Session
    BY <1>1, <2>1 DEF Session
  <2>4. MemTypes'
    BY <1>1, <1>5, <2>2, <2>3, SessionTypes DEF CommitChunk, DataTypes
  <2> DEFINE last == IsComplete(out[t].size, dl[c].chunk_size)
  <2>5. last \in BOOLEAN
    BY DEF IsComplete
  <2>6. out' = [out EXCEPT ![t] = [out[t] EXCEPT !.complete = last, !.output = TRUE]]
    BY <1>5 DEF CommitChunk
  <2> HIDE DEF last
  <2>7. [out[t] EXCEPT !.complete = last, !.output = TRUE] \in Outcome
    BY <1>1, <2>5 DEF Outcome
  <2>8. LocTypes'
    BY <1>5, <2>6, <2>7 DEF CommitChunk, DataTypes, LocTypes
  <2> QED
    BY <1>5, <2>4, <2>8, NetKept, AppKept DEF CommitChunk, DataTypes, RetTypes
<1> QED
  BY <1>3, <1>4, <1>5

(* Making, sealing and sending the request.                                *)
LEMMA RequestStepKeepsTypes ==
  ASSUME LockTypes, DataTypes, NEW t \in Threads,
         \/ CreateRequest(t) \/ DrawNonce(t) \/ RandomFails(t) \/ Seal(t)
         \/ Send(t) \/ Forward(t)
  PROVE  DataTypes'
<1> DEFINE c == Ctx(t)
<1>1. /\ c \in Contexts /\ call[t] \in CallRecord /\ DeviceId[c] \in Nat
      /\ InnerBuffer(t) \in Buffer /\ OuterBuffer(t) \in Buffer /\ KeyRead(c) \subseteq Nat
  BY ContextOf
<1>2. /\ dl[c] \in Session /\ cry[c] \in Header /\ loc[t] \in [opcode : Nat, tok : Nat]
      /\ mem[c][InnerBuffer(t)] \in Frame /\ mem[c][OuterBuffer(t)] \in Frame
  BY <1>1 DEF DataTypes, MemTypes, LocTypes
<1>3. {"NONE", "OPERATION_ENCODING", "CRYPTOGRAPHIC_FAILURE", "BUFFER_TOO_SMALL"}
        \subseteq ReturnValue
  BY DEF ReturnValue, ErrorCode
<1>4. CASE CreateRequest(t)
  <2> DEFINE p == RequestPayload(call[t], DeviceId[c], dl[c])
             n == RequestOpcode(call[t].op)
  <2>1. p \in Payload /\ n \in Nat
    BY <1>1, <1>2, <1>4, RequestTypes DEF CreateRequest
  <2>2. Plain(p) \in Frame /\ Garbage \in Frame
    BY <2>1, Frames, ConstantFrames
  <2> HIDE DEF p, n
  <2>3. \E f \in {Plain(p), Garbage} : Write(c, OuterBuffer(t), f)
    BY <1>4 DEF CreateRequest, p
  <2>4. MemTypes'
    BY <1>1, <1>4, <2>2, <2>3, WriteTypes DEF CreateRequest, DataTypes
  <2>5. RetTypes'
    BY <1>3, <1>4, SetRetTypes DEF CreateRequest, DataTypes
  <2>6. loc' = [loc EXCEPT ![t] = [loc[t] EXCEPT !.opcode = n]]
    BY <1>4 DEF CreateRequest, n
  <2>7. [loc[t] EXCEPT !.opcode = n] \in [opcode : Nat, tok : Nat]
    BY <1>2, <2>1
  <2>8. LocTypes'
    BY <1>4, <2>6, <2>7 DEF CreateRequest, DataTypes, LocTypes
  <2> QED
    BY <1>4, <2>4, <2>5, <2>8, NetKept, AppKept DEF CreateRequest, DataTypes
<1>5. CASE DrawNonce(t)
  <2>1. drawn' \in Nat
    BY <1>5 DEF DrawNonce, DataTypes, NetTypes
  <2>2. [dev |-> DeviceId[c], opcode |-> loc[t].opcode, nonce |-> drawn'] \in Header
    BY <1>1, <1>2, <2>1 DEF Header
  <2>3. MemTypes'
    BY <1>1, <1>5, <2>2, HeaderTypes DEF DrawNonce, DataTypes
  <2>4. NetTypes'
    BY <1>5, <2>1 DEF DrawNonce, DataTypes, NetTypes
  <2> QED
    BY <1>5, <2>3, <2>4, LocKept, AppKept DEF DrawNonce, DataTypes, RetTypes, callVars
<1>6. CASE RandomFails(t)
  <2>1. MemTypes'
    BY <1>1, <1>6, ConstantFrames, HeaderTypes DEF RandomFails, DataTypes
  <2> QED
    BY <1>3, <1>6, <2>1, SetRetTypes, LocKept, NetKept, AppKept
       DEF RandomFails, DataTypes, callVars
<1>7. CASE Seal(t)
  <2>1. \A key \in KeyRead(c) : Cose(cry[c], key, mem[c][OuterBuffer(t)].body) \in Frame
    BY <1>1, <1>2, Frames DEF Frame
  <2>2. \E f \in Frame : Write(c, InnerBuffer(t), f)
    BY <1>7, <2>1, ConstantFrames DEF Seal
  <2>3. MemTypes'
    BY <1>1, <1>7, <2>2, WriteTypes DEF Seal, DataTypes
  <2> QED
    BY <1>3, <1>7, <2>3, SetRetTypes, LocKept, NetKept, AppKept DEF Seal, DataTypes, callVars
<1>8. ASSUME NEW m \in Frame, Posted(t, m)
      PROVE  DataTypes'
  <2> DEFINE entry == [ctx |-> c, call |-> call[t], msg |-> m]
  <2>1. entry \in Request
    BY <1>1 DEF Request
  <2>2. reqs' = Append(reqs, entry) /\ UNCHANGED <<drawn, served, reps, srv>>
    BY <1>8 DEF Posted
  <2>3. NetTypes'
    <3> HIDE DEF entry
    <3>1. reqs' \in Seq(Request) /\ Len(reqs') = Len(reqs) + 1 /\ Len(reqs) \in Nat
      BY <2>1, <2>2 DEF DataTypes, NetTypes
    <3>2. served' \subseteq 1..Len(reqs')
      BY <2>2, <3>1 DEF DataTypes, NetTypes
    <3> QED
      BY <2>2, <3>1, <3>2 DEF DataTypes, NetTypes
  <2>4. loc' = [loc EXCEPT ![t] = [loc[t] EXCEPT !.tok = Len(reqs) + 1]]
    BY <1>8 DEF Posted
  <2>5. [loc[t] EXCEPT !.tok = Len(reqs) + 1] \in [opcode : Nat, tok : Nat]
    BY <1>2 DEF DataTypes, NetTypes
  <2>6. LocTypes'
    BY <1>8, <2>4, <2>5 DEF Posted, DataTypes, LocTypes
  <2> QED
    BY <1>8, <2>3, <2>6, MemKept, AppKept DEF Posted, DataTypes, RetTypes, ctxVars
<1>9. CASE Send(t)
  BY <1>2, <1>8, <1>9 DEF Send
<1>10. CASE Forward(t)
  <2>1. ForeignMessage(call[t].id) \in Frame
    <3>1. call[t].id \in Nat
      BY <1>1 DEF CallRecord
    <3>2. Array(<<Uint(call[t].id)>>) \in Payload
      BY <3>1, UintItem, Payloads
    <3>3. [dev |-> call[t].id, opcode |-> OPERATION_ID_GET_DEVICE_INFO_REQUEST, nonce |-> 0]
            \in Header
      BY <3>1 DEF Header, OPERATION_ID_GET_DEVICE_INFO_REQUEST
    <3> QED
      BY <3>1, <3>2, <3>3, Frames DEF ForeignMessage
  <2> QED
    BY <1>8, <1>10, <2>1 DEF Forward
<1> QED
  BY <1>4, <1>5, <1>6, <1>7, <1>9, <1>10

(* The server, and the way back of its reply.                              *)
LEMMA ServeKeepsTypes ==
  ASSUME DataTypes, NEW q \in 1..Len(reqs), Serve(q)
  PROVE  DataTypes'
<1> DEFINE m == reqs[q].msg
           dev == m.hdr.dev
<1>1. m \in Frame /\ m.hdr \in Header /\ m.body \in Payload
  <2>1. reqs[q] \in Request
    BY DEF DataTypes, NetTypes
  <2>2. m \in Frame
    BY <2>1 DEF Request
  <2> QED
    BY <2>2 DEF Frame
<1>2. UNCHANGED <<ready, dl, cry, mem, static_ret, ret, loc, out, drawn, reqs, budget, flash, got>>
  BY DEF Serve, ctxVars, callVars
<1>3. served' \subseteq 1..Len(reqs')
  BY <1>2 DEF Serve, DataTypes, NetTypes
<1>4. CASE ~Authentic(m)
  <2>1. UNCHANGED <<reps, srv, window>>
    BY <1>4 DEF Serve
  <2> QED
    BY <1>2, <1>3, <2>1, MemKept, LocKept DEF DataTypes, RetTypes, NetTypes, AppTypes
<1>5. CASE Authentic(m)
  <2>1. dev \in ServerDevices /\ dev \in Nat /\ srv[dev] \in Record
    BY <1>1, <1>5 DEF Authentic, Header, DataTypes, NetTypes
  <2> DEFINE a == ServerReply(m.hdr, m.body, srv[dev])
             rec == RecordAfter(m.hdr, m.body, srv[dev])
  <2>2. a.opcode \in Nat /\ a.body \in Payload /\ rec \in Record
    BY <1>1, <2>1, ServerTypes
  <2>3. Answer(m) \in Frame
    <3>1. [dev |-> dev, opcode |-> a.opcode, nonce |-> 1] \in Header
      BY <2>1, <2>2 DEF Header
    <3>2. Cose([dev |-> dev, opcode |-> a.opcode, nonce |-> 1], dev, a.body) \in Frame
      BY <2>1, <2>2, <3>1, Frames
    <3> QED
      BY <3>2 DEF Answer
  <2> HIDE DEF a, rec
  <2>4. /\ reps' = reps \cup {[tok |-> q, msg |-> Answer(m)]}
        /\ srv' = [srv EXCEPT ![dev] = rec]
        /\ window' = [t \in Threads |->
              IF Inside(t) /\ DeviceId[Ctx(t)] = dev
              THEN window[t] \cup {srv'[dev]} ELSE window[t]]
    BY <1>5 DEF Serve, rec
  <2>5. [tok |-> q, msg |-> Answer(m)] \in Response
    BY <2>3 DEF Response
  <2> HIDE DEF m
  <2>6. NetTypes'
    BY <1>2, <1>3, <2>2, <2>4, <2>5 DEF DataTypes, NetTypes
  <2>7. srv'[dev] \in Record
    BY <2>1, <2>6 DEF NetTypes
  <2>8. window' \in [Threads -> SUBSET Record]
    BY <2>4, <2>7 DEF DataTypes, AppTypes
  <2>9. AppTypes'
    BY <1>2, <2>8 DEF DataTypes, AppTypes
  <2> QED
    BY <1>2, <2>6, <2>9, MemKept, LocKept DEF DataTypes, RetTypes
<1> QED
  BY <1>4, <1>5

LEMMA ReplyStepKeepsTypes ==
  ASSUME LockTypes, DataTypes, NEW t \in Threads,
         Deliver(t) \/ OpenHeader(t) \/ NotAMessage(t) \/ Open(t)
  PROVE  DataTypes'
<1> DEFINE c == Ctx(t)
<1>1. /\ c \in Contexts /\ InnerBuffer(t) \in Buffer /\ OuterBuffer(t) \in Buffer
  BY ContextOf
<1>2. loc[t] \in [opcode : Nat, tok : Nat] /\ mem[c][OuterBuffer(t)] \in Frame
  BY <1>1 DEF DataTypes, MemTypes, LocTypes
<1>3. {"NONE", "MESSAGE_PARSING", MinusOne} \subseteq ReturnValue
  BY DEF ReturnValue, ErrorCode
<1>4. CASE Deliver(t)
  <2> DEFINE arrives(m) ==
        /\ IF call[t].op = "gateway" THEN UNCHANGED mem ELSE Write(c, OuterBuffer(t), m)
        /\ got' = [got EXCEPT ![t] = m]
        /\ SetRet(t, "NONE")
        /\ UNCHANGED <<ready, lock, dl, cry, callVars, netVars, budget, flash, window>>
  <2>0. PICK r \in reps : \E m \in Arrivals(r.msg) : arrives(m)
    BY <1>4 DEF Deliver
  <2>1. PICK m \in Arrivals(r.msg) : arrives(m)
    BY <2>0
  <2>2. m \in Frame
    <3>1. r.msg \in Frame
      BY DEF DataTypes, NetTypes, Response
    <3>2. [r.msg EXCEPT !.key = NoKey] \in Frame
      BY <3>1 DEF Frame, NoKey
    <3> QED
      BY <3>1, <3>2, ConstantFrames DEF Arrivals
  <2>3. MemTypes'
    BY <1>1, <2>1, <2>2, WriteTypes, MemKept DEF DataTypes
  <2>4. AppTypes'
    BY <2>1, <2>2 DEF DataTypes, AppTypes
  <2> QED
    BY <1>3, <2>1, <2>3, <2>4, SetRetTypes, LocKept, NetKept DEF DataTypes, callVars
<1>5. CASE OpenHeader(t)
  <2> DEFINE h == mem[c][OuterBuffer(t)].hdr
  <2>1. h \in Header /\ h.opcode \in Nat
    BY <1>2 DEF Frame, Header
  <2>2. /\ cry' = [cry EXCEPT ![c] = h]
        /\ loc' = [loc EXCEPT ![t] = [loc[t] EXCEPT !.opcode = h.opcode]]
    BY <1>5 DEF OpenHeader
  <2> HIDE DEF h
  <2>3. MemTypes'
    BY <1>1, <1>5, <2>1, <2>2, HeaderTypes DEF OpenHeader, DataTypes
  <2>4. [loc[t] EXCEPT !.opcode = h.opcode] \in [opcode : Nat, tok : Nat]
    BY <1>2, <2>1
  <2>5. LocTypes'
    BY <1>5, <2>2, <2>4 DEF OpenHeader, DataTypes, LocTypes
  <2> QED
    BY <1>5, <2>3, <2>5, NetKept, AppKept DEF OpenHeader, DataTypes, RetTypes
<1>6. CASE NotAMessage(t)
  <2>1. MemTypes'
    BY <1>1, <1>6, ConstantFrames, HeaderTypes DEF NotAMessage, DataTypes
  <2> QED
    BY <1>3, <1>6, <2>1, SetRetTypes, LocKept, NetKept, AppKept
       DEF NotAMessage, DataTypes, callVars
<1>7. CASE Open(t)
  <2>1. Plain(mem[c][OuterBuffer(t)].body) \in Frame
    BY <1>2, Frames DEF Frame
  <2>2. /\ UNCHANGED mem \/ \E f \in Frame : Write(c, InnerBuffer(t), f)
        /\ \E code \in ReturnValue : SetRet(t, code)
    BY <1>3, <1>7, <2>1, ConstantFrames DEF Open
  <2>3. MemTypes'
    BY <1>1, <1>7, <2>2, WriteTypes, MemKept DEF Open, DataTypes
  <2> QED
    BY <1>7, <2>2, <2>3, SetRetTypes, LocKept, NetKept, AppKept DEF Open, DataTypes, callVars
<1> QED
  BY <1>4, <1>5, <1>6, <1>7

(* The response parsers.                                                   *)
LEMMA ParseStepKeepsTypes ==
  ASSUME LockTypes, DataTypes, NEW t \in Threads, ParseSimple(t) \/ ParseChunk(t)
  PROVE  DataTypes'
<1> DEFINE c == Ctx(t)
           k == call[t]
           o == out[t]
<1>1. /\ c \in Contexts /\ InnerBuffer(t) \in Buffer /\ k \in CallRecord
  BY ContextOf
<1>2. /\ loc[t].opcode \in Nat /\ o \in Outcome /\ o.vals \in [1..3 -> Nat]
      /\ k.type \in Nat /\ k.size \in Nat /\ dl[c].buffer1_size \in Nat
      /\ mem[c][InnerBuffer(t)] \in Frame /\ mem[c]["buffer2"] \in Frame
  BY <1>1 DEF DataTypes, MemTypes, LocTypes, Outcome, CallRecord, Session, Buffer
<1>3. ASSUME NEW v \in Outcome, out' = [out EXCEPT ![t] = v], UNCHANGED loc
      PROVE  LocTypes'
  BY <1>3 DEF DataTypes, LocTypes
<1>4. CASE ParseSimple(t)
  <2> DEFINE f == mem[c][InnerBuffer(t)]
             p == operation_parse_get_parameter_response(loc[t].opcode, k.type, f, k.size, 0)
             i == IF k.op = "get_device_info"
                  THEN operation_parse_get_device_info_response(loc[t].opcode, f, o.vals)
                  ELSE operation_parse_set_device_info_response(loc[t].opcode, f, o.vals)
  <2>1. p.code \in ErrorCode /\ p.item \in Item /\ p.size \in Nat
    BY <1>2, ParameterResponseType
  <2>2. i.code \in ErrorCode /\ i.vals \in [1..3 -> Nat]
    BY <1>2, InfoResponseType
       DEF operation_parse_get_device_info_response, operation_parse_set_device_info_response
  <2>3. \/ SetRet(t, p.code) /\ out' = [out EXCEPT ![t] = [o EXCEPT !.item = p.item, !.size = p.size]]
        \/ SetRet(t, i.code) /\ out' = [out EXCEPT ![t] = [o EXCEPT !.vals = i.vals]]
    BY <1>4 DEF ParseSimple
  <2> HIDE DEF p, i
  <2>4. /\ [o EXCEPT !.item = p.item, !.size = p.size] \in Outcome
        /\ [o EXCEPT !.vals = i.vals] \in Outcome
    BY <1>2, <2>1, <2>2 DEF Outcome
  <2>5. RetTypes' /\ LocTypes'
    BY <1>3, <1>4, <2>1, <2>2, <2>3, <2>4, SetRetTypes, CodesAreValues
       DEF ParseSimple, DataTypes
  <2> QED
    BY <1>4, <2>5, MemKept, NetKept, AppKept DEF ParseSimple, DataTypes, ctxVars
<1>5. CASE ParseChunk(t)
  <2> DEFINE r == operation_parse_get_firmware_response(
                    loc[t].opcode, mem[c]["buffer2"], dl[c].buffer1_size)
             n == IF r.code = "NONE" THEN r.data.len ELSE o.size
  <2>1. r.code \in ErrorCode /\ r.vals \in [1..3 -> Nat] /\ r.data \in Item
    BY <1>2, FirmwareResponseType
  <2>2. n \in Nat /\ Data(r.data) \in Frame
    BY <1>2, <2>1, Frames DEF Item, Outcome
  <2>3. /\ SetRet(t, r.code)
        /\ UNCHANGED mem \/ Write(c, "buffer1", Data(r.data))
        /\ out' = [out EXCEPT ![t] = [o EXCEPT !.vals = r.vals, !.size = n]]
    BY <1>5 DEF ParseChunk
  <2> HIDE DEF r, n
  <2>4. [o EXCEPT !.vals = r.vals, !.size = n] \in Outcome
    BY <1>2, <2>1, <2>2 DEF Outcome
  <2>5. RetTypes' /\ LocTypes'
    BY <1>3, <1>5, <2>1, <2>3, <2>4, SetRetTypes, CodesAreValues DEF ParseChunk, DataTypes
  <2>6. MemTypes'
    BY <1>1, <1>5, <2>2, <2>3, WriteTypes, MemKept DEF ParseChunk, DataTypes, Buffer
  <2> QED
    BY <1>5, <2>5, <2>6, NetKept, AppKept DEF ParseChunk, DataTypes
<1> QED
  BY <1>4, <1>5

-----------------------------------------------------------------------------
(* The invariant itself.                                                   *)

LEMMA InitTypes == Init => DataTypes
<1> SUFFICES ASSUME Init PROVE DataTypes
  OBVIOUS
<1>1. NoSession \in Session /\ NoLoc \in [opcode : Nat, tok : Nat] /\ NoOut \in Outcome
  BY ConstantItems DEF NoSession, Session, NoLoc, NoOut, Outcome
<1>2. MemTypes
  BY <1>1, ConstantFrames DEF Init, MemTypes
<1>3. RetTypes /\ LocTypes
  BY <1>1 DEF Init, RetTypes, LocTypes, ReturnValue, ErrorCode
<1>4. NetTypes
  BY ConstantItems DEF Init, NetTypes, Record
<1>5. AppTypes
  BY SdkAssumption, ConstantFrames DEF Init, AppTypes
<1> QED
  BY <1>2, <1>3, <1>4, <1>5 DEF DataTypes

LEMMA StepKeepsTypes == LockTypes /\ DataTypes /\ [Next]_vars => DataTypes'
<1> SUFFICES ASSUME LockTypes, DataTypes, [Next]_vars PROVE DataTypes'
  OBVIOUS
<1>1. CASE \E c \in Contexts, w \in WorkBuffers : SdkInitialize(c, w)
  BY <1>1, InitializeKeepsTypes
<1>2. CASE \E t \in Threads : Begin(t)
  BY <1>2, BeginKeepsTypes
<1>3. ASSUME NEW t \in Threads, Step(t) PROVE DataTypes'
  BY <1>3, ConsumeKeepsTypes, CodeStepKeepsTypes, SessionStepKeepsTypes, RequestStepKeepsTypes,
     ReplyStepKeepsTypes, ParseStepKeepsTypes DEF Step
<1>4. CASE ServeNew \/ ServeAgain
  <2>1. served \subseteq 1..Len(reqs)
    BY DEF DataTypes, NetTypes
  <2> QED
    BY <1>4, <2>1, ServeKeepsTypes DEF ServeNew, ServeAgain
<1>5. CASE UNCHANGED vars
  BY <1>5, MemKept, LocKept, NetKept, AppKept
     DEF vars, DataTypes, RetTypes, netVars, appVars
<1> QED
  BY <1>1, <1>2, <1>3, <1>4, <1>5 DEF Next

(* Whatever the threads, calls, server and transport do: every buffer      *)
(* holds a frame of the kinds the operations make, every offset and size   *)
(* is a natural number, and every return code is one of error.h or -1.     *)
THEOREM TypeCorrect == Spec => []TypeOK
<1>1. Init => LockInv /\ DataTypes
  BY LockInvInit, InitTypes
<1>2. (LockInv /\ DataTypes) /\ [Next]_vars => (LockInv /\ DataTypes)'
  BY LockInvStep, StepKeepsTypes DEF LockInv
<1>3. LockInv /\ DataTypes => TypeOK
  BY TypeGroups DEF LockInv
<1> QED
  BY <1>1, <1>2, <1>3, PTL DEF Spec
=============================================================================
