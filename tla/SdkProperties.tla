---------------------------- MODULE SdkProperties ---------------------------
(***************************************************************************)
(* What the SDK is meant to guarantee, stated about FirmupsSdk.            *)
(***************************************************************************)
EXTENDS FirmupsSdk

(* Every variable holds a value of its kind; return codes are those of     *)
(* error.h or the -1 that crypto.c lets through.                           *)
Session ==
  [valid : BOOLEAN, lock : BOOLEAN, firmware_id : Nat, offset : Nat,
   chunk_size : Nat, buffer1_size : Nat, buffer2_size : Nat]

Request  == [ctx : Contexts, call : CallRecord, msg : Frame]
Response == [tok : Nat, msg : Frame]
Outcome  == [vals : [1..3 -> Nat], item : Item, size : Nat,
             complete : BOOLEAN, output : BOOLEAN]

CtxTypes ==
  /\ ready \in [Contexts -> BOOLEAN]
  /\ lock \in [Contexts -> BOOLEAN]
  /\ dl \in [Contexts -> Session]
  /\ cry \in [Contexts -> Header]
  /\ mem \in [Contexts -> [Buffer -> Frame]]
  /\ static_ret \in ReturnValue

CallTypes ==
  /\ pc \in [Threads -> ControlPoint]
  /\ call \in [Threads -> CallRecord]
  /\ ret \in [Threads -> ReturnValue]
  /\ loc \in [Threads -> [opcode : Nat, tok : Nat]]
  /\ out \in [Threads -> Outcome]

NetTypes ==
  /\ drawn \in Nat
  /\ reqs \in Seq(Request)
  /\ served \subseteq 1..Len(reqs)
  /\ reps \subseteq Response
  /\ srv \in [ServerDevices -> Record]

AppTypes ==
  /\ budget \in [Threads -> Nat]
  /\ flash \in [Contexts -> Seq(Nat \X Nat)]
  /\ window \in [Threads -> SUBSET Record]
  /\ got \in [Threads -> Frame]

TypeOK == CtxTypes /\ CallTypes /\ NetTypes /\ AppTypes

-----------------------------------------------------------------------------
(* The lock.                                                               *)

(* LOCK_CONTEXT / UNLOCK_CONTEXT: on every path through every public       *)
(* function a context is locked exactly while one thread, and no other, is *)
(* working in it, whatever callbacks fail and wherever the call returns.   *)
MutualExclusion ==
  /\ \A t, u \in Threads : Inside(t) /\ Inside(u) /\ Ctx(t) = Ctx(u) => t = u
  /\ \A c \in Contexts : lock[c] <=> \E t \in Threads : Inside(t) /\ Ctx(t) = c

(* download_initialize locks the download context and only finish and      *)
(* firmups_sdk_initialize unlock it: it is locked exactly while a session  *)
(* is open, so a session is never opened over another one and a finished   *)
(* one never blocks the next.                                              *)
SessionLock == \A c \in Contexts : dl[c].lock <=> dl[c].valid

-----------------------------------------------------------------------------
(* The exchange of messages.                                               *)

Returned(t, op) == pc[t] = "returned" /\ call[t].op = op
Succeeded(t, op) == Returned(t, op) /\ ret[t] = "NONE"

OwnRequest(q) == reqs[q].call.op # "gateway"

(* cose_encrypt_msg with the buffers and the crypto context of the SDK     *)
(* context: whatever other threads do, a message that reaches send_data    *)
(* carries the device id of its context, the opcode and the operation of   *)
(* the call that sent it, sealed under the device's key.  (What a chunk    *)
(* request asks for depends on the session, of which ImageIntact and       *)
(* CompleteMeansWhole speak.)                                              *)
RequestFaithful ==
  \A q \in 1..Len(reqs) :
    LET k == reqs[q].call
        dev == DeviceId[reqs[q].ctx]
        m == reqs[q].msg
    IN  OwnRequest(q) =>
          /\ m.kind = "cose" /\ m.key = dev
          /\ m.hdr.dev = dev /\ m.hdr.opcode = RequestOpcode(k.op)
          /\ k.op # "get_chunk" => m.body = RequestPayload(k, dev, NoSession)

(* get_random_bytes fills the nonce of the context: no two messages of the *)
(* SDK ever leave under one nonce, also when the random source fails.      *)
NonceUnique ==
  \A q, r \in 1..Len(reqs) :
    OwnRequest(q) /\ OwnRequest(r) /\ q # r
      => reqs[q].msg.hdr.nonce # reqs[r].msg.hdr.nonce

(* operation_parse_error_response: a call that was given an error          *)
(* operation of the server returns the code that error stands for.         *)
ServerErrorReported ==
  \A t \in Threads :
    /\ pc[t] = "returned" /\ call[t].op \in MessageOps
    /\ got[t].kind = "cose" /\ got[t].key = DeviceId[Ctx(t)]
    /\ got[t].hdr.opcode = OPERATION_ID_ERROR
    => ret[t] = ErrorMeaning(got[t].body.items[1].val)

(* get_parameter: a call that succeeds has stored exactly the value the    *)
(* server keeps under the id it asked for, and its true size; a string has *)
(* room for its terminator.                                                *)
ParameterIntegrity ==
  \A t \in Threads : Succeeded(t, "get_parameter") =>
    LET k == call[t]
        v == Params[k.id]
        o == out[t]
    IN  /\ k.id \in DOMAIN Params
        /\ IF k.type = BOOLEAN_TYPE
           THEN o.item.val = 1 <=> v.type = "nint" \/ v.val # 0
           ELSE o.item = v
        /\ k.type = STRING_TYPE => o.size = v.len + 1 /\ o.size <= k.size
        /\ k.type = BINARY => o.size = v.len /\ o.size <= k.size

(* get_device_info: a call that succeeds returns a record the server held  *)
(* at some moment of the call, its three fields belonging together.        *)
InfoIsCurrent ==
  \A t \in Threads : Succeeded(t, "get_device_info") =>
    \E rec \in window[t] :
      out[t].vals = <<rec.firmware.val, Desired[DeviceId[Ctx(t)]].val, rec.status>>

(* set_device_info: the echo is compared with the request, so a call that  *)
(* succeeds means the server has been given a request of this context that *)
(* it could open and that made the device's record that very firmware and  *)
(* status, whatever reply the transport came up with.                      *)
BlankRecord == [firmware |-> Null, status |-> 0]

Records(m, rec) == Authentic(m) /\ RecordAfter(m.hdr, m.body, BlankRecord) = rec

UpdateApplied ==
  \A t \in Threads : Succeeded(t, "set_device_info") =>
    \E q \in served :
      /\ reqs[q].ctx = Ctx(t)
      /\ reqs[q].msg.hdr.dev = DeviceId[Ctx(t)]
      /\ reqs[q].msg.hdr.opcode = OPERATION_ID_SET_DEVICE_INFO_REQUEST
      /\ Records(reqs[q].msg, [firmware |-> Uint(call[t].id), status |-> call[t].type])

-----------------------------------------------------------------------------
(* The firmware download.                                                  *)

(* What the application has of the image: what it wrote, and the chunk a   *)
(* get_chunk has already counted but the application has not yet read.     *)
Pending(c) ==
  IF \E t \in Threads : IsChunk(t) /\ Ctx(t) = c /\ out[t].output
  THEN ChunkBytes(c) ELSE <<>>

ImageOf(c) == flash[c] \o Pending(c)

(* get_chunk counts bytes exactly when it hands them out: while a session  *)
(* is open the application holds the first `offset` bytes of the firmware  *)
(* the session was opened for, each once and in order, across errors,      *)
(* retries and replies to other requests.                                  *)
ImageIntact ==
  \A c \in Contexts : dl[c].valid =>
    ImageOf(c) = BytesOf(Bytes(dl[c].firmware_id, 0, dl[c].offset))

(* The return code of get_chunk is that of its own call: it is NONE if and *)
(* only if the offset moved and the output pointer was set.                *)
ChunkReturnHonest ==
  \A t \in Threads : Returned(t, "get_chunk") => (ret[t] = "NONE" <=> out[t].output)

(* is_complete: a chunk announced as the last one makes the image whole.   *)
CompleteMeansWhole ==
  \A t \in Threads :
    Succeeded(t, "get_chunk") /\ out[t].complete /\ dl[Ctx(t)].valid
      => Len(ImageOf(Ctx(t))) = Images[dl[Ctx(t)].firmware_id]

(* What may happen to an open session.  It advances: a get_chunk on the    *)
(* context hands out a chunk and counts it, once, the other fields as they *)
(* were.  It ends: the application asked for it with finish, or gave the   *)
(* context's memory to firmups_sdk_initialize while no call was using it.  *)
Advances(c) ==
  \E t \in Threads :
    /\ Inside(t) /\ Ctx(t) = c /\ IsChunk(t)
    /\ ~out[t].output /\ out'[t].output
    /\ out'[t].size <= dl[c].buffer1_size
    /\ dl'[c] = [dl[c] EXCEPT !.offset = (@ + out'[t].size) % UINT32]

Ends(c) ==
  /\ dl'[c] = [dl[c] EXCEPT !.valid = FALSE, !.lock = FALSE]
  /\ \/ \E t \in Threads : Inside(t) /\ Ctx(t) = c /\ call[t].op = "finish"
     \/ \A t \in Threads : ~Uses(t, c)

OpenSessionsStay == \A c \in Contexts : dl[c].valid => dl'[c] = dl[c] \/ Advances(c) \/ Ends(c)

(* An open session changes in these two ways and in no other: a second     *)
(* download_initialize, a failed call, a call through another context or a *)
(* reply to an earlier request neither moves nor ends it.                  *)
SessionStable == [][OpenSessionsStay]_dl

(* The download functions implement the session the application sees.      *)
FirmwareIds == {k.id : k \in UNION {CallsOf[t] : t \in Threads}}

Download ==
  INSTANCE DownloadSession WITH
    Firmwares <- FirmwareIds,
    ImageSize <- Images,
    active    <- [c \in Contexts |-> dl[c].valid],
    firmware  <- [c \in Contexts |-> dl[c].firmware_id],
    image     <- [c \in Contexts |-> ImageOf(c)]

DownloadImplementsSession == Download!Spec

-----------------------------------------------------------------------------
(* Progress.                                                               *)

(* Every call returns, whatever the callbacks answer: no call waits for a  *)
(* lock, and none is left behind in the middle.                            *)
CallsReturn == \A t \in Threads : Inside(t) ~> pc[t] = "idle"

-----------------------------------------------------------------------------
(* What the code says of itself and does not keep.                         *)

(* error.h: every public function returns an enum firmups_sdk_error_code.  *)
ReturnCodeInEnum == \A t \in Threads : pc[t] = "returned" => ret[t] \in ErrorCode

(* parameter.c: BUFFER_TOO_SMALL, "Buffer too small for bytes value", is   *)
(* returned only for a binary value that is larger than the buffer.        *)
TooSmallIsTooSmall ==
  \A t \in Threads :
    /\ Returned(t, "get_parameter") /\ call[t].type = BINARY
    /\ ret[t] = "BUFFER_TOO_SMALL"
    => Params[call[t].id].len > call[t].size

(* sdk.c, download_initialize: a buffer that is accepted and not refused   *)
(* with "Buffer size too small for firmware download initialization" is    *)
(* one a download can be made through.  A chunk that is not the last one   *)
(* brings it on ...                                                        *)
ChunkProgress ==
  \A t \in Threads : Succeeded(t, "get_chunk") /\ ~out[t].complete => out[t].size > 0

(* ... and the reply to a request for chunk_size bytes fits the half of the*)
(* buffer chunk_size was computed from.                                    *)
ReplyFits ==
  \A t \in Threads : pc[t] = "wait" /\ IsChunk(t) =>
    \A r \in reps : r.tok = loc[t].tok => MessageSize(r.msg.hdr, r.msg.body) <= ReplyRoom(t)
=============================================================================
