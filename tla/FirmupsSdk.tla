----------------------------- MODULE FirmupsSdk -----------------------------
(***************************************************************************)
(* The device SDK as src/src/sdk.c runs it: application threads calling    *)
(* the public functions on SDK contexts, each context guarded by a lock    *)
(* that is tried and never waited for, every operation one exchange of     *)
(* sealed messages with the server through callbacks the application gave. *)
(*                                                                         *)
(* A call moves through the control points below; a step runs from one     *)
(* callback, or one use of memory that others can reach, to the next.      *)
(*                                                                         *)
(*   idle -> body -> header -> seal -> send -> wait -> open_header -> open *)
(*        -> parse_error -> parse_response -> commit -> leave -> unlock    *)
(*        -> returned -> idle                                              *)
(***************************************************************************)
EXTENDS Backend

CONSTANTS
  Threads,       \* threads of the application
  Contexts,      \* SDK contexts
  CallsOf,       \* thread -> the calls it may make
  DeviceId,      \* context -> the device id it is initialised with
  WorkBuffers,   \* the memory offered for a context: [size, addr]
  CONTEXT_SIZE, ALIGNMENT,   \* sizeof and alignof of struct firmups_sdk_context
  Faults,        \* subset of {"random", "key", "timeout", "corrupt", "dup"}
  Matching,      \* TRUE if send_data returns only a reply to its own request
  MaxCalls       \* bound: thread -> the number of calls it makes

CallRecord == [op : Op, ctx : Contexts, ptr : BOOLEAN, id : Nat, type : Nat, size : Nat]

ASSUME SdkAssumption ==
  /\ Contexts # {}
  /\ CallsOf \in [Threads -> SUBSET CallRecord]
  /\ DeviceId \in [Contexts -> Nat \ {ZeroKey, NoKey}]
  /\ Matching \in BOOLEAN
  /\ MaxCalls \in [Threads -> Nat]
  /\ Params \in [DOMAIN Params -> Item]
  /\ Images \in [DOMAIN Images -> Nat]
  /\ Desired \in [DOMAIN Desired -> Item]

OPERATION_BUFFER_SIZE == 128
RESPONSE_BUFFER_SIZE  == 128

Buffer == {"response_buffer", "operation_buffer", "buffer1", "buffer2"}

VARIABLES
  \* struct firmups_sdk_context, one per context
  ready,        \* firmups_sdk_initialize has returned it
  lock,         \* atomic_flag lock
  dl,           \* firmware_download_ctx
  cry,          \* cose_ctx.crypto_ctx: the header (nonce, associated data) in use
  mem,          \* the contents of its buffers and of the two download buffers
  \* the one object all contexts share
  static_ret,   \* static ret_code of sdk_firmware_download_get_chunk
  \* a call in progress, one per thread
  pc, call, ret, loc, out,
  \* the transport and the server
  drawn,        \* nonces the random source has produced
  reqs,         \* messages handed to send_data, in order
  served,       \* indices of those the server has seen
  reps,         \* replies the server has sent: [tok, msg]
  srv,          \* the record of each device
  \* the application, and history
  budget,       \* calls a thread may still make
  flash,        \* bytes written in the current download of a context
  window,       \* device records visible while a thread's call was running
  got           \* the reply a thread's call was given

ctxVars   == <<ready, lock, dl, cry, mem>>
callVars  == <<call, loc, out>>
netVars   == <<drawn, reqs, served, reps, srv>>
appVars   == <<budget, flash, window, got>>
vars == <<ready, lock, dl, cry, mem, static_ret, pc, call, ret, loc, out,
          drawn, reqs, served, reps, srv, budget, flash, window, got>>

ControlPoint ==
  {"idle", "body", "header", "seal", "send", "wait", "open_header", "open",
   "parse_error", "parse_response", "commit", "leave", "unlock", "returned"}

NoCall == [op |-> "finish", ctx |-> CHOOSE c \in Contexts : TRUE, ptr |-> TRUE,
           id |-> 0, type |-> 0, size |-> 0]
NoLoc  == [opcode |-> 0, tok |-> 0]
NoOut  == [vals |-> <<0, 0, 0>>, item |-> NoItem, size |-> 0,
           complete |-> FALSE, output |-> FALSE]
NoSession == [valid |-> FALSE, lock |-> FALSE, firmware_id |-> 0, offset |-> 0,
              chunk_size |-> 0, buffer1_size |-> 0, buffer2_size |-> 0]

Init ==
  /\ ready = [c \in Contexts |-> FALSE]
  /\ lock = [c \in Contexts |-> FALSE]
  /\ dl = [c \in Contexts |-> NoSession]
  /\ cry = [c \in Contexts |-> NoHeader]
  /\ mem = [c \in Contexts |-> [b \in Buffer |-> Garbage]]
  /\ static_ret = "NONE"
  /\ pc = [t \in Threads |-> "idle"]
  /\ call = [t \in Threads |-> NoCall]
  /\ ret = [t \in Threads |-> "NONE"]
  /\ loc = [t \in Threads |-> NoLoc]
  /\ out = [t \in Threads |-> NoOut]
  /\ drawn = 0
  /\ reqs = <<>>
  /\ served = {}
  /\ reps = {}
  /\ srv = [d \in ServerDevices |-> [firmware |-> Null, status |-> 0]]
  /\ budget = MaxCalls
  /\ flash = [c \in Contexts |-> <<>>]
  /\ window = [t \in Threads |-> {}]
  /\ got = [t \in Threads |-> Garbage]

-----------------------------------------------------------------------------
(* Names for parts of the state.                                           *)

Ctx(t) == call[t].ctx
IsChunk(t) == call[t].op = "get_chunk"

(* The code holds the lock between taking it and releasing it.             *)
Inside(t) == pc[t] \notin {"idle", "returned"}

Uses(t, c) == pc[t] # "idle" /\ Ctx(t) = c

(* The buffer that holds the request, then the reply; and the one that     *)
(* holds the message, then the decrypted operation.                        *)
OuterBuffer(t) == IF IsChunk(t) THEN "buffer1" ELSE "response_buffer"
InnerBuffer(t) == IF IsChunk(t) THEN "buffer2" ELSE "operation_buffer"

Capacity(c, b) ==
  CASE b = "buffer1"          -> dl[c].buffer1_size
    [] b = "buffer2"          -> dl[c].buffer2_size
    [] b = "operation_buffer" -> OPERATION_BUFFER_SIZE
    [] OTHER                  -> RESPONSE_BUFFER_SIZE

(* ret_code: a local variable of the call, except in get_chunk, where the  *)
(* declaration is static and the calls of every context store to one       *)
(* object.  A read there yields what that object holds or, where the       *)
(* compiler kept it, what this call stored last.                           *)
RetRead(t) == IF IsChunk(t) THEN {static_ret, ret[t]} ELSE {ret[t]}

SetRet(t, code) ==
  /\ ret' = [ret EXCEPT ![t] = code]
  /\ static_ret' = IF IsChunk(t) THEN code ELSE static_ret

Goto(t, l) == pc' = [pc EXCEPT ![t] = l]
Write(c, b, f) == mem' = [mem EXCEPT ![c][b] = f]

(* return <constant>: past ret_code, to the wrapper's UNLOCK_CONTEXT.      *)
Return(t, code) ==
  /\ Goto(t, "unlock")
  /\ ret' = [ret EXCEPT ![t] = code]
  /\ UNCHANGED static_ret

-----------------------------------------------------------------------------
(* firmups_sdk_initialize: the checks on the memory offered, then every    *)
(* field but the two buffers.  The application does not initialise a       *)
(* context that a call is using.  What is refused changes nothing (a null  *)
(* api pointer like a null buffer, whose address here is 0).               *)

Adequate(w) == w.addr # 0 /\ w.size >= CONTEXT_SIZE /\ w.addr % ALIGNMENT = 0

(* Fault: the lock is not cleared.                                         *)
InitializeKeepsLock(c, w) ==
  /\ \A t \in Threads : ~Uses(t, c)
  /\ Adequate(w)
  /\ ready' = [ready EXCEPT ![c] = TRUE]
  /\ dl' = [dl EXCEPT ![c].valid = FALSE, ![c].lock = FALSE]
  /\ cry' = [cry EXCEPT ![c] = NoHeader]
  /\ UNCHANGED <<lock, mem, static_ret, pc, ret, callVars, netVars, appVars>>

SdkInitialize(c, w) ==
  /\ \A t \in Threads : ~Uses(t, c)
  /\ Adequate(w)
  /\ ready' = [ready EXCEPT ![c] = TRUE]
  /\ lock' = [lock EXCEPT ![c] = FALSE]
  /\ dl' = [dl EXCEPT ![c].valid = FALSE, ![c].lock = FALSE]
  /\ cry' = [cry EXCEPT ![c] = NoHeader]
  /\ UNCHANGED <<mem, static_ret, pc, ret, callVars, netVars, appVars>>

-----------------------------------------------------------------------------
(* The public functions: LOCK_CONTEXT, the private function, UNLOCK_CONTEXT*)
(* The gateway function tests its arguments before it takes the lock.      *)

(* Fault: the result of the test-and-set is not looked at.                 *)
LockIgnored(c) == TRUE

LockFree(c) == ~lock[c]
GatewayRejects(k) == k.op = "gateway" /\ ~k.ptr

Calls(t, k) ==
  /\ pc[t] = "idle"
  /\ budget[t] > 0
  /\ ready[k.ctx]
  /\ budget' = [budget EXCEPT ![t] = @ - 1]
  /\ call' = [call EXCEPT ![t] = k]

Refuse(t, code) ==
  /\ Goto(t, "returned")
  /\ ret' = [ret EXCEPT ![t] = code]
  /\ UNCHANGED <<ctxVars, static_ret, loc, out, netVars, flash, window, got>>

CallRejected(t, k) == GatewayRejects(k) /\ Calls(t, k) /\ Refuse(t, "INVALID_ARGUMENT")

CallRefused(t, k) ==
  /\ ~GatewayRejects(k)
  /\ ~LockFree(k.ctx)
  /\ Calls(t, k)
  /\ Refuse(t, "UNSUPPORTED_CONCURRENCY")

RecordsNow(c) ==
  IF DeviceId[c] \in ServerDevices THEN {srv[DeviceId[c]]} ELSE {}

CallLocks(t, k) ==
  /\ ~GatewayRejects(k)
  /\ LockFree(k.ctx)
  /\ Calls(t, k)
  /\ lock' = [lock EXCEPT ![k.ctx] = TRUE]
  /\ window' = [window EXCEPT ![t] = RecordsNow(k.ctx)]
  /\ Goto(t, "body")
  /\ UNCHANGED <<ready, dl, cry, mem, static_ret, ret, loc, out, netVars, flash, got>>

(* return ret_code in a private function: the value is read here.          *)
Leave(t) ==
  /\ pc[t] = "leave"
  /\ Goto(t, "unlock")
  /\ \E code \in RetRead(t) : ret' = [ret EXCEPT ![t] = code]
  /\ UNCHANGED <<ctxVars, static_ret, callVars, netVars, appVars>>

Unlock(t) ==
  /\ pc[t] = "unlock"
  /\ Goto(t, "returned")
  /\ lock' = [lock EXCEPT ![Ctx(t)] = FALSE]
  /\ UNCHANGED <<ready, dl, cry, mem, static_ret, ret, callVars, netVars, appVars>>

(* The application takes the result.  Of get_chunk it reads, through the   *)
(* pointer it was given, the download buffer of the context.               *)
UnknownByte == <<0, 0>>
ChunkBytes(c) ==
  LET f == mem[c]["buffer1"]
  IN  IF f.kind = "data" /\ f.body.items # <<>>
      THEN BytesOf(f.body.items[1])
      ELSE <<UnknownByte>>

Consume(t) ==
  /\ pc[t] = "returned"
  /\ Goto(t, "idle")
  /\ flash' = IF IsChunk(t) /\ ret[t] = "NONE" /\ out[t].output
              THEN [flash EXCEPT ![Ctx(t)] = @ \o ChunkBytes(Ctx(t))] ELSE flash
  /\ call' = [call EXCEPT ![t] = NoCall]
  /\ ret' = [ret EXCEPT ![t] = "NONE"]
  /\ loc' = [loc EXCEPT ![t] = NoLoc]
  /\ out' = [out EXCEPT ![t] = NoOut]
  /\ window' = [window EXCEPT ![t] = {}]
  /\ got' = [got EXCEPT ![t] = Garbage]
  /\ UNCHANGED <<ctxVars, static_ret, netVars, budget>>

-----------------------------------------------------------------------------
(* The body of the private functions, up to the first message.             *)

BadArguments(k) ==
  \/ k.op # "finish" /\ ~k.ptr
  \/ k.op = "download_initialize" /\ k.size <= 2

NoSessionFor(t) == IsChunk(t) /\ ~dl[Ctx(t)].valid

RejectArguments(t) ==
  /\ pc[t] = "body"
  /\ BadArguments(call[t])
  /\ Return(t, "INVALID_ARGUMENT")
  /\ UNCHANGED <<ctxVars, callVars, netVars, appVars>>

RejectNoSession(t) ==
  /\ pc[t] = "body"
  /\ ~BadArguments(call[t])
  /\ NoSessionFor(t)
  /\ Return(t, "NOT_INITIALIZED")
  /\ UNCHANGED <<ctxVars, callVars, netVars, appVars>>

(* sdk_firmware_download_initialize: the buffer split in two, and what a   *)
(* message costs taken off the first half.                                 *)
Buffer1Size(size) == size \div 2
ChunkSizeLoss(b1) == BstrHeaderSize(b1) + COSE_HEADER_SIZE + CRYPTO_TAG_SIZE

InitializeCall(t) ==
  pc[t] = "body" /\ call[t].op = "download_initialize" /\ ~BadArguments(call[t])

(* Fault: the test on the buffer is left out.                              *)
AnySizeWillDo(k) == FALSE

TooSmall(k) == Buffer1Size(k.size) < ChunkSizeLoss(Buffer1Size(k.size))

InitializeTooSmall(t) ==
  /\ InitializeCall(t)
  /\ TooSmall(call[t])
  /\ Return(t, "BUFFER_TOO_SMALL")
  /\ UNCHANGED <<ctxVars, callVars, netVars, appVars>>

(* Fault: the fields are assigned before the download lock is tried.       *)
InitializeOverwrites(t) ==
  /\ InitializeCall(t)
  /\ ~TooSmall(call[t])
  /\ dl[Ctx(t)].lock
  /\ dl' = [dl EXCEPT ![Ctx(t)].firmware_id = call[t].id]
  /\ Return(t, "UNSUPPORTED_CONCURRENCY")
  /\ UNCHANGED <<ready, lock, cry, mem, callVars, netVars, appVars>>

InitializeBusy(t) ==
  /\ InitializeCall(t)
  /\ ~TooSmall(call[t])
  /\ dl[Ctx(t)].lock
  /\ Return(t, "UNSUPPORTED_CONCURRENCY")
  /\ UNCHANGED <<ctxVars, callVars, netVars, appVars>>

(* Fault: the download lock is left open.                                  *)
UnlockedSession(k) ==
  LET b1 == Buffer1Size(k.size)
  IN  [valid |-> TRUE, lock |-> FALSE, firmware_id |-> k.id, offset |-> 0,
       chunk_size |-> b1 - ChunkSizeLoss(b1),
       buffer1_size |-> b1, buffer2_size |-> k.size - b1]

NewSession(k) ==
  LET b1 == Buffer1Size(k.size)
  IN  [valid |-> TRUE, lock |-> TRUE, firmware_id |-> k.id, offset |-> 0,
       chunk_size |-> b1 - ChunkSizeLoss(b1),
       buffer1_size |-> b1, buffer2_size |-> k.size - b1]

InitializeStarts(t) ==
  /\ InitializeCall(t)
  /\ ~TooSmall(call[t])
  /\ ~dl[Ctx(t)].lock
  /\ dl' = [dl EXCEPT ![Ctx(t)] = NewSession(call[t])]
  /\ flash' = [flash EXCEPT ![Ctx(t)] = <<>>]
  /\ Return(t, "NONE")
  /\ UNCHANGED <<ready, lock, cry, mem, callVars, netVars, budget, window, got>>

(* Fault: the download lock is not released.                               *)
FinishKeepsLock(t) ==
  /\ pc[t] = "body"
  /\ call[t].op = "finish"
  /\ dl' = [dl EXCEPT ![Ctx(t)].valid = FALSE]
  /\ Return(t, "NONE")
  /\ UNCHANGED <<ready, lock, cry, mem, callVars, netVars, appVars>>

Finish(t) ==
  /\ pc[t] = "body"
  /\ call[t].op = "finish"
  /\ dl' = [dl EXCEPT ![Ctx(t)].valid = FALSE, ![Ctx(t)].lock = FALSE]
  /\ Return(t, "NONE")
  /\ UNCHANGED <<ready, lock, cry, mem, callVars, netVars, appVars>>

CreateRequest(t) ==
  LET c == Ctx(t)
      p == RequestPayload(call[t], DeviceId[c], dl[c])
      fits == PayloadSize(p) <= Capacity(c, OuterBuffer(t))
  IN  /\ pc[t] = "body"
      /\ call[t].op \in MessageOps
      /\ ~BadArguments(call[t])
      /\ ~NoSessionFor(t)
      /\ Write(c, OuterBuffer(t), IF fits THEN Plain(p) ELSE Garbage)
      /\ loc' = [loc EXCEPT ![t].opcode = RequestOpcode(call[t].op)]
      /\ SetRet(t, IF fits THEN "NONE" ELSE "OPERATION_ENCODING")
      /\ Goto(t, "header")
      /\ UNCHANGED <<ready, lock, dl, cry, call, out, netVars, appVars>>

(* Where the code tests ret_code and goes on only if it holds NONE.        *)
CheckPoint ==
  {"header", "send", "open_header", "parse_error", "parse_response", "commit"}

Proceeds(t, l) == pc[t] = l /\ "NONE" \in RetRead(t)

Bail(t) ==
  /\ pc[t] \in CheckPoint
  /\ RetRead(t) # {"NONE"}
  /\ Goto(t, "leave")
  /\ UNCHANGED <<ctxVars, static_ret, ret, callVars, netVars, appVars>>

-----------------------------------------------------------------------------
(* cose_encrypt_msg.  The nonce is drawn into the context, the protected   *)
(* header built from it; then the operation is sealed under that header    *)
(* into the message buffer.                                                *)

DrawNonce(t) ==
  /\ Proceeds(t, "header")
  /\ drawn' = drawn + 1
  /\ cry' = [cry EXCEPT ![Ctx(t)] =
              [dev |-> DeviceId[Ctx(t)], opcode |-> loc[t].opcode, nonce |-> drawn']]
  /\ Goto(t, "seal")
  /\ UNCHANGED <<ready, lock, dl, mem, static_ret, ret, callVars,
                 reqs, served, reps, srv, appVars>>

(* Fault: the return code of get_random_bytes is ignored.                  *)
RandomIgnored(t) ==
  /\ "random" \in Faults
  /\ Proceeds(t, "header")
  /\ cry' = [cry EXCEPT ![Ctx(t)] =
              [dev |-> DeviceId[Ctx(t)], opcode |-> loc[t].opcode, nonce |-> 0]]
  /\ Goto(t, "seal")
  /\ UNCHANGED <<ready, lock, dl, mem, static_ret, ret, callVars, netVars, appVars>>

RandomFails(t) ==
  /\ "random" \in Faults
  /\ Proceeds(t, "header")
  /\ cry' = [cry EXCEPT ![Ctx(t)] = NoHeader]
  /\ SetRet(t, "CRYPTOGRAPHIC_FAILURE")
  /\ Goto(t, "send")
  /\ UNCHANGED <<ready, lock, dl, mem, callVars, netVars, appVars>>

(* get_key's return code is ignored: if it fails the key is all zeros.     *)
KeyRead(c) == {DeviceId[c]} \cup (IF "key" \in Faults THEN {ZeroKey} ELSE {})

(* The operation, sealed, fits what the header leaves of the buffer.  The  *)
(* header itself always fits: no buffer is shorter than 73 bytes.          *)
Sealable(t) ==
  LET c == Ctx(t)
      p == mem[c][OuterBuffer(t)].body
  IN  MessageSize(cry[c], p) <= Capacity(c, InnerBuffer(t))

Seal(t) ==
  LET c == Ctx(t)
      p == mem[c][OuterBuffer(t)].body
  IN  /\ pc[t] = "seal"
      /\ \E key \in KeyRead(c) :
           Write(c, InnerBuffer(t), IF Sealable(t) THEN Cose(cry[c], key, p) ELSE Garbage)
      /\ SetRet(t, IF Sealable(t) THEN "NONE" ELSE "BUFFER_TOO_SMALL")
      /\ Goto(t, "send")
      /\ UNCHANGED <<ready, lock, dl, cry, callVars, netVars, appVars>>

-----------------------------------------------------------------------------
(* api.send_data: the application's callback hands the message over, waits *)
(* for a reply or gives up.  A gateway call forwards another device's      *)
(* message the same way.                                                   *)

Posted(t, m) ==
  /\ reqs' = Append(reqs, [ctx |-> Ctx(t), call |-> call[t], msg |-> m])
  /\ loc' = [loc EXCEPT ![t].tok = Len(reqs) + 1]
  /\ Goto(t, "wait")
  /\ UNCHANGED <<ctxVars, static_ret, ret, call, out, drawn, served, reps, srv, appVars>>

Send(t) == Proceeds(t, "send") /\ Posted(t, mem[Ctx(t)][InnerBuffer(t)])

ForeignMessage(dev) ==
  Cose([dev |-> dev, opcode |-> OPERATION_ID_GET_DEVICE_INFO_REQUEST, nonce |-> 0],
       dev, Array(<<Uint(dev)>>))

Forward(t) ==
  /\ pc[t] = "body"
  /\ call[t].op = "gateway"
  /\ Posted(t, ForeignMessage(call[t].id))

ReplyRoom(t) ==
  IF call[t].op = "gateway" THEN call[t].size ELSE Capacity(Ctx(t), OuterBuffer(t))

Deliverable(t, r) ==
  /\ IF Matching THEN r.tok = loc[t].tok ELSE reqs[r.tok].ctx = Ctx(t)
  /\ MessageSize(r.msg.hdr, r.msg.body) <= ReplyRoom(t)

(* On the way a message may be damaged in its sealed part or beyond        *)
(* recognition.                                                            *)
Arrivals(m) ==
  {m} \cup (IF "corrupt" \in Faults THEN {[m EXCEPT !.key = NoKey], Garbage} ELSE {})

AfterSend(t) == IF call[t].op = "gateway" THEN "leave" ELSE "open_header"

Deliver(t) ==
  \E r \in reps : \E m \in Arrivals(r.msg) :
    /\ pc[t] = "wait"
    /\ Deliverable(t, r)
    /\ IF call[t].op = "gateway" THEN UNCHANGED mem ELSE Write(Ctx(t), OuterBuffer(t), m)
    /\ got' = [got EXCEPT ![t] = m]
    /\ SetRet(t, "NONE")
    /\ Goto(t, AfterSend(t))
    /\ UNCHANGED <<ready, lock, dl, cry, callVars, netVars, budget, flash, window>>

GivesUp(t) ==
  \/ "timeout" \in Faults
  \/ loc[t].tok \in served /\ \A r \in reps : ~Deliverable(t, r)

(* Fault: an exchange that failed is waited for again.                     *)
SendFailsWaits(t) ==
  /\ pc[t] = "wait"
  /\ GivesUp(t)
  /\ SetRet(t, IF "timeout" \in Faults THEN "TIMEOUT" ELSE "COMMUNICATION_FAILURE")
  /\ UNCHANGED <<ctxVars, pc, callVars, netVars, appVars>>

SendFails(t) ==
  /\ pc[t] = "wait"
  /\ GivesUp(t)
  /\ SetRet(t, IF "timeout" \in Faults THEN "TIMEOUT" ELSE "COMMUNICATION_FAILURE")
  /\ Goto(t, AfterSend(t))
  /\ UNCHANGED <<ctxVars, callVars, netVars, appVars>>

(* The server opens the q-th message and answers; with "dup" it may see    *)
(* the same message again.  It does not answer what it cannot open.        *)
Authentic(m) == m.kind = "cose" /\ m.hdr.dev \in ServerDevices /\ m.key = m.hdr.dev

Answer(m) ==
  LET a == ServerReply(m.hdr, m.body, srv[m.hdr.dev])
  IN  Cose([dev |-> m.hdr.dev, opcode |-> a.opcode, nonce |-> 1], m.hdr.dev, a.body)

Serve(q) ==
  LET m == reqs[q].msg
  IN  /\ served' = served \cup {q}
      /\ IF Authentic(m)
         THEN /\ reps' = reps \cup {[tok |-> q, msg |-> Answer(m)]}
              /\ srv' = [srv EXCEPT ![m.hdr.dev] = RecordAfter(m.hdr, m.body, @)]
              /\ window' = [t \in Threads |->
                   IF Inside(t) /\ DeviceId[Ctx(t)] = m.hdr.dev
                   THEN window[t] \cup {srv'[m.hdr.dev]} ELSE window[t]]
         ELSE UNCHANGED <<reps, srv, window>>
      /\ UNCHANGED <<ctxVars, static_ret, pc, ret, callVars, drawn, reqs, budget, flash, got>>

ServeNew   == \E q \in 1..Len(reqs) : q \notin served /\ Serve(q)
ServeAgain == "dup" \in Faults /\ \E q \in served : Serve(q)

-----------------------------------------------------------------------------
(* cose_decrypt_msg.  The header of the reply goes into the context and    *)
(* the opcode to the caller; then the operation is opened under that       *)
(* header, and decrypt_data's -1 is returned as it is.                     *)

OpenHeader(t) ==
  LET c == Ctx(t)
      f == mem[c][OuterBuffer(t)]
  IN  /\ Proceeds(t, "open_header")
      /\ f.kind = "cose"
      /\ cry' = [cry EXCEPT ![c] = f.hdr]
      /\ loc' = [loc EXCEPT ![t].opcode = f.hdr.opcode]
      /\ Goto(t, "open")
      /\ UNCHANGED <<ready, lock, dl, mem, static_ret, ret, call, out, netVars, appVars>>

(* Fault: a damaged reply is dropped and another one waited for.           *)
NotAMessageWaits(t) ==
  /\ Proceeds(t, "open_header")
  /\ mem[Ctx(t)][OuterBuffer(t)].kind # "cose"
  /\ cry' = [cry EXCEPT ![Ctx(t)] = NoHeader]
  /\ Goto(t, "wait")
  /\ UNCHANGED <<ready, lock, dl, mem, static_ret, ret, callVars, netVars, appVars>>

NotAMessage(t) ==
  LET c == Ctx(t)
  IN  /\ Proceeds(t, "open_header")
      /\ mem[c][OuterBuffer(t)].kind # "cose"
      /\ cry' = [cry EXCEPT ![c] = NoHeader]
      /\ SetRet(t, "MESSAGE_PARSING")
      /\ Goto(t, "parse_error")
      /\ UNCHANGED <<ready, lock, dl, mem, callVars, netVars, appVars>>

PlaintextFits(t) ==
  LET c == Ctx(t)
  IN  CipherSize(mem[c][OuterBuffer(t)].body) <= Capacity(c, InnerBuffer(t)) + CRYPTO_TAG_SIZE

TagVerifies(t, key) ==
  LET f == mem[Ctx(t)][OuterBuffer(t)]
  IN  f.kind = "cose" /\ f.hdr = cry[Ctx(t)] /\ f.key = key

Open(t) ==
  LET c == Ctx(t)
  IN  /\ pc[t] = "open"
      /\ \E key \in KeyRead(c) :
           IF ~PlaintextFits(t)
           THEN SetRet(t, MinusOne) /\ UNCHANGED mem
           ELSE IF TagVerifies(t, key)
           THEN SetRet(t, "NONE") /\ Write(c, InnerBuffer(t), Plain(mem[c][OuterBuffer(t)].body))
           ELSE SetRet(t, MinusOne) /\ Write(c, InnerBuffer(t), Garbage)
      /\ Goto(t, "parse_error")
      /\ UNCHANGED <<ready, lock, dl, cry, callVars, netVars, appVars>>

-----------------------------------------------------------------------------
(* The rest of the private functions.  Every one of them, get_chunk        *)
(* included, looks for an error operation in the operation buffer.         *)

(* Fault: the buffer the reply arrived in is parsed, still sealed.         *)
ErrorSourceSealed(t) == mem[Ctx(t)]["response_buffer"]

ErrorSource(t) == mem[Ctx(t)]["operation_buffer"]

ParseError(t) ==
  /\ Proceeds(t, "parse_error")
  /\ \E code \in operation_parse_error_response(loc[t].opcode, ErrorSource(t)) :
       SetRet(t, code)
  /\ Goto(t, "parse_response")
  /\ UNCHANGED <<ctxVars, callVars, netVars, appVars>>

ParseSimple(t) ==
  LET f == mem[Ctx(t)][InnerBuffer(t)]
      k == call[t]
      o == out[t]
      p == operation_parse_get_parameter_response(loc[t].opcode, k.type, f, k.size, 0)
      i == IF k.op = "get_device_info"
           THEN operation_parse_get_device_info_response(loc[t].opcode, f, o.vals)
           ELSE operation_parse_set_device_info_response(loc[t].opcode, f, o.vals)
  IN  /\ Proceeds(t, "parse_response")
      /\ ~IsChunk(t)
      /\ IF k.op = "get_parameter"
         THEN /\ SetRet(t, p.code)
              /\ out' = [out EXCEPT ![t].item = p.item, ![t].size = p.size]
         ELSE /\ SetRet(t, i.code)
              /\ out' = [out EXCEPT ![t].vals = i.vals]
      /\ Goto(t, "commit")
      /\ UNCHANGED <<ctxVars, call, loc, netVars, appVars>>

ParseChunk(t) ==
  LET c == Ctx(t)
      r == operation_parse_get_firmware_response(
             loc[t].opcode, mem[c]["buffer2"], dl[c].buffer1_size)
  IN  /\ Proceeds(t, "parse_response")
      /\ IsChunk(t)
      /\ SetRet(t, r.code)
      /\ IF r.data = NoItem THEN UNCHANGED mem ELSE Write(c, "buffer1", Data(r.data))
      /\ out' = [out EXCEPT ![t].vals = r.vals,
                            ![t].size = IF r.code = "NONE" THEN r.data.len ELSE @]
      /\ Goto(t, "commit")
      /\ UNCHANGED <<ready, lock, dl, cry, call, loc, netVars, appVars>>

(* Fault: get_chunk does not compare the offset.                           *)
EchoWithoutOffset(t) ==
  CASE call[t].op = "set_device_info" ->
         out[t].vals[1] = call[t].id /\ out[t].vals[3] = call[t].type
    [] IsChunk(t) -> out[t].vals[1] = dl[Ctx(t)].firmware_id
    [] OTHER -> TRUE

(* Fault: set_device_info does not compare the firmware.                   *)
EchoWithoutFirmware(t) ==
  CASE call[t].op = "set_device_info" -> out[t].vals[3] = call[t].type
    [] IsChunk(t) ->
         out[t].vals[2] = dl[Ctx(t)].offset /\ out[t].vals[1] = dl[Ctx(t)].firmware_id
    [] OTHER -> TRUE

(* What the reply of set_device_info and get_chunk must repeat.            *)
EchoMatches(t) ==
  CASE call[t].op = "set_device_info" ->
         out[t].vals[1] = call[t].id /\ out[t].vals[3] = call[t].type
    [] IsChunk(t) ->
         out[t].vals[2] = dl[Ctx(t)].offset /\ out[t].vals[1] = dl[Ctx(t)].firmware_id
    [] OTHER -> TRUE

(* Fault: the chunk is committed before the echo is compared.              *)
CommitThenMismatch(t) ==
  /\ Proceeds(t, "commit")
  /\ ~EchoMatches(t)
  /\ Return(t, "UNEXPECTED_RESPONSE")
  /\ dl' = [dl EXCEPT ![Ctx(t)].offset = (@ + out[t].size) % UINT32]
  /\ out' = [out EXCEPT ![t].output = TRUE]
  /\ UNCHANGED <<ready, lock, cry, mem, call, loc, netVars, appVars>>

CommitMismatch(t) ==
  /\ Proceeds(t, "commit")
  /\ ~EchoMatches(t)
  /\ Return(t, "UNEXPECTED_RESPONSE")
  /\ UNCHANGED <<ctxVars, callVars, netVars, appVars>>

CommitSimple(t) ==
  /\ Proceeds(t, "commit")
  /\ ~IsChunk(t)
  /\ EchoMatches(t)
  /\ Goto(t, "leave")
  /\ UNCHANGED <<ctxVars, static_ret, ret, callVars, netVars, appVars>>

(* Fault: off by one, a full chunk taken for the last.                     *)
IsCompleteWhenFull(size, chunk_size) == size <= chunk_size

IsComplete(size, chunk_size) == size < chunk_size

CommitChunk(t) ==
  LET c == Ctx(t)
  IN  /\ Proceeds(t, "commit")
      /\ IsChunk(t)
      /\ EchoMatches(t)
      /\ dl' = [dl EXCEPT ![c].offset = (@ + out[t].size) % UINT32]
      /\ out' = [out EXCEPT ![t].complete = IsComplete(out[t].size, dl[c].chunk_size),
                            ![t].output = TRUE]
      /\ Goto(t, "leave")
      /\ UNCHANGED <<ready, lock, cry, mem, static_ret, ret, call, loc, netVars, appVars>>

-----------------------------------------------------------------------------
Begin(t) ==
  \E k \in CallsOf[t] : CallRejected(t, k) \/ CallRefused(t, k) \/ CallLocks(t, k)

(* A thread goes on with the call it has begun.                            *)
Step(t) ==
  \/ RejectArguments(t) \/ RejectNoSession(t)
  \/ InitializeTooSmall(t) \/ InitializeBusy(t) \/ InitializeStarts(t)
  \/ Finish(t) \/ CreateRequest(t) \/ Forward(t) \/ Bail(t)
  \/ DrawNonce(t) \/ RandomFails(t) \/ Seal(t)
  \/ Send(t) \/ Deliver(t) \/ SendFails(t)
  \/ OpenHeader(t) \/ NotAMessage(t) \/ Open(t)
  \/ ParseError(t) \/ ParseSimple(t) \/ ParseChunk(t)
  \/ CommitMismatch(t) \/ CommitSimple(t) \/ CommitChunk(t)
  \/ Leave(t) \/ Unlock(t) \/ Consume(t)

Next ==
  \/ \E c \in Contexts, w \in WorkBuffers : SdkInitialize(c, w)
  \/ \E t \in Threads : Begin(t) \/ Step(t)
  \/ ServeNew
  \/ ServeAgain

Spec == Init /\ [][Next]_vars

(* A thread that is in a call is scheduled again, callbacks return, and    *)
(* the server reads its messages.  Nobody has to begin a call.             *)
Fairness == (\A t \in Threads : WF_vars(Step(t))) /\ WF_vars(ServeNew)

FairSpec == Spec /\ Fairness
=============================================================================
